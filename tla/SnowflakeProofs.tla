---------------------------- MODULE SnowflakeProofs ----------------------------
(***************************************************************************)
(* Theorems about Snowflake, for any nodes, callers, field widths and clocks.*)
(***************************************************************************)
EXTENDS Snowflake, TLAPS

-----------------------------------------------------------------------------
(* The layout of an id. *)

\* The increment of `seq` under its mask.
LEMMA NextSequence ==
  ASSUME NEW s \in 0 .. MaxSequence
  PROVE  (s + 1) % (MaxSequence + 1) = IF s = MaxSequence THEN 0 ELSE s + 1
  BY ConstantsAssumption

\* A larger high field outweighs any low field.
LEMMA HighFieldDecides ==
  ASSUME NEW a \in Int, NEW b \in Int, NEW size \in Nat \ {0},
         NEW x \in 0 .. size - 1, NEW y \in 0 .. size - 1, a < b
  PROVE  a * size + x < b * size + y
<1>1. PICK d \in Nat : b = a + 1 + d
  <2>1. b - a - 1 \in Nat /\ b = a + 1 + (b - a - 1)
    OBVIOUS
  <2> QED
    BY <2>1
<1>2. b * size = a * size + size + d * size
  BY <1>1
<1>3. d * size \in Nat /\ a * size \in Int
  BY <1>1
<1> QED
  BY <1>2, <1>3

\* The part of an id above the sequence number.
High(t, w) == (t - Epoch) * (MaxWorker + 1) + w

LEMMA IdIsInt ==
  ASSUME NEW t \in Int, NEW w \in 0 .. MaxWorker, NEW s \in 0 .. MaxSequence
  PROVE  /\ High(t, w) \in Int
         /\ Id(t, w, s) = High(t, w) * (MaxSequence + 1) + s
         /\ Id(t, w, s) \in Int
  BY ConstantsAssumption DEF Id, High

\* Ids order by their high parts first.
LEMMA HighPartFirst ==
  ASSUME NEW t \in Int, NEW v \in Int, NEW w \in 0 .. MaxWorker, NEW x \in 0 .. MaxWorker,
         NEW s \in 0 .. MaxSequence, NEW q \in 0 .. MaxSequence, High(t, w) < High(v, x)
  PROVE  Id(t, w, s) < Id(v, x, q)
<1>1. /\ MaxSequence + 1 \in Nat \ {0}
      /\ s \in 0 .. (MaxSequence + 1) - 1 /\ q \in 0 .. (MaxSequence + 1) - 1
  BY ConstantsAssumption
<1>2. High(t, w) * (MaxSequence + 1) + s < High(v, x) * (MaxSequence + 1) + q
  BY <1>1, IdIsInt, HighFieldDecides
<1> QED
  BY <1>2, IdIsInt

\* A later stamp gives a larger high part.
LEMMA LaterHigh ==
  ASSUME NEW t \in Int, NEW v \in Int, t < v,
         NEW w \in 0 .. MaxWorker, NEW x \in 0 .. MaxWorker
  PROVE  High(t, w) < High(v, x)
<1>1. /\ MaxWorker + 1 \in Nat \ {0}
      /\ w \in 0 .. (MaxWorker + 1) - 1 /\ x \in 0 .. (MaxWorker + 1) - 1
      /\ t - Epoch \in Int /\ v - Epoch \in Int /\ t - Epoch < v - Epoch
  BY ConstantsAssumption
<1> QED
  BY <1>1, HighFieldDecides DEF High

\* A later stamp gives a larger id, whatever the sequence numbers.
LEMMA LaterStamp ==
  ASSUME NEW t \in Int, NEW v \in Int, t < v, NEW w \in 0 .. MaxWorker,
         NEW s \in 0 .. MaxSequence, NEW q \in 0 .. MaxSequence
  PROVE  Id(t, w, s) < Id(v, w, q)
  BY LaterHigh, HighPartFirst

\* Within a millisecond the sequence number decides.
LEMMA LaterNumber ==
  ASSUME NEW t \in Int, NEW w \in 0 .. MaxWorker,
         NEW s \in 0 .. MaxSequence, NEW q \in 0 .. MaxSequence, s < q
  PROVE  Id(t, w, s) < Id(t, w, q)
  BY IdIsInt, ConstantsAssumption

\* Ids of different workers differ.
LEMMA WorkersApart ==
  ASSUME NEW t \in Int, NEW v \in Int, NEW w \in 0 .. MaxWorker, NEW x \in 0 .. MaxWorker,
         NEW s \in 0 .. MaxSequence, NEW q \in 0 .. MaxSequence,
         Id(t, w, s) = Id(v, x, q)
  PROVE  w = x
<1>1. High(t, w) = High(v, x)
  <2>1. High(t, w) \in Int /\ High(v, x) \in Int
    BY IdIsInt
  <2>2. CASE High(t, w) < High(v, x)
    BY <2>2, HighPartFirst, IdIsInt
  <2>3. CASE High(v, x) < High(t, w)
    BY <2>3, HighPartFirst, IdIsInt
  <2> QED
    BY <2>1, <2>2, <2>3
<1>2. t = v
  <2>1. High(t, w) \in Int /\ High(v, x) \in Int
    BY IdIsInt
  <2>2. ~(t < v) /\ ~(v < t)
    BY <1>1, <2>1, LaterHigh
  <2> QED
    BY <2>2
<1> QED
  BY <1>1, <1>2, ConstantsAssumption DEF High

-----------------------------------------------------------------------------
(* The inductive invariant. *)

Inside(c) == pc[c] \in {"read", "sleep", "spin"}

\* Whoever is past Lock holds the mutex of its instance.
Exclusion == \A c \in Caller : Inside(c) => mu[Home[c]] = c

\* The running process goes on from the node's last stamp, or is new and the
\* clock is past it.
Resumes(n) ==
    \/ nowTS[n] = last[n]
    \/ nowTS[n] = 0 /\ clock[n] > last[n]

Spinning(n) == \E c \in Caller : Home[c] = n /\ pc[c] = "spin"

\* At the end of its sleep a caller finds the clock at nowTS or later.
WaitsLongEnough ==
    \A c \in Caller :
        /\ pc[c] = "sleep" => /\ clock[Home[c]] + rest[c] >= nowTS[Home[c]]
                              /\ nowTS[Home[c]] = last[Home[c]]
        /\ pc[c] = "spin" => seq[Home[c]] = 0 /\ nowTS[Home[c]] = last[Home[c]]

\* Each id has the node's worker number and a stamp the node has reached.
WellFormed ==
    \A n \in Node : \A i \in DOMAIN issued[n] :
        \E t \in 1 .. last[n], s \in 0 .. MaxSequence : issued[n][i] = Id(t, WorkerID[n], s)

\* The ids so far are below whatever the node can hand out next.
Ceiling ==
    \A n \in Node : \A i \in DOMAIN issued[n] :
        /\ issued[n][i] <= Id(last[n], WorkerID[n], MaxSequence)
        /\ nowTS[n] = last[n] /\ ~Spinning(n) => issued[n][i] <= Id(last[n], WorkerID[n], seq[n])

OrderInv == /\ Exclusion
            /\ \A n \in Node : Resumes(n)
            /\ WaitsLongEnough
            /\ WellFormed
            /\ Ceiling
            /\ IdsIncrease

\* Append adds one position and leaves the others.
LEMMA AppendShape ==
  ASSUME NEW ids \in Seq(Int), NEW x \in Int
  PROVE  /\ DOMAIN Append(ids, x) = DOMAIN ids \cup {Len(ids) + 1}
         /\ Append(ids, x)[Len(ids) + 1] = x
         /\ \A i \in DOMAIN ids : Append(ids, x)[i] = ids[i] /\ ids[i] \in Int
  OBVIOUS

\* The sequence of ids grows by one id, larger than all before it.
LEMMA Grows ==
  ASSUME NEW ids \in Seq(Int), NEW x \in Int,
         \A i, k \in DOMAIN ids : i < k => ids[i] < ids[k],
         \A i \in DOMAIN ids : ids[i] < x
  PROVE  /\ \A i, k \in DOMAIN Append(ids, x) : i < k => Append(ids, x)[i] < Append(ids, x)[k]
         /\ \A i \in DOMAIN Append(ids, x) : Append(ids, x)[i] <= x
  OBVIOUS

-----------------------------------------------------------------------------
(* Type correctness. *)

\* The three ways through Stamp keep the types.
LEMMA IssueTyped ==
  ASSUME TypeOK, NEW c \in Caller, NEW now \in MinClock .. MaxClock,
         NEW s \in 0 .. MaxSequence, Issue(c, now, s),
         UNCHANGED <<clock, rest>>
  PROVE  TypeOK'
<1> USE ConstantsAssumption
<1>1. Id(now, WorkerID[Home[c]], s) \in Int
  BY IdIsInt
<1>2. issued' \in [Node -> Seq(Int)]
  BY <1>1 DEF TypeOK, Issue
<1>3. nowTS' \in [Node -> 0 .. MaxClock] /\ last' \in [Node -> 0 .. MaxClock]
  BY DEF TypeOK, Issue
<1>4. seq' \in [Node -> 0 .. MaxSequence]
  BY DEF TypeOK, Issue
<1>5. mu' \in [Node -> Caller \cup {Nobody}]
      /\ pc' \in [Caller -> {"idle", "lock", "read", "sleep", "spin"}]
  BY DEF TypeOK, Issue, Unlock
<1> QED
  BY <1>2, <1>3, <1>4, <1>5 DEF TypeOK

LEMMA StampTyped ==
  ASSUME TypeOK, NEW c \in Caller, NEW now \in MinClock .. MaxClock, Stamp(c, now),
         UNCHANGED clock
  PROVE  TypeOK'
<1> DEFINE n == Home[c]
           next == (seq[n] + 1) % (MaxSequence + 1)
<1> USE ConstantsAssumption
<1>1. next \in 0 .. MaxSequence /\ 0 \in 0 .. MaxSequence
  <2>1. n \in Node /\ seq[n] \in 0 .. MaxSequence
    BY DEF TypeOK
  <2> QED
    BY <2>1, NextSequence
<1>2. CASE now = nowTS[n] /\ next # 0
  BY <1>1, <1>2, IssueTyped DEF Stamp
<1>3. CASE now = nowTS[n] /\ next = 0
  <2>1. /\ seq' = [seq EXCEPT ![n] = 0]
        /\ pc' = [pc EXCEPT ![c] = "spin"]
        /\ UNCHANGED <<nowTS, mu, rest, issued, last>>
    BY <1>3 DEF Stamp
  <2> HIDE DEF next
  <2> QED
    BY <1>1, <2>1 DEF TypeOK
<1>4. CASE now # nowTS[n]
  BY <1>1, <1>4, IssueTyped DEF Stamp
<1> QED
  BY <1>2, <1>3, <1>4

\* A step leaves every variable in its type.
LEMMA TypeStep ==
  ASSUME TypeOK, [Next]_vars
  PROVE  TypeOK'
<1> USE ConstantsAssumption
<1>1. ASSUME NEW c \in Caller, Call(c) PROVE TypeOK'
  BY <1>1 DEF Call, TypeOK
<1>2. ASSUME NEW c \in Caller, Lock(c) PROVE TypeOK'
  BY <1>2 DEF Lock, TypeOK
<1>3. ASSUME NEW c \in Caller, Read(c) PROVE TypeOK'
  <2> DEFINE n == Home[c]
             offset == nowTS[n] - clock[n]
  <2>1. n \in Node /\ clock[n] \in MinClock .. MaxClock /\ offset \in Int
    BY DEF TypeOK
  <2>2. CASE 0 < offset /\ offset <= MaxBackoff
    <3>1. offset \in 0 .. MaxBackoff
      BY <2>1, <2>2
    <3>2. /\ rest' = [rest EXCEPT ![c] = offset]
          /\ pc' = [pc EXCEPT ![c] = "sleep"]
          /\ UNCHANGED <<clock, nowTS, seq, mu, issued, last>>
      BY <1>3, <2>1, <2>2 DEF Read
    <3> HIDE DEF offset
    <3> QED
      BY <3>1, <3>2 DEF TypeOK
  <2>3. CASE offset > MaxBackoff
    <3>1. Unlock(c) /\ UNCHANGED <<clock, nowTS, seq, rest, issued, last>>
      BY <1>3, <2>1, <2>3, ConstantsAssumption DEF Read
    <3> HIDE DEF offset
    <3> QED
      BY <3>1 DEF Unlock, TypeOK
  <2>4. CASE offset <= 0
    BY <1>3, <2>1, <2>4, StampTyped DEF Read
  <2> QED
    BY <1>3, <2>1, <2>2, <2>3, <2>4 DEF Read
<1>4. ASSUME NEW c \in Caller, Wake(c) PROVE TypeOK'
  BY <1>4, StampTyped DEF Wake, TypeOK
<1>5. ASSUME NEW c \in Caller, Spin(c) PROVE TypeOK'
  BY <1>5, IssueTyped DEF Spin, TypeOK
<1>6. ASSUME NEW n \in Node, Tick(n) PROVE TypeOK'
  BY <1>6 DEF Tick, TypeOK
<1>7. ASSUME NEW n \in Node, SetBack(n) PROVE TypeOK'
  BY <1>7 DEF SetBack, TypeOK
<1>8. ASSUME NEW n \in Node, Restart(n) PROVE TypeOK'
  BY <1>8 DEF Restart, TypeOK
<1>9. CASE UNCHANGED vars
  BY <1>9 DEF vars, TypeOK
<1> QED
  BY <1>1, <1>2, <1>3, <1>4, <1>5, <1>6, <1>7, <1>8, <1>9 DEF Next

\* Every variable keeps its type: the sequence number stays within its field,
\* and the mutex is free or held by a caller.
THEOREM TypeCorrect == Spec => []TypeOK
<1>1. Init => TypeOK
  BY ConstantsAssumption DEF Init, TypeOK
<1>2. TypeOK /\ [Next]_vars => TypeOK'
  BY TypeStep
<1> QED
  BY <1>1, <1>2, PTL DEF Spec

-----------------------------------------------------------------------------
(* Order and uniqueness, while the clock is set back between calls only. *)

SetBackBetweenCalls == Setbacks = {}

\* An id above the ceiling keeps the order.
LEMMA IssueOrdered ==
  ASSUME TypeOK, OrderInv, NEW c \in Caller, Inside(c),
         NEW now \in MinClock .. MaxClock, NEW s \in 0 .. MaxSequence, Issue(c, now, s),
         UNCHANGED <<clock, rest>>,
         \/ last[Home[c]] < now
         \/ /\ now = last[Home[c]] /\ nowTS[Home[c]] = last[Home[c]]
            /\ ~Spinning(Home[c]) /\ seq[Home[c]] < s
  PROVE  OrderInv'
<1> DEFINE n == Home[c]
           w == WorkerID[n]
           x == Id(now, w, s)
<1> USE ConstantsAssumption
<1>1. /\ n \in Node /\ w \in 0 .. MaxWorker /\ now \in 1 .. MaxClock
      /\ last[n] \in 0 .. MaxClock /\ seq[n] \in 0 .. MaxSequence
      /\ issued[n] \in Seq(Int) /\ last[n] <= now
  BY DEF TypeOK
<1>2. /\ nowTS' = [nowTS EXCEPT ![n] = now] /\ last' = [last EXCEPT ![n] = now]
      /\ seq' = [seq EXCEPT ![n] = s] /\ issued' = [issued EXCEPT ![n] = Append(issued[n], x)]
      /\ mu' = [mu EXCEPT ![n] = Nobody] /\ pc' = [pc EXCEPT ![c] = "idle"]
  BY DEF Issue, Unlock
<1>3. /\ x \in Int /\ Id(now, w, MaxSequence) \in Int
      /\ Id(last[n], w, MaxSequence) \in Int /\ Id(last[n], w, seq[n]) \in Int
  <2>1. MaxSequence \in 0 .. MaxSequence /\ last[n] \in Int /\ now \in Int
    BY <1>1
  <2> QED
    BY <1>1, <2>1, IdIsInt
<1> HIDE DEF n, w, x
<1>4. \A i \in DOMAIN issued[n] : issued[n][i] < x
  <2> SUFFICES ASSUME NEW i \in DOMAIN issued[n] PROVE issued[n][i] < x
    OBVIOUS
  <2>1. issued[n][i] \in Int
    BY <1>1
  <2>2. CASE last[n] < now
    <3>1. Id(last[n], w, MaxSequence) < x
      BY <1>1, <2>2, LaterStamp DEF x
    <3>2. issued[n][i] <= Id(last[n], w, MaxSequence)
      BY <1>1 DEF OrderInv, Ceiling, w
    <3> QED
      BY <1>3, <2>1, <3>1, <3>2
  <2>3. CASE now = last[n] /\ nowTS[n] = last[n] /\ ~Spinning(n) /\ seq[n] < s
    <3>1. Id(last[n], w, seq[n]) < x
      BY <1>1, <2>3, LaterNumber DEF x
    <3>2. issued[n][i] <= Id(last[n], w, seq[n])
      BY <1>1, <2>3 DEF OrderInv, Ceiling, w
    <3> QED
      BY <1>3, <2>1, <3>1, <3>2
  <2> QED
    BY <2>2, <2>3 DEF n
<1>5. /\ issued'[n] = Append(issued[n], x)
      /\ DOMAIN issued'[n] = DOMAIN issued[n] \cup {Len(issued[n]) + 1}
      /\ issued'[n][Len(issued[n]) + 1] = x
      /\ \A i \in DOMAIN issued[n] : issued'[n][i] = issued[n][i] /\ issued[n][i] \in Int
  <2>1. issued'[n] = Append(issued[n], x)
    BY <1>1, <1>2 DEF TypeOK
  <2> QED
    BY <1>1, <1>3, <2>1, AppendShape
<1>13. /\ \A i, k \in DOMAIN issued'[n] : i < k => issued'[n][i] < issued'[n][k]
      /\ \A i \in DOMAIN issued'[n] : issued'[n][i] <= x
  <2>1. \A i, k \in DOMAIN issued[n] : i < k => issued[n][i] < issued[n][k]
    BY <1>1 DEF OrderInv, IdsIncrease
  <2> QED
    BY <1>1, <1>3, <1>4, <1>5, <2>1, Grows
<1>6. \A m \in Node \ {n} : /\ issued'[m] = issued[m] /\ last'[m] = last[m]
                            /\ nowTS'[m] = nowTS[m] /\ seq'[m] = seq[m]
                            /\ Spinning(m)' <=> Spinning(m)
  BY <1>2 DEF TypeOK, Spinning, n
<1>7. nowTS'[n] = now /\ last'[n] = now /\ seq'[n] = s
  BY <1>1, <1>2 DEF TypeOK
<1>8. IdsIncrease'
  BY <1>13, <1>6 DEF OrderInv, IdsIncrease
<1>9. Ceiling'
  <2>1. x <= Id(now, w, MaxSequence)
    <3>1. CASE s = MaxSequence
      BY <1>3, <3>1 DEF x
    <3>2. CASE s < MaxSequence
      <4>1. now \in Int /\ MaxSequence \in 0 .. MaxSequence
        BY <1>1
      <4>2. Id(now, w, s) < Id(now, w, MaxSequence)
        BY <1>1, <3>2, <4>1, LaterNumber
      <4> QED
        BY <1>3, <4>2 DEF x
    <3> QED
      BY <3>1, <3>2
  <2>2. \A i \in DOMAIN issued'[n] : issued'[n][i] \in Int
    BY <1>3, <1>5
  <2>3. \A i \in DOMAIN issued'[n] : /\ issued'[n][i] <= Id(now, w, MaxSequence)
                                     /\ issued'[n][i] <= Id(now, w, s)
    BY <1>3, <1>13, <2>1, <2>2 DEF x
  <2> QED
    BY <1>6, <1>7, <2>3 DEF OrderInv, Ceiling, w
<1>10. WellFormed'
  <2>1. \A i \in DOMAIN issued'[n] :
           \E t \in 1 .. now, q \in 0 .. MaxSequence : issued'[n][i] = Id(t, w, q)
    <3> SUFFICES ASSUME NEW i \in DOMAIN issued'[n]
                 PROVE  \E t \in 1 .. now, q \in 0 .. MaxSequence : issued'[n][i] = Id(t, w, q)
      OBVIOUS
    <3>1. CASE i \in DOMAIN issued[n]
      <4>1. PICK t \in 1 .. last[n], q \in 0 .. MaxSequence : issued[n][i] = Id(t, w, q)
        BY <1>1, <3>1 DEF OrderInv, WellFormed, w
      <4>2. t \in 1 .. now
        BY <1>1, <4>1
      <4>3. issued'[n][i] = issued[n][i]
        BY <1>5, <3>1
      <4> QED
        BY <4>1, <4>2, <4>3
    <3>2. CASE i \notin DOMAIN issued[n]
      <4>1. issued'[n][i] = x
        BY <1>5, <3>2
      <4>2. issued'[n][i] = Id(now, w, s)
        BY <4>1 DEF x
      <4>3. now \in 1 .. now
        BY <1>1
      <4> QED
        BY <4>2, <4>3
    <3> QED
      BY <3>1, <3>2
  <2> QED
    BY <1>6, <1>7, <2>1 DEF OrderInv, WellFormed, w
<1>11. (\A m \in Node : Resumes(m))'
  BY <1>6, <1>7 DEF OrderInv, Resumes
<1>12. Exclusion' /\ WaitsLongEnough'
  <2>1. \A d \in Caller : Inside(d)' => Inside(d) /\ Home[d] # n /\ pc'[d] = pc[d]
    BY <1>2 DEF TypeOK, OrderInv, Exclusion, Inside, n
  <2>2. ASSUME NEW d \in Caller, Inside(d)'
        PROVE  /\ Inside(d) /\ pc'[d] = pc[d] /\ clock' = clock /\ rest' = rest
               /\ mu'[Home[d]] = mu[Home[d]] /\ seq'[Home[d]] = seq[Home[d]]
               /\ nowTS'[Home[d]] = nowTS[Home[d]] /\ last'[Home[d]] = last[Home[d]]
    <3>1. Inside(d) /\ Home[d] \in Node \ {n} /\ pc'[d] = pc[d]
      BY <2>1, <2>2
    <3>2. mu'[Home[d]] = mu[Home[d]]
      BY <1>2, <3>1 DEF TypeOK
    <3> QED
      BY <1>6, <3>1, <3>2
  <2>3. Exclusion'
    BY <2>2 DEF OrderInv, Exclusion, Inside
  <2>4. WaitsLongEnough'
    <3> SUFFICES ASSUME NEW d \in Caller, pc'[d] \in {"sleep", "spin"}
                 PROVE  /\ pc'[d] = "sleep" =>
                             /\ clock'[Home[d]] + rest'[d] >= nowTS'[Home[d]]
                             /\ nowTS'[Home[d]] = last'[Home[d]]
                        /\ pc'[d] = "spin" =>
                             seq'[Home[d]] = 0 /\ nowTS'[Home[d]] = last'[Home[d]]
      BY DEF WaitsLongEnough
    <3>1. Inside(d)'
      BY DEF Inside
    <3> QED
      BY <2>2, <3>1 DEF OrderInv, WaitsLongEnough
  <2> QED
    BY <2>3, <2>4
<1> QED
  BY <1>8, <1>9, <1>10, <1>11, <1>12 DEF OrderInv

\* From a reading that is not before nowTS, Stamp keeps the order.
LEMMA StampOrdered ==
  ASSUME TypeOK, OrderInv, NEW c \in Caller, pc[c] \in {"read", "sleep"},
         nowTS[Home[c]] <= clock[Home[c]], Stamp(c, clock[Home[c]]), UNCHANGED clock
  PROVE  OrderInv'
<1> DEFINE n == Home[c]
           now == clock[n]
           next == (seq[n] + 1) % (MaxSequence + 1)
<1> USE ConstantsAssumption
<1>1. /\ n \in Node /\ now \in MinClock .. MaxClock /\ seq[n] \in 0 .. MaxSequence
      /\ nowTS[n] \in 0 .. MaxClock /\ last[n] \in 0 .. MaxClock
  BY DEF TypeOK
<1>2. next = IF seq[n] = MaxSequence THEN 0 ELSE seq[n] + 1
  BY <1>1, NextSequence
<1>3. Inside(c) /\ ~Spinning(n)
  BY DEF OrderInv, Exclusion, Inside, Spinning
<1>4. last[n] < now \/ (now = last[n] /\ nowTS[n] = last[n])
  BY <1>1 DEF OrderInv, Resumes
<1>5. now = nowTS[n] => nowTS[n] = last[n]
  BY <1>1 DEF OrderInv, Resumes
<1>6. CASE now = nowTS[n] /\ next # 0
  <2>1. Issue(c, now, next) /\ UNCHANGED rest
    BY <1>6 DEF Stamp
  <2>2. next \in 0 .. MaxSequence /\ seq[n] < next
    BY <1>1, <1>2, <1>6
  <2> HIDE DEF next
  <2> QED
    BY <1>1, <1>3, <1>5, <1>6, <2>1, <2>2, IssueOrdered
<1>7. CASE now = nowTS[n] /\ next = 0
  <2>1. /\ seq' = [seq EXCEPT ![n] = 0]
        /\ pc' = [pc EXCEPT ![c] = "spin"]
        /\ UNCHANGED <<clock, nowTS, mu, rest, issued, last>>
    BY <1>7 DEF Stamp
  <2>2. \A m \in Node \ {n} : (Spinning(m)' <=> Spinning(m)) /\ seq'[m] = seq[m]
    BY <2>1 DEF TypeOK, Spinning
  <2>3. Spinning(n)'
    BY <2>1 DEF TypeOK, Spinning
  <2>4. Ceiling'
    BY <2>1, <2>2, <2>3 DEF OrderInv, Ceiling
  <2>5. Exclusion'
    BY <1>3, <2>1 DEF OrderInv, Exclusion, TypeOK, Inside
  <2>6. WaitsLongEnough'
    <3>1. \A d \in Caller \ {c} : pc'[d] \in {"sleep", "spin"} => Home[d] # n /\ pc'[d] = pc[d]
      BY <1>3, <2>1 DEF OrderInv, Exclusion, TypeOK, Inside
    <3>2. seq'[n] = 0 /\ nowTS'[n] = last'[n] /\ pc'[c] = "spin"
      BY <1>1, <1>5, <1>7, <2>1 DEF TypeOK
    <3>3. \A d \in Caller \ {c} : Home[d] # n => seq'[Home[d]] = seq[Home[d]]
      BY <2>1 DEF TypeOK
    <3> QED
      BY <2>1, <3>1, <3>2, <3>3 DEF OrderInv, WaitsLongEnough, TypeOK
  <2>7. (\A m \in Node : Resumes(m))' /\ WellFormed' /\ IdsIncrease'
    BY <2>1 DEF OrderInv, Resumes, WellFormed, IdsIncrease
  <2> QED
    BY <2>4, <2>5, <2>6, <2>7 DEF OrderInv
<1>8. CASE now # nowTS[n]
  <2>1. Issue(c, now, 0) /\ UNCHANGED rest
    BY <1>8 DEF Stamp
  <2>2. last[n] < now /\ 0 \in 0 .. MaxSequence
    BY <1>4, <1>8
  <2> QED
    BY <1>1, <1>3, <2>1, <2>2, IssueOrdered
<1> QED
  BY <1>6, <1>7, <1>8

\* A step that hands out no id and leaves stamps and sequence numbers alone.
LEMMA QuietStep ==
  ASSUME TypeOK, OrderInv, UNCHANGED <<nowTS, seq, issued, last>>,
         \A n \in Node : Spinning(n)' <=> Spinning(n),
         Exclusion', (\A n \in Node : Resumes(n))', WaitsLongEnough'
  PROVE  OrderInv'
  BY DEF OrderInv, WellFormed, Ceiling, IdsIncrease

\* No step hands out an id that is not above all earlier ones of the node.
LEMMA OrderStep ==
  ASSUME SetBackBetweenCalls, TypeOK, OrderInv, [Next]_vars
  PROVE  OrderInv'
<1> USE ConstantsAssumption
<1>1. ASSUME NEW c \in Caller, Call(c) PROVE OrderInv'
  BY <1>1, QuietStep DEF Call, TypeOK, OrderInv, Exclusion, Resumes, WaitsLongEnough,
     Inside, Spinning
<1>2. ASSUME NEW c \in Caller, Lock(c) PROVE OrderInv'
  BY <1>2, QuietStep DEF Lock, TypeOK, OrderInv, Exclusion, Resumes, WaitsLongEnough,
     Inside, Spinning
<1>3. ASSUME NEW c \in Caller, Read(c) PROVE OrderInv'
  <2> DEFINE n == Home[c]
             offset == nowTS[n] - clock[n]
  <2>1. /\ n \in Node /\ clock[n] \in MinClock .. MaxClock /\ nowTS[n] \in 0 .. MaxClock
        /\ offset \in Int /\ pc[c] = "read"
    BY <1>3 DEF TypeOK, Read
  <2>2. CASE 0 < offset /\ offset <= MaxBackoff
    <3>1. /\ rest' = [rest EXCEPT ![c] = offset]
          /\ pc' = [pc EXCEPT ![c] = "sleep"]
          /\ UNCHANGED <<clock, nowTS, seq, mu, issued, last>>
      BY <1>3, <2>1, <2>2 DEF Read
    <3>2. nowTS[n] = last[n]
      BY <2>1, <2>2 DEF OrderInv, Resumes
    <3>3. clock[n] + offset >= nowTS[n]
      BY <2>1
    <3> HIDE DEF offset
    <3> QED
      BY <2>1, <3>1, <3>2, <3>3, QuietStep DEF TypeOK, OrderInv, Exclusion, Resumes,
         WaitsLongEnough, Inside, Spinning
  <2>3. CASE offset > MaxBackoff
    <3>1. Unlock(c) /\ UNCHANGED <<clock, nowTS, seq, rest, issued, last>>
      BY <1>3, <2>1, <2>3 DEF Read
    <3> HIDE DEF offset
    <3> QED
      BY <2>1, <3>1, QuietStep DEF Unlock, TypeOK, OrderInv, Exclusion, Resumes,
         WaitsLongEnough, Inside, Spinning
  <2>4. CASE offset <= 0
    BY <1>3, <2>1, <2>4, StampOrdered DEF Read
  <2> QED
    BY <1>3, <2>1, <2>2, <2>3, <2>4 DEF Read
<1>4. ASSUME NEW c \in Caller, Wake(c) PROVE OrderInv'
  <2>1. pc[c] = "sleep" /\ Stamp(c, clock[Home[c]]) /\ UNCHANGED clock
    BY <1>4 DEF Wake
  <2>2. nowTS[Home[c]] <= clock[Home[c]]
    BY <1>4, <2>1 DEF Wake, TypeOK, OrderInv, WaitsLongEnough
  <2> QED
    BY <2>1, <2>2, StampOrdered
<1>5. ASSUME NEW c \in Caller, Spin(c) PROVE OrderInv'
  <2>1. /\ pc[c] = "spin" /\ Issue(c, clock[Home[c]], seq[Home[c]])
        /\ UNCHANGED <<clock, rest>> /\ last[Home[c]] < clock[Home[c]]
    BY <1>5 DEF Spin, OrderInv, WaitsLongEnough
  <2>2. clock[Home[c]] \in MinClock .. MaxClock /\ seq[Home[c]] \in 0 .. MaxSequence
    BY DEF TypeOK
  <2> QED
    BY <2>1, <2>2, IssueOrdered DEF Inside
<1>6. ASSUME NEW n \in Node, Tick(n) PROVE OrderInv'
  <2>1. \A m \in Node : clock'[m] >= clock[m] /\ clock'[m] \in Int /\ clock[m] \in Int
    BY <1>6 DEF Tick, TypeOK
  <2>2. \A c \in Caller : clock'[Home[c]] + rest'[c] >= clock[Home[c]] + rest[c]
    <3> SUFFICES ASSUME NEW c \in Caller
                 PROVE  clock'[Home[c]] + rest'[c] >= clock[Home[c]] + rest[c]
      OBVIOUS
    <3>1. /\ Home[c] \in Node /\ clock[Home[c]] \in Int /\ rest[c] \in Nat
          /\ clock'[Home[c]] = IF Home[c] = n THEN clock[Home[c]] + 1 ELSE clock[Home[c]]
          /\ rest'[c] = IF Home[c] = n /\ rest[c] > 0 THEN rest[c] - 1 ELSE rest[c]
      BY <1>6 DEF Tick, TypeOK
    <3> QED
      BY <3>1
  <2>3. /\ UNCHANGED <<nowTS, seq, mu, pc, issued, last>>
        /\ \A c \in Caller : rest'[c] \in Int /\ rest[c] \in Int
    BY <1>6 DEF Tick, TypeOK
  <2>4. (\A m \in Node : Resumes(m))'
    BY <2>1, <2>3 DEF TypeOK, OrderInv, Resumes
  <2>5. WaitsLongEnough'
    <3> SUFFICES ASSUME NEW c \in Caller, pc[c] = "sleep"
                 PROVE  clock'[Home[c]] + rest'[c] >= nowTS[Home[c]]
      BY <2>3 DEF OrderInv, WaitsLongEnough
    <3>1. /\ clock[Home[c]] + rest[c] >= nowTS[Home[c]] /\ Home[c] \in Node
          /\ nowTS[Home[c]] \in Int
      BY DEF TypeOK, OrderInv, WaitsLongEnough
    <3> QED
      BY <2>1, <2>2, <2>3, <3>1
  <2> QED
    BY <2>3, <2>4, <2>5, QuietStep DEF OrderInv, Exclusion, Inside, Spinning
<1>7. ASSUME NEW n \in Node, SetBack(n) PROVE OrderInv'
  <2>1. /\ UNCHANGED <<nowTS, seq, mu, pc, rest, issued, last>>
        /\ \A m \in Node \ {n} : clock'[m] = clock[m]
        /\ ~Sleeping(n) /\ (nowTS[n] = last[n] \/ clock'[n] > last[n])
    BY <1>7 DEF SetBack, SetBackBetweenCalls, TypeOK
  <2>2. WaitsLongEnough'
    BY <2>1 DEF TypeOK, OrderInv, WaitsLongEnough, Sleeping
  <2>3. (\A m \in Node : Resumes(m))'
    BY <2>1 DEF OrderInv, Resumes
  <2> QED
    BY <2>1, <2>2, <2>3, QuietStep DEF OrderInv, Exclusion, Inside, Spinning
<1>8. ASSUME NEW n \in Node, Restart(n) PROVE OrderInv'
  <2>1. /\ UNCHANGED <<clock, issued, last>> /\ clock[n] > last[n]
        /\ nowTS' = [nowTS EXCEPT ![n] = 0] /\ seq' = [seq EXCEPT ![n] = 0]
        /\ mu' = [mu EXCEPT ![n] = Nobody]
        /\ \A c \in Caller : IF Home[c] = n THEN pc'[c] = "idle" /\ rest'[c] = 0
                              ELSE pc'[c] = pc[c] /\ rest'[c] = rest[c]
    BY <1>8 DEF Restart, SetBackBetweenCalls, TypeOK
  <2>2. \A m \in Node \ {n} : /\ nowTS'[m] = nowTS[m] /\ seq'[m] = seq[m] /\ mu'[m] = mu[m]
                              /\ Spinning(m)' <=> Spinning(m)
    BY <2>1 DEF TypeOK, Spinning
  <2>3. nowTS'[n] = 0 /\ clock'[n] > last'[n]
    BY <2>1 DEF TypeOK
  <2>4. Exclusion' /\ WaitsLongEnough'
    <3>1. \A c \in Caller : pc'[c] # "idle" =>
             Home[c] \in Node \ {n} /\ pc'[c] = pc[c] /\ rest'[c] = rest[c]
      BY <2>1
    <3>2. Exclusion'
      BY <2>2, <3>1 DEF OrderInv, Exclusion, Inside
    <3>3. WaitsLongEnough'
      BY <2>1, <2>2, <3>1 DEF OrderInv, WaitsLongEnough
    <3> QED
      BY <3>2, <3>3
  <2>5. (\A m \in Node : Resumes(m))'
    BY <2>1, <2>2, <2>3 DEF OrderInv, Resumes
  <2>6. last[n] = 0 => DOMAIN issued[n] = {}
    BY DEF OrderInv, WellFormed
  <2>7. Ceiling'
    BY <2>1, <2>2, <2>3, <2>6 DEF OrderInv, Ceiling
  <2> QED
    BY <2>1, <2>4, <2>5, <2>7 DEF OrderInv, WellFormed, IdsIncrease
<1>9. CASE UNCHANGED vars
  BY <1>9, QuietStep DEF vars, OrderInv, Exclusion, Resumes, WaitsLongEnough, Inside, Spinning
<1> QED
  BY <1>1, <1>2, <1>3, <1>4, <1>5, <1>6, <1>7, <1>8, <1>9 DEF Next

\* The invariant that both theorems below follow from.
THEOREM OrderCorrect == SetBackBetweenCalls => (Spec => []OrderInv)
<1> SUFFICES ASSUME SetBackBetweenCalls PROVE Spec => []OrderInv
  OBVIOUS
<1>1. Init => OrderInv
  BY ConstantsAssumption DEF Init, OrderInv, Exclusion, Resumes, WaitsLongEnough, WellFormed,
     Ceiling, IdsIncrease, Inside, Spinning
<1>2. TypeOK /\ OrderInv /\ [Next]_vars => OrderInv'
  BY OrderStep
<1> QED
  BY <1>1, <1>2, TypeCorrect, PTL DEF Spec

\* IdsIncrease: the ids of a node increase in the order it hands them out, over
\* restarts too, for any widths, if the clock is set back between calls only.
THEOREM Increasing == SetBackBetweenCalls => (Spec => []IdsIncrease)
<1> SUFFICES ASSUME SetBackBetweenCalls PROVE Spec => []IdsIncrease
  OBVIOUS
<1>1. OrderInv => IdsIncrease
  BY DEF OrderInv
<1> QED
  BY <1>1, OrderCorrect, PTL

WorkersDiffer == \A n, m \in Node : WorkerID[n] = WorkerID[m] => n = m

\* Ids of one node differ because they increase, those of two because of the worker.
LEMMA OrderGivesUniqueness ==
  ASSUME WorkersDiffer, TypeOK, OrderInv
  PROVE  UniqueIds
<1> USE ConstantsAssumption
<1> SUFFICES ASSUME NEW n \in Node, NEW m \in Node,
                    NEW i \in DOMAIN issued[n], NEW k \in DOMAIN issued[m],
                    issued[n][i] = issued[m][k]
             PROVE  n = m /\ i = k
  BY DEF UniqueIds
<1>1. n = m
  <2>1. PICK t \in 1 .. last[n], s \in 0 .. MaxSequence : issued[n][i] = Id(t, WorkerID[n], s)
    BY DEF OrderInv, WellFormed
  <2>2. PICK v \in 1 .. last[m], q \in 0 .. MaxSequence : issued[m][k] = Id(v, WorkerID[m], q)
    BY DEF OrderInv, WellFormed
  <2>3. t \in Int /\ v \in Int /\ WorkerID[n] \in 0 .. MaxWorker /\ WorkerID[m] \in 0 .. MaxWorker
    BY <2>1, <2>2
  <2>4. WorkerID[n] = WorkerID[m]
    <3>1. Id(t, WorkerID[n], s) = Id(v, WorkerID[m], q)
      BY <2>1, <2>2
    <3> QED
      BY <2>1, <2>2, <2>3, <3>1, WorkersApart
  <2> QED
    BY <2>4 DEF WorkersDiffer
<1>2. i = k
  <2>1. /\ i \in DOMAIN issued[n] /\ k \in DOMAIN issued[n]
        /\ i \in Int /\ k \in Int
        /\ issued[n][i] \in Int /\ issued[n][i] = issued[n][k]
    BY <1>1 DEF TypeOK
  <2>2. ~(i < k) /\ ~(k < i)
    BY <2>1 DEF OrderInv, IdsIncrease
  <2> QED
    BY <2>1, <2>2
<1> QED
  BY <1>1, <1>2

\* UniqueIds: no id is handed out twice, by one node or by two with different
\* worker numbers, if no clock is set back while NextID sleeps or across a restart.
THEOREM Uniqueness == SetBackBetweenCalls /\ WorkersDiffer => (Spec => []UniqueIds)
<1> SUFFICES ASSUME SetBackBetweenCalls, WorkersDiffer PROVE Spec => []UniqueIds
  OBVIOUS
<1>1. TypeOK /\ OrderInv => UniqueIds
  BY OrderGivesUniqueness
<1> QED
  BY <1>1, TypeCorrect, OrderCorrect, PTL

-----------------------------------------------------------------------------
(* What no clock can break. *)

\* Every id of a node is the Id of some stamp and number for the node's worker.
Stamped ==
    \A n \in Node : \A i \in DOMAIN issued[n] :
        \E t \in 1 .. MaxClock, s \in 0 .. MaxSequence : issued[n][i] = Id(t, WorkerID[n], s)

LEMMA IssueStamped ==
  ASSUME TypeOK, Stamped, NEW c \in Caller, NEW now \in MinClock .. MaxClock,
         NEW s \in 0 .. MaxSequence, Issue(c, now, s)
  PROVE  Stamped'
<1> DEFINE n == Home[c]
           x == Id(now, WorkerID[n], s)
<1> USE ConstantsAssumption
<1>1. /\ n \in Node /\ now \in 1 .. MaxClock /\ x \in Int /\ issued[n] \in Seq(Int)
      /\ issued' = [issued EXCEPT ![n] = Append(issued[n], x)]
  <2>1. n \in Node /\ now \in 1 .. MaxClock /\ WorkerID[n] \in 0 .. MaxWorker
    OBVIOUS
  <2>2. x \in Int
    BY <2>1, IdIsInt
  <2>3. issued[n] \in Seq(Int)
    BY <2>1 DEF TypeOK
  <2>4. issued' = [issued EXCEPT ![n] = Append(issued[n], x)]
    BY DEF Issue
  <2> QED
    BY <2>1, <2>2, <2>3, <2>4
<1>2. SUFFICES ASSUME NEW m \in Node, NEW i \in DOMAIN issued'[m]
               PROVE  \E t \in 1 .. MaxClock, q \in 0 .. MaxSequence :
                          issued'[m][i] = Id(t, WorkerID[m], q)
  BY DEF Stamped
<1>3. CASE m = n /\ i \notin DOMAIN issued[n]
  <2>1. issued'[m][i] = x
    <3>1. issued'[n] = Append(issued[n], x)
      BY <1>1 DEF TypeOK
    <3> HIDE DEF n, x
    <3> QED
      BY <1>1, <1>2, <1>3, <3>1, AppendShape
  <2> QED
    BY <1>1, <1>3, <2>1
<1>4. CASE ~(m = n /\ i \notin DOMAIN issued[n])
  <2>1. i \in DOMAIN issued[m] /\ issued'[m][i] = issued[m][i]
    <3> HIDE DEF n, x
    <3>1. issued'[n] = Append(issued[n], x) /\ (m # n => issued'[m] = issued[m])
      BY <1>1 DEF TypeOK
    <3>2. \A k \in DOMAIN issued[n] : Append(issued[n], x)[k] = issued[n][k]
      BY <1>1, AppendShape
    <3> QED
      BY <1>2, <1>4, <3>1, <3>2
  <2> QED
    BY <2>1 DEF Stamped
<1> QED
  BY <1>3, <1>4

LEMMA StampStamped ==
  ASSUME TypeOK, Stamped, NEW c \in Caller, NEW now \in MinClock .. MaxClock, Stamp(c, now)
  PROVE  Stamped'
<1> DEFINE n == Home[c]
           next == (seq[n] + 1) % (MaxSequence + 1)
<1>1. next \in 0 .. MaxSequence /\ 0 \in 0 .. MaxSequence
  <2>1. n \in Node /\ seq[n] \in 0 .. MaxSequence
    BY ConstantsAssumption DEF TypeOK
  <2> QED
    BY <2>1, ConstantsAssumption, NextSequence
<1>2. Issue(c, now, next) \/ Issue(c, now, 0) \/ UNCHANGED issued
  BY DEF Stamp
<1>3. UNCHANGED issued => Stamped'
  BY DEF Stamped
<1> HIDE DEF next
<1> QED
  BY <1>1, <1>2, <1>3, IssueStamped

LEMMA StampedStep ==
  ASSUME TypeOK, Stamped, [Next]_vars
  PROVE  Stamped'
<1> USE ConstantsAssumption
<1>1. UNCHANGED issued => Stamped'
  BY DEF Stamped
<1>2. ASSUME NEW c \in Caller, Read(c) \/ Wake(c) PROVE Stamped'
  <2>1. clock[Home[c]] \in MinClock .. MaxClock
    BY DEF TypeOK
  <2>2. UNCHANGED issued \/ Stamp(c, clock[Home[c]])
    BY <1>2 DEF Read, Wake
  <2> QED
    BY <1>1, <2>1, <2>2, StampStamped
<1>3. ASSUME NEW c \in Caller, Spin(c) PROVE Stamped'
  <2>1. clock[Home[c]] \in MinClock .. MaxClock /\ seq[Home[c]] \in 0 .. MaxSequence
    BY DEF TypeOK
  <2> QED
    BY <1>3, <2>1, IssueStamped DEF Spin
<1>4. ASSUME NEW c \in Caller, Call(c) \/ Lock(c) PROVE Stamped'
  BY <1>1, <1>4 DEF Call, Lock
<1>5. ASSUME NEW n \in Node, Tick(n) \/ SetBack(n) \/ Restart(n) PROVE Stamped'
  BY <1>1, <1>5 DEF Tick, SetBack, Restart
<1>6. CASE UNCHANGED vars
  BY <1>1, <1>6 DEF vars
<1> QED
  BY <1>2, <1>3, <1>4, <1>5, <1>6 DEF Next

\* The part of UniqueIds that concerns two instances.
NodesApart ==
    \A n, m \in Node : \A i \in DOMAIN issued[n], k \in DOMAIN issued[m] :
        issued[n][i] = issued[m][k] => n = m

\* Instances with different worker numbers never hand out the same id, whenever and
\* however far their clocks are set back, in a sleep and over restarts too: what the
\* run snowflake_setback shows can only be an id that one instance hands out twice.
THEOREM NodesNeverCollide == WorkersDiffer => (Spec => []NodesApart)
<1> SUFFICES ASSUME WorkersDiffer PROVE Spec => []NodesApart
  OBVIOUS
<1>1. Init => Stamped
  BY DEF Init, Stamped
<1>2. TypeOK /\ Stamped /\ [Next]_vars => Stamped'
  BY StampedStep
<1>3. Stamped => NodesApart
  <2> SUFFICES ASSUME Stamped, NEW n \in Node, NEW m \in Node,
                      NEW i \in DOMAIN issued[n], NEW k \in DOMAIN issued[m],
                      issued[n][i] = issued[m][k]
               PROVE  n = m
    BY DEF NodesApart
  <2>1. PICK t \in 1 .. MaxClock, s \in 0 .. MaxSequence : issued[n][i] = Id(t, WorkerID[n], s)
    BY DEF Stamped
  <2>2. PICK v \in 1 .. MaxClock, q \in 0 .. MaxSequence : issued[m][k] = Id(v, WorkerID[m], q)
    BY DEF Stamped
  <2>3. t \in Int /\ v \in Int /\ WorkerID[n] \in 0 .. MaxWorker /\ WorkerID[m] \in 0 .. MaxWorker
    BY ConstantsAssumption
  <2>4. Id(t, WorkerID[n], s) = Id(v, WorkerID[m], q)
    BY <2>1, <2>2
  <2>5. WorkerID[n] = WorkerID[m]
    BY <2>3, <2>4, WorkersApart
  <2> QED
    BY <2>5 DEF WorkersDiffer
<1> QED
  BY <1>1, <1>2, <1>3, TypeCorrect, PTL DEF Spec

=============================================================================
