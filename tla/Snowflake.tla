------------------------------- MODULE Snowflake -------------------------------
(***************************************************************************)
(* The id generator (internal/pkg/idgen/snowflake/snowflake.go): NextID     *)
(* stamps an id with the wall clock, the worker number and a sequence       *)
(* number, under a mutex.  The clock of a node runs, and is now and then set*)
(* back; NextID reads it up to three times.  One action below is the Go     *)
(* code from one reading of the clock, or one wait, to the next.            *)
(***************************************************************************)
EXTENDS Integers, Sequences

CONSTANTS
    Node,                \* the running instances of the program
    Caller, Home,        \* goroutines, and the instance each runs in
    Nobody,              \* the mutex is free
    WorkerID,            \* the worker number each instance is configured with
    MaxWorker,           \* maxWorkerID
    MaxSequence,         \* maxSequence
    MaxBackoff,          \* maxBackoffMS
    Epoch,               \* epoch
    MinClock, MaxClock,  \* bound: the readings of the clock
    MaxIds,              \* bound: ids per instance
    Setbacks             \* when the clock may be set back, besides between calls:
                         \* "sleep": while NextID sleeps, "restart": so far that a
                         \* new process reads stamps that the old one has used

ASSUME ConstantsAssumption ==
    /\ Home \in [Caller -> Node] /\ Nobody \notin Caller
    /\ MaxWorker \in Nat /\ MaxSequence \in Nat /\ MaxBackoff \in Nat
    /\ WorkerID \in [Node -> 0 .. MaxWorker]
    /\ Epoch \in Int
    /\ MinClock \in Nat \ {0} /\ MaxClock \in Nat /\ MinClock <= MaxClock
    /\ MaxIds \in Nat
    /\ Setbacks \subseteq {"sleep", "restart"}

VARIABLES
    clock,     \* time.Now().UnixMilli() on each node
    nowTS,     \* the last stamp of the running process, 0 before its first id
    seq,       \* the last sequence number
    mu,        \* who holds the mutex
    pc,        \* where each caller is in NextID
    rest,      \* milliseconds that a sleeping caller still has to sleep
    issued,    \* history: the ids a node handed out, in order
    last       \* history: the last stamp any process of the node used

vars == <<clock, nowTS, seq, mu, pc, rest, issued, last>>

TypeOK ==
    /\ clock \in [Node -> MinClock .. MaxClock]
    /\ nowTS \in [Node -> 0 .. MaxClock]
    /\ seq \in [Node -> 0 .. MaxSequence]
    /\ mu \in [Node -> Caller \cup {Nobody}]
    /\ pc \in [Caller -> {"idle", "lock", "read", "sleep", "spin"}]
    /\ rest \in [Caller -> 0 .. MaxBackoff]
    /\ issued \in [Node -> Seq(Int)]
    /\ last \in [Node -> 0 .. MaxClock]

Init ==
    /\ clock \in [Node -> MinClock .. MaxClock]
    /\ nowTS = [n \in Node |-> 0]
    /\ seq = [n \in Node |-> 0]
    /\ mu = [n \in Node |-> Nobody]
    /\ pc = [c \in Caller |-> "idle"]
    /\ rest = [c \in Caller |-> 0]
    /\ issued = [n \in Node |-> <<>>]
    /\ last = [n \in Node |-> 0]

\* (now - epoch) << timestampShift | workerID << workerIDShift | seq: the fields
\* do not overlap, so the ORs add.  The sum is an int64 for 2^41 ms from Epoch.
Id(now, worker, s) ==
    ((now - Epoch) * (MaxWorker + 1) + worker) * (MaxSequence + 1) + s

-----------------------------------------------------------------------------
(* NextID *)

Call(c) ==
    /\ pc[c] = "idle" /\ Len(issued[Home[c]]) < MaxIds
    /\ pc' = [pc EXCEPT ![c] = "lock"]
    /\ UNCHANGED <<clock, nowTS, seq, mu, rest, issued, last>>

Lock(c) ==
    /\ pc[c] = "lock" /\ mu[Home[c]] = Nobody
    /\ mu' = [mu EXCEPT ![Home[c]] = c]
    /\ pc' = [pc EXCEPT ![c] = "read"]
    /\ UNCHANGED <<clock, nowTS, seq, rest, issued, last>>

\* The deferred Unlock.
Unlock(c) ==
    /\ mu' = [mu EXCEPT ![Home[c]] = Nobody]
    /\ pc' = [pc EXCEPT ![c] = "idle"]

\* nowTS = now, and the id goes to the caller.
Issue(c, now, s) ==
    LET n == Home[c] IN
    /\ nowTS' = [nowTS EXCEPT ![n] = now]
    /\ seq' = [seq EXCEPT ![n] = s]
    /\ issued' = [issued EXCEPT ![n] = Append(@, Id(now, WorkerID[n], s))]
    /\ last' = [last EXCEPT ![n] = now]
    /\ Unlock(c)

\* Mutant: a sequence that has run over is used at once, without a new stamp.
StampWithoutSpin(c, now) ==
    LET n == Home[c]
        next == (seq[n] + 1) % (MaxSequence + 1) IN
    Issue(c, now, IF now = nowTS[n] THEN next ELSE 0) /\ UNCHANGED rest

\* From `if now == s.nowTS` on: the next number of the same millisecond, or the
\* first of another; after the last number of a millisecond the caller spins.
Stamp(c, now) ==
    LET n == Home[c]
        next == (seq[n] + 1) % (MaxSequence + 1) IN
    /\ \/ now = nowTS[n] /\ next # 0 /\ Issue(c, now, next)
       \/ /\ now = nowTS[n] /\ next = 0
          /\ seq' = [seq EXCEPT ![n] = 0]
          /\ pc' = [pc EXCEPT ![c] = "spin"]
          /\ UNCHANGED <<nowTS, mu, issued, last>>
       \/ now # nowTS[n] /\ Issue(c, now, 0)
    /\ UNCHANGED rest

\* Mutant: no limit on the sleep, a clock far behind is waited for as well.
ReadPatiently(c) ==
    LET offset == nowTS[Home[c]] - clock[Home[c]] IN
    /\ pc[c] = "read"
    /\ \/ /\ offset > 0
          /\ pc' = [pc EXCEPT ![c] = "sleep"]
          /\ rest' = [rest EXCEPT ![c] = offset]
          /\ UNCHANGED <<nowTS, seq, mu, issued, last>>
       \/ offset <= 0 /\ Stamp(c, clock[Home[c]])
    /\ UNCHANGED clock

\* Mutant: the error return without the deferred Unlock.
ReadKeepingMutex(c) ==
    LET n == Home[c]
        offset == nowTS[n] - clock[n] IN
    /\ pc[c] = "read"
    /\ \/ /\ 0 < offset /\ offset <= MaxBackoff
          /\ pc' = [pc EXCEPT ![c] = "sleep"]
          /\ rest' = [rest EXCEPT ![c] = offset]
          /\ UNCHANGED <<nowTS, seq, mu, issued, last>>
       \/ /\ offset > MaxBackoff
          /\ pc' = [pc EXCEPT ![c] = "idle"]
          /\ UNCHANGED <<nowTS, seq, mu, rest, issued, last>>
       \/ offset <= 0 /\ Stamp(c, clock[n])
    /\ UNCHANGED clock

\* The first reading: behind nowTS by a little, by too much, or not at all.
Read(c) ==
    LET n == Home[c]
        offset == nowTS[n] - clock[n] IN
    /\ pc[c] = "read"
    /\ \/ /\ 0 < offset /\ offset <= MaxBackoff
          /\ pc' = [pc EXCEPT ![c] = "sleep"]
          /\ rest' = [rest EXCEPT ![c] = offset]
          /\ UNCHANGED <<nowTS, seq, mu, issued, last>>
       \/ /\ offset > MaxBackoff
          /\ Unlock(c)
          /\ UNCHANGED <<nowTS, seq, rest, issued, last>>
       \/ offset <= 0 /\ Stamp(c, clock[n])
    /\ UNCHANGED clock

\* Mutant: the sleep ends one millisecond early.
WakeEarly(c) ==
    /\ pc[c] = "sleep" /\ rest[c] <= 1
    /\ Stamp(c, clock[Home[c]])
    /\ UNCHANGED clock

\* The sleep is over and the clock is read again; it is not compared again.
Wake(c) ==
    /\ pc[c] = "sleep" /\ rest[c] = 0
    /\ Stamp(c, clock[Home[c]])
    /\ UNCHANGED clock

\* The busy wait for a millisecond after nowTS; an early reading changes nothing.
Spin(c) ==
    LET n == Home[c] IN
    /\ pc[c] = "spin" /\ clock[n] > nowTS[n]
    /\ Issue(c, clock[n], seq[n])
    /\ UNCHANGED <<clock, rest>>

-----------------------------------------------------------------------------
(* Time, and processes that end and start again. *)

Sleeping(n) == \E c \in Caller : Home[c] = n /\ pc[c] = "sleep"

\* A millisecond passes; it counts for the callers that sleep.
Tick(n) ==
    /\ clock[n] < MaxClock
    /\ clock' = [clock EXCEPT ![n] = @ + 1]
    /\ rest' = [c \in Caller |-> IF Home[c] = n /\ rest[c] > 0 THEN rest[c] - 1 ELSE rest[c]]
    /\ UNCHANGED <<nowTS, seq, mu, pc, issued, last>>

\* The administrator or NTP sets the clock back.
SetBack(n) ==
    \E t \in MinClock .. clock[n] - 1 :
        /\ "sleep" \in Setbacks \/ ~Sleeping(n)
        /\ "restart" \in Setbacks \/ nowTS[n] = last[n] \/ t > last[n]
        /\ clock' = [clock EXCEPT ![n] = t]
        /\ UNCHANGED <<nowTS, seq, mu, pc, rest, issued, last>>

\* NewSnowflake in a new process: nowTS and seq were only in memory.
Restart(n) ==
    /\ "restart" \in Setbacks \/ clock[n] > last[n]
    /\ nowTS' = [nowTS EXCEPT ![n] = 0]
    /\ seq' = [seq EXCEPT ![n] = 0]
    /\ mu' = [mu EXCEPT ![n] = Nobody]
    /\ pc' = [c \in Caller |-> IF Home[c] = n THEN "idle" ELSE pc[c]]
    /\ rest' = [c \in Caller |-> IF Home[c] = n THEN 0 ELSE rest[c]]
    /\ UNCHANGED <<clock, issued, last>>

Next ==
    \/ \E c \in Caller : Call(c) \/ Lock(c) \/ Read(c) \/ Wake(c) \/ Spin(c)
    \/ \E n \in Node : Tick(n) \/ SetBack(n) \/ Restart(n)

\* The Go scheduler runs callers, a sleep ends, a mutex that is asked for again and
\* again is handed over (sync.Mutex's starvation mode), and clocks run.
Fairness ==
    /\ \A c \in Caller : SF_vars(Lock(c)) /\ WF_vars(Read(c) \/ Wake(c) \/ Spin(c))
    /\ \A n \in Node : WF_vars(Tick(n))

Spec == Init /\ [][Next]_vars /\ Fairness

-----------------------------------------------------------------------------
(* Properties. *)

\* "4096 unique ids per millisecond" and "up to 1024 nodes" (snowflake.go:7-8): no
\* id is handed out twice, by one instance or by two with different worker numbers,
\* however the clocks run and are set back before and after a call.
UniqueIds ==
    \A n, m \in Node : \A i \in DOMAIN issued[n], k \in DOMAIN issued[m] :
        issued[n][i] = issued[m][k] => n = m /\ i = k

\* Ids sort by the order in which a node handed them out, over restarts and over
\* clocks set back between calls: what the comparison with nowTS, the sleep and the
\* busy wait of NextID are there for.
IdsIncrease ==
    \A n \in Node : \A i, k \in DOMAIN issued[n] :
        i < k => issued[n][i] < issued[n][k]

\* Bound: a caller that spins at MaxClock waits for a reading the model does not have.
SpinsAtBound(n) == nowTS[n] = MaxClock /\ \E c \in Caller : Home[c] = n /\ pc[c] = "spin"

\* Every call of NextID ends, with an id or an error, also behind callers that sleep
\* or spin with the mutex held, unless a clock is set back again and again: the busy
\* wait for a reading after nowTS has no limit.
CallsAnswered ==
    (\A n \in Node : <>[][~SetBack(n)]_vars) =>
        \A c \in Caller : pc[c] # "idle" ~> (pc[c] = "idle" \/ SpinsAtBound(Home[c]))

=============================================================================
