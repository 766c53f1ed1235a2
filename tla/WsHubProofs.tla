------------------------------ MODULE WsHubProofs ------------------------------
(***************************************************************************)
(* Theorems about WsHub, for any users, connections and channel capacity.   *)
(***************************************************************************)
EXTENDS WsHub, SequenceTheorems, TLAPS

-----------------------------------------------------------------------------
(* Types *)

\* A reader inside SendToUser still has the user it sends to.
TypeInv ==
    /\ TypeOK
    /\ \A c \in Conn : reader[c] = "push" => todo[c] # <<>>

LEMMA TailOfSeq ==
  ASSUME NEW s \in Seq(User), s # <<>>
  PROVE  /\ Tail(s) \in Seq(User)
         /\ Len(s) > 1 => Tail(s) # <<>>
         /\ Head(s) \in User
<1>1. Head(s) \in User /\ Tail(s) \in Seq(User) /\ Len(Tail(s)) = Len(s) - 1
  BY HeadTailProperties
<1>2. Len(s) > 1 => Len(Tail(s)) # 0
  BY <1>1, LenProperties
<1>3. Tail(s) = <<>> => Len(Tail(s)) = 0
  BY <1>1, EmptySeq
<1> QED
  BY <1>1, <1>2, <1>3

LEMMA ToldIsSeq ==
  ASSUME NEW u \in User, NEW s \in Told(u)
  PROVE  s \in Seq(User) /\ s # <<>>
<1>1. CASE s = <<u>>
  BY <1>1
<1>2. ASSUME NEW to \in User, s = <<u, to>> PROVE s \in Seq(User) /\ s # <<>>
  BY <1>2
<1> QED
  BY <1>1, <1>2 DEF Told

LEMMA TypeInit == Init => TypeInv
  BY ConstantsAssumption DEF Init, TypeInv, TypeOK

LEMMA TypeStep ==
  ASSUME TypeInv, [Next]_vars
  PROVE  TypeInv'
<1> USE ConstantsAssumption DEF TypeInv, TypeOK, pumps, vars, At
<1>1. ASSUME NEW c \in Conn, Register(c) PROVE TypeInv'
  BY <1>1 DEF Register
<1>2. ASSUME NEW c \in Conn, Receive(c) PROVE TypeInv'
  BY <1>2, ToldIsSeq DEF Receive
<1>3. ASSUME NEW c \in Conn, PeerLeaves(c) PROVE TypeInv'
  BY <1>3 DEF PeerLeaves
<1>4. ASSUME NEW c \in Conn, Load(c) PROVE TypeInv'
  <2>1. /\ Tail(todo[c]) \in Seq(User) /\ Head(todo[c]) \in User
        /\ Len(todo[c]) > 1 => Tail(todo[c]) # <<>>
    BY <1>4, TailOfSeq DEF Load
  <2>2. CASE clients[Head(todo[c])] # NoConn
    BY <1>4, <2>1, <2>2 DEF Load
  <2>3. CASE clients[Head(todo[c])] = NoConn
    <3>1. /\ todo' = [todo EXCEPT ![c] = Tail(todo[c])]
          /\ reader' = [reader EXCEPT ![c] = IF Len(todo[c]) > 1 THEN "load" ELSE "read"]
          /\ UNCHANGED <<owner, clients, held, writer, queue, closed, conn>>
      BY <1>4, <2>3 DEF Load, Sent
    <3>2. todo' \in [Conn -> Seq(User)] /\ reader' \in [Conn -> {"off", "read", "load", "push", "unregister", "close", "done"}]
      BY <2>1, <3>1
    <3>3. \A d \in Conn : reader'[d] = "load" => todo'[d] # <<>>
      BY <2>1, <3>1
    <3> QED
      BY <3>1, <3>2, <3>3
  <2> QED
    BY <2>2, <2>3
<1>5. ASSUME NEW c \in Conn, Push(c) PROVE TypeInv'
  <2>1. CASE held[c] \in closed
    <3>1. Panic
      BY <1>5, <2>1 DEF Push
    <3> QED
      BY <3>1 DEF Panic
  <2>2. CASE held[c] \notin closed
    <3>1. /\ Tail(todo[c]) \in Seq(User)
          /\ Len(todo[c]) > 1 => Tail(todo[c]) # <<>>
      BY <1>5, TailOfSeq DEF Push
    <3>2. /\ todo' = [todo EXCEPT ![c] = Tail(todo[c])]
          /\ reader' = [reader EXCEPT ![c] = IF Len(todo[c]) > 1 THEN "load" ELSE "read"]
          /\ held' = [held EXCEPT ![c] = NoConn]
          /\ queue' = [queue EXCEPT ![held[c]] = queue[held[c]] + 1]
          /\ held[c] \in Conn /\ queue[held[c]] + 1 \in 0 .. Cap
          /\ UNCHANGED <<owner, clients, writer, closed, conn>>
      BY <1>5, <2>2 DEF Push, Sent
    <3>3. /\ todo' \in [Conn -> Seq(User)]
          /\ reader' \in [Conn -> {"off", "read", "load", "push", "unregister", "close", "done"}]
          /\ held' \in [Conn -> Conn \cup {NoConn}]
          /\ queue' \in [Conn -> 0 .. Cap]
      BY <3>1, <3>2
    <3>4. \A d \in Conn : /\ reader'[d] = "load" => todo'[d] # <<>>
                          /\ reader'[d] = "push" => todo'[d] # <<>>
                          /\ reader'[d] \in {"push", "close"} => held'[d] \in Conn
      BY <3>1, <3>2
    <3> QED
      BY <3>2, <3>3, <3>4
  <2> QED
    BY <2>1, <2>2
<1>6. ASSUME NEW c \in Conn, ReadFails(c) PROVE TypeInv'
  BY <1>6 DEF ReadFails
<1>7. ASSUME NEW c \in Conn, Unregister(c) PROVE TypeInv'
  BY <1>7 DEF Unregister
<1>8. ASSUME NEW c \in Conn, Close(c) PROVE TypeInv'
  BY <1>8 DEF Close
<1>9. ASSUME NEW c \in Conn, Write(c) PROVE TypeInv'
  <2>1. queue[c] - 1 \in 0 .. Cap
    BY <1>9 DEF Write
  <2>2. CASE WriterEnds(c)
    BY <1>9, <2>1, <2>2 DEF Write, WriterEnds
  <2>3. CASE UNCHANGED <<writer, conn>>
    BY <1>9, <2>1, <2>3 DEF Write
  <2> QED
    BY <1>9, <2>2, <2>3 DEF Write
<1>10. ASSUME NEW c \in Conn, WriterStops(c) PROVE TypeInv'
  BY <1>10 DEF WriterStops, WriterEnds
<1>11. CASE UNCHANGED vars
  BY <1>11
<1> QED
  BY <1>1, <1>2, <1>3, <1>4, <1>5, <1>6, <1>7, <1>8, <1>9, <1>10, <1>11
  DEF Next, ReaderStep, WriterStep

\* The variables of the hub keep their types: channels hold no more than Cap
\* messages, and a pump that sends or closes has a client to send to or to close.
THEOREM TypeCorrect == Spec => []TypeOK
<1>1. TypeInv /\ [Next]_vars => TypeInv'
  BY TypeStep
<1>2. TypeInv => TypeOK
  BY DEF TypeInv
<1> QED
  BY TypeInit, <1>1, <1>2, PTL DEF Spec

-----------------------------------------------------------------------------
(* Who may close what. *)

\* An entry of the hub belongs to its user, its channel is open, and its readPump
\* has not come to Close.
EntriesAlive ==
    \A u \in User : clients[u] # NoConn =>
        /\ owner[clients[u]] = u
        /\ clients[u] \notin closed
        /\ reader[clients[u]] \in {"read", "load", "push", "unregister"}

Closing(c) == reader[c] = "close"

\* What a pump closes has left the hub, is open, and is closed by nobody else.
ClosersApart ==
    \A c \in Conn : Closing(c) =>
        /\ held[c] \notin closed
        /\ \A u \in User : clients[u] # held[c]
        /\ \A d \in Conn : Closing(d) /\ held[d] = held[c] => d = c

\* A connection that has not come yet is not closed, and nobody is about to.
OffUntouched ==
    \A c \in Conn : reader[c] = "off" =>
        /\ c \notin closed
        /\ \A d \in Conn : Closing(d) => held[d] # c

HubInv == TypeInv /\ EntriesAlive /\ ClosersApart /\ OffUntouched

LEMMA HubInit == Init => HubInv
<1> SUFFICES ASSUME Init PROVE HubInv
  OBVIOUS
<1>1. TypeInv
  BY TypeInit
<1> QED
  BY <1>1, ConstantsAssumption DEF Init, HubInv, EntriesAlive, ClosersApart, OffUntouched, Closing

\* A readPump that serves a message, and goes on to where it neither closes nor ends.
LEMMA MoveKeeps ==
  ASSUME HubInv, TypeInv', NEW c \in Conn, reader[c] \in {"load", "push"},
         NEW l \in {"read", "load", "push"}, reader' = [reader EXCEPT ![c] = l],
         UNCHANGED <<owner, clients, closed>>,
         \A d \in Conn \ {c} : held'[d] = held[d]
  PROVE  HubInv'
<1> USE DEF HubInv, TypeInv, TypeOK, Closing
<1>1. \A d \in Conn : Closing(d)' => Closing(d) /\ held'[d] = held[d]
  OBVIOUS
<1>2. EntriesAlive'
  BY DEF EntriesAlive
<1>3. ClosersApart'
  BY <1>1 DEF ClosersApart
<1>4. OffUntouched'
  BY <1>1 DEF OffUntouched
<1> QED
  BY <1>2, <1>3, <1>4

LEMMA HubStep ==
  ASSUME HubInv, [Next]_vars
  PROVE  HubInv'
<1>0. TypeInv'
  BY TypeStep DEF HubInv
<1> USE <1>0, ConstantsAssumption
    DEF HubInv, TypeInv, TypeOK, EntriesAlive, ClosersApart, OffUntouched, Closing, pumps, vars, At
<1>1. ASSUME NEW c \in Conn, Register(c) PROVE HubInv'
  BY <1>1 DEF Register
<1>2. ASSUME NEW c \in Conn, Receive(c) PROVE HubInv'
  BY <1>2 DEF Receive
<1>3. ASSUME NEW c \in Conn, PeerLeaves(c) PROVE HubInv'
  BY <1>3 DEF PeerLeaves
<1>4. ASSUME NEW c \in Conn, Load(c) PROVE HubInv'
  <2>1. /\ reader[c] = "load"
        /\ UNCHANGED <<owner, clients, closed>>
        /\ \E l \in {"read", "load", "push"} : reader' = [reader EXCEPT ![c] = l]
        /\ \A d \in Conn \ {c} : held'[d] = held[d]
    BY <1>4 DEF Load, Sent
  <2> QED
    BY <2>1, MoveKeeps
<1>5. ASSUME NEW c \in Conn, Push(c) PROVE HubInv'
  <2>1. CASE held[c] \in closed
    <3>1. Panic
      BY <1>5, <2>1 DEF Push
    <3> QED
      BY <3>1 DEF Panic
  <2>2. CASE held[c] \notin closed
    <3>1. /\ reader[c] = "push"
          /\ UNCHANGED <<owner, clients, closed>>
          /\ \E l \in {"read", "load"} : reader' = [reader EXCEPT ![c] = l]
          /\ \A d \in Conn \ {c} : held'[d] = held[d]
      BY <1>5, <2>2 DEF Push, Sent
    <3> QED
      BY <3>1, MoveKeeps
  <2> QED
    BY <2>1, <2>2
<1>6. ASSUME NEW c \in Conn, ReadFails(c) PROVE HubInv'
  BY <1>6 DEF ReadFails
<1>7. ASSUME NEW c \in Conn, Unregister(c) PROVE HubInv'
  <2>1. CASE clients[owner[c]] = NoConn
    BY <1>7, <2>1 DEF Unregister
  <2>2. CASE clients[owner[c]] # NoConn
    <3>1. EntriesAlive'
      BY <1>7, <2>2 DEF Unregister
    <3>2. ClosersApart'
      BY <1>7, <2>2 DEF Unregister
    <3>3. OffUntouched'
      <4>1. \A d \in Conn : reader'[d] = "off" => reader[d] = "off"
        BY <1>7, <2>2 DEF Unregister
      <4>2. \A d \in Conn : Closing(d)' => (Closing(d) /\ held'[d] = held[d]) \/ held'[d] = clients[owner[c]]
        BY <1>7, <2>2 DEF Unregister
      <4>3. reader[clients[owner[c]]] # "off" /\ closed' = closed
        BY <1>7, <2>2 DEF Unregister
      <4>4. ASSUME NEW d \in Conn, reader'[d] = "off", NEW e \in Conn, Closing(e)'
            PROVE  held'[e] # d
        <5>1. reader[d] = "off"
          BY <4>1, <4>4
        <5>2. CASE Closing(e) /\ held'[e] = held[e]
          BY <5>1, <5>2
        <5>3. CASE held'[e] = clients[owner[c]]
          BY <5>1, <5>3, <4>3
        <5> QED
          BY <4>2, <4>4, <5>2, <5>3
      <4>5. \A d \in Conn : reader'[d] = "off" => d \notin closed'
        BY <4>1, <4>3
      <4> QED
        BY <4>4, <4>5
    <3> QED
      BY <3>1, <3>2, <3>3
  <2> QED
    BY <2>1, <2>2
<1>8. ASSUME NEW c \in Conn, Close(c) PROVE HubInv'
  BY <1>8 DEF Close
<1>9. ASSUME NEW c \in Conn, Write(c) PROVE HubInv'
  BY <1>9 DEF Write, WriterEnds
<1>10. ASSUME NEW c \in Conn, WriterStops(c) PROVE HubInv'
  BY <1>10 DEF WriterStops, WriterEnds
<1>11. CASE UNCHANGED vars
  BY <1>11
<1> QED
  BY <1>1, <1>2, <1>3, <1>4, <1>5, <1>6, <1>7, <1>8, <1>9, <1>10, <1>11
  DEF Next, ReaderStep, WriterStep

LEMMA HubInvariant == Spec => []HubInv
<1>1. HubInv /\ [Next]_vars => HubInv'
  BY HubStep
<1> QED
  BY HubInit, <1>1, PTL DEF Spec

\* No channel is closed twice, however many connections a user has and whoever
\* unregisters whom.
THEOREM CloseOnce == Spec => []ClosedOnce
<1>1. HubInv => ClosedOnce
  BY DEF HubInv, ClosersApart, ClosedOnce, Closing
<1> QED
  BY HubInvariant, <1>1, PTL

\* A connection that the hub has is one whose readPump has not ended.
THEOREM EntriesLive == Spec => []NoDeadEntries
<1>1. HubInv => NoDeadEntries
  BY DEF HubInv, EntriesAlive, NoDeadEntries
<1> QED
  BY HubInvariant, <1>1, PTL

-----------------------------------------------------------------------------
(* Who stays in the hub. *)

\* From Register up to LoadAndDelete.
Serving(c) == reader[c] \in {"read", "load", "push", "unregister"}

\* A user connects again only after the readPump of his connection before has
\* unregistered it: the overlap that the run hub_reconnect shows does not happen.
OneAtATime == \A c, d \in Conn :
    Serving(c) /\ Serving(d) /\ owner[c] = owner[d] => c = d

\* A connection that is read from is the one the hub has for its user.
ServedIsKnown == \A c \in Conn : Serving(c) => clients[owner[c]] = c

LEMMA KnownStep ==
  ASSUME TypeInv, ServedIsKnown, OneAtATime, OneAtATime', [Next]_vars
  PROVE  ServedIsKnown'
<1> USE ConstantsAssumption DEF TypeInv, TypeOK, pumps, vars, At
\* Only Register, Unregister and Panic change the hub.
<1>0. ASSUME UNCHANGED <<clients, owner>>, \A d \in Conn : Serving(d)' => Serving(d)
      PROVE  ServedIsKnown'
  BY <1>0 DEF ServedIsKnown
<1>1. ASSUME NEW c \in Conn, Register(c) PROVE ServedIsKnown'
  <2>1. /\ clients' = [clients EXCEPT ![owner[c]] = c] /\ owner' = owner
        /\ reader' = [reader EXCEPT ![c] = "read"]
    BY <1>1 DEF Register
  <2>2. SUFFICES ASSUME NEW d \in Conn, Serving(d)' PROVE clients'[owner'[d]] = d
    BY DEF ServedIsKnown
  <2>3. CASE owner[d] = owner[c]
    <3>1. Serving(c)'
      BY <2>1 DEF Serving
    <3>2. d = c
      BY <2>1, <2>2, <2>3, <3>1 DEF OneAtATime
    <3> QED
      BY <2>1, <3>2
  <2>4. CASE owner[d] # owner[c]
    <3>1. Serving(d)
      BY <2>1, <2>2, <2>4 DEF Serving
    <3> QED
      BY <2>1, <2>4, <3>1 DEF ServedIsKnown
  <2> QED
    BY <2>3, <2>4
<1>2. ASSUME NEW c \in Conn, Receive(c) PROVE ServedIsKnown'
  BY <1>0, <1>2 DEF Receive, Serving
<1>3. ASSUME NEW c \in Conn, PeerLeaves(c) PROVE ServedIsKnown'
  BY <1>0, <1>3 DEF PeerLeaves, Serving
<1>4. ASSUME NEW c \in Conn, Load(c) PROVE ServedIsKnown'
  BY <1>0, <1>4 DEF Load, Sent, Serving
<1>5. ASSUME NEW c \in Conn, Push(c) PROVE ServedIsKnown'
  <2>1. CASE held[c] \in closed
    <3>1. \A d \in Conn : reader'[d] \in {"off", "done"}
      BY <1>5, <2>1 DEF Push, Panic
    <3> QED
      BY <3>1 DEF Serving, ServedIsKnown
  <2>2. CASE held[c] \notin closed
    BY <1>0, <1>5, <2>2 DEF Push, Sent, Serving
  <2> QED
    BY <2>1, <2>2
<1>6. ASSUME NEW c \in Conn, ReadFails(c) PROVE ServedIsKnown'
  BY <1>0, <1>6 DEF ReadFails, Serving
<1>7. ASSUME NEW c \in Conn, Unregister(c) PROVE ServedIsKnown'
  <2>1. /\ clients' = [clients EXCEPT ![owner[c]] = NoConn] /\ owner' = owner
        /\ \E l \in {"done", "close"} : reader' = [reader EXCEPT ![c] = l]
        /\ Serving(c)
    BY <1>7 DEF Unregister, Serving
  <2>2. SUFFICES ASSUME NEW d \in Conn, Serving(d)' PROVE clients'[owner'[d]] = d
    BY DEF ServedIsKnown
  <2>3. d # c /\ Serving(d)
    BY <2>1, <2>2 DEF Serving
  <2>4. owner[d] # owner[c]
    BY <2>1, <2>3 DEF OneAtATime
  <2> QED
    BY <2>1, <2>3, <2>4 DEF ServedIsKnown
<1>8. ASSUME NEW c \in Conn, Close(c) PROVE ServedIsKnown'
  BY <1>0, <1>8 DEF Close, Serving
<1>9. ASSUME NEW c \in Conn, Write(c) PROVE ServedIsKnown'
  BY <1>0, <1>9 DEF Write, Serving
<1>10. ASSUME NEW c \in Conn, WriterStops(c) PROVE ServedIsKnown'
  BY <1>0, <1>10 DEF WriterStops, Serving
<1>11. CASE UNCHANGED vars
  BY <1>0, <1>11 DEF Serving
<1> QED
  BY <1>1, <1>2, <1>3, <1>4, <1>5, <1>6, <1>7, <1>8, <1>9, <1>10, <1>11
  DEF Next, ReaderStep, WriterStep

\* OnlineUsersReachable: what hub.go:29 says holds as long as no connection of a
\* user is registered while an older one of his is still in front of Unregister.
\* The overlap is thus the only way to the state that hub_reconnect reaches: full
\* channels, panics and peers that leave do not make a user unreachable.
THEOREM Reachable == Spec /\ []OneAtATime => []OnlineUsersReachable
<1>1. Init => ServedIsKnown
  BY DEF Init, ServedIsKnown, Serving
<1>2. TypeInv /\ ServedIsKnown /\ OneAtATime /\ OneAtATime' /\ [Next]_vars => ServedIsKnown'
  BY KnownStep
<1>3. TypeInv /\ ServedIsKnown => OnlineUsersReachable
  <2> SUFFICES ASSUME TypeInv, ServedIsKnown, NEW c \in Conn, reader[c] = "read",
                      clients[owner[c]] = NoConn
               PROVE  FALSE
    BY DEF OnlineUsersReachable
  <2>1. clients[owner[c]] = c
    BY DEF ServedIsKnown, Serving
  <2> QED
    BY <2>1, ConstantsAssumption
<1>4. HubInv => TypeInv
  BY DEF HubInv
<1> QED
  BY <1>1, <1>2, <1>3, <1>4, HubInvariant, PTL DEF Spec

=============================================================================
