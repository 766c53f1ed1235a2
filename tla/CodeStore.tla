------------------------------- MODULE CodeStore -------------------------------
(***************************************************************************)
(* What the receiver of one-time codes is promised, without Redis and the   *)
(* steps of the requests.  A visit takes hold of the code that is usable    *)
(* and gets through with it later; several visits may hold a code at once,  *)
(* and each of them gets through.  What ends never comes back.              *)
(***************************************************************************)
EXTENDS TLAPS

CONSTANTS Code, Visit

VARIABLES
    received,   \* the codes that reached him
    usable,     \* the code he can use now, if there is one
    gone,       \* codes that will never again be usable
    holds,      \* holds[v]: the code that visit v has presented and not yet used
    used,       \* the codes with which he got through
    announced   \* the codes of which he was told that they are sent

states == <<received, usable, gone, holds, used, announced>>

CodeInit ==
    /\ received = {} /\ usable = {} /\ gone = {} /\ used = {} /\ announced = {}
    /\ holds = [v \in Visit |-> {}]

\* A code arrives before it can be used.
Receive(c) ==
    /\ c \notin received \cup usable \cup gone
    /\ received' = received \cup {c}
    /\ UNCHANGED <<usable, gone, holds, used, announced>>

\* A code he has becomes the one he can use, for the first time, and ends another.
Issue(c) ==
    /\ c \in received \ (usable \cup gone)
    /\ usable' = {c} /\ gone' = gone \cup usable
    /\ UNCHANGED <<received, holds, used, announced>>

Announce(c) ==
    /\ c \in (usable \cup gone) \ announced
    /\ announced' = announced \cup {c}
    /\ UNCHANGED <<received, usable, gone, holds, used>>

\* He presents the usable code.
Hold(v) ==
    /\ holds[v] = {} /\ usable # {}
    /\ holds' = [holds EXCEPT ![v] = usable]
    /\ UNCHANGED <<received, usable, gone, used, announced>>

\* He gets through with the code he presented, which ends whatever is usable.
Use(v) ==
    /\ holds[v] # {}
    /\ used' = used \cup holds[v]
    /\ holds' = [holds EXCEPT ![v] = {}]
    /\ usable' = {} /\ gone' = gone \cup usable
    /\ UNCHANGED <<received, announced>>

\* He does not get through, with or without ending what is usable.
Fail(v) ==
    /\ holds[v] # {}
    /\ holds' = [holds EXCEPT ![v] = {}]
    /\ \/ UNCHANGED <<usable, gone>>
       \/ usable' = {} /\ gone' = gone \cup usable
    /\ UNCHANGED <<received, used, announced>>

\* What is usable ends unused.
Lapse ==
    /\ usable # {}
    /\ usable' = {} /\ gone' = gone \cup usable
    /\ UNCHANGED <<received, holds, used, announced>>

CodeNext ==
    \/ Lapse
    \/ \E c \in Code : Receive(c) \/ Issue(c) \/ Announce(c)
    \/ \E v \in Visit : Hold(v) \/ Use(v) \/ Fail(v)

CodeSpec == CodeInit /\ [][CodeNext]_states

-----------------------------------------------------------------------------
(* What follows for the receiver. *)

\* One code at a time is usable, one he received, and none that has ended.  Whoever holds
\* a code was there before it ended, so that a code he got through with gives nothing to
\* those who come later.  What was announced was usable.
Promise ==
    /\ \A c, d \in usable : c = d
    /\ usable \cap gone = {}
    /\ usable \cup gone \subseteq received
    /\ \A v \in Visit : holds[v] \subseteq usable \cup gone
    /\ used \subseteq gone
    /\ announced \subseteq usable \cup gone

\* The promise holds in every implementation, whatever the codes are and however many
\* visits overlap.
THEOREM Promised == CodeSpec => []Promise
<1>1. CodeInit => Promise
  BY DEF CodeInit, Promise
<1>2. ASSUME Promise, [CodeNext]_states PROVE Promise'
  <2>1. CASE Lapse
    BY <1>2, <2>1 DEF Lapse, Promise
  <2>2. ASSUME NEW c \in Code, Receive(c) PROVE Promise'
    BY <1>2, <2>2 DEF Receive, Promise
  <2>3. ASSUME NEW c \in Code, Issue(c) PROVE Promise'
    BY <1>2, <2>3 DEF Issue, Promise
  <2>4. ASSUME NEW c \in Code, Announce(c) PROVE Promise'
    BY <1>2, <2>4 DEF Announce, Promise
  <2>5. ASSUME NEW v \in Visit, Hold(v) PROVE Promise'
    BY <1>2, <2>5 DEF Hold, Promise
  <2>6. ASSUME NEW v \in Visit, Use(v) PROVE Promise'
    BY <1>2, <2>6 DEF Use, Promise
  <2>7. ASSUME NEW v \in Visit, Fail(v) PROVE Promise'
    BY <1>2, <2>7 DEF Fail, Promise
  <2>8. CASE UNCHANGED states
    BY <1>2, <2>8 DEF states, Promise
  <2> QED
    BY <1>2, <2>1, <2>2, <2>3, <2>4, <2>5, <2>6, <2>7, <2>8 DEF CodeNext
<1> QED
  BY <1>1, <1>2, PTL DEF CodeSpec

=============================================================================
