----------------------------- MODULE SessionStore -----------------------------
(***************************************************************************)
(* What a client of the token service is promised about login sessions,     *)
(* without Redis and without the requests that work on it: a session is     *)
(* opened once, for one user, is usable until it ends, and never comes back;*)
(* one step ends the sessions of one user only.                             *)
(***************************************************************************)
CONSTANTS Session, User, Nobody

VARIABLES
    owner,   \* owner[s]: the user a session was opened for
    state    \* state[s]: not opened yet, usable, or ended

SessionInit ==
    /\ owner = [s \in Session |-> Nobody]
    /\ state = [s \in Session |-> "free"]

\* A login opens a session that nobody ever had.
Open(s, u) ==
    /\ state[s] = "free"
    /\ owner' = [owner EXCEPT ![s] = u]
    /\ state' = [state EXCEPT ![s] = "live"]

\* A login that fails uses its session up.
Waste(s, u) ==
    /\ state[s] = "free"
    /\ owner' = [owner EXCEPT ![s] = u]
    /\ state' = [state EXCEPT ![s] = "ended"]

\* A logout, a purge or time ends live sessions of one user.
End(gone, u) ==
    /\ \A s \in gone : state[s] = "live" /\ owner[s] = u
    /\ state' = [s \in Session |-> IF s \in gone THEN "ended" ELSE state[s]]
    /\ UNCHANGED owner

SessionNext ==
    \E u \in User :
        \/ \E s \in Session : Open(s, u) \/ Waste(s, u)
        \/ \E gone \in SUBSET Session : End(gone, u)

SessionSpec == SessionInit /\ [][SessionNext]_<<owner, state>>

=============================================================================
