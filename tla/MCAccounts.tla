------------------------------ MODULE MCAccounts ------------------------------
(* Small instances of Accounts for TLC. *)
EXTENDS Accounts, TLC

\* Users, sessions, passwords and requests are interchangeable.
Symmetry == Permutations(Id) \cup Permutations(Session) \cup Permutations(Password)
                \cup Permutations(Req)
=============================================================================
