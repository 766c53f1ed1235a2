----------------------------- MODULE MCTokenStore -----------------------------
(* Small instances of TokenStore for TLC. *)
EXTENDS TokenStore, TLC

\* Users, tokens and requests are interchangeable; for safety runs only.
Symmetry == Permutations(User) \cup Permutations(Jti) \cup Permutations(Req)

AllOps == Operations
NoFaults == {}
AllFaults == {"redis", "crash"}
=============================================================================
