------------------------------- MODULE MCGateway -------------------------------
(* Small instances of Gateway for TLC. *)
EXTENDS Gateway, TLC

Symmetry == Permutations(Req) \cup Permutations(Session)

\* app.auth.public_paths of configs/config.yaml; LoginBySms is no operation.
ShippedPaths ==
    {Passport(m) : m \in {"Register", "LoginByPassword", "LoginBySms", "ResetPassword"}} \cup
    {<<"api.public.v1.Public">>}
=============================================================================
