\* No failure at all, but a login may overlap a purge of the same user.
CONSTANTS
    User = {u1}
    Jti = {j1, j2}
    Req = {r1, r2}
    NoUser = NoUser
    NoJti = NoJti
    Ops <- AllOps
    Faults <- NoFaults
    LoginExclusive = FALSE
SPECIFICATION Spec
INVARIANT PurgeRevokesAll
