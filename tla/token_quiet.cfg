\* Redis answers, no process dies, no login overlaps a purge of the same user.
CONSTANTS
    User = {u1, u2}
    Jti = {j1, j2}
    Req = {r1, r2, r3}
    NoUser = NoUser
    NoJti = NoJti
    Ops <- AllOps
    Faults <- NoFaults
    LoginExclusive = TRUE
SPECIFICATION Spec
SYMMETRY Symmetry
INVARIANTS RevocationSettles LiveTokensIndexed
