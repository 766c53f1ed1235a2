\* Redis errors, killed requests, logins that overlap purges.
CONSTANTS
    User = {u1, u2}
    Jti = {j1, j2}
    Req = {r1, r2}
    NoUser = NoUser
    NoJti = NoJti
    Ops <- AllOps
    Faults <- AllFaults
    LoginExclusive = FALSE
SPECIFICATION Spec
SYMMETRY Symmetry
INVARIANT TypeOK
PROPERTY RevocationIsolated ImplementsSessions
