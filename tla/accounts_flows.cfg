\* Calls may fail, requests may die and overlap.  Auto-registered users have their
\* phone for a name.
CONSTANTS
    Id = {u1, u2}
    Name = {n1}
    Phone = {p1}
    Password = {w1, w2}
    Session = {s1, s2}
    None = None
    Req = {r1, r2}
    AutoRegister = TRUE
    Faults = {"db", "redis", "crash"}
SPECIFICATION Spec
SYMMETRY Symmetry
INVARIANTS TypeOK OldPasswordSessionsEnd PhonesProven
