\* Any two connections, full channels, peers that leave at any time.  The hub
\* stops when its bounded supply of connections is used up.
CONSTANTS
    User = {u1, u2}
    Conn = {c1, c2}
    NoConn = NoConn
    Cap = 2
SPECIFICATION Spec
INVARIANTS TypeOK ClosedOnce NoDeadEntries
PROPERTY PumpsEnd
CHECK_DEADLOCK FALSE
