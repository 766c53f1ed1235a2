\* A user with two connections at a time.
CONSTANTS
    User = {u1}
    Conn = {c1, c2}
    NoConn = NoConn
    Cap = 1
SPECIFICATION Spec
INVARIANT OnlineUsersReachable
CHECK_DEADLOCK FALSE
