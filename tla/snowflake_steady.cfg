\* Two instances with different workers; clocks set back between calls.
CONSTANTS
    n1 = n1
    n2 = n2
    c1 = c1
    c2 = c2
    c3 = c3
    Node = {n1, n2}
    Caller = {c1, c2, c3}
    Home <- HomeDef
    Nobody = Nobody
    WorkerID <- WorkerDef
    MaxWorker = 1
    MaxSequence = 1
    MaxBackoff = 1
    Epoch = 2
    MinClock = 1
    MaxClock = 3
    MaxIds = 3
    Setbacks = {}
SPECIFICATION Spec
INVARIANTS TypeOK UniqueIds IdsIncrease
PROPERTY CallsAnswered
