\* One instance, whose clock may be set back at any time.
CONSTANTS
    n1 = n1
    n2 = n2
    c1 = c1
    c2 = c2
    c3 = c3
    Node = {n1}
    Caller = {c1, c2}
    Home <- OneHome
    Nobody = Nobody
    WorkerID <- OneWorker
    MaxWorker = 1
    MaxSequence = 1
    MaxBackoff = 2
    Epoch = 2
    MinClock = 1
    MaxClock = 4
    MaxIds = 3
    Setbacks = {"sleep"}
SPECIFICATION Spec
INVARIANT UniqueIds
