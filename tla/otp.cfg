\* Calls may fail, requests overlap and die, a send may outlast its interval.
CONSTANTS
    Req = {r1, r2, r3}
    MaxSends = 2
    MaxFailCount = 2
    Faults = {"redis", "provider", "crash"}
SPECIFICATION Spec
SYMMETRY Symmetry
INVARIANTS TypeOK StoredWasDelivered AcceptedCodeEnds NewestCodeStored SendsSpaced
PROPERTY ImplementsCodes
