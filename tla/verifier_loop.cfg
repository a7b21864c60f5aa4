SPECIFICATION Spec
CONSTANTS
    r1 = r1
    r2 = r2
    NoOne = NoOne
    Requests = {r1, r2}
    SyncRequests = {}
    Ttl = 2
    MinInterval = 1
    MaxFetch = 1
    MaxRotations = 1
INVARIANTS LoopNeverFetches
