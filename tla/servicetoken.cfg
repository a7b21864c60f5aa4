SPECIFICATION FairTokenSpec
CONSTANTS
    c1 = c1
    c2 = c2
    c3 = c3
    NoCaller = NoCaller
    Callers = {c1, c2, c3}
    SyncCallers = {c3}
    Life = 4
    Margin = 2
    MaxLatency = 1
    MayCancel = TRUE
    MaxTime = 5
INVARIANTS ReturnedIsLive CacheInv
PROPERTIES WaitersGetThrough
