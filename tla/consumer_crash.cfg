SPECIFICATION FairSpec
CONSTANTS
    c1 = c1
    c2 = c2
    N = 2
    Consumers = {c1, c2}
    Invalid <- None
    Poison <- First
    MaxRetries = 1
    MaxDeliveries = 1
    Concurrency = 2
    BatchSize = 2
    MaxLen = 9
    GroupStartId = "0"
    SlowHandlers = FALSE
    MaxFaults = 1
INVARIANTS OneHandlerAtATime KillsBounded AppliedNotDead
PROPERTIES EventuallySettled
