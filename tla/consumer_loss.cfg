SPECIFICATION Spec
CONSTANTS
    c1 = c1
    c2 = c2
    N = 2
    Consumers = {c1, c2}
    Invalid <- Second
    Poison <- None
    MaxRetries = 2
    MaxDeliveries = 1
    Concurrency = 1
    BatchSize = 2
    MaxLen = 1
    GroupStartId = "$"
    SlowHandlers = TRUE
    MaxFaults = 2
SYMMETRY Symmetry
INVARIANTS TypeOK LossInv SlotAccounting
PROPERTIES ImplementsAtLeastOnce
