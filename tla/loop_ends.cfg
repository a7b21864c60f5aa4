SPECIFICATION FairSpec
CONSTANTS
    Limits = {0, 1, 4}
    Delay = 1
    MaxDelay = 3
    FloatMaxExponent = 2
    FailureCap = 5
    MaxOutages = 2
    MayCancel = TRUE
INVARIANTS FlagFollowsRun
PROPERTIES OutageEndsRun OutageIsForgotten StopInLoopEnds ReclaimRecurs
