SPECIFICATION FairSpec
CONSTANTS
    Limits = {0}
    Delay = 1
    MaxDelay = 3
    FloatMaxExponent = 2
    FailureCap = 5
    MaxOutages = 2
    MayCancel = FALSE
PROPERTIES ZeroNeverGivesUp
