SPECIFICATION FairSpec
CONSTANTS
    r1 = r1
    r2 = r2
    Requests = {r1, r2}
    MayCancel = TRUE
    OnStop = 1
    MaxRuns = 2
    MaxClients = 3
INVARIANTS NothingLeftOpen OneHttpClient RequestsFindClient
PROPERTIES StopCompletes
