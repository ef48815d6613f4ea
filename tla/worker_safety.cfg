SPECIFICATION Spec
CONSTANTS
    a = a
    b = b
    Items = {a}
    Requests <- SingleRequest
    Limits = {1}
    WifiModes = {TRUE, FALSE}
    Provider <- OneProvider
    ProviderLimit <- OneAtATime
    MaxRuns = 2
    MaxWifiChanges = 0
    MayFailWrite = TRUE
    MayCrash = TRUE
INVARIANTS WorkerInv StoppedMeansRequeued StoppedNotRunning
