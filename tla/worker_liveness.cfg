SPECIFICATION FairSpec
CONSTANTS
    a = a
    b = b
    Items = {a, b}
    Requests <- PairRequest
    Limits = {1, 2}
    WifiModes = {TRUE}
    Provider <- OneProvider
    ProviderLimit <- OneAtATime
    MaxRuns = 1
    MaxWifiChanges = 1
    MayFailWrite = TRUE
    MayCrash = FALSE
PROPERTY BatchesEnd
