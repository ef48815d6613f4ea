SPECIFICATION FairSpec
CONSTANTS
    a = a
    b = b
    Items = {a, b}
    Platforms = {TRUE}
    Rejected = {}
    WifiOnly = FALSE
    Failures = {"rate"}
    MayDrop = FALSE
    MayStop = FALSE
    Notifies = FALSE
    Throwing = {}
    MaxRuns = 4
    MaxEvents = 2
    MaxAttempts = 2
PROPERTY RetryHappens
CHECK_DEADLOCK FALSE
