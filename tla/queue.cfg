SPECIFICATION FairSpec
CONSTANTS
    a = a
    b = b
    Items = {a, b}
    Platforms = {TRUE, FALSE}
    Rejected = {b}
    WifiOnly = FALSE
    Failures = {"rate"}
    MayDrop = TRUE
    MayStop = TRUE
    Notifies = TRUE
    Throwing = {2}
    MaxRuns = 3
    MaxEvents = 2
    MaxAttempts = 0
 
PROPERTIES DoneSticks EntriesSettle
CHECK_DEADLOCK FALSE
