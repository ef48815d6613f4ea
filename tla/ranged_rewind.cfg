SPECIFICATION Spec
CONSTANTS
    Junk = Junk
    Absent = Absent
    Mixing = FALSE
    PowerLoss = {"segments"}
    MaxCalls <- MCCalls
    MaxCrashes = 1
    l1 = l1
    l2 = l2
    SegmentCalls <- OneList
    Segments = 1
    MaxParallel = 1
    Lengths <- Growing
    Tagged = {1, 2}
    Sized = {1, 2}
    ChunkSize = 1
    Tries = 2
    Modes <- MCModes
    MayReturn = FALSE
    OtherSuccess = FALSE
    MaxIgnored = 1
INVARIANT
    RestoredIsComplete
CHECK_DEADLOCK FALSE
