SPECIFICATION Spec
CONSTANTS
    Junk = Junk
    Absent = Absent
    Mixing = FALSE
    PowerLoss = {"segments"}
    MaxCalls <- MCCalls
    MaxCrashes = 1
    l1 = l1
    l2 = l2
    SegmentCalls <- TwoLists
    Segments = 3
    MaxParallel = 2
    Lengths <- Shrinking
    Tagged = {1, 2}
    Sized = {1}
    ChunkSize = 1
    Tries = 2
    Modes <- MCModes
    MayReturn = FALSE
    OtherSuccess = FALSE
    MaxIgnored = 1
INVARIANTS
    TransferInv
    ResumedSegmentsExact
    ContinuesWhereItStopped
    ResumedRangeExact
PROPERTY
    OutputIsAtomic
CHECK_DEADLOCK FALSE
