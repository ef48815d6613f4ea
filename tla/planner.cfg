SPECIFICATION FairSpec
CONSTANTS
    t1 = t1
    t2 = t2
    i1 = i1
    x1 = x1
    y1 = y1
    p1 = p1
    p2 = p2
    None = None
    Threads = {t1, t2}
    Items = {i1}
    Paths = {x1, y1}
    Providers = {p1, p2}
    Requests <- MCRequests
    Elsewhere <- Crossing
    Priority <- MCPriority
    Allowed = {p1, p2}
    Strict = {p2}
    OldFiles = {y1}
    MaxRequests = 2
    MaxEvents = 1
INVARIANTS PlannerInv NoGhostProgress SourceKept
PROPERTIES OldFilesKept RequestsEnd
CHECK_DEADLOCK FALSE
