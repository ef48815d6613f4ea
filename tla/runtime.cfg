SPECIFICATION FairSpec
CONSTANTS
    c1 = c1
    c2 = c2
    s1 = s1
    s2 = s2
    Stop = Stop
    Callers = {c1, c2}
    Shutters = {s1, s2}
    Capacity = 2
    MaxCalls = 3
INVARIANTS RuntimeInv RetiredBeforeReply ShutdownIsQuiet
PROPERTY CallsEnd
CHECK_DEADLOCK FALSE
