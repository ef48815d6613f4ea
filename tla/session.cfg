SPECIFICATION Spec
CONSTANTS
    c1 = c1
    c2 = c2
    Clients = {c1, c2}
    Extension <- MCExtension
    Restored = {{}, {"e1"}}
    Grants = {g1, g2}
    None = None
    MaxSessions = 2
    MaxClears = 1
    MaxCalls = 2
    MaxEvents = 2
INVARIANTS
    SessionInv
    ClearedStaysCleared
PROPERTIES
    NewerSessionKept
    CallsEnd
CHECK_DEADLOCK FALSE
