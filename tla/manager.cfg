SPECIFICATION Spec
CONSTANTS
    u1 = u1
    u2 = u2
    admin = admin
    Users = {u1, u2}
    Admin = admin
    None = None
    Versions = {1, 2}
    Settings = {0, 1}
    Entries = {1, 2, 3}
    Vms = {1, 2, 3, 4}
    AccountMode = TRUE
    Screens = TRUE
    MaxOps = 2
    MaxEvents = 1
INVARIANTS ManagerInv QuietRemoval PressureHolds SourceKept ShutdownIsQuiet
PROPERTY BorrowersLeaveDataGone
SYMMETRY Alike
CHECK_DEADLOCK FALSE
