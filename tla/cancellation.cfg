SPECIFICATION CancelFairSpec
CONSTANTS
    a = a
    b = b
    l1 = l1
    l2 = l2
    NoId = NoId
    Requests <- MCRequests
    Leases <- MCLeases
    MaxGeneration = 2
    MaxNotifiers = 2
INVARIANTS CancelTypeOK ReferencesExact ViewsAgree
PROPERTIES CancelSticks NoLostWakeup
