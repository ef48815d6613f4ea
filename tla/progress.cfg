SPECIFICATION Spec
CONSTANTS
    a = a
    b = b
    c = c
    u = u
    Ids <- MCIds
    Clients <- MCClients
    TombstoneLimit = 1
    UpdateBytes = 2
    Full = 4
    Reports <- ManyReports
    Receipts <- ManyReceipts
    MaxSeq = 4
SYMMETRY Symmetry
INVARIANTS TypeOK ReplicaExact DeltaConsistent SnapshotFresh
