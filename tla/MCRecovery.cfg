SPECIFICATION Spec
CONSTANTS
    Symbols = {A, B}
    Writers = {w1}
    ChannelCap = 1
    MaxLots = 1
    LoadMayFail = FALSE
    DbMayFail = TRUE
    MaxTradesPerStep = 1
    MaxOrderID = 3
    MaxMatch = 1
    MaxRuns = 2
SYMMETRY Symmetry
INVARIANTS
    TypeOK
    SnapshotClosed
PROPERTIES
    SnapshotsAdvance
    FreshIDs
CHECK_DEADLOCK FALSE
