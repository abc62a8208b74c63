SPECIFICATION Spec
CONSTANTS
    Symbols = {A}
    Writers = {w1}
    ChannelCap = 1
    MaxLots = 1
    LoadMayFail = FALSE
    DbMayFail = FALSE
    MaxTradesPerStep = 1
    MaxOrderID = 2
    MaxMatch = 2
    MaxRuns = 2
INVARIANT
    NumbersUnique
CHECK_DEADLOCK FALSE
