SPECIFICATION FairSpec
CONSTANTS
    Symbols = {A}
    Writers = {w1}
    ChannelCap = 1
    MaxLots = 2
    LoadMayFail = TRUE
    DbMayFail = TRUE
    MaxTradesPerStep = 2
    MaxOrderID = 1
    MaxMatch = 2
    MaxRuns = 2
INVARIANTS
    TradesAccounted
PROPERTIES
    QueuedTradeSettled
CHECK_DEADLOCK FALSE
