SPECIFICATION Spec
CONSTANTS
    DayLen = 4
    Step = 2
    MaxAge = 1
    Retention = 5
    DefaultLimit = 2
    MaxLimit = 3
    Today = 8
    Past <- PastTrades
    Asked <- Requests
    MaxTime = 9
    MaxInserts = 1
    MaxPages = 4
    MaxFailures = 1
INVARIANTS
    TypeOK
    PagesDescend
    NothingSkipped
    TradePageExact
CHECK_DEADLOCK FALSE
