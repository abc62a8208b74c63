SPECIFICATION Spec
CONSTANTS
    DayLen = 4
    Step = 2
    MaxAge = 1
    Retention = 6
    DefaultLimit = 2
    MaxLimit = 9
    Today = 8
    Past <- PastTrades
    Asked <- AllTrades
    MaxTime = 9
    MaxInserts = 0
    MaxPages = 1
    MaxFailures = 0
INVARIANTS TradesSpanStores
CHECK_DEADLOCK FALSE
