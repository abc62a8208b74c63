SPECIFICATION Spec
CONSTANTS
    MaxLevels = 2
    OrdersPerLevel = 1
    RefPrice = 3
    AddTicks = 2
    ReplenishTicks = 1
    ReplaceTicks = 1
    MaxLots = 2
    MinReplenishLots = 2
    IsStress = FALSE
    MaxStressActions = 1
    MaxPrice = 3
    MaxOrderID = 6
    MaxMatch = 1
INVARIANTS
    TypeOK
    BookConsistent
    LadderOrdered
    MirrorCoversBook
    NoOverExecution
    InsertIsSort
PROPERTIES
    PriorityKept
    LeaksOnlyByReplace
    RefinesPriceTimeBook
