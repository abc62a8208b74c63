SPECIFICATION FairSpec
CONSTANTS
    DayLen = 2
    MaxAge = 2
    Interval = 1
    Retention = 4
    MaxBytes = 2
    MaxDelay = 2
    MaxTime = 7
    MaxTrades = 3
    MaxFailures = 3
INVARIANTS TypeOK NothingVanishes CursorPassesNothing
PROPERTIES RotatesOldestFirst PrunedAreArchived ArchiverCatchesUp
