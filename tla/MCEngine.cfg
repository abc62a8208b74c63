SPECIFICATION FairSpec
CONSTANTS
    A = A
    Z = Z
    Symbols = {A}
    Blitz = Z
    Sectors <- TwoSectors
    SectorOf <- Sector
    StressConfig <- DefaultStressConfig
    Lasts <- Durations
    RawIntensity <- Intensities
    MaxPrice = 2
    MaxPause = 1
    MaxTurns = 3
    MaxRetries = 1
INVARIANTS
    DeviatesOnce
    FreshShocks
    InputsInRange
PROPERTIES
    TickReturns
CHECK_DEADLOCK FALSE
