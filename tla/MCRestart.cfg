SPECIFICATION Spec
CONSTANTS
    MaxLevels = 2
    OrderSides = {"S"}
    Prices = {1, 2, 3}
    MaxLots = 2
    MaxOrderID = 3
    MaxSaves = 2
    MaxRuns = 2
INVARIANTS
    RestoredBook
PROPERTIES
    RowsBetween
CHECK_DEADLOCK FALSE
