SPECIFICATION Spec
CONSTANTS
    Clients = {c1, c2}
    Symbols = {A}
    BufferSize = 1
    MaxBatch = 2
    MaxMessages = 2
    MaxControls = 3
SYMMETRY Symmetry
INVARIANTS
    TypeOK
    InOrder
    NoZombies
    FramesTyped
PROPERTIES
    SilentAfterUnregister
CHECK_DEADLOCK FALSE
