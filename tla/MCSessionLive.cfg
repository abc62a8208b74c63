SPECIFICATION FairSpec
CONSTANTS
    Clients = {c1}
    Symbols = {A, B}
    BufferSize = 1
    MaxBatch = 2
    MaxMessages = 2
    MaxControls = 2
PROPERTIES
    BroadcastReturns
    GoneClientsLeave
CHECK_DEADLOCK FALSE
