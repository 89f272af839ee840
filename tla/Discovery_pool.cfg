SPECIFICATION FairSpec
CONSTANTS
    Locals <- MCLocals
    Neighbors <- MCNeighbors
    Ports <- MCPorts
    HostLimit = 254
    Workers = {w1, w2}
    Capacity = 2
    Found <- MCFound
    CanCancel = TRUE
INVARIANTS
    ClosedIsQuiet
    ScanComplete
    VerifiedFirst
PROPERTY ScanReturns
CHECK_DEADLOCK FALSE
