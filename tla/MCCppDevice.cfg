\* Two clients at a table with place for both.
CONSTANTS
    Clients = {tool, other}
    Calls <- MCCalls
    MaxCalls = 2
    MAX_CONNECTIONS = 3
    FreeBars = 2
    Boundary = 9
    Window = 9
    Heap = 26
    IntLimit = 27
    OffsetSpace = 8
SPECIFICATION DeviceSpec
CHECK_DEADLOCK FALSE
INVARIANTS
    StreamsInStep
    StopsOnlyAfterEnd
    WaitsOnlyForSender
PROPERTY CallsReturn
