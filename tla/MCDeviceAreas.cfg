\* One client that requests and releases areas in a space of four pages.
CONSTANTS
    Clients = {tool}
    Calls <- MCAreaCalls
    MaxCalls = 5
    MAX_CONNECTIONS = 2
    FreeBars = 4
    Boundary = 2
    Window = 4
    Heap = 26
    IntLimit = 27
    OffsetSpace = 8
SPECIFICATION DeviceSpec
CHECK_DEADLOCK FALSE
INVARIANTS
    AreasDisjoint
