\* One thread: what the library promises to a caller that is alone in it.
CONSTANTS
    Threads = {worker}
    ImbTables <- MCImbTables
    Requests <- MCRequests
    MaxKept = 1
SPECIFICATION AreasSpec
INVARIANTS
    OneAreaPerBar
    BarsAccounted
    AccessReachesRequest
    TranslationKeepsRest
