\* The worker and the main thread, which serves the CPP device, side by side.
CONSTANTS
    Threads = {worker, main}
    ImbTables <- MCOneTable
    Requests <- MCFewRequests
    MaxKept = 1
SPECIFICATION AreasSpec
INVARIANT OneAreaPerBar
