CONSTANTS
    Interfaces = {i1, i2}
    NoInterface = NoInterface
    DevMutex = dev
    Mutexes = {dev, r1}
    Resources = {r1, r2}
    Table = {r1}
    MUTEX_DEPTH_MAX = 2
    MaxUsage = 2
    MAX_TRIES = 2
    Failures = FALSE
SPECIFICATION ResourceSpec
PROPERTY BusyIsRetried
