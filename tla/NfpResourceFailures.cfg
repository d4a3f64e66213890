CONSTANTS
    Interfaces = {i1, i2}
    NoInterface = NoInterface
    DevMutex = dev
    Mutexes = {dev, r1, r2}
    Resources = {r1, r2, r3}
    Table = {r1, r2}
    MUTEX_DEPTH_MAX = 2
    MaxUsage = 2
    MAX_TRIES = 2
    Failures = TRUE
SPECIFICATION ResourceSpec
INVARIANT OneOwner
INVARIANT TableGuarded
INVARIANT HandlesReturned
INVARIANT Exclusion
PROPERTY UndisturbedHold
