CONSTANTS
    Interfaces = {i1, i2, i3}
    NoInterface = NoInterface
    DevMutex = dev
    Mutexes = {dev, r1}
    Resources = {r1, r2}
    Table = {r1}
    MUTEX_DEPTH_MAX = 2
    MaxUsage = 2
    MAX_TRIES = 2
    Failures = FALSE
SPECIFICATION FairResourceSpec
INVARIANT LocksReturned
INVARIANT HeldOrRecoverable
PROPERTY TableComesFree
