\* Host processes start, fail, die and start again beside other users of the
\* service processor.
\* The processes may all have ended: starts are bounded.
CHECK_DEADLOCK FALSE
SPECIFICATION StartupSpec

CONSTANTS
    Hosts <- MCHosts
    Interface <- MCInterface
    Processes = {"p1", "p2"}
    Ports = {1}
    Disabled = {}
    Minors = {16}
    Operations <- MCOperations
    MaxPolls = 1
    MAX_MEMZONES = 4
    MaxFetches = 1
    MaxStarts = 1
    MaxDeaths = 1
    Machines <- MCMachines
    Firmwares <- MCFirmwares
    FwinfoCount1 = 1
    FwinfoCount2 = 2
    MetaSize = 8

INVARIANTS
    NspExclusive
    AnswerIsOwn
    BufferBelongs
    ConfiguredZones

PROPERTIES
    BuffersStay
    StartupEnds
