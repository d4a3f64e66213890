\* Two users of the service processor on different interfaces set ports; no
\* process of this program runs.
CHECK_DEADLOCK FALSE
SPECIFICATION StartupSpec

CONSTANTS
    Hosts <- MCSetters
    Interface <- MCSetterInterface
    Processes = {}
    Ports = {1, 2, 3}
    Disabled = {3}
    Minors = {16}
    Operations <- MCSettings
    MaxPolls = 1
    MAX_MEMZONES = 4
    MaxFetches = 1
    MaxStarts = 1
    MaxDeaths = 1
    Machines <- MCMachines
    Firmwares <- MCFirmwares
    FwinfoCount1 = 1
    FwinfoCount2 = 2
    MetaSize = 8

INVARIANTS
    ConfigSticks
    LockReturned
