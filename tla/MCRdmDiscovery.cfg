SPECIFICATION PairSpec
CONSTANTS
    UID_BITS = 3
    PowerOfTwo <- MCPowerOfTwo
    TOD_TABLE_SIZE = 2
    MAX_PORTS = 1
    Devices <- MCDevices
    UNMUTE_COUNTER = 1
    MUTE_COUNTER = 1
    DISCOVERY_COUNTER = 1
    QUIKFIND_COUNTER = 1
    QUIKFIND_DISCOVERY_COUNTER = 1
    Noise <- MCNoise
    MaxFaults = 1
    MaxReplugs = 1
INVARIANTS TypeOK BranchesTile StackBound TodGenuine
