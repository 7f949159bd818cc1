SPECIFICATION TerminatingSpec
CONSTANTS
    UID_BITS = 3
    PowerOfTwo <- MCPowerOfTwo
    TOD_TABLE_SIZE = 3
    MAX_PORTS = 1
    Devices <- MCDevices
    UNMUTE_COUNTER = 3
    MUTE_COUNTER = 3
    DISCOVERY_COUNTER = 3
    QUIKFIND_COUNTER = 3
    QUIKFIND_DISCOVERY_COUNTER = 3
    Noise <- MCUnreadable
    MaxFaults = 2
    MaxReplugs = 0
INVARIANTS FinishedComplete
PROPERTIES PresentStay Terminates
