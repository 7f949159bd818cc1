SPECIFICATION PluggedSpec
CONSTANTS
    UID_BITS = 3
    PowerOfTwo <- MCPowerOfTwo
    TOD_TABLE_SIZE = 3
    MAX_PORTS = 2
    Devices <- MCDevices
    UNMUTE_COUNTER = 1
    MUTE_COUNTER = 3
    DISCOVERY_COUNTER = 3
    QUIKFIND_COUNTER = 3
    QUIKFIND_DISCOVERY_COUNTER = 3
    Noise <- MCNoise
    MaxFaults = 0
    MaxReplugs = 1
    OutputPorts = {0, 1}
    TodControls = {}
    MaxTodControls = 0
    MaxArtRdms = 1
INVARIANTS NodeTypeOK StatusExact
