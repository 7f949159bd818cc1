SPECIFICATION LiveSpec
CONSTANTS
    UID_BITS = 3
    PowerOfTwo <- MCPowerOfTwo
    TOD_TABLE_SIZE = 3
    MAX_PORTS = 3
    Devices <- MCDevices
    UNMUTE_COUNTER = 1
    MUTE_COUNTER = 2
    DISCOVERY_COUNTER = 2
    QUIKFIND_COUNTER = 2
    QUIKFIND_DISCOVERY_COUNTER = 2
    Noise <- MCNoise
    MaxFaults = 0
    MaxReplugs = 0
    OutputPorts = {0, 2}
    TodControls = {"ATC_FLUSH", "ATC_END", "ATC_INCON", "ATC_INCOFF"}
    MaxTodControls = 1
    MaxArtRdms = 1
PROPERTIES ScanTerminates EveryPortScanned
