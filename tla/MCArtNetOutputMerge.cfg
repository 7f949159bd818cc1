SPECIFICATION Spec
CONSTANTS
    SLOTS = 2
    LEVELS = 1
    MAX_PORTS = 1
    PortAddress <- OwnAddress
    Controllers = {c1, c2, c3}
    NoIp = NoIp
    Physicals = {0, 1}
    NoPhysical = NoPhysical
    Frames <- LongAndShort
    Commands = {"CANCEL", "MERGE_LTP"}
    DisableMergeTimeout = FALSE
    FailSafe = "LAST_STATE"
    MERGE_TIMEOUT = 1
    NETWORK_DATA_LOSS_TIMEOUT = 2
    SYNC_TIMEOUT = 1
    MaxSilence = 2
    c1 = c1
    c2 = c2
    c3 = c3
INVARIANTS TypeOK HtpIsHighest TwoStreams
PROPERTIES NoEviction PendingHasData
SYMMETRY AnyController
