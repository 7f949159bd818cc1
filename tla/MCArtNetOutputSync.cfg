SPECIFICATION HtpSpec
CONSTANTS
    SLOTS = 1
    LEVELS = 1
    MAX_PORTS = 2
    PortAddress <- OwnAddress
    Controllers = {c1, c2}
    NoIp = NoIp
    Physicals = {0}
    NoPhysical = NoPhysical
    Frames <- OneSlot
    Commands = {"CLR"}
    DisableMergeTimeout = FALSE
    FailSafe = "LAST_STATE"
    MERGE_TIMEOUT = 0
    NETWORK_DATA_LOSS_TIMEOUT = 2
    SYNC_TIMEOUT = 1
    MaxSilence = 1
    c1 = c1
    c2 = c2
INVARIANTS MergingPortKnown
PROPERTIES BufferedUntilSync
SYMMETRY AnyController
