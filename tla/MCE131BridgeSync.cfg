SPECIFICATION Spec
CONSTANTS
    SLOTS = 1
    LEVELS = 1
    MAX_PORTS = 2
    PortUniverse <- OwnUniverse
    Senders = {s1}
    None = None
    Packets <- SyncPackets
    Cleared = {0}
    SEQUENCE = 2
    WINDOW = 1
    SyncAddresses = {7, 8}
    Ltp = TRUE
    DisableMergeTimeout = FALSE
    FailSafe = "HOLD"
    MERGE_TIMEOUT = 2
    PRIORITY_TIMEOUT = 2
    DATA_LOSS_TIMEOUT = 2
    Single = s1
    s1 = s1
PROPERTIES BufferedUntilSync SilenceStops
