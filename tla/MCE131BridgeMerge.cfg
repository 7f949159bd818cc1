SPECIFICATION Spec
CONSTANTS
    SLOTS = 1
    LEVELS = 1
    MAX_PORTS = 2
    PortUniverse <- OwnUniverse
    Senders = {s1, s2, s3}
    None = None
    Packets <- MergePackets
    Cleared = {}
    SEQUENCE = 2
    WINDOW = 1
    SyncAddresses = {}
    Ltp = FALSE
    DisableMergeTimeout = FALSE
    FailSafe = "OFF"
    MERGE_TIMEOUT = 1
    PRIORITY_TIMEOUT = 1
    DATA_LOSS_TIMEOUT = 1
    Single = s1
    s1 = s1
    s2 = s2
    s3 = s3
INVARIANTS TypeOK TwoStreams HtpIsHighest
PROPERTIES NoEviction
SYMMETRY AnySender
