SPECIFICATION LiveSpec
CONSTANTS
    Clients = {c1, c2}
    Strangers = {s1}
    Stranger = s1
    s1 = s1
    Strays <- MCStrays
    None = None
    Size <- MCSize
    Valid = {c1, c2}
    Refused = {c1}
    c1 = c1
    c2 = c2
    Large = c2
    BLOCK = 2
    Blocks = 2
    FLASH = 5
    MaxUp = 2
    MaxDown = 1
    MaxEntries = 2
    MaxStrays = 1
    MaxSessions = 2
INVARIANTS TypeOK PortsExact
PROPERTIES InstallsWhole TransferEnds
