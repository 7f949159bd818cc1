CONSTANTS
    p1 = p1
    Peers = {p1}
    Nobody = Nobody
    TCBS = 2
    MODULUS = 32
    WINDOW = 2
    PEER_WINDOW = 1
    QUEUE = 1
    Clock = {31}
    REQUEST = 3
    Methods = {"POST"}
    HEADER = 1
    CONTENT = 1
    Connections = {1}
    TO_SERVER = 2
    TO_PEER = 1
    Isn <- MCIsn
    Strays <- MCStrays
SPECIFICATION Spec
CHECK_DEADLOCK FALSE
PROPERTY RequestArrives
