SPECIFICATION StreamSpec
CONSTANTS
    MaxFrameBytes = 2
    CONTROL = 1
    INFLIGHT = 2
    SOCKET = 1
    MaxIn = 3
    MaxOut = 3
INVARIANTS
    StreamConsistent
CHECK_DEADLOCK FALSE
PROPERTIES
    StreamIn
    StreamOut
    AllDelivered
