SPECIFICATION Spec
CONSTANTS
    s1 = s1
    s2 = s2
    s3 = s3
    s4 = s4
    Sockets = {s1, s2, s3, s4}
    NoSocket = NoSocket
    MAX_PAIRS = 2
    MAX_FRAME_BYTES = 1
    MAX_SESSION_BYTES = 1
    MAX_SESSION_MS = 2
    MAX_UNPAIRED_MS = 1
    Horizon = 2
SYMMETRY SocketSymmetry
INVARIANTS
    PairsAreMates
PROPERTIES
    OnlyOwnConversation
    SurvivorIsTold
    StandbyKept
