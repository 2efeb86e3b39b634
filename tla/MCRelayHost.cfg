SPECIFICATION HostSpec
CONSTANTS
    s1 = s1
    s2 = s2
    s3 = s3
    Sockets = {s1, s2, s3}
    NoSocket = NoSocket
    MAX_PAIRS = 1
    MAX_FRAME_BYTES = 1
    MAX_SESSION_BYTES = 1
    MAX_SESSION_MS = 2
    MAX_UNPAIRED_MS = 1
    Horizon = 2
    RELAY_WAIT = 1
    RETRY_MIN = 1
    RETRY_MAX = 1
    MaxFaults = 1
INVARIANTS
    NoUnreadConnection
PROPERTIES
    KeepsReachable
