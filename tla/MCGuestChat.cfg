SPECIFICATION MCSpec
CONSTANTS
    Endpoints = {e1, e2}
    Lan = Lan
    Relay = Relay
    NoConn = NoConn
    Target = Target
    Others = {other}
    NoID = NoID
    INCOMING = 1
    TRANSPORT = 1
    MaxPackets = 3
    MaxLines = 1
    MaxRekeys = 1
INVARIANTS
    GuestConsistent
    ChatsWithTarget
    NothingSkipped
    LastWordsShown
CHECK_DEADLOCK FALSE
PROPERTIES
    NothingLeftBehind
    KeepsReading
