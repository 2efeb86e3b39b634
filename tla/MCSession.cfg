SPECIFICATION MCSpec
CONSTANTS
    MaxSkip = 2
    MaxSkipStore = 2
    MaxCount = 4
    MaxSteps = 3
    MaxSent = 6
    MaxReplies = 3
INVARIANTS
    NoReplay
    NoKeyReuse
    UnopenedRecordOpens
    ChainsAgree
CHECK_DEADLOCK FALSE
PROPERTIES
    OnceEach
