SPECIFICATION Spec
CONSTANTS
    k1 = k1
    k2 = k2
    Keys = {k1, k2}
    NoEntry = NoEntry
    ENTRY_TTL = 1
    TOMBSTONE_TTL = 2
    MAX_CLOCK_SKEW = 1
    MaxHandlers = 2
    Horizon = 4
    MaxRequests = 2
SYMMETRY KeySymmetry
INVARIANTS
    FreshListing
    SealedByOwner
    NoResurrection
PROPERTIES
    HandleKeyStable
CHECK_DEADLOCK FALSE
