SPECIFICATION Spec
CONSTANTS
    Guests = {g1, g2, g3}
    CAP = 1
    MaxQuits = 1
    MaxTrips = 1
INVARIANTS
    OnlyQuitLoses
PROPERTIES
    Answered
CHECK_DEADLOCK FALSE
