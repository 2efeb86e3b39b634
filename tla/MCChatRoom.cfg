SPECIFICATION Spec
CONSTANTS
    Guests = {g1, g2}
    HOST = HOST
    Names = {"n"}
    None = None
    MaxCommands = 1
SYMMETRY GuestSymmetry
INVARIANTS
    RoomConsistent
    RefusedSeesNothing
    RosterSettles
CHECK_DEADLOCK FALSE
