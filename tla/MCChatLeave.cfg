SPECIFICATION Spec
CONSTANTS
    Guests = {g1, g2}
    HOST = HOST
    Names = {"n"}
    None = None
    MaxCommands = 0
PROPERTIES
    EndedIsRemoved
CHECK_DEADLOCK FALSE
