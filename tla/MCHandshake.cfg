SPECIFICATION Spec
CONSTANTS
    i1 = i1
    i2 = i2
    r1 = r1
    r2 = r2
    a = a
    b = b
    m = m
    w = w
    Initiators = {i1, i2}
    Responders = {r1, r2}
    Outsider = Outsider
    Channels = {1, 2, 3}
    Keys = {a, b, m, w}
    IDs <- MCIDs
    Outside = {m}
    SmallOrder = {w}
    Versions = {1, 2}
    SupportedVersions <- MCSupportedVersions
    KeyOf <- MCKeyOf
    Channel <- MCChannel
    ExpectPeerID <- MCExpectPeerID
    DeriveID <- MCDeriveID
    None = None
INVARIANTS
    InitiatorAgrees
    ResponderAgrees
    BothEndsExist
CHECK_DEADLOCK FALSE
