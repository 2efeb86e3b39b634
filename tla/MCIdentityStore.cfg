SPECIFICATION Spec
CONSTANTS
    Processes = {p1, p2}
    Identities = {i1, i2, i3}
    Passphrases = {s1, s2}
    Accounts = {u1, u2}
    NoSecret = NoSecret
    NoFile = NoFile
INVARIANTS
    RunsAsStored
PROPERTIES
    IdentityKept
    NeverRuined
    ProtectionKept
