SPECIFICATION Spec
CONSTANTS
    Actors = {a1, a2, a3}
    alice = alice
    bob = bob
    k1 = k1
    k2 = k2
    k3 = k3
    NoKey = NoKey
    IDs <- MCIDs
    Keys <- MCKeys
    IDOf <- MCIDOf
INVARIANTS
    FirstContactTruthful
PROPERTIES
    KeepsPromise
