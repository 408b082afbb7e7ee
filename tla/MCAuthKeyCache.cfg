SPECIFICATION KeysSpec
CONSTANTS
    Keys = {identity, prekey}
    SerialKeys = {identity}
    Values = {v1, v2}
    None = None
    Miss = Miss
    Caller = {c1, c2}
    MaxFaults = 1
SYMMETRY Symm
INVARIANTS CacheInv
PROPERTY ImplementsStore
