SPECIFICATION MCSpec
CONSTANTS
    Chunk = {c1, c2}
    Latest = {c2}
    Attempts = 2
    MaxFaults = 2
INVARIANTS SyncInv
 
CHECK_DEADLOCK FALSE
