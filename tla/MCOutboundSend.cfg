SPECIFICATION MCSpec
CONSTANTS
    Messages = 2
    Replica = {r1, r2}
    Generation = {1, 2}
    Limit = 1
    Attempts = 2
    Stalls = 1
    NoMsg = NoMsg
    NoOwner = NoOwner
    MaxFaults = 2
    First = r1
INVARIANTS DuplicateSendHasCause SendInv StaleSendsBounded OvertakenHasCause
PROPERTY EveryMessageEnds
CHECK_DEADLOCK FALSE
