SPECIFICATION MCSpec
CONSTANTS
    Msg = {1, 2}
    Saver = {1, 2}
    MaxChats = 4
    MaxUnread = 1
    MaxBatch = 1
    MaxEvents = 1
INVARIANTS MergeInv OneChat UnreadIsDue
PROPERTY AllStored
CHECK_DEADLOCK FALSE
