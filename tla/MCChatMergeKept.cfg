SPECIFICATION MCSpec
CONSTANTS
    Msg = {1, 2}
    Saver = {1}
    MaxChats = 3
    MaxUnread = 1
    MaxBatch = 1
    MaxEvents = 0
INVARIANT MessagesKept
CHECK_DEADLOCK FALSE
