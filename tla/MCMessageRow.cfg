SPECIFICATION MCSpec
CONSTANTS
    Messages = 2
    Own = {1}
    WithMedia = {1}
    Amendments = 2
    Attempts = 2
    MaxEvents = 2
INVARIANTS RowInv  MarksStay PlaceholderReplaced
CHECK_DEADLOCK FALSE
