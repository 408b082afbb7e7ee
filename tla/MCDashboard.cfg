SPECIFICATION MCSpec
CONSTANTS
    a = a
    b = b
    Chat = {a, b}
    NoChat = NoChat
    Page = 1
    MaxIterations = 4
INVARIANTS DashboardInv   
CHECK_DEADLOCK FALSE
