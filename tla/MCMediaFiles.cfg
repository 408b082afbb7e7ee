SPECIFICATION MCSpec
CONSTANTS
    m1 = m1
    s1 = s1
    x = x
    Session = {s1, s2}
    Message = {m1, m2}
    NoMessage = NoMessage
    Sum = {x, y}
    DownloadAttempts = 2
    MaxFiles = 2
    MaxFaults = 1
    MaxRequests = 3
INVARIANTS MediaInv NoneLeft
CHECK_DEADLOCK FALSE
