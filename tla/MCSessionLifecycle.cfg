SPECIFICATION FairSpec
CONSTANTS
    MaxRetries = 1
    Max428 = 2
    MaxCredFails = 1
    RestartAttempts = 2
    MaxFaults = 3
    DeleteFaults = 1
INVARIANT LifeInv
PROPERTIES NoSocketLeak DownOnlyIfOrphaned 
CHECK_DEADLOCK FALSE
