SPECIFICATION FairSpec
CONSTANTS
    Replica = {r1, r2}
    NoOwner = NoOwner
    Ttl = 5
    Fence = 1
    HbPeriod = 1
    WdLimit = 2
    WdPeriod = 1
    Latency = 0
    SetupMax = 0
  
PROPERTIES Settles TheftOnlyInFence
