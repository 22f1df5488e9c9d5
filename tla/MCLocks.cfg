SPECIFICATION KernelSpec
CONSTANTS
    LkThreads = {1, 2, 3}
    LkCpuCounts = {1, 2}
    LkPlans <- MCLkPlans
    MqWriters = {"w1", "w2"}
    MqMaxWaiting = 9
    MqLen = 2
    MqRequests = 3
    SgIds = {10, 15, 17}
    SgMax = 3
    ArThreads = {"t1", "t2"}
    ArObjects = {1, 2, 3}
    ArNull = 0
INVARIANTS
    HoldersCanRelease
    RequestsServed
    
    IterationComplete
PROPERTIES
    LocksReleased
CHECK_DEADLOCK FALSE
