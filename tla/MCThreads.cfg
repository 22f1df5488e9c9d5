SPECIFICATION ThreadsSpec
CONSTANTS
    Process = {root, a, b}
    Thread = {t1, t2, t3}
    Root = root
    NoOne = NoOne
    MaxPending = 1
    EvThread = {hit, a, b}
    Irq = {hit}
    RwThread = {t1, t2, t3}
    RwNoOne = NoOne
    FlCpus = {1, 2}
    FlThreads = {a, b}
    FlIdle = 0
    FlDepth = 2
    CkCpus = {1, 2}
    CkThreads = {11, 12, 13}
    CkNoOne = 0
    CkCallers = {11}
    CkTurn = 3
    CkNs = 5
    CkPer = 2
    CkMax = 4
    CkMaxCalls = 3
    CkFirstYear = 1999
    CkLastYear = 2001
SYMMETRY Sym
INVARIANTS
    ChildrenCollected
    BlockedIsQueued
    FaultCountersExact
    UptimeKept
    
PROPERTIES
    NoReaderAdmittedDuringWrite
