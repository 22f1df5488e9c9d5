SPECIFICATION StorageSpec
CONSTANTS
    PhysMaps <- Maps
    PhysRoot = 6
    PhysKernel = 1
    PhysSmall = 3
    PhysByte = 2
    PhysRequests = {1, 2, 3}
    PhysMaxHeld = 5
    PgThreads = {1, 2}
    PgFan <- Fan
    PgUser = 2
    PgFrames = 40
    PgPptrs = 8
    PgPlans <- Plans
    HeapThreads = {1, 2}
    HeapPieces = 5
    HeapSizes = {1, 2}
    HeapSlabs = 2
    HeapCalls = 2
    HeapReallocs = TRUE
    MmThreads = {1, 2}
    MmPages = 3
    MmSlots = 2
    MmFaults = 3
    SectorSize = 2
    BlockSize = 4
    MaxCombo = 2
    FileStart = 1
    FileSize = 13
    ReadLengths = {1, 3, 9}
    Files = {1, 2}
    DirSize = 12
    DirRecords <- Records
    PathChars = {"a", "d", "."}
    PathLimit = 5
    BufferLen = 7
    MaxFilename = 4
    NameLimit = 4
    Bases <- MCBases
    MountPath <- MCMount
    RootTree <- MCRoot
    FtProcs = {1, 2}
    FtFiles = {1, 2, 3, 4}
    FtSlots = {0, 2}
    FtThreads <- MCThreads
INVARIANTS
    FramesAccounted
    
    HeapAccounted
    
    ReadsShowDisk
    PathsResolve
    
CHECK_DEADLOCK FALSE
