SPECIFICATION DevicesSpec
CONSTANTS
    SmCpus = {0, 1, 2}
    SmOps = 1
    IrPins <- MCIrPins
    IrLegacy = 6
    IrOverrides <- MCIrOverrides
    IrCpuCounts = {1, 2, 3}
    LdBoot <- MCLdBoot
    LdFiles <- MCLdFiles
    LdMaxDir = 4
    LdKernel <- MCLdKernel
    LdDotNames = {".text", ".note"}
    LdReach = 3
    LdMaxAddr = 4
    PcThreads = {"t1", "t2", "t3"}
    PcBars <- MCPcBars
    PcSystem <- MCPcSystem
    DvPci <- MCDvPci
    DvBoot <- MCDvBoot
    DvCore <- MCDvCore
    DvLetters = 2
    SaThreads = {"t1", "t2"}
    SaSlots = 2
    SaPage = 4
    SaMaxPrts = 4
    SaBuffers <- MCSaBuffers
    InNormal <- MCInNormal
    InExtra <- MCInExtra
    InLetters = {"a"}
    InHandleSize = 2
    InTtySize = 1
    InMaxEvents = 4
    TmTokens <- MCTmTokens
    TmSmall <- MCTmSmall
    TmLarge <- MCTmLarge
    TmArgs = 2
    TmDigits = 3
    TmMaxTokens = 4
INVARIANTS
    
    
    ModulesLinked
    
    DevicesBound
    
    
    
PROPERTIES
    PacketsDelivered
CHECK_DEADLOCK FALSE
