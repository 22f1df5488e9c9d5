SPECIFICATION NetSpec
CONSTANTS
    SeqSpace = 16
    Iss <- IssOf
    Plans <- PlanSet
    TxSize = 3
    RxSize = 4
    Slack = 1
    MinMss = 1
    MaxMss = 1
    Retries = 1
    Backlog = 1
    ReadLens = {2}
    UdpSock = {u1, u2}
    Ports = 5
    DynFirst = 2
    BindPorts = {1, 4}
    MaxDatagrams = 2
    BufferSize = 1
    Packet = {"p1", "p2"}
    ArpIp = {"a", "b"}
    DstOf <- Dst
    ArpRetries = 1
    MaxTries = 2
    RetxMax = 1
    RetxChunk = 1
    MaxAging = 2
    MaxReplies = 1
    RingSize = 32
    FrameLens = {1, 4, 6}
    MaxFrames = 4
    TxSender = {s1, s2}
    TxBuffers = 2
    TxEach = 2
CONSTRAINT InBitmap
INVARIANTS
    StreamIntact
    DatagramsToOwner
    
    
PROPERTIES
    RetransmissionEnds
CHECK_DEADLOCK FALSE
