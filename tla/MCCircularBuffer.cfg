CONSTANTS
    Thread = {t1, t2}
    NoOne = NoOne
    Size = 3
    MaxLen = 2
    MaxBytes = 4
SPECIFICATION FairSpec
INVARIANTS
    BothWaitOnlyAtWrap
PROPERTIES
    ImplementsFifo
    InterruptedWriteReturns
CHECK_DEADLOCK FALSE
