CONSTANTS
    FlCpus = {1, 2}
    FlThreads = {t1, t2}
    FlIdle = 0
    FlDepth = 1
SPECIFICATION FlSpec
INVARIANT ExitInterruptible
CHECK_DEADLOCK FALSE
