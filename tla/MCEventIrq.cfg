CONSTANTS
    EvThread = {t1, t2}
    Irq = {t1}
SPECIFICATION EvSpec
INVARIANT RaiseUnblocksAll
CHECK_DEADLOCK FALSE
