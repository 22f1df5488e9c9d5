CONSTANTS
    Process = {root, p1}
    Thread = {t1, t2, t3}
    Root = root
    NoOne = NoOne
    MaxPending = 1
SPECIFICATION ExecSpec
INVARIANTS
    ExecCounted
PROPERTIES
    ExitCompletes
CHECK_DEADLOCK FALSE
