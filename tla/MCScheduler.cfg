SPECIFICATION Spec
CONSTANTS
    c1 = c1
    c2 = c2
    t1 = t1
    t2 = t2
    t3 = t3
    CPU = {c1, c2}
    Thread = {t1, t2}
    NoOne = NoOne
    Bsp = t1
    Boot = c1
    Nice <- AllNormal
    Masked <- NoMask
    MaxCritical = 1
INVARIANTS
    OneCPUPerThread
    NoDanglingThread
