CONSTANTS
    CkCpus = {1}
    CkThreads = {11}
    CkNoOne = 0
    CkCallers = {}
    CkTurn = 3
    CkNs = 5
    CkPer = 2
    CkMax = 0
    CkMaxCalls = 0
    CkFirstYear = 1999
    CkLastYear = 2001
SPECIFICATION DateSpec
INVARIANT EpochIsUnix
CHECK_DEADLOCK FALSE
