SPECIFICATION FairSpec
CONSTANTS
    N = 5
    TIMES = 2
    SLEEP_TIME = 2
    initproc = initproc
    idleproc = idleproc
    mutex = mutex
    Proc <- MCProc
    Sem <- MCSem
    MAX_TIME_SLICE = 1
INVARIANTS
    NeighboursNeverEat
    NobodyForgotten
PROPERTIES
    CheckSyncReturns
