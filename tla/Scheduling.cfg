SPECIFICATION FairSpec
CONSTANTS
    u1 = u1
    u2 = u2
    k1 = k1
    idleproc = idleproc
    Proc <- MCProc
    KThread <- MCKThread
    MAX_TIME_SLICE = 2
INVARIANTS
    RunQueueExact
    CurrentCanRun
    SliceBounded
PROPERTY
    NoStarvation
