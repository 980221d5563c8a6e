SPECIFICATION FairSpec
CONSTANTS
    u1 = u1
    u2 = u2
    u3 = u3
    initproc = initproc
    idleproc = idleproc
    NoProc = NoProc
    AnyChild = AnyChild
    Proc <- MCProc
    Killable <- MCKillable
    MAX_PROCESS = 5
    MAX_TIME_SLICE = 1
CHECK_DEADLOCK FALSE
INVARIANTS
    FamilyTree
    NoExitMissed
    InitFinishesLast
PROPERTY
    InitKeepsReaping
