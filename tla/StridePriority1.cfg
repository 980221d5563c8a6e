SPECIFICATION FairSpec
CONSTANTS
    p1 = p1
    p2 = p2
    p3 = p3
    idleproc = idleproc
    NULL = NULL
    Proc <- MCProc
    Priority <- UserPriority
    Width = 3
PROPERTY
    BiggerValueGetsMore
