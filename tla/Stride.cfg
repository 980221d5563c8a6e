SPECIFICATION FairSpec
CONSTANTS
    p1 = p1
    p2 = p2
    p3 = p3
    idleproc = idleproc
    NULL = NULL
    Proc <- MCProc
    Priority <- MCPriority
    Width = 3
INVARIANTS
    HeapWellFormed
PROPERTIES
    SharesFollowPriority
    NoStarvation
