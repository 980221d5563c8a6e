SPECIFICATION FairSpec
CONSTANTS
    p1 = p1
    p2 = p2
    p3 = p3
    idleproc = idleproc
    NoSem = NoSem
    Proc <- MCProc
    Nappers <- MCNappers
    Sem <- MCSem
    Before <- MCBefore
    initial <- MCInitial
    MAX_TIME_SLICE = 1
INVARIANTS
    TokensConserved
    NoTokenIgnored
    QueuedAreAsleep
    NoPanic
PROPERTIES
    DownEventuallyReturns
    CountingSpec
