SPECIFICATION FairSpec
CONSTANTS
    p1 = p1
    p2 = p2
    p3 = p3
    idleproc = idleproc
    Proc <- MCProc
    MAX_TIME_SLICE = 1
    MaxTicks = 3
INVARIANTS
    TimersLiveInDoSleep
PROPERTIES
    SleepEnds
    AlarmSpec
