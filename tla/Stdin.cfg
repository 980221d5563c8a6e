SPECIFICATION Spec
CONSTANTS
    p1 = p1
    p2 = p2
    p3 = p3
    a = a
    b = b
    idleproc = idleproc
    Proc <- MCProc
    Char <- MCChar
    MAX_TIME_SLICE = 1
    STDIN_BUFSIZE = 2
    MaxRead = 2
    MaxTyped = 3
SYMMETRY Symmetry
INVARIANTS
    NoInputIgnored
    ShortReadIsKilled
PROPERTIES
    TerminalSpec
