---------------------------- MODULE MCSemaphore ----------------------------
EXTENDS Semaphore

CONSTANTS p1, p2, p3

MCProc == {p1, p2, p3}
MCNappers == {p1, p2}
MCSem == {1}
MCBefore(s, t) == s < t
MCInitial == [s \in MCSem |-> 1]
=============================================================================
