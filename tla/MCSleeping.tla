----------------------------- MODULE MCSleeping -----------------------------
EXTENDS Sleeping

CONSTANTS p1, p2, p3

MCProc == {p1, p2, p3}
=============================================================================
