------------------------------ MODULE MCStride ------------------------------
EXTENDS Stride

CONSTANTS p1, p2, p3

MCProc == {p1, p2, p3}
MCPriority == {1, 2, 7}
UserPriority == {1, 2}   \* two of those that user/priority.c sets
=============================================================================
