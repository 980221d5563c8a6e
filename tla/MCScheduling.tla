---------------------------- MODULE MCScheduling ----------------------------
EXTENDS Scheduling

CONSTANTS u1, u2, k1

MCProc == {u1, u2, k1}
MCKThread == {k1}
=============================================================================
