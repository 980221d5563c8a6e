----------------------------- MODULE MCProcess -----------------------------
EXTENDS Process

CONSTANTS u1, u2, u3

MCProc == {initproc, u1, u2, u3}
MCKillable == {u1}
=============================================================================
