--------------------------- MODULE MCPhilosophers ---------------------------
EXTENDS Philosophers

MCProc == 0 .. N - 1 \cup {initproc}
MCSem  == 0 .. N - 1 \cup {mutex}
=============================================================================
