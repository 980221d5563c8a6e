------------------------------ MODULE MCStdin -------------------------------
EXTENDS Stdin

CONSTANTS p1, p2, p3, a, b

MCProc == {p1, p2, p3}
MCChar == {a, b}

Symmetry == Permutations(MCProc)
=============================================================================
