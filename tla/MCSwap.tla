------------------------------- MODULE MCSwap -------------------------------
EXTENDS Swap, TLC

CONSTANTS f1, f2, f3, a, b

MCVirt == 1 .. 4
MCFrame == {f1, f2, f3}
MCValue == {a, b}
MCManager == {"fifo", "clock", "lru"}
MCSymmetry == Permutations(MCFrame)
=============================================================================
