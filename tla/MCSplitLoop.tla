----------------------------- MODULE MCSplitLoop -----------------------------
EXTENDS SplitLoop, TLC

CONSTANTS k1, k2, k3, k4, k5, k6

SmallDesired == -1 .. 8
KeySymmetry == Permutations(Key)
=============================================================================
