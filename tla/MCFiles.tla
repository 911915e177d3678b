------------------------------- MODULE MCFiles -------------------------------
EXTENDS CheckpointFiles, TLC

CONSTANTS r1, r2, s1

BothOfOneSession == [r \in RunIds |-> s1]

Symmetry == Permutations(RunIds)
=============================================================================
