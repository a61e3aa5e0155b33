--------------------------- MODULE MCObjectGraph ---------------------------
\* A program of a few objects that changes between and within two snapshots.
EXTENDS ObjectGraph, TLC

CONSTANTS x, y, z

IdSymmetry == Permutations(Ids)

=============================================================================
