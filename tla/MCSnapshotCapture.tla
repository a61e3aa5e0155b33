------------------------- MODULE MCSnapshotCapture -------------------------
\* Two Python threads (one where liveness is checked), the sampling thread and
\* the timer.
EXTENDS SnapshotCapture, TLC

CONSTANTS c1, c2

CallerSymmetry == Permutations(Callers)

=============================================================================
