SPECIFICATION Spec
CONSTANTS
  s1 = s1
  s2 = s2
  s3 = s3
  none = none
  Ops = {"take", "frame", "all", "exception"}
  Sources = {s1, s2, s3}
  Root = s1
  NoSource = none
  MaxFrames = 2
  Tracebacks <- MCTracebacks
  Limits = {0, 1, 2, 3}
  MaxChain = 2
SYMMETRY SourceSymmetry
INVARIANTS
  TracesFaithful
  UnflaggedComplete
  ChainRebuilt
\* The capture ends.
CHECK_DEADLOCK FALSE
