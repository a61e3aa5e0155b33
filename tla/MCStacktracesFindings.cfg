SPECIFICATION Spec
CONSTANTS
  s1 = s1
  s2 = s2
  s3 = s3
  none = none
  Ops = {"all", "exception"}
  Sources = {s1, s2}
  Root = s1
  NoSource = none
  MaxFrames = 2
  Tracebacks <- MCStacks
  Limits = {1, 3}
  MaxChain = 2
SYMMETRY SourceSymmetry
\* TLC stops at the first that fails: the README has them one by one.
INVARIANTS
  FiltersSetNoFlag
  FlagOfSnapshot
  FullChain
\* The capture ends.
CHECK_DEADLOCK FALSE
