SPECIFICATION Spec
CONSTANTS
  Threads = {main, other}
  Main = main
  Sampler = sampler
  None = none
  MaxTaken = 2
  MaxFiles = 2
  MaxHooks = 3
INVARIANTS
  HooksAllRun
  BlockSampled
  LostOnlyByFinalize
\* The bounds may be reached.
CHECK_DEADLOCK FALSE
