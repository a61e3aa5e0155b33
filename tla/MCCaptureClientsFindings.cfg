SPECIFICATION Spec
CONSTANTS
  Threads = {main, other}
  Main = main
  Sampler = sampler
  None = none
  MaxTaken = 2
  MaxFiles = 2
  MaxHooks = 3
\* TLC stops at the first that fails: the README has them one by one.
INVARIANTS
  CallbackTruthful
  EventNamesItsFile
CHECK_DEADLOCK FALSE
