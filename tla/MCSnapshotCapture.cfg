SPECIFICATION Spec
CONSTANTS
  c1 = c1
  c2 = c2
  Callers = {c1, c2}
  Sampler = sampler
  None = none
  Offered = {"take", "frame", "all", "enable", "finalize"}
  SpaceMayRunOut = TRUE
  SourceFiles = TRUE
SYMMETRY CallerSymmetry
INVARIANT
  TimerWithinClaim
PROPERTIES
  CancelNotStolen
  OwnSnapshot
  ImplementsService
\* finalize() can block every thread while it reads source files.
CHECK_DEADLOCK FALSE
