SPECIFICATION FairSpec
CONSTANTS
  c1 = c1
  c2 = c2
  Callers = {c1}
  Sampler = sampler
  None = none
  Offered = {"take", "frame", "all", "enable", "finalize"}
  SpaceMayRunOut = FALSE
  SourceFiles = FALSE
PROPERTIES
  CallsReturn
  ClaimReleased
