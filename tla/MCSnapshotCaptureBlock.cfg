SPECIFICATION FairSpec
CONSTANTS
  c1 = c1
  c2 = c2
  Callers = {c1, c2}
  Sampler = sampler
  None = none
  Offered = {"take", "finalize"}
  SpaceMayRunOut = FALSE
  SourceFiles = TRUE
PROPERTIES
  CapturesReturn
\* The threads block each other: that is what the property is about.
CHECK_DEADLOCK FALSE
