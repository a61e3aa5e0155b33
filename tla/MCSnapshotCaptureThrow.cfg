SPECIFICATION Spec
CONSTANTS
  c1 = c1
  c2 = c2
  Callers = {c1, c2}
  Sampler = sampler
  None = none
  Offered = {"take", "frame", "all", "enable", "finalize"}
  SpaceMayRunOut = TRUE
  SourceFiles = FALSE
SYMMETRY CallerSymmetry
INVARIANT
  ClaimGivenBack
