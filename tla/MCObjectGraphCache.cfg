SPECIFICATION Spec
CONSTANTS
  x = x
  y = y
  z = z
  Ids = {x, y}
  Types = {"list", "custom", "sub", "opaque", "string", "leaf"}
  Texts = {1, 2}
  MaxKids = 1
  MaxLocals = 1
  MaxDepth = 2
  HashHead = 1
  HashTail = 1
  FrameCount = 1
  FirstStack = 2
  MaxChanges = 2
  MaxSnapshots = 2
SYMMETRY IdSymmetry
INVARIANTS
  CacheKeepsStructure
\* The program may end.
CHECK_DEADLOCK FALSE
