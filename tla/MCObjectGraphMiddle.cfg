SPECIFICATION Spec
CONSTANTS
  x = x
  y = y
  z = z
  Ids = {x, y}
  Types = {"list", "leaf"}
  Texts = {1}
  MaxKids = 3
  MaxLocals = 1
  MaxDepth = 2
  HashHead = 1
  HashTail = 1
  FrameCount = 1
  FirstStack = 1
  MaxChanges = 1
  MaxSnapshots = 2
INVARIANT
  CacheKeepsStructure
\* The program may end.
CHECK_DEADLOCK FALSE
