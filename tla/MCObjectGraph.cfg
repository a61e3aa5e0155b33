SPECIFICATION Spec
CONSTANTS
  x = x
  y = y
  z = z
  Ids = {x, y, z}
  Types = {"custom", "unwritable"}
  Texts = {1}
  MaxKids = 1
  MaxLocals = 2
  MaxDepth = 1
  HashHead = 1
  HashTail = 1
  FrameCount = 2
  FirstStack = 2
  MaxChanges = 2
  MaxSnapshots = 1
SYMMETRY IdSymmetry
INVARIANTS
  Closed
  WrittenOnce
  CutAtDepth
  FlagAgrees
\* The program may end.
CHECK_DEADLOCK FALSE
