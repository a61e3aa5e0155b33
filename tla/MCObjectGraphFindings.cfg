SPECIFICATION Spec
CONSTANTS
  x = x
  y = y
  z = z
  Ids = {x, y}
  Types = {"list", "custom"}
  Texts = {1, 2}
  MaxKids = 1
  MaxLocals = 2
  MaxDepth = 1
  HashHead = 1
  HashTail = 1
  FrameCount = 2
  FirstStack = 1
  MaxChanges = 2
  MaxSnapshots = 2
\* TLC stops at the first that fails: the README has them one by one.
INVARIANTS
  LocalsFull
  FlagComplete
  CacheFresh
PROPERTY
  SameObject
\* The program may end.
CHECK_DEADLOCK FALSE
