SPECIFICATION Spec
CONSTANTS
  MaxHeap = 6
  Locals <- MCLocals
  Captured <- MCCaptured
  Expressions <- MCExpressions
INVARIANT ReadOnly
CHECK_DEADLOCK FALSE
