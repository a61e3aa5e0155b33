SPECIFICATION ViewSpec
CONSTANTS
  MaxDepth = 2
  Snapshots <- MCSnapshots
  Excluded <- MCExcluded
  MaxLevels = 2
INVARIANTS
  PagesAddUp
  StackOfChain
  RenderersAgree
CHECK_DEADLOCK FALSE
