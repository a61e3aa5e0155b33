SPECIFICATION ViewSpec
CONSTANTS
  MaxDepth = 1
  Snapshots <- MCSnapshots
  Excluded <- MCExcluded
  MaxLevels = 2
INVARIANT LikeCPython
CHECK_DEADLOCK FALSE
