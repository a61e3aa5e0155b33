CONSTANTS
  HeaderSize = 1
  BlockSize = 2
  InitialRecordsSize = 4
  InitialFileSize = 8
  MaxFileSize = 12
  FrameSizes = {1}
  ObjectSizes = {1, 2}
  TrailerSizes = {1}
  ObjectIds = {a, b}
  a = a
  b = b
SPECIFICATION Spec
\* TLC stops at the first that fails: the README has them one by one.
INVARIANT
  NoEmptyStacktrace
PROPERTY
  CommittedReachOutput
