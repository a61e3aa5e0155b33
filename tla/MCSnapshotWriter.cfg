CONSTANTS
  HeaderSize = 1
  BlockSize = 2
  InitialRecordsSize = 4
  InitialFileSize = 8
  MaxFileSize = 12
  FrameSizes = {1}
  ObjectSizes = {1, 2}
  TrailerSizes = {1}
  ObjectIds = {a, b}
  a = a
  b = b
SPECIFICATION Spec
INVARIANTS
  LayoutOK
  CommittedParses
  ChainOK
  ObjectsReadable
  Contiguous
PROPERTIES
  CommittedFrozen
  OutputComplete
SYMMETRY ObjectSymmetry
