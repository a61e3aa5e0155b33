SPECIFICATION FairSpec
CONSTANTS
  Kinds <- MCKinds
  Handlers <- MCHandlers
  HeadLen = 2
  BodyLen = 2
  ChunkSize = 3
  MaxMessages = 2
INVARIANTS
  SeqOnce
  ExitTells
PROPERTIES
  ImplementsService
  NobodyWaits
\* The process ends.
CHECK_DEADLOCK FALSE
