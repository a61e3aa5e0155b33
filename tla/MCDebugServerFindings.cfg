SPECIFICATION Spec
CONSTANTS
  Kinds <- MCKinds
  Handlers <- MCHandlers
  HeadLen = 2
  BodyLen = 2
  ChunkSize = 3
  MaxMessages = 2
\* TLC stops at the first that fails: the README has them one by one.
INVARIANTS
  CleanExit
  ServerSurvives
\* The process ends.
CHECK_DEADLOCK FALSE
