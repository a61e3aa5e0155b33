SPECIFICATION Spec
CONSTANTS
  Objects <- MCObjects
  Shape <- MCShape
  Items <- MCItems
  Attrs <- MCAttrs
  MaxChildren = 1
  OnDisk = {}
  Cwd <- MCCwd
  Staging <- MCStaging
  Files <- MCFiles
  SnapshotsOf <- MCSnapshotsOf
  Embedded <- MCEmbedded
  Extracted <- MCExtracted
  Filters <- MCFilters
  Hiding = {FALSE}
  Starts = {0}
  MaxDepth = 2
  MaxIds = 3
  MaxRefs = 3
  NoFile = NoFile
  NoSnapshot = NoSnapshot
  Corrupt = Corrupt
INVARIANTS
  CursorInStep
  AnswersMatchView
  OneNumberEach
  SourceExact
PROPERTY
  NavigationKeepsThreads
CHECK_DEADLOCK FALSE
