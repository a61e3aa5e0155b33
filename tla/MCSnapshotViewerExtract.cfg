SPECIFICATION Spec
CONSTANTS
  WordChars = {"a"}
  FieldWidth = 2
  Files <- MCFiles
  LinesOf <- MCLinesOf
  OnDisk = {"lib"}
  NotText = {"bin"}
  TextLines <- MCTextLines
  PageStep = 2
  Center = 1
  Heights = {4, 5}
  DefaultPath <- MCDefault
  Typed = {"a"}
  MaxText = 2
INVARIANTS
  ExtractsShown
CHECK_DEADLOCK FALSE
