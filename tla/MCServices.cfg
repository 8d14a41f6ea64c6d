CONSTANTS
  MaxInt = 7
  LineSet <- FailingLines
  MaxLines = 6
  Careful = FALSE
  NoGlobals = {}
  Parse <- ParseLines
  Run <- RunLines
SPECIFICATION ServicesSpec
INVARIANT OneIsKept
CHECK_DEADLOCK FALSE
