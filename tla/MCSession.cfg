CONSTANTS
  MaxInt = 7
  LineSet <- CarefulLines
  MaxLines = 5
  Careful = TRUE
  NoGlobals = {}
  Parse <- ParseLines
  Run <- RunLines
SPECIFICATION Spec
INVARIANTS TypeOK CountersAgree NothingIsLeft EvaluatorRemembers
PROPERTY KeepsThePromise
CHECK_DEADLOCK FALSE
