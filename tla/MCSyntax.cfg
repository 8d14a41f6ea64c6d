CONSTANTS
  MaxInt = 7
  kMaxExpressionDepth = 100
  Sources <- SyntaxSources
  MaxBlanks = 1
SPECIFICATION Spec
INVARIANTS ParsesBack IncrementalAgrees ErrorsRecover
CHECK_DEADLOCK FALSE
