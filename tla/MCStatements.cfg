CONSTANTS
  MaxInt = 7
  Depth = 2
  Programs <- MCPrograms
  FRAMES_MAX = 8
  MAX_RECURSION_DEPTH = 30
  HasLimiter = FALSE
  MaxLoopIterations = 0
SPECIFICATION Spec
INVARIANTS CodeBalanced CodeStacked StatementStack OwnValues StatementHandlers
PROPERTY SameAsEvaluator
