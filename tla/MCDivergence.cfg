CONSTANTS
  MaxInt = 7
  Programs <- Differing
  FRAMES_MAX = 4
  MAX_RECURSION_DEPTH = 24
  HasLimiter = TRUE
  MaxLoopIterations = 5
SPECIFICATION DivergenceSpec
INVARIANT OneRunsAlike
CHECK_DEADLOCK FALSE
