CONSTANTS
  MaxInt = 7
  MainLength = 4
  CalleeLength = 1
  Programs <- MCPrograms
  FRAMES_MAX = 3
  HasLimiter = TRUE
  MaxLoopIterations = 2
SPECIFICATION Spec
INVARIANTS TypeOK HandlersLive CatchInOwnFunction FramesBounded
PROPERTIES CallersUntouched LimiterEnds
