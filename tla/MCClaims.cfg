CONSTANTS
  MaxInt = 7
  Examples <- AllExamples
SPECIFICATION Spec
INVARIANT OneHolds
CHECK_DEADLOCK FALSE
