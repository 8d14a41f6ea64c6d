CONSTANTS
  MaxInt = 7
  Families <- BothFamilies
  Direct <- AllDirect
SPECIFICATION Spec
INVARIANTS SafetyNet OnlyRejected
CHECK_DEADLOCK FALSE
