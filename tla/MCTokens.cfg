CONSTANTS
  MaxInt = 7
  kMaxExpressionDepth = 3
  Alphabet <- ExpressionTokens
  MaxTokens = 5
SPECIFICATION Spec
INVARIANTS DepthBounded AcceptsOnlySentences LinesIndependent
CHECK_DEADLOCK FALSE
