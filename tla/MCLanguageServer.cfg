CONSTANTS
  u = u  v = v  good = good  fatal = fatal  circular = circular
  huge = huge  unprintable = unprintable
  Uris = {u, v}
  Texts = {good, fatal, circular, huge, unprintable}
  Queries = {"hover"}
  Fate <- FateOf
  Odd <- OddMessages
  Faults = {"damaged", "bad header"}
  MaxSent = 3
SPECIFICATION Spec
INVARIANTS TypeOK AnsweredInOrder NothingSkipped AnswersAreCurrent DiagnosticsSettle
PROPERTY Answered
CHECK_DEADLOCK FALSE
