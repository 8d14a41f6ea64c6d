CONSTANTS
  MaxInt = 7
  Texts <- PageTexts
  Paths = {"f", "g"}
  Contents = {"made", "written"}
  Parse <- ParseLines
  Outcomes <- RunLines
SPECIFICATION Spec
INVARIANTS TypeOK OnlyTheLastText
PROPERTY KeepsThePromise
CHECK_DEADLOCK FALSE
