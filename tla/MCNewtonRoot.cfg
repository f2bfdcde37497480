SPECIFICATION RootSpec
CONSTANTS
  MaxU64 = 63
CHECK_DEADLOCK FALSE
INVARIANTS RootTypeOK RootCorrect FailsOnlyAtTop OperatorAgrees
PROPERTIES Terminates
