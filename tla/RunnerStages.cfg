SPECIFICATION Spec
CONSTANTS
  Config <- MCConfig
  MaxRuns = 2
  MaxSlips = 1
  Faults = {"raise", "write", "kill"}
  NoFile = NoFile
INVARIANTS
  TypeOK
  SuccessBacked
  WriteOrder
  AnswerTrue
CHECK_DEADLOCK FALSE
