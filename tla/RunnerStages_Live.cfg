SPECIFICATION LiveSpec
CONSTANTS
  Config <- MCPlain
  MaxRuns = 1
  MaxSlips = 1
  Faults = {"raise", "write", "kill"}
  NoFile = NoFile
PROPERTIES
  RunEnds
CHECK_DEADLOCK FALSE
