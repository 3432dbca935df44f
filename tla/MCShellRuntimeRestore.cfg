SPECIFICATION FairSpec
CONSTANTS
  MaxCalls = 2
  MaxQueue = 1
  Commands = {"start", "restore"}
  Refusing = FALSE
PROPERTY RestoreEnds
CHECK_DEADLOCK FALSE
