SPECIFICATION FairSpec
CONSTANTS
  MaxCalls = 2
  MaxQueue = 2
  Commands = {"start", "dry", "demo", "exit", "restore", "status", "poll", "confirmation"}
  Refusing = TRUE
INVARIANTS
    KioskKnown
    EndedReleased
PROPERTIES
    RunningEndsByExit
    ExitEnds
CHECK_DEADLOCK FALSE
