SPECIFICATION Spec
CONSTANTS
  MaxCalls = 3
  MaxQueue = 2
  Commands = {"start", "dry", "demo", "exit", "restore", "status", "poll"}
  Refusing = TRUE
INVARIANTS TypeOK KioskKnown ExitingShowsExit MonitorOnlyInExam EndedReleased
PROPERTY RunningEndsByExit
CHECK_DEADLOCK FALSE
