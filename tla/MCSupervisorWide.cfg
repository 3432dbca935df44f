SPECIFICATION Spec
CONSTANTS
  HeartbeatTimeout = 2
  StartupGrace = 2
  Patience = 2
  Backoff = 2
  WriteInterval = 2
  HoldTime = 6
  RestartMax = 1
  Isolated = TRUE
  Punctual = FALSE
  MaxSequence = 2
  MaxEvents = 1
INVARIANTS TypeOK NothingOutlivesRecovery HeartbeatIsOwn SequenceNotAhead
           SilenceNoticed HoldAnsweredInTime
PROPERTY CleanExitFinal
CHECK_DEADLOCK FALSE
