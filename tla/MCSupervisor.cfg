SPECIFICATION FairSpec
CONSTANTS
  HeartbeatTimeout = 2
  StartupGrace = 2
  Patience = 1
  Backoff = 1
  WriteInterval = 1
  HoldTime = 2
  RestartMax = 1
  Isolated = TRUE
  Punctual = FALSE
  MaxSequence = 1
  MaxEvents = 1
INVARIANTS
    NothingOutlivesRecovery
    HeartbeatIsOwn
    SilenceNoticed
    HoldAnsweredInTime
PROPERTIES
    HungChildEnds
    PromiseKept
CHECK_DEADLOCK FALSE
