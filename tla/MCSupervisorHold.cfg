SPECIFICATION Spec
CONSTANTS
  HeartbeatTimeout = 16
  StartupGrace = 60
  Patience = 5
  Backoff = 3
  WriteInterval = 2
  HoldTime = 4
  RestartMax = 0
  Isolated = FALSE
  Punctual = FALSE
  MaxSequence = 1
  MaxEvents = 1
INVARIANTS
    FirstHoldAnswered
CHECK_DEADLOCK FALSE
