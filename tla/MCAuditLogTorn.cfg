SPECIFICATION Spec
CONSTANTS
    MaxLines = 2
    BatchLimit = 2
    MaxEvents = 5
    MaxTime = 1
    MaxDamage = 2
INVARIANTS
    EvidenceAfterFailure
CHECK_DEADLOCK FALSE
