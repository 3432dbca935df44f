SPECIFICATION Spec
CONSTANTS
  MaxCalls = 2
  MaxQueue = 1
  Commands = {"start", "exit"}
  Refusing = FALSE
INVARIANT ShownExamIsOn
CHECK_DEADLOCK FALSE
