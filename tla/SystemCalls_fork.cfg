SPECIFICATION Spec
CONSTANTS
  MaxCalls = 1
  Faults = {"fork"}
CHECK_DEADLOCK FALSE
INVARIANT ErrorsReported
