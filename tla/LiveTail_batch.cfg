SPECIFICATION Spec
CONSTANTS
  Capacity = 2
  MaxLogs = 4
INVARIANT BatchWithinMax
CHECK_DEADLOCK FALSE
