SPECIFICATION Spec
CONSTANTS
  Capacity = 2
  MaxLogs = 4
INVARIANT SafeClose
CHECK_DEADLOCK FALSE
