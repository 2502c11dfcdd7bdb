SPECIFICATION Spec
CONSTANTS
  Capacity = 2
  MaxLogs = 4
INVARIANTS TypeOK CallbackNeverBlocks InOrder ClosedOnce
PROPERTIES ClientGoneReleases
CHECK_DEADLOCK FALSE
