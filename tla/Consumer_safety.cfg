SPECIFICATION Spec
CONSTANTS
  a = a
  b = b
  Msgs = {a, b}
  Undecodable = {}
  Panics = {b}
  MaxBatch = 2
  MaxDeliver = 2
  MaxAckPending = 2
  Discardable = {a}
  MaxExits = 1
INVARIANTS TypeOK AckedIsAccounted DeadOnlyAtLimit RowsWithinDeliveries ExhaustedIsInProcess
PROPERTIES KeepsPromise
