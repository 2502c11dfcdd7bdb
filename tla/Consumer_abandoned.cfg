SPECIFICATION GracefulSpec
CONSTANTS
  a = a
  b = b
  Msgs = {a, b}
  Undecodable = {}
  Panics = {b}
  MaxBatch = 2
  MaxDeliver = 2
  MaxAckPending = 2
  Discardable = {a}
  MaxExits = 1
INVARIANT ExhaustedIsDeadLettered
