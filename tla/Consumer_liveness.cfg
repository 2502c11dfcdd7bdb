SPECIFICATION FairSpec
CONSTANTS
  a = a
  b = b
  Msgs = {a, b}
  Undecodable = {b}
  Panics = {}
  MaxBatch = 2
  MaxDeliver = 3
  MaxAckPending = 1
  Discardable = {a}
  MaxExits = 1
PROPERTIES EventuallyAccounted ShutdownCompletes
