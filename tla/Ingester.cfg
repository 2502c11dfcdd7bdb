SPECIFICATION Spec
CONSTANTS
  h1 = h1
  h2 = h2
  h3 = h3
  g1 = g1
  b1 = b1
  b2 = b2
  Http = {h1, h2, h3}
  Grpc = {g1}
  Body <- ABody
  Type <- AType
  Encoding <- AnEncoding
  Big = {h2}
  Buffers = {b1, b2}
  MaxTries = 2
  MaxCalls = 2
INVARIANTS TypeOK OneOwner StoredIntact StoredDecodes AcceptedIsStored
PROPERTIES HandlerReturns ShutdownCompletes
