SPECIFICATION Spec
CONSTANTS
  e1 = e1
  e2 = e2
  p1 = p1
  p2 = p2
  Enqueuers <- TwoEnqueuers
  Publishers <- TwoPublishers
  QueueSize = 1
  Buffers <- FiveBuffers
  MaxLogs = 4
INVARIANTS TypeOK OneOwner SentIntact
PROPERTIES EnqueueReturns
