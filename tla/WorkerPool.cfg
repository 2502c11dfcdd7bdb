SPECIFICATION Spec
CONSTANTS
  NumWorkers = 2
  PoolSize = 1
  Batches <- SomeBatches
  MaxCalls = 2
INVARIANTS TypeOK NoJobAfterWait RowsAligned InsertComplete
PROPERTIES CallReturns
