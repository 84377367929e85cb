SPECIFICATION Spec
CONSTANTS
  MaxBatch = 4
  MaxThreads = 3
  MIN_BYTES_PER_WORKER = 2
  Totals <- MCTotals
INVARIANTS
  TypeOK
  ClaimedOnce
  OrderRestored
  NoThreadOutlivesCall
  PanicIsAnEarlyOne
PROPERTIES
  Replies
  ImplementsBatch
