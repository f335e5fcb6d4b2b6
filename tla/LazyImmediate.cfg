CONSTANTS
  k1 = k1  k2 = k2  t1 = t1  t2 = t2
  short = short  long = long
  Keys <- MCKeys  Vals <- MCVals  LargeVals <- MCLarge
  Gone = Gone  Kept = Kept  NoTask = NoTask
  Tasks <- Pair
  After = 1
  Authoritative = TRUE
  Offered = {"put", "delete", "clear", "transact", "flush", "close", "get"}
  TxBatches <- MCTxBatches
  MaxCalls = 3
  MaxFaults = 1
SPECIFICATION Spec
SYMMETRY OfTasks
INVARIANTS NoDanglingPointer NoOrphanWhileOpen NoSharedIds Inv
PROPERTY ImplementsMap
CHECK_DEADLOCK FALSE
