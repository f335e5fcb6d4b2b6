CONSTANTS
  k1 = k1  k2 = k2  t1 = t1  t2 = t2
  short = short  long = long
  Keys <- MCKeys  Vals <- MCVals  LargeVals <- MCLarge
  Gone = Gone  Kept = Kept  NoTask = NoTask
  Tasks <- Pair
  After = 2
  Authoritative = TRUE
  Offered = {"put", "delete", "clear", "transact", "flush", "close"}
  TxBatches <- FewTxBatches
  MaxCalls = 3
  MaxFaults = 1
SPECIFICATION FairSpec
INVARIANTS MapInv IndexShowsView
PROPERTIES OnlyDiscardLoses CallsEnd
CHECK_DEADLOCK FALSE
