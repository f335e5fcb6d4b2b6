CONSTANTS
  k1 = k1  k2 = k2  t1 = t1  w1 = w1  w2 = w2
  short = short  long = long
  Keys <- OneKey  Vals <- MCVals  LargeVals <- MCLarge
  Gone = Gone  Kept = Kept  NoTask = NoTask
  Tasks <- OneTask  Writers <- TwoWriters
  After = 1
  Authoritative = TRUE
  Offered = {"put", "delete", "clear", "transact", "flush", "close", "get"}
  TxBatches <- MCTxBatches
  MaxCalls = 3
  MaxFaults = 1
SPECIFICATION StreamsSpec
SYMMETRY OfWriters
INVARIANT StreamsInv
PROPERTY UnfinishedUnseen
CHECK_DEADLOCK FALSE
