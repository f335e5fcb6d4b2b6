CONSTANTS
  ta = ta  tb = tb
  Keys <- TwoKeys  Vals <- MCVals  Mute <- BigIsMute
  Gone = Gone  Kept = Kept  Changed = Changed
  Tabs <- TwoTabs
  Writes <- MCWrites
  MaxBytes = 2  EvictTo = 1  MaxTick = 5
  Found <- MCFound
  PendingPerCommit = 1
  TakeTurns = TRUE
  MaxCalls = 2  MaxReads = 1  MaxFaults = 1
SPECIFICATION Spec
  
PROPERTIES BudgetHeld FreshTicks
CHECK_DEADLOCK FALSE
