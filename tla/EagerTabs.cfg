CONSTANTS
  k1 = k1  a = a  b = b  a1 = a1  a2 = a2  b1 = b1  small = small  big = big
  Keys <- OneKey  Vals <- TwoVals  Mute <- OnlyBig
  Gone = Gone  Kept = Kept  Changed = Changed  Junk = Junk  NoTask = NoTask
  Tabs <- TwoTabs  Tasks <- ThreeTasks  TabOf <- TwoAndOne
  Afters = {0, 2}
  Authoritative = TRUE
  Found <- MCFound
  TxWrites <- MCTxWrites
  MaxCalls = 3
  MaxFaults = 1
SPECIFICATION Spec
SYMMETRY Others
INVARIANTS EagerInv ResidentIsStored AbsentIsProven
CHECK_DEADLOCK FALSE
