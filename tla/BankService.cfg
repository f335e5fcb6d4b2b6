SPECIFICATION Spec
CONSTANTS
  k1 = k1
  raw1 = raw1
  own1 = own1
  c1 = c1
  Keys <- MCKeys
  Vals <- MCVals
  RawVals <- MCRawVals
  OwnVals <- MCOwnVals
  Callers <- OneCaller
  Setups <- MCSetups
  Faults <- MCFaults
  Gone = Gone
  Kept = Kept
  Damaged = Damaged
  Nobody = Nobody
  MaxAt = 1
  MaxCalls = 2
  MaxStages = 1
  MaxOpens = 2
  MaxDeletes = 1
INVARIANTS DurableAnswers ReadsAreCurrent
CHECK_DEADLOCK FALSE
PROPERTY EveryCallEnds
