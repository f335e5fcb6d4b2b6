SPECIFICATION Spec
CONSTANTS
  k1 = k1
  k2 = k2
  w1 = w1
  w2 = w2
  all = all
  some = some
  Keys <- MCKeys
  Writers <- MCWriters
  Subscribers <- MCSubscribers
  Filter <- MCFilter
  Capacity = 1
  MaxChanges = 5
SYMMETRY Symmetry
INVARIANTS NoSilentGap GapsCounted
CHECK_DEADLOCK FALSE
