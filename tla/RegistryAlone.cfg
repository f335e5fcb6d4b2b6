CONSTANTS
  n1 = n1  n2 = n2  u1 = u1  u2 = u2  bank = bank  own = own
  p1 = p1  p2 = p2  s1 = s1  s2 = s2  None = None
  Names <- TwoNames  Types <- TwoTypes  Chains <- TwoChains  BankChain <- bank
  Tasks <- Single  Slots <- TwoSlots
  LastId = 3  MayDelete = TRUE
SPECIFICATION Spec
SYMMETRY OfSlots
INVARIANTS TypeOK ReadsOwnBytes OpenIsRegistered AloneInv
