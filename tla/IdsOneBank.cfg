CONSTANTS
  w1 = w1  w2 = w2  b1 = b1  b2 = b2
  Tasks <- Writers  Banks <- OneBank  BankOf <- AllInOne
  NoTask = NoTask  Unseeded = Unseeded
  LastId = 3  MaxBatch = 2
  Readable <- Writers
SPECIFICATION Spec
SYMMETRY OfWriters
INVARIANTS TypeOK NamedIntact ReaderSeesOwn
PROPERTY TakesFresh
