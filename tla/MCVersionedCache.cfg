SPECIFICATION FairCacheSpec
CONSTANTS
  k1 = k1
  p1 = p1
  p2 = p2
  w1 = w1
  w2 = w2
  Keys = {k1}
  Readers = {p1, p2}
  Writers = {w1, w2}
  MaxRow = 2
  MaxNsver = 3
INVARIANTS TypeOK Fresh
PROPERTIES KeepsPromise TtlHeals
