SPECIFICATION CarelessSpec
CONSTANTS
  a = a
  b = b
  c = c
  B1 = B1
  B2 = B2
  Keys = {a, b, c}
  Values = {v}
  Buckets = {B1, B2}
  Hash <- SharedHash
  Entries = {e1, e2, e3}
  Nil = Nil
  NoKey = NoKey
  Undef = Undef
SYMMETRY EntrySymmetry
INVARIANT KeyFindsItem
CHECK_DEADLOCK FALSE
