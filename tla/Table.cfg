SPECIFICATION CarefulSpec
CONSTANTS
  a = a
  b = b
  c = c
  B1 = B1
  B2 = B2
  Keys = {a, b, c}
  Values = {v, w}
  Buckets = {B1, B2}
  Hash <- SharedHash
  Entries = {e1, e2, e3}
  Nil = Nil
  NoKey = NoKey
  Undef = Undef
SYMMETRY EntrySymmetry
INVARIANTS NoFault EndsAgree KeysFindItems
PROPERTIES IsTable CallsMatch
