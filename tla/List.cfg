SPECIFICATION Spec
CONSTANTS
  a = a
  b = b
  Values = {a, b}
  Undef = Undef
  Nil = Nil
  Nodes = {n1, n2, n3}
  Others <- SomeLists
SYMMETRY NodeSymmetry
INVARIANTS NoDangling EndsAgree
PROPERTIES IsSequence CallsMatch
