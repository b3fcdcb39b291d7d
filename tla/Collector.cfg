SPECIFICATION Spec
CONSTANTS
  Objects = {n1, n2, n3}
  None = None
  Kinds = {"plain"}
  MaxFields = 1
  Capacity = 2
  GcThreshold = 1
  Careful = TRUE
INVARIANTS TypeOK RootsAlive EachNodeRecorded BlackLeadsToBlack
PROPERTIES CollectsGarbage CollectionEnds
CHECK_DEADLOCK FALSE
