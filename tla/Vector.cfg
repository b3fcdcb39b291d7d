SPECIFICATION CheckedSpec
CONSTANTS
  Values = {a, b}
  Undef = Undef
  Ukn = Ukn
  Capacities = {0, 3}
  Sizes = {2}
  DefaultCapacity = 2
  MaxLength = 3
  MaxPool = 6
INVARIANT AccessInPool
PROPERTIES IsSequence CallsMatch
