SPECIFICATION FairSpec
CONSTANTS
  Names <- MCNames
  MaxFix = 110
  FirstDispatcher = 100
  DispatcherSlots = 102
  Programs <- AllPrograms
INVARIANTS
  EndsAsMeant
  TypeOK
  FramesMatch
  ChainsRooted
  MemosOwned
PROPERTIES
  ControlIsStacked
  ProgramTextKept
  GlobalsKept
  Terminates
