SPECIFICATION Spec
CONSTANTS
  Names <- MCNames
  MaxFix = 110
  FirstDispatcher = 100
  DispatcherSlots = 102
  Programs <- DynamicScopePrograms
INVARIANTS
  EndsAsDocumented
