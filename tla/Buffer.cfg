\* A buffer, new or cleared, appended, prepended and printed to and cleared.
CONSTANT DefaultCapacity = 4
CONSTANT FirstStepLength = 7
CONSTANT StepLength = 5
CONSTANT InitLeftReserve = 2
CONSTANT Strings <- SomeStrings
CONSTANT MaxLength = 11
SPECIFICATION Spec
INVARIANTS FitsWithZero ReadsContent PastAtMostHead
CHECK_DEADLOCK FALSE
