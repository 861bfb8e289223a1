\* Arbitrary files; two collectors; any allocation may fail.
SPECIFICATION Spec
CONSTANTS
  Values <- CollectorValues
  MaxCollectors = 2
  MallocFails = TRUE
CHECK_DEADLOCK FALSE
INVARIANTS TypeOK BlockIsInitialised ValueGoesToItsBlock
PROPERTIES NoSharedStrings BlockStartsEmpty
