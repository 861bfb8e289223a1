\* The export after one that failed.
SPECIFICATION Spec
CONSTANTS
  c1 = c1
  c2 = c2
  CollectorList <- TwoCollectors
  Faulty = {c1}
  Faults <- AllFaults
  MaxCycles = 2
  MaxRecords = 1
CHECK_DEADLOCK FALSE
INVARIANTS KeepsExporting
