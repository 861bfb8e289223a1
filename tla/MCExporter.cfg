\* Every call for the first collector may fail, the second is healthy.
SPECIFICATION Spec
CONSTANTS
  c1 = c1
  c2 = c2
  CollectorList <- TwoCollectors
  Faulty = {c1}
  Faults <- AllFaults
  MaxCycles = 2
  MaxRecords = 2
CHECK_DEADLOCK FALSE
INVARIANTS TypeOK ObjectsGoWithContext Decodable StatsCoverFlows HealthyGetAll
