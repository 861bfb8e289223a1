\* Three addresses, up to three connections an interval, two cycles; for the
\* first collector appends fail, the second is healthy.
\* CHECK_DEADLOCK FALSE: the process may have crashed on a NULL pointer.
SPECIFICATION CycleSpec
CONSTANTS
  r1 = r1
  r2 = r2
  r3 = r3
  c1 = c1
  c2 = c2
  Null = Null
  Records <- ThreeRecords
  CollectorList <- TwoCollectors
  Faulty = {c1}
  Faults = {"append", "context"}
  Limit = 2
  MaxQueries = 2
  MaxConnections = 3
CHECK_DEADLOCK FALSE
INVARIANTS SessionMatchesPhase WellLinked FreeIsSafe EveryConnectionAccounted
PROPERTIES NothingUnexported ExporterSteps CycleEnds
