SPECIFICATION Spec
CONSTANTS
  Spans <- SomeSpans
  Periods <- SomePeriods
  Jumps <- SomeJumps
  ZoneBase = 3600
  DstFrom = 1427590800
  DstTo = 1445734800
  Word = 2000000000
  Boot = 1445734650
  MaxDelay = 0
  MaxJumps = 0
  MaxCycles = 2
CHECK_DEADLOCK FALSE
INVARIANT IntervalAsWritten
