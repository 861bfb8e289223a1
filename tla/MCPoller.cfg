\* Three queries, delays of at most two seconds, the clock set once.
\* CHECK_DEADLOCK FALSE: a batch run ends, and a negative interval sleeps on.
SPECIFICATION Spec
CONSTANTS
  Spans <- SomeSpans
  Periods <- SomePeriods
  Jumps <- SomeJumps
  ZoneBase = 3600
  DstFrom = 1427590800
  DstTo = 1445734800
  Word = 2000000000
  Boot = 1445734650
  MaxDelay = 2
  MaxJumps = 1
  MaxCycles = 3
CHECK_DEADLOCK FALSE
INVARIANTS TypeOK NoMomentTwice MissesOnlyDelays StampsFit StampsInOrder BatchSpan
