\* Commands at any time, also while others run; one process may be killed.
SPECIFICATION Spec
CONSTANTS
  p1 = p1
  p2 = p2
  p3 = p3
  s1 = s1
  s2 = s2
  s3 = s3
  NoSeg = NoSeg
  Procs <- ThreeProcs
  Segments <- ThreeSegments
  Discipline = "any"
  MaxCrashes = 1
SYMMETRY Symmetry
INVARIANTS TypeOK DaemonFlagSized NoStaleName
PROPERTIES NoSpuriousExit
