\* A start while the stopped daemon winds down.
SPECIFICATION Spec
CONSTANTS
  p1 = p1
  p2 = p2
  p3 = p3
  s1 = s1
  s2 = s2
  s3 = s3
  NoSeg = NoSeg
  Procs <- ThreeProcs
  Segments <- ThreeSegments
  Discipline = "quick"
  MaxCrashes = 0
SYMMETRY Symmetry
INVARIANTS Stoppable
