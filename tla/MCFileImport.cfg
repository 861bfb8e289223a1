\* CHECK_DEADLOCK FALSE: the import ends.
SPECIFICATION Spec
CONSTANTS
  a1 = a1
  a2 = a2
  a3 = a3
  Records <- ThreeAddresses
  Null = Null
  Files <- SomeFiles
  Documents <- SomeDocuments
  BlockSizes = {1, 3, 19}
  MaxBlocks = 5
  MemoryFails = TRUE
CHECK_DEADLOCK FALSE
INVARIANTS TypeOK BufferHoldsFile BlocksBounded SplitFindsRuns ImportsDocument
PROPERTY ImportEnds
