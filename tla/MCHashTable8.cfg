\* CHECK_DEADLOCK FALSE: the model ends where a call goes beyond the array.
SPECIFICATION Spec
CONSTANTS
  Keys <- SomeKeys
  Hash <- SomeHash
  v = v
  w = w
  c1 = c1
  c2 = c2
  Values <- TwoValues
  NoValue = Null
  Copies <- TwoCopies
  NoCopy = NoCopy
CHECK_DEADLOCK FALSE
SYMMETRY Alike
INVARIANTS EveryKeyFound CopiesOwned
PROPERTY ImplementsMap
