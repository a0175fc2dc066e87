CONSTANTS
  Keys <- MCKeys
  Values = {v, w}
  Hash <- MCHash
  HashBits = 16
  Preallocations = {1, 3}
  Null = Null
SPECIFICATION Spec
INVARIANTS
  KeysAreUnique
  CountIsExact
  LoadIsBounded
PROPERTY
  ImplementsMap
