SPECIFICATION Spec
CONSTANTS
  IntBits = 4
  LongBits = 8
  Mantissa = 4
  Declared <- MCDeclared
  Memory <- MCMemory
  Shape <- MCShape
  TreesOf <- MCTreesOf
INVARIANTS
  ScaleOfPointedTo
CHECK_DEADLOCK FALSE
