CONSTANTS
  Pseudo = {a, b, c}
  CType <- MCCType
SYMMETRY Names
SPECIFICATION Spec
INVARIANTS
  TypeOK
  NoAliasing
  StableAddress
  NaturallyAligned
  FrameCoversCode
PROPERTY ImplementsFrameAllocator
CHECK_DEADLOCK FALSE
