SPECIFICATION Spec
CONSTANTS
  MAX_STATES = 256
  MAX_TRANSITION = 16
  MAX_EPSILON = 64
  nfa <- MCNfa
  Char <- MCChar
  Source <- MCSource
  Space <- MCSpace
INVARIANTS
  LongestTokens
PROPERTIES
  ImplementsScanner
CHECK_DEADLOCK FALSE
