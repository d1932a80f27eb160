SPECIFICATION Spec
CONSTANTS
  Identifier = {"x", "f"}
  Number <- MCNumber
  Source <- VoidSource
INVARIANTS
  VoidAlone
CHECK_DEADLOCK FALSE
