SPECIFICATION Spec
CONSTANTS
  Identifier = {"x", "f"}
  Number <- MCNumber
  Source <- MCSource
INVARIANTS
  SentencesRead OnlySentencesRead
CHECK_DEADLOCK FALSE
