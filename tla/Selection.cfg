SPECIFICATION Spec
CONSTANTS
  IntBits = 4
  LongBits = 8
  Mantissa = 4
  Shape <- MCShape
  CaseOf <- MCCaseOf
INVARIANTS
  MeaningKept AllAssemble BorrowedBack
CHECK_DEADLOCK FALSE
