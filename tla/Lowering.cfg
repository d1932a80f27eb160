CONSTANTS
  Program <- MCProgram
  Value = {0, 1}
SPECIFICATION Spec
INVARIANTS
  TypeOK
  MeaningKept
  StrayJumpsRefused
  AcceptedAssembles
PROPERTY NoSilentLoop
