SPECIFICATION Spec
CONSTANTS
  Path <- MCPath
  Stem <- MCStem
  Text = {"first", "second", "wrong"}
  Bad = {"wrong"}
  Arguments <- MCArguments
  Library = {"-lm"}
  MaxInvocations = 2
INVARIANTS
  UpToDate OnlyAccepted
CHECK_DEADLOCK FALSE
