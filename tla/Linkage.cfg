CONSTANTS
  Name = {x, y}
  Type = {t1, t2}
  MaxDecls = 4
SYMMETRY Symmetry
SPECIFICATION Spec
INVARIANTS
  TypeOK
  AcceptedAgree
  RefusedDisagree
  EntrySumsUp
  EmittedAsDeclared
PROPERTIES
  LinkageFixed
CHECK_DEADLOCK FALSE
