CONSTANTS
  Name = {x, y}
  MaxDepth = 3
  MaxCounter = 3
  MaxParams = 2
SYMMETRY Names
SPECIFICATION Spec
INVARIANTS
  TypeOK
  MapsMirrorScopes
  UniqueNamesApart
PROPERTIES
  SymbolsKept
  ImplementsLexicalScope
CHECK_DEADLOCK FALSE
