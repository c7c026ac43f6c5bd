SPECIFICATION PPSpec
CONSTANTS
  Names = {n1, n2}
  MaxDepth = 5
INVARIANTS
  TypeOK
  Levels
PROPERTY
  KeepsSelected
