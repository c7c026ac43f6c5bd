SPECIFICATION Spec
CONSTANTS
  Objects = {a, b}
  MaxChar = 6
INVARIANTS
  Canonical
  AnswersAboutSets
  OperatesOnSets
