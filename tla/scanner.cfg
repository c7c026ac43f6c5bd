SPECIFICATION Spec
CONSTANTS
  MaxBufferLength = 2
  MinBufferLength = 2
  TvalLength = 2
  MaxTokens = 12
  MaxColumn = 12
  Grammar <- MCGrammar
  Inputs <- MCInputs
  InputKinds <- AllKinds
  Declared <- MCDeclared
INVARIANTS
  TypeOK
  WindowRight
  InBounds
  TextWithin
  TokensRight
PROPERTY
  Ends
