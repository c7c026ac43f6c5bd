SPECIFICATION Spec
CONSTANTS
  MaxBufferLength = 2
  MinBufferLength = 2
  TvalLength = 2
  MaxTokens = 12
  MaxColumn = 12
  Grammar <- MCDottedGrammar
  Inputs <- MCDottedInputs
  InputKinds <- MemoryOnly
  Declared <- MCDeclared
INVARIANTS
  TokensRight
