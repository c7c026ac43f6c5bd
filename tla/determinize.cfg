\* All grammars with up to three token declarations of the pool, in any order, or
\* with one small expression, and up to one literal in the productions.
CONSTANTS
  lc = lc
  ld = ld
  le = le
  Chars <- MCChars
  Syms <- MCSyms
  NoSym = NoSym
  Graph <- MCGraph
  Text <- MCText
  MaxTokens = 3
  Alone <- MCAlone
  MaxLiterals = 1
  Expr <- MCExpr
  MaxLength = 4
SPECIFICATION Spec
INVARIANTS
  TypeOK
  WrittenDeterministic
  SameTokensUnlessStale
  ConflictsReported
  Closed
  LiteralsRecognised
  WordsRecognised
PROPERTIES
  UniqueKeepsMoves
  Determinizes
