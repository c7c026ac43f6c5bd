\* The same grammars: is every second determinization as right as the first?
CONSTANTS
  lc = lc
  ld = ld
  le = le
  Chars <- MCChars
  Syms <- MCSyms
  NoSym = NoSym
  Graph <- MCGraph
  Text <- MCText
  MaxTokens = 3
  Alone <- MCAlone
  MaxLiterals = 1
  Expr <- MCExpr
  MaxLength = 4
SPECIFICATION Spec
INVARIANT SameTokens
