\* Tokens in which a structure that can be left at once stands before another node.
CONSTANTS
  lc = lc
  ld = ld
  le = le
  Chars <- MCChars
  Syms <- SharedSyms
  NoSym = NoSym
  Graph <- SharedGraph
  Text <- SharedText
  MaxTokens = 1
  Alone = {}
  MaxLiterals = 0
  Expr <- Shared
  MaxLength = 4
SPECIFICATION Spec
INVARIANT NodesLinked
