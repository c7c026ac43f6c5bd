\* Every parser for a small grammar, and some for larger ones, on every short input.
SPECIFICATION Spec
CONSTANTS
  S = S
  A = A
  ta = ta
  tb = tb
  tc = tc
  td = td
  te = te
  tf = tf
  Nonterminals = {S, A}
  Terminals <- MCTerminals
  gramSy = S
  eofSy = eof
  noSym = unknown
  Parsers <- MCParsers
  Languages <- MCLanguages
  Inputs <- MCInputs
  ExplicitEof <- MCExplicitEof
  MaxErrors = 3
INVARIANTS
  TypeOK
  Accepts
  FirstErrorRight
  Reported
  WeakForgiven
PROPERTY
  Ends
\* The parser stops at the end of the input.
CHECK_DEADLOCK FALSE
