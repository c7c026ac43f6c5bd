\* Every grammar of up to four symbols and structures over two terminals and two
\* nonterminals, in either order, simple ones over three nonterminals, and brackets
\* around, before and behind an ANY.
SPECIFICATION Spec
CONSTANTS
  S = S
  A = A
  B = B
  t1 = t1
  t2 = t2
  Nonterminals <- MCNonterminals
  Terminals <- MCTerminals
  gramSy = S
  eofSy = eof
  noSym = unknown
  MaxSize <- MCMaxSize
  Pools <- MCPools
  Bodies <- MCBodies
SYMMETRY Symmetry
INVARIANTS
  TypeOK
  DeletableRight
  FirstRight
  AnyRight
  FollowRight
  SyncRight
  ChecksRight
  WarningsRight
\* The system stops when the grammar is checked.
CHECK_DEADLOCK FALSE
