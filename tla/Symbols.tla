------------------------------ MODULE Symbols ------------------------------
(***************************************************************************)
(* The symbols of a grammar.                                               *)
(***************************************************************************)

CONSTANTS
  Nonterminals,  \* names a production may define or use
  Terminals,     \* the terminals of the grammar
  gramSy,        \* the nonterminal the grammar is named for
  eofSy,         \* the terminal of the end of the input
  noSym          \* the terminal of what the scanner does not know

ASSUME SymbolsAssumption ==
  /\ gramSy \in Nonterminals
  /\ eofSy \notin Terminals /\ noSym \notin Terminals /\ eofSy # noSym

AllTerminals == Terminals \cup {eofSy, noSym}
=============================================================================
