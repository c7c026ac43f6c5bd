----------------------------- MODULE Sentences -----------------------------
(***************************************************************************)
(* Which texts are sentences of a grammar, and which can be completed to   *)
(* one, on the text of the productions alone.                              *)
(*                                                                         *)
(* After(g, w, e, i) are the positions of w that a text derived from e and *)
(* beginning behind the first i symbols of w may end at.  Open is one of   *)
(* them if w ends within such a text.  Left recursion is not expected.     *)
(***************************************************************************)
EXTENDS Grammars, Integers

Open == -1

AllButEnd == AllTerminals \ {eofSy}

\* EOF, and an ANY nothing was taken from, takes the end of the input, where it stays.
AfterSymbol(w, s, i) ==
  IF i < Len(w) THEN IF w[i + 1] \in s THEN {i + 1} ELSE {}
  ELSE {Open} \cup IF s \in {{eofSy}, AllButEnd} THEN {i} ELSE {}

RECURSIVE After(_, _, _, _), AfterTerm(_, _, _, _)

AfterFactor(g, w, f, i) ==
  LET again(I) == I \cup UNION {After(g, w, f.body, j) : j \in I \ {Open}}
  IN CASE f.typ \in {"t", "wt"} -> AfterSymbol(w, {f.sym}, i)
       [] f.typ = "any"         -> AfterSymbol(w, g.anys[f.pos], i)
       [] f.typ = "nt"          -> After(g, w, g.prod[f.sym], i)
       [] f.typ = "paren"       -> After(g, w, f.body, i)
       [] f.typ = "opt"         -> {i} \cup After(g, w, f.body, i)
       [] f.typ = "iter"        -> LeastFixedPoint(again, {i})
       [] OTHER                 -> {i}

AfterTerm(g, w, term, i) ==
  IF term = <<>> THEN {i}
  ELSE LET I == AfterFactor(g, w, Head(term), i)
       IN (I \cap {Open}) \cup UNION {AfterTerm(g, w, Tail(term), j) : j \in I \ {Open}}

After(g, w, e, i) == UNION {AfterTerm(g, w, e[k], i) : k \in DOMAIN e}

Sentence(g, w) == Len(w) \in After(g, w, g.prod[gramSy], 0)

Viable(g, w) == After(g, w, g.prod[gramSy], 0) \cap {Open, Len(w)} # {}
=============================================================================
