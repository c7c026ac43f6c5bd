---------------------------- MODULE Productions ----------------------------
(***************************************************************************)
(* What Parser does with the productions of a grammar: the symbol table    *)
(* grows by one production after the other, and at the end of the grammar  *)
(* Tab computes the sets.                                                  *)
(***************************************************************************)
EXTENDS GrammarChecks

NoSets == [s \in Nonterminals |-> {}]

NewTab ==
  [nodes |-> <<>>, nonterminals |-> <<>>, graph |-> [s \in Nonterminals |-> Null],
   deletable |-> {}, first |-> NoSets, ready |-> {},
   follow |-> NoSets, nts |-> NoSets, allSyncSets |-> {}]

\* e with the place of every leaf.
RECURSIVE Placed(_, _)
Placed(e, at) ==
  LET place(f, p) == IF f.typ \in LeafTyps THEN [f EXCEPT !.pos = p]
                     ELSE [f EXCEPT !.body = Placed(@, p)]
  IN [i \in DOMAIN e |-> [j \in DOMAIN e[i] |-> place(e[i][j], Append(at, <<i, j>>))]]

\* FindSym and NewSym: the nonterminals with those of syms that are new.
Met(nonterminals, syms) ==
  LET meet(known, s) == IF s \in ToSet(known) THEN known ELSE Append(known, s)
  IN FoldLeft(meet, nonterminals, syms)

NtsOf(nodes) ==
  LET nts == SelectSeq(nodes, LAMBDA n : n.typ = "nt")
  IN [i \in DOMAIN nts |-> nts[i].sym]

\* ident ... '=' Expression '.'
WithProduction(tab, sym, e) ==
  LET g == Expression(tab.nodes, e)
  IN [tab EXCEPT !.nodes = Finish(g), !.graph[sym] = g.l,
                 !.nonterminals = Met(@, <<sym>> \o NtsOf(Finish(g)))]

\* What is computed at the end of the grammar.
Computed(tab) == CompSymbolSets([tab EXCEPT !.nodes = SetupAnys(@)])
=============================================================================
