----------------------------- MODULE SymbolSets -----------------------------
(***************************************************************************)
(* The symbol sets class Tab computes on the syntax graph.                 *)
(*                                                                         *)
(* tab is the symbol table and the graph: nodes; nonterminals, in the      *)
(* order they were met; graph, the first node of a nonterminal's           *)
(* production (Null: it has none); deletable; first and the nonterminals   *)
(* it is ready for; follow; nts, the nonterminals whose followers are      *)
(* still to be added; allSyncSets.  The code walks the graph with sets of  *)
(* visited nodes and changes the table on the way: an operator that does   *)
(* so takes the table, or a record of table and set, and yields it changed.*)
(***************************************************************************)
EXTENDS SyntaxGraph, Symbols, SequencesExt

----------------------------------------------------------------------------
(* Deletability.                                                           *)

RECURSIVE DelSubGraph(_, _), DelGraph(_, _)

DelNode(tab, p) ==
  LET n == tab.nodes[p]
  IN CASE n.typ = "nt"  -> n.sym \in tab.deletable
       [] n.typ = "alt" -> DelSubGraph(tab, n.sub) \/ (n.down # Null /\ DelSubGraph(tab, n.down))
       [] OTHER         -> n.typ \in {"iter", "opt", "sem", "eps", "rslv", "sync"}

DelGraph(tab, p) == p = Null \/ (DelNode(tab, p) /\ DelGraph(tab, tab.nodes[p].next))

DelSubGraph(tab, p) ==
  p = Null \/ (DelNode(tab, p) /\ (tab.nodes[p].up \/ DelSubGraph(tab, tab.nodes[p].next)))

FindDeletable(tab, sym) ==
  IF tab.graph[sym] # Null /\ DelGraph(tab, tab.graph[sym])
  THEN [tab EXCEPT !.deletable = @ \cup {sym}] ELSE tab

\* Mutant: one pass over the nonterminals.
CompDeletableOnce(tab) == FoldLeft(FindDeletable, tab, tab.nonterminals)

RECURSIVE CompDeletableSymbols(_)
CompDeletableSymbols(tab) ==
  LET pass == FoldLeft(FindDeletable, tab, tab.nonterminals)
  IN IF pass = tab THEN tab ELSE CompDeletableSymbols(pass)

----------------------------------------------------------------------------
(* First sets.  fm is [fs, mark].                                          *)

RECURSIVE First0(_, _, _)
First0(tab, p, fm) ==
  IF p = Null \/ p \in fm.mark THEN fm ELSE
  LET n == tab.nodes[p]
      marked == [fm EXCEPT !.mark = @ \cup {p}]
      own == CASE n.typ = "nt" /\ n.sym \in tab.ready ->
                    [marked EXCEPT !.fs = @ \cup tab.first[n.sym]]
               [] n.typ = "nt" /\ n.sym \notin tab.ready ->
                    First0(tab, tab.graph[n.sym], marked)
               [] n.typ \in {"t", "wt"} -> [marked EXCEPT !.fs = @ \cup {n.sym}]
               [] n.typ = "any" -> [marked EXCEPT !.fs = @ \cup n.set]
               [] n.typ = "alt" -> First0(tab, n.down, First0(tab, n.sub, marked))
               [] n.typ \in {"iter", "opt"} -> First0(tab, n.sub, marked)
               [] OTHER -> marked
  IN IF DelNode(tab, p) THEN First0(tab, n.next, own) ELSE own

First(tab, p) == First0(tab, p, [fs |-> {}, mark |-> {}]).fs

NoFirstSets(tab, ready) ==
  [tab EXCEPT !.first = [s \in Nonterminals |-> {}], !.ready = ready]

\* Mutant: a first set is taken for ready before it is.
CompFirstSetsEarly(tab) ==
  LET comp(t, sym) == [t EXCEPT !.first[sym] = First(t, t.graph[sym])]
  IN FoldLeft(comp, NoFirstSets(tab, Nonterminals), tab.nonterminals)

CompFirstSets(tab) ==
  LET comp(t, sym) == [t EXCEPT !.first[sym] = First(t, t.graph[sym]),
                                !.ready = @ \cup {sym}]
  IN FoldLeft(comp, NoFirstSets(tab, {}), tab.nonterminals)

----------------------------------------------------------------------------
(* ANY sets.                                                               *)

\* Mutant: the end of the input stays in.
SetupAnysAll(nodes) ==
  [i \in DOMAIN nodes |->
     IF nodes[i].typ = "any" THEN [nodes[i] EXCEPT !.set = AllTerminals] ELSE nodes[i]]

SetupAnys(nodes) ==
  [i \in DOMAIN nodes |->
     IF nodes[i].typ = "any" THEN [nodes[i] EXCEPT !.set = AllTerminals \ {eofSy}] ELSE nodes[i]]

RECURSIVE LeadingAny(_, _)
LeadingAny(tab, p) ==
  IF p = Null THEN Null ELSE
  LET n == tab.nodes[p]
      a == CASE n.typ = "any" -> p
             [] n.typ = "alt" -> LET b == LeadingAny(tab, n.sub)
                                 IN IF b = Null THEN LeadingAny(tab, n.down) ELSE b
             [] n.typ \in {"opt", "iter"} -> LeadingAny(tab, n.sub)
             [] OTHER -> Null
  IN IF a = Null /\ DelNode(tab, p) /\ ~n.up THEN LeadingAny(tab, n.next) ELSE a

Subtract(tab, a, s) == IF a = Null THEN tab ELSE [tab EXCEPT !.nodes[a].set = @ \ s]

RECURSIVE FindAS(_, _), FindASAlternatives(_, _, _)

\* Mutant: an alternative is compared with those behind it only.
FindASBehind(tab, q, s1) ==
  IF q = Null THEN tab ELSE
  LET n == tab.nodes[q]
      t == FindAS(tab, n.sub)
  IN FindASAlternatives(Subtract(t, LeadingAny(t, n.sub), First(t, n.down)), n.down, {})

\* The alternatives from q on; s1 may start one before.
FindASAlternatives(tab, q, s1) ==
  IF q = Null THEN tab ELSE
  LET n == tab.nodes[q]
      t == FindAS(tab, n.sub)
      a == LeadingAny(t, n.sub)
  IN IF a # Null
     THEN FindASAlternatives(Subtract(t, a, First(t, n.down) \cup s1), n.down, s1)
     ELSE FindASAlternatives(t, n.down, s1 \cup First(t, n.sub))

FindAS(tab, p) ==
  IF p = Null THEN tab ELSE
  LET n == tab.nodes[p]
      inside == CASE n.typ \in {"opt", "iter"} ->
                       LET t == FindAS(tab, n.sub)
                       IN Subtract(t, LeadingAny(t, n.sub), First(t, n.next))
                  [] n.typ = "alt" -> FindASAlternatives(tab, p, {})
                  [] OTHER -> tab
      q == IF n.typ = "nt" THEN tab.graph[n.sym] ELSE n.sub
      before == IF DelNode(tab, p)
                THEN Subtract(inside, LeadingAny(inside, n.next), First(inside, q))
                ELSE inside
  IN IF n.up THEN before ELSE FindAS(before, n.next)

CompAnySets(tab) ==
  LET find(t, sym) == FindAS(t, t.graph[sym])
  IN FoldLeft(find, tab, tab.nonterminals)

----------------------------------------------------------------------------
(* Follow sets.  tv is [tab, visited].                                     *)

\* Mutant: only at the very end of the production.
EndedBy(tab, p, curSy) == IF p = Null THEN {curSy} ELSE {}

\* curSy, if a nonterminal before p may end its production.
Ending(tab, p, curSy) == IF DelGraph(tab, p) THEN {curSy} ELSE {}

RECURSIVE CompFollow(_, _, _)
CompFollow(tv, p, curSy) ==
  IF p = Null \/ p \in tv.visited THEN tv ELSE
  LET tab == tv.tab
      n == tab.nodes[p]
      seen == [tv EXCEPT !.visited = @ \cup {p}]
      own == CASE n.typ = "nt" ->
                    [seen EXCEPT
                       !.tab.follow[n.sym] = @ \cup First(tab, n.next),
                       !.tab.nts[n.sym] = @ \cup Ending(tab, n.next, curSy)]
               [] n.typ \in {"opt", "iter"} -> CompFollow(seen, n.sub, curSy)
               [] n.typ = "alt" -> CompFollow(CompFollow(seen, n.sub, curSy), n.down, curSy)
               [] OTHER -> seen
  IN CompFollow(own, n.next, curSy)

\* sym.nts once the followers of s were added.
Dropped(nts, s, sym, curSy) == IF sym = curSy THEN nts \ {s} ELSE nts

RECURSIVE Complete(_, _, _)
Complete(tv, sym, curSy) ==
  LET add(tw, s) ==
        IF s \notin tw.tab.nts[sym] THEN tw
        ELSE LET tx == Complete(tw, s, curSy)
             IN [tx EXCEPT !.tab.follow[sym] = @ \cup tx.tab.follow[s],
                           !.tab.nts[sym] = Dropped(@, s, sym, curSy)]
  IN IF sym \in tv.visited THEN tv
     ELSE FoldLeft(add, [tv EXCEPT !.visited = @ \cup {sym}], tv.tab.nonterminals)

CompFollowSets(tab) ==
  LET empty == [tab EXCEPT !.nts = [s \in Nonterminals |-> {}],
                  !.follow = [s \in Nonterminals |-> IF s = gramSy THEN {eofSy} ELSE {}]]
      direct(tv, sym) == CompFollow(tv, tab.graph[sym], sym)
      indirect(t, sym) == Complete([tab |-> t, visited |-> {}], sym, sym).tab
  IN FoldLeft(indirect,
              FoldLeft(direct, [tab |-> empty, visited |-> {}], tab.nonterminals).tab,
              tab.nonterminals)

----------------------------------------------------------------------------
(* Expected symbols and synchronisation sets.                              *)

\* Mutant: the end of the production is not looked behind.
ExpectedInside(tab, p, curSy) == First(tab, p)

Expected(tab, p, curSy) ==
  First(tab, p) \cup IF DelGraph(tab, p) THEN tab.follow[curSy] ELSE {}

\* Mutant: a resolver is looked behind.
Expected0Behind(tab, p, curSy) == Expected(tab, p, curSy)

\* Not behind resolvers.
Expected0(tab, p, curSy) ==
  IF p # Null /\ tab.nodes[p].typ = "rslv" THEN {} ELSE Expected(tab, p, curSy)

RECURSIVE CompSync(_, _, _)
CompSync(tv, p, curSy) ==
  IF p = Null \/ p \in tv.visited THEN tv ELSE
  LET n == tv.tab.nodes[p]
      seen == [tv EXCEPT !.visited = @ \cup {p}]
      s == Expected(tv.tab, n.next, curSy) \cup {eofSy}
      own == CASE n.typ = "sync" ->
                    [seen EXCEPT !.tab.allSyncSets = @ \cup s, !.tab.nodes[p].set = s]
               [] n.typ = "alt" -> CompSync(CompSync(seen, n.sub, curSy), n.down, curSy)
               [] n.typ \in {"opt", "iter"} -> CompSync(seen, n.sub, curSy)
               [] OTHER -> seen
  IN CompSync(own, n.next, curSy)

CompSyncSets(tab) ==
  LET comp(tv, sym) == CompSync(tv, tab.graph[sym], sym)
  IN FoldLeft(comp, [tab |-> [tab EXCEPT !.allSyncSets = {eofSy}], visited |-> {}],
              tab.nonterminals).tab

CompSymbolSets(tab) ==
  CompSyncSets(CompFollowSets(CompAnySets(CompFirstSets(CompDeletableSymbols(tab)))))
=============================================================================
