--------------------------- MODULE GrammarChecks ---------------------------
(***************************************************************************)
(* The checks of class Tab on the grammar: what Tab::GrammarOk reports,    *)
(* as errors or as warnings.  A report is a tuple of its kind and of what  *)
(* its text names.                                                         *)
(***************************************************************************)
EXTENDS SymbolSets

NtsComplete(tab) ==
  {<<"no production", s>> : s \in {u \in ToSet(tab.nonterminals) : tab.graph[u] = Null}}

RECURSIVE MarkReachedNts(_, _, _)
MarkReachedNts(tab, visited, p) ==
  IF p = Null THEN visited ELSE
  LET n == tab.nodes[p]
      own == CASE n.typ = "nt" /\ n.sym \notin visited ->
                    MarkReachedNts(tab, visited \cup {n.sym}, tab.graph[n.sym])
               [] n.typ \in {"iter", "opt"} -> MarkReachedNts(tab, visited, n.sub)
               [] n.typ = "alt" ->
                    MarkReachedNts(tab, MarkReachedNts(tab, visited, n.sub), n.down)
               [] OTHER -> visited
  IN IF n.up THEN own ELSE MarkReachedNts(tab, own, n.next)

AllNtReached(tab) ==
  LET visited == MarkReachedNts(tab, {gramSy}, tab.graph[gramSy])
  IN {<<"not reached", s>> : s \in ToSet(tab.nonterminals) \ visited}

----------------------------------------------------------------------------
(* Circular productions.                                                   *)

RECURSIVE GetSingles(_, _)

\* Mutant: what comes behind a structure is not looked at.
GetSinglesAnywhere(tab, p) ==
  IF p = Null THEN {} ELSE
  LET n == tab.nodes[p]
      own == CASE n.typ = "nt" /\ (n.up \/ DelGraph(tab, n.next)) -> {n.sym}
               [] n.typ = "alt" -> GetSingles(tab, n.sub) \cup GetSingles(tab, n.down)
               [] n.typ \in {"iter", "opt"} -> GetSingles(tab, n.sub)
               [] OTHER -> {}
  IN own \cup IF ~n.up /\ DelNode(tab, p) THEN GetSingles(tab, n.next) ELSE {}

\* The nonterminals the graph from p on may be derived to.
GetSingles(tab, p) ==
  IF p = Null THEN {} ELSE
  LET n == tab.nodes[p]
      alone == n.up \/ DelGraph(tab, n.next)
      own == CASE n.typ = "nt" /\ alone -> {n.sym}
               [] n.typ = "alt" /\ alone -> GetSingles(tab, n.sub) \cup GetSingles(tab, n.down)
               [] n.typ \in {"iter", "opt"} /\ alone -> GetSingles(tab, n.sub)
               [] OTHER -> {}
  IN own \cup IF ~n.up /\ DelNode(tab, p) THEN GetSingles(tab, n.next) ELSE {}

OnBothSides(list, n) ==
  /\ \E m \in ToSet(list) : m[1] = n[2]
  /\ \E m \in ToSet(list) : m[2] = n[1]

\* The loop over the list, which loses elements on the way; i is the next one.
RECURSIVE Prune(_, _)
Prune(list, i) ==
  IF i > Len(list) THEN list
  ELSE IF OnBothSides(list, list[i]) THEN Prune(list, i + 1)
  ELSE Prune(RemoveAt(list, i), i)

RECURSIVE PruneAll(_)
PruneAll(list) ==
  LET pass == Prune(list, 1) IN IF pass = list THEN list ELSE PruneAll(pass)

NoCircularProductions(tab) ==
  LET add(list, sym) ==
        list \o SetToSeq({<<sym, s>> : s \in GetSingles(tab, tab.graph[sym])})
      singles == FoldLeft(add, <<>>, tab.nonterminals)
  IN {<<"circular", n>> : n \in ToSet(PruneAll(singles))}

----------------------------------------------------------------------------
(* Productions that cannot be derived to terminals.                        *)

RECURSIVE IsTerm(_, _, _)
IsTerm(tab, p, mark) ==
  \/ p = Null
  \/ LET n == tab.nodes[p]
     IN /\ n.typ = "nt" => n.sym \in mark
        /\ n.typ = "alt" => \/ IsTerm(tab, n.sub, mark)
                            \/ n.down # Null /\ IsTerm(tab, n.down, mark)
        /\ n.up \/ IsTerm(tab, n.next, mark)

RECURSIVE Terminating(_, _)
Terminating(tab, mark) ==
  LET check(m, sym) == IF IsTerm(tab, tab.graph[sym], m) THEN m \cup {sym} ELSE m
      pass == FoldLeft(check, mark, tab.nonterminals)
  IN IF pass = mark THEN mark ELSE Terminating(tab, pass)

AllNtToTerm(tab) ==
  {<<"not to terminals", s>> : s \in ToSet(tab.nonterminals) \ Terminating(tab, {})}

----------------------------------------------------------------------------
(* Resolvers and LL(1) conflicts.                                          *)

\* soFar and rslvAllowed are what CheckRes knows of the nodes before p.
RECURSIVE CheckRes(_, _, _, _), CheckResAlternatives(_, _, _, _, _)

CheckResAlternatives(tab, q, curSy, expected, soFar) ==
  IF q = Null THEN {} ELSE
  LET n == tab.nodes[q]
      first == tab.nodes[n.sub]
      fs == Expected(tab, first.next, curSy)
      resolved == first.typ = "rslv"
  IN IF resolved THEN
       (IF fs \cap soFar # {} THEN {<<"never evaluated", first.pos>>} ELSE {})
         \cup (IF fs \cap expected = {} THEN {<<"no conflict", first.pos>>} ELSE {})
         \cup CheckRes(tab, n.sub, curSy, TRUE)
         \cup CheckResAlternatives(tab, n.down, curSy, expected, soFar)
     ELSE CheckRes(tab, n.sub, curSy, TRUE)
         \cup CheckResAlternatives(tab, n.down, curSy, expected,
                                   soFar \cup Expected(tab, n.sub, curSy))

\* What the alternatives from q on may start with.
RECURSIVE ExpectedOfAll(_, _, _)
ExpectedOfAll(tab, q, curSy) ==
  IF q = Null THEN {}
  ELSE Expected0(tab, tab.nodes[q].sub, curSy)
         \cup ExpectedOfAll(tab, tab.nodes[q].down, curSy)

CheckRes(tab, p, curSy, rslvAllowed) ==
  IF p = Null THEN {} ELSE
  LET n == tab.nodes[p]
      first == tab.nodes[n.sub]
      own == CASE n.typ = "alt" ->
                    CheckResAlternatives(tab, p, curSy, ExpectedOfAll(tab, p, curSy), {})
               [] n.typ \in {"iter", "opt"} ->
                    CheckRes(tab, n.sub, curSy, TRUE)
                      \cup (IF /\ first.typ = "rslv"
                               /\ First(tab, first.next) \cap Expected(tab, n.next, curSy) = {}
                            THEN {<<"no conflict", first.pos>>} ELSE {})
               [] n.typ = "rslv" /\ ~rslvAllowed -> {<<"no alternative", n.pos>>}
               [] OTHER -> {}
  IN own \cup IF n.up THEN {} ELSE CheckRes(tab, n.next, curSy, FALSE)

CheckResolvers(tab) ==
  UNION {CheckRes(tab, tab.graph[s], s, FALSE) : s \in ToSet(tab.nonterminals)}

CheckOverlap(s1, s2, cond, curSy) == {<<cond, curSy, x>> : x \in s1 \cap s2}

RECURSIVE CheckAlts(_, _, _), CheckAlternatives(_, _, _, _)

CheckAlternatives(tab, q, curSy, s1) ==
  IF q = Null THEN {} ELSE
  LET n == tab.nodes[q]
      s2 == Expected0(tab, n.sub, curSy)
  IN CheckOverlap(s1, s2, "alternatives", curSy)
       \cup CheckAlts(tab, n.sub, curSy)
       \cup CheckAlternatives(tab, n.down, curSy, s1 \cup s2)

CheckAlts(tab, p, curSy) ==
  IF p = Null THEN {} ELSE
  LET n == tab.nodes[p]
      own == CASE n.typ = "alt" -> CheckAlternatives(tab, p, curSy, {})
               [] n.typ \in {"opt", "iter"} ->
                    CheckAlts(tab, n.sub, curSy)
                      \cup IF DelSubGraph(tab, n.sub) THEN {<<"deletable", curSy>>}
                           ELSE CheckOverlap(Expected0(tab, n.sub, curSy),
                                             Expected(tab, n.next, curSy), "successor", curSy)
               [] n.typ = "any" /\ n.set = {} -> {<<"empty ANY", curSy>>}
               [] OTHER -> {}
  IN own \cup IF n.up THEN {} ELSE CheckAlts(tab, n.next, curSy)

CheckLL1(tab) ==
  UNION {CheckAlts(tab, tab.graph[s], s) : s \in ToSet(tab.nonterminals)}

----------------------------------------------------------------------------
(* Each check runs if those before it found nothing; the last two only     *)
(* warn.                                                                   *)

GrammarOk(tab) ==
  IF NtsComplete(tab) # {} THEN [errors |-> NtsComplete(tab), warnings |-> {}]
  ELSE IF AllNtReached(tab) # {} THEN [errors |-> AllNtReached(tab), warnings |-> {}]
  ELSE IF NoCircularProductions(tab) # {}
  THEN [errors |-> NoCircularProductions(tab), warnings |-> {}]
  ELSE IF AllNtToTerm(tab) # {} THEN [errors |-> AllNtToTerm(tab), warnings |-> {}]
  ELSE [errors |-> {}, warnings |-> CheckResolvers(tab) \cup CheckLL1(tab)]
=============================================================================
