----------------------------- MODULE ParserGen -----------------------------
(***************************************************************************)
(* The parser class ParserGen writes for a grammar: for each nonterminal a *)
(* sequence of statements.  Conditions, and the sets they need, are kept   *)
(* as in the generated code; error numbers are left out, an error is its   *)
(* message.                                                                *)
(*                                                                         *)
(* g is the generator: symSet, the list of sets written so far, and code,  *)
(* the statements of the block that is written.                            *)
(***************************************************************************)
EXTENDS Productions, Statements

MaxTerm == 3          \* maxTerm: sets of up to so many symbols are tested one by one

Put(g, statement) == [g EXCEPT !.code = Append(@, statement)]

\* What is yielded with the generator: the index of the set, the condition.
With(g, x) == [g |-> g, x |-> x]

\* The first set is not looked at: it is reserved for the union of the SYNC sets.
NewCondSet(g, s) ==
  LET same == {i \in 2..Len(g.symSet) : g.symSet[i] = s}
  IN IF same # {} THEN With(g, CHOOSE i \in same : TRUE)
     ELSE With([g EXCEPT !.symSet = Append(@, s)], Len(g.symSet) + 1)

GenCond(g, s, p) ==
  IF p.typ = "rslv" THEN With(g, Resolver)
  ELSE IF Cardinality(s) <= MaxTerm THEN With(g, OneOf(s))
  ELSE LET c == NewCondSet(g, s) IN With(c.g, StartOf(c.x))

RECURSIVE AlternativesFrom(_, _)
AlternativesFrom(nodes, p) == IF p = Null THEN <<>> ELSE <<p>> \o AlternativesFrom(nodes, nodes[p].down)

UseSwitch(nodes, alts) ==
  Len(alts) > 5 /\ \A i \in DOMAIN alts : nodes[nodes[alts[i]].sub].typ # "rslv"

\* Mutant: not at the symbols that are expected next.
WeakFollowSync(tab, next, curSy) == tab.allSyncSets

\* Where the parser goes on if a weak terminal is missing.
WeakFollow(tab, next, curSy) == Expected(tab, next, curSy) \cup tab.allSyncSets

\* Mutant: what was checked stays so.
StillChecked(typ, isChecked) == isChecked

\* What is known of the lookahead behind a node of that type.
CheckedBehind(typ, isChecked) == IF typ \in {"eps", "sem", "sync"} THEN isChecked ELSE {}

\* Mutant: the last alternative is never tested.
LastAlways(last, equal, useSwitch) == last /\ ~useSwitch

\* The last of the alternatives needs no test.
IsElse(last, equal, useSwitch) == last /\ equal /\ ~useSwitch

RECURSIVE GenCode(_, _, _, _, _), GenBranches(_, _, _, _, _, _)

\* A block of its own, with the generator as it was around it.
Block(tab, curSy, g, p, isChecked) ==
  LET b == GenCode(tab, curSy, [g EXCEPT !.code = <<>>], p, isChecked)
  IN With([b EXCEPT !.code = g.code], b.code)

GenAny(g, n, curSy, isChecked) ==
  IF Cardinality(AllTerminals) = Cardinality(n.set) + 1 \/ (n.set # {} /\ n.set = isChecked)
  THEN Put(g, GetStatement)
  ELSE IF n.set = {} THEN Put(g, Error(AltErr(curSy)))
  ELSE LET c == GenCond(g, n.set, n) IN Put(c.g, GetIf(c.x, AltErr(curSy)))

\* One branch for each of alts, those before it are in branches.
GenBranches(tab, curSy, g, alts, equal, branches) ==
  IF Len(branches) = Len(alts) THEN With(g, branches) ELSE
  LET k == Len(branches) + 1
      sub == tab.nodes[alts[k]].sub
      s1 == Expected(tab, sub, curSy)
      useSwitch == UseSwitch(tab.nodes, alts)
      c == IF useSwitch THEN With(g, OneOf(s1))
           ELSE IF IsElse(k > 1 /\ k = Len(alts), equal, useSwitch) THEN With(g, Else)
           ELSE GenCond(g, s1, tab.nodes[sub])
      b == Block(tab, curSy, c.g, sub, s1)
  IN GenBranches(tab, curSy, b.g, alts, equal, Append(branches, [cond |-> c.x, body |-> b.x]))

GenAlt(tab, curSy, g, p, isChecked) ==
  LET equal == First(tab, p) = isChecked
      b == GenBranches(tab, curSy, g, AlternativesFrom(tab.nodes, p), equal, <<>>)
  IN Put(b.g, Choice(b.x, IF equal THEN NoErr ELSE AltErr(curSy)))

GenIter(tab, curSy, g, n) ==
  LET p2 == tab.nodes[n.sub]
      first == First(tab, n.sub)
      c == GenCond(g, first, p2)
      b == Block(tab, curSy, c.g, n.sub, first)
  IN Put(b.g, While(c.x, b.x))

\* An iteration that begins with a weak separator.
GenWeakIter(tab, curSy, g, n) ==
  LET p2 == tab.nodes[n.sub]
      s1 == NewCondSet(g, Expected(tab, p2.next, curSy))
      s2 == NewCondSet(s1.g, Expected(tab, n.next, curSy))
      b == Block(tab, curSy, s2.g, IF p2.up THEN Null ELSE p2.next, {})
  IN Put(b.g, WhileWeak(p2.sym, s1.x, s2.x, b.x))

GenOpt(tab, curSy, g, n) ==
  LET first == First(tab, n.sub)
      c == GenCond(g, first, tab.nodes[n.sub])
      b == Block(tab, curSy, c.g, n.sub, first)
  IN Put(b.g, Choice(<<[cond |-> c.x, body |-> b.x]>>, NoErr))

GenNode(tab, curSy, g, p, isChecked) ==
  LET n == tab.nodes[p]
  IN CASE n.typ = "nt"   -> Put(g, Call(n.sym))
       [] n.typ = "t"    -> Put(g, IF n.sym \in isChecked THEN GetStatement ELSE Expect(n.sym))
       [] n.typ = "wt"   -> LET c == NewCondSet(g, WeakFollow(tab, n.next, curSy))
                            IN Put(c.g, ExpectWeak(n.sym, c.x))
       [] n.typ = "any"  -> GenAny(g, n, curSy, isChecked)
       [] n.typ = "sem"  -> Put(g, SemText)
       [] n.typ = "sync" -> LET c == GenCond(g, n.set, n)
                            IN Put(c.g, WhileNot(c.x, SyncErr(curSy)))
       [] n.typ = "alt"  -> GenAlt(tab, curSy, g, p, isChecked)
       [] n.typ = "iter" -> IF tab.nodes[n.sub].typ = "wt" THEN GenWeakIter(tab, curSy, g, n)
                            ELSE GenIter(tab, curSy, g, n)
       [] n.typ = "opt"  -> GenOpt(tab, curSy, g, n)
       [] OTHER          -> g

GenCode(tab, curSy, g, p, isChecked) ==
  IF p = Null THEN g ELSE
  LET n == tab.nodes[p]
      g1 == GenNode(tab, curSy, g, p, isChecked)
  IN IF n.up THEN g1 ELSE GenCode(tab, curSy, g1, n.next, CheckedBehind(n.typ, isChecked))

\* The parser: the sets, and the code of each nonterminal.
WriteParser(tab) ==
  LET gen(w, sym) ==
        LET b == Block(tab, sym, w.g, tab.graph[sym], {})
        IN [g |-> b.g, code |-> [w.code EXCEPT ![sym] = b.x]]
      w == FoldLeft(gen, [g |-> [symSet |-> <<tab.allSyncSets>>, code |-> <<>>],
                          code |-> [s \in Nonterminals |-> <<>>]], tab.nonterminals)
  IN [symSet |-> w.g.symSet, code |-> w.code]
=============================================================================
