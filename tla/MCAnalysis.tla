----------------------------- MODULE MCAnalysis -----------------------------
EXTENDS Analysis, TLC

CONSTANTS S, A, B, t1, t2

(***************************************************************************)
(* All expressions by size.  A leaf, a resolver, a bracket and the bar     *)
(* between two alternatives count 1 each, SYNC counts 2.  A term has at    *)
(* most one resolver, in front; ( ) stands around two alternatives or more *)
(* (around one it changes nothing); nobody writes EOF into a production.   *)
(***************************************************************************)

Leaves == {Leaf("t", t1), Leaf("t", t2), Leaf("nt", S), Leaf("nt", A), Leaf("any", 0)}

RECURSIVE FactorsOfSize(_), FactorsUpTo(_), TermsOfSize(_), ExpressionsOfSize(_)

FactorsOfSize(n) ==
  (IF n = 1 THEN Leaves ELSE {}) \cup (IF n = 2 THEN {Leaf("sync", 0)} ELSE {})
    \cup {Bracket(typ, e) : typ \in {"opt", "iter"}, e \in ExpressionsOfSize(n - 1)}
    \cup {Bracket("paren", e) : e \in {x \in ExpressionsOfSize(n - 1) : Len(x) > 1}}

FactorsUpTo(n) ==
  IF n = 0 THEN {<<>>}
  ELSE UNION {{<<f>> \o t : f \in FactorsOfSize(k), t \in FactorsUpTo(n - k)} : k \in 1..n}

TermsOfSize(n) ==
  FactorsUpTo(n)
    \cup (IF n < 2 THEN {} ELSE {<<Leaf("rslv", 0)>> \o t : t \in FactorsUpTo(n - 1)})

ExpressionsOfSize(n) ==
  {<<t>> : t \in TermsOfSize(n)}
    \cup UNION {{<<t>> \o e : t \in TermsOfSize(k), e \in ExpressionsOfSize(n - 1 - k)} :
                  k \in 0..(n - 1)}

(***************************************************************************)
(* Three nonterminals that begin and end one another's productions: the    *)
(* empty expression, one leaf, one or none, a sequence of two leaves and a *)
(* choice of two.                                                          *)
(***************************************************************************)
Plain == {Leaf("t", t) : t \in {t1, t2}} \cup {Leaf("nt", s) : s \in {S, A, B}}

FlatOfSize(n) ==
  CASE n = 0 -> {<< <<>> >>}
    [] n = 1 -> UNION {{<< <<x>> >>, << <<x>>, <<>> >>} : x \in Plain}
    [] n = 2 -> UNION {{<< <<x, y>> >>, << <<x>>, <<y>> >>} : x, y \in Plain}
    [] OTHER -> {}

(***************************************************************************)
(* Up to two brackets around, before and behind an ANY and what it must    *)
(* leave to others: choices of two or three bits, each empty or one leaf.  *)
(***************************************************************************)
Bits == {<<>>} \cup {<<x>> : x \in {Leaf("t", t1), Leaf("t", t2), Leaf("any", 0)}}

\* For sets E and F of terms: a choice of one of each, in either order.
Choice(E, F) == {<<e, f>> : e \in E, f \in F} \cup {<<f, e>> : e \in E, f \in F}
One(E) == {<<e>> : e \in E}
Three(E) == {<<e, f, g>> : e, f, g \in E}

Around(es) ==
  {<<Bracket(typ, e)>> : typ \in {"opt", "iter"}, e \in es}
    \cup {<<Bracket("paren", e)>> : e \in {x \in es : Len(x) > 1}}

Then(E, F) == {e \o f : e \in E, f \in F}

AnyTexts ==
  LET two == Around(One(Bits) \cup Choice(Bits, Bits))
      beside(E) == Then(E, Bits)
      nested == Around(One(beside(two)) \cup Choice(beside(two), Bits))
  IN One(beside(Around(Three(Bits)))) \cup Choice(beside(two), Bits) \cup One(Then(two, two))
       \cup One(Then(nested, {<<>>, <<Leaf("any", 0)>>}))

MCPools == {"all", "any", "flat"}
MCMaxSize == [p \in MCPools |-> IF p = "any" THEN 1 ELSE 4]

\* If the text of A were all that four symbols allow, S could not lead to it.
Texts(p, sym, n) ==
  CASE p = "flat" -> FlatOfSize(n)
    [] p = "any"  -> IF sym = S /\ n = 1 THEN AnyTexts ELSE {}
    [] p = "all"  -> IF sym = B \/ (sym = A /\ n = 4) THEN {} ELSE ExpressionsOfSize(n)

MCNonterminals == {S, A, B}
MCBodies ==
  [p \in MCPools |-> [sym \in MCNonterminals |-> [n \in 0..MCMaxSize[p] |-> Texts(p, sym, n)]]]
MCTerminals == {t1, t2}
Symmetry == Permutations({t1, t2})
=============================================================================
