---------------------------- MODULE SyntaxGraph ----------------------------
(***************************************************************************)
(* The syntax graph class Tab builds for a production or a token while its *)
(* parser reads it.  A graph is [nodes, l, r]: the list of all nodes made so far, *)
(* the head of the graph and the first of the nodes its ends are linked by.*)
(* A node refers to others by their index: next, the successor; down, the  *)
(* next alternative; sub, the first node of what an alternative, an option *)
(* or an iteration holds.  up marks the last node in a substructure, whose *)
(* next leads out of it.                                                   *)
(*                                                                         *)
(* The text of both is an expression: a sequence of alternatives, each a   *)
(* sequence of factors.                                                    *)
(***************************************************************************)
EXTENDS Naturals, Sequences

Null == 0

\* Factors without a body: typ is that of the node Factor makes for them, sym
\* the symbol of a "t", "wt" (a weak one) or "nt", pos the place in the text.
Leaf(typ, sym) == [typ |-> typ, sym |-> sym, pos |-> <<>>]
LeafTyps == {"t", "wt", "nt", "any", "sync", "rslv", "sem", "clas", "str"}

\* Those of tokens: a character class, a string.  What a node of them stands for
\* are the characters and the kind of the transition.
Class(syms) == Leaf("clas", [syms |-> syms, tc |-> "normalTrans"])
Str(text) == Leaf("str", text)

\* Factors with a body: (e), [e] and {e}, and CONTEXT(e) at the end of a term.
Bracket(typ, body) == [typ |-> typ, body |-> body]

Node(typ, sym, pos, sub, next) ==
  [typ |-> typ, sym |-> sym, pos |-> pos, sub |-> sub, next |-> next,
   down |-> Null, up |-> FALSE, set |-> {}]

LeafGraph(nodes, f) ==
  [nodes |-> Append(nodes, Node(f.typ, f.sym, f.pos, Null, Null)),
   l |-> Len(nodes) + 1, r |-> Len(nodes) + 1]

RECURSIVE LastDown(_, _)
LastDown(nodes, p) == IF nodes[p].down = Null THEN p ELSE LastDown(nodes, nodes[p].down)

RECURSIVE LastNext(_, _)
LastNext(nodes, p) == IF nodes[p].next = Null THEN p ELSE LastNext(nodes, nodes[p].next)

\* The open ends from r on lead to p.
RECURSIVE LinkEnds(_, _, _)
LinkEnds(nodes, r, p) ==
  IF r = Null THEN nodes ELSE LinkEnds([nodes EXCEPT ![r].next = p], nodes[r].next, p)

\* A structure of that type around g that may be passed by: its node is an end.
Wrap(typ, g) ==
  [nodes |-> Append([g.nodes EXCEPT ![g.r].up = TRUE], Node(typ, Null, <<>>, g.l, g.r)),
   l |-> Len(g.nodes) + 1, r |-> Len(g.nodes) + 1]

MakeFirstAlt(g) == Wrap("alt", g)

MakeOption(g) == Wrap("opt", g)

\* g2 was built after g1, so that its nodes include those of g1.
MakeAlternative(g1, g2) ==
  LET new == Len(g2.nodes) + 1
      nodes == [g2.nodes EXCEPT ![g2.r].up = TRUE, ![LastDown(g2.nodes, g1.l)].down = new,
                                ![LastNext(g2.nodes, g1.r)].next = new]
  IN [nodes |-> Append(nodes, [Node("alt", Null, <<>>, g2.l, g2.r) EXCEPT !.up = TRUE]),
      l |-> g1.l, r |-> g1.r]

MakeSequence(g1, g2) ==
  [nodes |-> LinkEnds(g2.nodes, g1.r, g2.l), l |-> g1.l, r |-> g2.r]

MakeIteration(g) ==
  LET new == Len(g.nodes) + 1
      nodes == LinkEnds([g.nodes EXCEPT ![g.r].up = TRUE], g.r, new)
  IN [nodes |-> Append(nodes, Node("iter", Null, <<>>, g.l, Null)), l |-> new, r |-> new]

Finish(g) == LinkEnds(g.nodes, g.r, Null)

\* A node for each character.
StrToGraph(nodes, text) ==
  LET n == Len(nodes)
      chr(i) == Node("chr", [syms |-> {text[i]}, tc |-> "normalTrans"], <<>>, Null,
                     IF i < Len(text) THEN n + i + 1 ELSE Null)
  IN [nodes |-> nodes \o [i \in DOMAIN text |-> chr(i)], l |-> n + 1, r |-> n + Len(text)]

\* The transitions from p on, up to the end of the structure, are in a context.
RECURSIVE SetContextTrans(_, _)
SetContextTrans(nodes, p) ==
  IF p = Null THEN nodes ELSE
  LET n == nodes[p]
      here == CASE n.typ \in {"chr", "clas"} -> [nodes EXCEPT ![p].sym.tc = "contextTrans"]
                [] n.typ \in {"opt", "iter"} -> SetContextTrans(nodes, n.sub)
                [] n.typ = "alt" -> SetContextTrans(SetContextTrans(nodes, n.sub), n.down)
                [] OTHER -> nodes
  IN IF n.up THEN here ELSE SetContextTrans(here, n.next)

----------------------------------------------------------------------------
(* The productions of Coco-cpp.atg that read an expression, and those that *)
(* read the expression of a token.  The node of a first alternative is     *)
(* made before the second is read, which changes no more than the numbers  *)
(* of the nodes.                                                           *)

RECURSIVE Expression(_, _), Alternatives(_, _), Term(_, _), Factors(_, _)

Factor(nodes, f) ==
  CASE f.typ = "str"      -> StrToGraph(nodes, f.sym)
    [] f.typ \in LeafTyps -> LeafGraph(nodes, f)
    [] f.typ = "paren"    -> Expression(nodes, f.body)
    [] f.typ = "opt"      -> MakeOption(Expression(nodes, f.body))
    [] f.typ = "iter"     -> MakeIteration(Expression(nodes, f.body))
    [] f.typ = "context"  -> LET g == Expression(nodes, f.body)
                             IN [g EXCEPT !.nodes = SetContextTrans(@, g.l)]

Factors(g, term) ==
  IF term = <<>> THEN g
  ELSE Factors(MakeSequence(g, Factor(g.nodes, Head(term))), Tail(term))

Term(nodes, term) ==
  IF term = <<>> THEN LeafGraph(nodes, Leaf("eps", Null))
  ELSE Factors(Factor(nodes, Head(term)), Tail(term))

Alternatives(g, terms) ==
  IF terms = <<>> THEN g
  ELSE Alternatives(MakeAlternative(g, Term(g.nodes, Head(terms))), Tail(terms))

Expression(nodes, e) ==
  LET g == Term(nodes, Head(e))
  IN IF Tail(e) = <<>> THEN g ELSE Alternatives(MakeFirstAlt(g), Tail(e))
=============================================================================
