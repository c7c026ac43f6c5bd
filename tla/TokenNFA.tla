------------------------------ MODULE TokenNFA ------------------------------
(***************************************************************************)
(* How class DFA makes the states and transitions of a token from the      *)
(* graph of its expression.                                                *)
(*                                                                         *)
(* c is the automaton as far as it is made: state, the state of each node; *)
(* size, the number of states added; ends, those of them that end the      *)
(* token; arcs, the transitions in the order they are added; failed, an    *)
(* error was reported.  State 0 is firstState.                             *)
(***************************************************************************)
EXTENDS SyntaxGraph, Integers, FiniteSets

NoState == -1
firstState == 0

RECURSIVE DelGraph(_, _), DelSubGraph(_, _)

DelNode(nodes, p) ==
  LET n == nodes[p]
  IN IF n.typ = "alt"
     THEN DelSubGraph(nodes, n.sub) \/ (n.down # Null /\ DelSubGraph(nodes, n.down))
     ELSE n.typ \in {"iter", "opt", "eps"}

DelGraph(nodes, p) == p = Null \/ (DelNode(nodes, p) /\ DelGraph(nodes, nodes[p].next))

DelSubGraph(nodes, p) ==
  p = Null \/ (DelNode(nodes, p) /\ (nodes[p].up \/ DelSubGraph(nodes, nodes[p].next)))

IsTransition(n) == n.typ \in {"chr", "clas"}

NewState(c) == [c EXCEPT !.size = @ + 1]

----------------------------------------------------------------------------
(* Each node gets a state.                                                 *)

\* Mutant: only at the start of a token does an iteration get a state of its own.
RenumberFirstOnly(n, state, renumIter) ==
  state = NoState \/ (n.typ = "iter" /\ state = firstState)

Renumber(n, state, renumIter) == state = NoState \/ (n.typ = "iter" /\ renumIter)

RECURSIVE NumberNodes(_, _, _, _, _)
NumberNodes(nodes, c, p, state, renumIter) ==
  IF p = Null \/ c.state[p] # NoState THEN c ELSE
  LET n == nodes[p]
      c0 == IF Renumber(n, state, renumIter) THEN NewState(c) ELSE c
      s == IF Renumber(n, state, renumIter) THEN c0.size ELSE state
      here == [c0 EXCEPT !.state[p] = s, !.ends = IF DelGraph(nodes, p) THEN @ \cup {s} ELSE @]
      behind(next, renum) == NumberNodes(nodes, here, n.next, next, renum)
      inside(x) == NumberNodes(nodes, x, n.sub, s, TRUE)
  IN CASE IsTransition(n) -> behind(NoState, FALSE)
       [] n.typ = "opt"   -> inside(behind(NoState, FALSE))
       [] n.typ = "iter"  -> inside(behind(s, TRUE))
       [] n.typ = "alt"   -> NumberNodes(nodes, inside(behind(NoState, FALSE)), n.down, s, renumIter)
       [] OTHER           -> here

----------------------------------------------------------------------------
(* The transitions.                                                        *)

\* TheState: behind the last node a state of its own ends the token.
AddTransition(c, from, n) ==
  LET end == [NewState(c) EXCEPT !.ends = @ \cup {c.size + 1}]
      arc(to) == [from |-> from, to |-> to, typ |-> n.typ, syms |-> n.sym.syms, tc |-> n.sym.tc]
  IN IF n.next = Null THEN [end EXCEPT !.arcs = Append(@, arc(end.size))]
     ELSE [c EXCEPT !.arcs = Append(@, arc(c.state[n.next]))]

\* From p on, all transitions that are possible in a state.
RECURSIVE Step(_, _, _, _, _)
Step(nodes, c, from, p, steppedBefore) ==
  IF p = Null THEN [c |-> c, stepped |-> steppedBefore] ELSE
  LET n == nodes[p]
      stepped == steppedBefore \cup {p}
      here == [c |-> c, stepped |-> stepped]
      on(x, q) == Step(nodes, x.c, from, q, x.stepped)
      behind == IF n.next \notin stepped THEN on(here, n.next) ELSE here
      inside == on(behind, n.sub)
      again == [inside EXCEPT !.c = Step(nodes, @, c.state[p], p, {}).c]
  IN CASE IsTransition(n)  -> [here EXCEPT !.c = AddTransition(@, from, n)]
       [] n.typ = "alt"    -> on(on(here, n.sub), n.down)
       [] n.typ = "opt"    -> inside
       [] n.typ = "iter"   -> IF DelSubGraph(nodes, n.sub) THEN [here EXCEPT !.c.failed = TRUE]
                              ELSE IF c.state[p] # from THEN again ELSE inside
       [] OTHER            -> here

\* start: p is the first of the nodes with its state.
RECURSIVE FindTrans(_, _, _, _, _)
FindTrans(nodes, c, p, start, markedBefore) ==
  IF p = Null \/ p \in markedBefore THEN [c |-> c, marked |-> markedBefore] ELSE
  LET n == nodes[p]
      here == [c |-> IF start THEN Step(nodes, c, c.state[p], p, {}).c ELSE c,
               marked |-> markedBefore \cup {p}]
      on(x, q, isStart) == FindTrans(nodes, x.c, q, isStart, x.marked)
  IN CASE IsTransition(n) -> on(here, n.next, TRUE)
       [] n.typ = "opt"   -> on(on(here, n.next, TRUE), n.sub, FALSE)
       [] n.typ = "iter"  -> on(on(here, n.next, FALSE), n.sub, FALSE)
       [] n.typ = "alt"   -> on(on(here, n.sub, FALSE), n.down, FALSE)
       [] OTHER           -> here

Unconverted(nodes) ==
  [state |-> [p \in DOMAIN nodes |-> NoState], size |-> 0, ends |-> {}, arcs |-> <<>>,
   failed |-> FALSE]

ConvertToStates(nodes, p) ==
  LET numbered == NumberNodes(nodes, Unconverted(nodes), p, firstState, TRUE)
      found == FindTrans(nodes, numbered, p, TRUE, {}).c
  IN IF DelGraph(nodes, p) THEN [Unconverted(nodes) EXCEPT !.failed = TRUE]
     ELSE IF nodes[p].typ = "iter" THEN Step(nodes, found, firstState, p, {}).c
     ELSE found

----------------------------------------------------------------------------
(* TokenDecl.                                                              *)

\* The strings and character classes of an expression, in the order of the text.
RECURSIVE LeavesOf(_)
LeavesOf(e) ==
  LET of(f) == IF f.typ \in LeafTyps THEN <<f>> ELSE LeavesOf(f.body)
  IN IF e = <<>> THEN <<>>
     ELSE IF Head(e) = <<>> THEN LeavesOf(Tail(e))
     ELSE of(Head(Head(e))) \o LeavesOf(<<Tail(Head(e))>> \o Tail(e))

\* tokenString is neither empty nor noString: the token is taken for a string.
IsString(e) == LET leaves == LeavesOf(e) IN Len(leaves) = 1 /\ leaves[1].typ = "str"

TokenString(e) == LeavesOf(e)[1].sym

TokenGraph(e) == LET g == Expression(<<>>, e) IN [nodes |-> Finish(g), l |-> g.l]

Converted(e) == ConvertToStates(TokenGraph(e).nodes, TokenGraph(e).l)

----------------------------------------------------------------------------
(* Properties of what was made.                                            *)

\* "There will be a transition from n.state to n.next.state triggered by n.val."
Linked(nodes, c) ==
  \A p \in DOMAIN nodes : IsTransition(nodes[p]) =>
    \E i \in DOMAIN c.arcs :
      /\ c.arcs[i].from = c.state[p] /\ c.arcs[i].syms = nodes[p].sym.syms
      /\ IF nodes[p].next = Null THEN c.arcs[i].to \in c.ends
         ELSE c.arcs[i].to = c.state[nodes[p].next]
=============================================================================
