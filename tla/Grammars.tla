------------------------------ MODULE Grammars ------------------------------
(***************************************************************************)
(* What the terms of the theory of grammars mean, on the text of the       *)
(* productions alone: the reference for what Tab computes on its graph.    *)
(*                                                                         *)
(* A grammar is [prod, anys]: prod[s] is the expression of nonterminal s,  *)
(* if it has one, and anys[p] the set that the ANY at place p stands for.  *)
(* WithNullable and WithFirst add null, the nonterminals that may be       *)
(* empty, and first, what each may start with.                             *)
(*                                                                         *)
(* K is the set of what may come behind an expression; End in it says that *)
(* the production may end there.                                           *)
(***************************************************************************)
EXTENDS Naturals, Sequences, Symbols

End == "end"
WithBody == {"paren", "opt", "iter"}

\* The least fixed point of Op above x.
LeastFixedPoint(Op(_), x) ==
  LET RECURSIVE Iterate(_)
      Iterate(y) == LET z == Op(y) IN IF z = y THEN y ELSE Iterate(z)
  IN Iterate(x)

----------------------------------------------------------------------------
RECURSIVE Nullable(_, _), Starts(_, _, _), Within(_, _, _), Alone(_, _), Productive(_, _)

NullableFactor(f, null) ==
  CASE f.typ = "nt"                 -> f.sym \in null
    [] f.typ \in {"t", "wt", "any"} -> FALSE
    [] f.typ = "paren"              -> Nullable(f.body, null)
    [] OTHER                        -> TRUE

NullableTerm(term, null) == \A j \in DOMAIN term : NullableFactor(term[j], null)

Nullable(e, null) == \E i \in DOMAIN e : NullableTerm(e[i], null)

StartsFactor(f, g) ==
  CASE f.typ \in {"t", "wt"} -> {f.sym}
    [] f.typ = "nt"       -> g.first[f.sym]
    [] f.typ = "any"      -> g.anys[f.pos]
    [] f.typ \in WithBody -> Starts(f.body, {}, g)
    [] OTHER              -> {}

StartsTerm(term, K, g) ==
  LET reached == {j \in DOMAIN term : NullableTerm(SubSeq(term, 1, j - 1), g.null)}
  IN UNION {StartsFactor(term[j], g) : j \in reached}
       \cup IF NullableTerm(term, g.null) THEN K ELSE {}

Starts(e, K, g) == UNION {StartsTerm(e[i], K, g) : i \in DOMAIN e}

\* The factors of e with what may come behind them.
FactorsOf(e, K, g) ==
  LET behind(term, j) == StartsTerm(SubSeq(term, j + 1, Len(term)), K, g)
  IN UNION {{[f |-> e[i][j], K |-> behind(e[i], j)] : j \in DOMAIN e[i]} : i \in DOMAIN e}

\* e and the expressions in it with what may come behind them.
Within(e, K, g) ==
  LET inBody(o) ==
        Within(o.f.body,
               IF o.f.typ = "iter" THEN o.K \cup Starts(o.f.body, {}, g) ELSE o.K, g)
  IN {[e |-> e, K |-> K]}
       \cup UNION {inBody(o) : o \in {p \in FactorsOf(e, K, g) : p.f.typ \in WithBody}}

Expressions(s, g) == Within(g.prod[s], {End}, g)

Occurrences(s, g) == UNION {FactorsOf(x.e, x.K, g) : x \in Expressions(s, g)}

----------------------------------------------------------------------------
Defined(g) == DOMAIN g.prod

WithNullable(prod, anys) ==
  LET step(null) == {s \in DOMAIN prod : Nullable(prod[s], null)}
  IN [prod |-> prod, anys |-> anys, null |-> LeastFixedPoint(step, {})]

\* g with first sets that were computed elsewhere.
WithFirst(g, first) == [prod |-> g.prod, anys |-> g.anys, null |-> g.null, first |-> first]

FirstSets(g) ==
  LET step(first) ==
        [s \in Nonterminals |->
           IF s \in Defined(g) THEN Starts(g.prod[s], {}, WithFirst(g, first)) ELSE {}]
  IN LeastFixedPoint(step, [s \in Nonterminals |-> {}])

\* What may come behind an occurrence in the production of s.
Close(K, follow, s) == (K \ {End}) \cup IF End \in K THEN follow[s] ELSE {}

FollowSets(g) ==
  LET uses == UNION {{[sym |-> o.f.sym, K |-> o.K, in |-> s] :
                        o \in {p \in Occurrences(s, g) : p.f.typ = "nt"}} : s \in Defined(g)}
      step(follow) ==
        [s \in Nonterminals |->
           UNION {Close(u.K, follow, u.in) : u \in {v \in uses : v.sym = s}}
             \cup IF s = gramSy THEN {eofSy} ELSE {}]
  IN LeastFixedPoint(step, [s \in Nonterminals |-> {}])

\* The synchronisation sets, by place.
SyncSets(g, follow) ==
  LET syncs == UNION {{[pos |-> o.f.pos, s |-> Close(o.K, follow, s) \cup {eofSy}] :
                         o \in {p \in Occurrences(s, g) : p.f.typ = "sync"}} : s \in Defined(g)}
  IN [p \in {y.pos : y \in syncs} |-> UNION {y.s : y \in {z \in syncs : z.pos = p}}]

----------------------------------------------------------------------------
(* What a grammar must not have.                                           *)

Uses(s, g) == {o.f.sym : o \in {p \in Occurrences(s, g) : p.f.typ = "nt"}}

Undefined(g) == (UNION {Uses(s, g) : s \in Defined(g)}) \ Defined(g)

Unreached(g) ==
  LET step(reached) == reached \cup UNION {Uses(s, g) : s \in reached \cap Defined(g)}
  IN Defined(g) \ LeastFixedPoint(step, {gramSy})

\* The nonterminals that may be all that is left of e.
Alone(e, g) ==
  LET others(term, j) == [k \in 1..(Len(term) - 1) |-> term[IF k < j THEN k ELSE k + 1]]
      alone(term) == {term[j] : j \in {i \in DOMAIN term : NullableTerm(others(term, i), g.null)}}
      syms(f) == CASE f.typ = "nt" -> {f.sym}
                   [] f.typ \in WithBody -> Alone(f.body, g)
                   [] OTHER -> {}
  IN UNION {syms(f) : f \in UNION {alone(e[i]) : i \in DOMAIN e}}

Circular(g) ==
  LET from(s) ==
        LET step(S) == S \cup UNION {Alone(g.prod[t], g) : t \in S}
        IN LeastFixedPoint(step, Alone(g.prod[s], g))
  IN {s \in Defined(g) : s \in from(s)}

\* The steps from a nonterminal to one that may be all that is left of it, on a way
\* from a circular one to a circular one.
CircularSteps(g) ==
  LET steps == UNION {{<<s, t>> : t \in Alone(g.prod[s], g)} : s \in Defined(g)}
      ahead(S) == S \cup {y[2] : y \in {x \in steps : x[1] \in S}}
      back(S) == S \cup {y[1] : y \in {x \in steps : x[2] \in S}}
  IN {x \in steps : /\ x[1] \in LeastFixedPoint(ahead, Circular(g))
                    /\ x[2] \in LeastFixedPoint(back, Circular(g))}

Productive(e, P) ==
  LET productive(f) == CASE f.typ = "nt" -> f.sym \in P
                         [] f.typ = "paren" -> Productive(f.body, P)
                         [] OTHER -> TRUE
  IN \E i \in DOMAIN e : \A j \in DOMAIN e[i] : productive(e[i][j])

Unproductive(g) ==
  LET step(P) == {s \in Defined(g) : Productive(g.prod[s], P)}
  IN Defined(g) \ LeastFixedPoint(step, {})

----------------------------------------------------------------------------
(* What an ANY must leave to others: its rivals, each with what it may     *)
(* start with.  The ANY that stands for an expression is the first it may  *)
(* begin with, in the order of the text; nonterminals are not looked into. *)

\* The first of a sequence of sets that is not empty.
FirstOf(sets) ==
  UNION {sets[i] : i \in {j \in DOMAIN sets : \A h \in 1..(j - 1) : sets[h] = {}}}

RECURSIVE Leading(_, _)

\* The place of the ANY, as a set of one or none.
LeadingTerm(term, g) ==
  LET of(f) == CASE f.typ = "any"      -> {f.pos}
                 [] f.typ \in WithBody -> Leading(f.body, g)
                 [] OTHER              -> {}
      reached(j) == NullableTerm(SubSeq(term, 1, j - 1), g.null)
  IN FirstOf([j \in DOMAIN term |-> IF reached(j) THEN of(term[j]) ELSE {}])

Leading(e, g) == FirstOf([i \in DOMAIN e |-> LeadingTerm(e[i], g)])

\* The deletable factors in e, each with the term it may be passed by to: the rest of
\* its own or, at the end of that, what comes behind the bracket around it; out comes
\* behind e.
RECURSIVE Passed(_, _, _)
Passed(e, out, g) ==
  LET rest(i, j) == SubSeq(e[i], j + 1, Len(e[i]))
      to(i, j) == IF rest(i, j) = <<>> THEN out ELSE rest(i, j)
      own(i, j) == IF NullableFactor(e[i][j], g.null)
                   THEN {[f |-> e[i][j], to |-> to(i, j)]} ELSE {}
      inBody(i, j) ==
        CASE e[i][j].typ = "iter" -> Passed(e[i][j].body, <<e[i][j]>> \o rest(i, j), g)
          [] e[i][j].typ \in {"paren", "opt"} -> Passed(e[i][j].body, to(i, j), g)
          [] OTHER -> {}
  IN UNION {UNION {own(i, j) \cup inBody(i, j) : j \in DOMAIN e[i]} : i \in DOMAIN e}

\* What may be taken in place of the ANY at a place, in the production of s: another
\* alternative, but of those that begin with an ANY only a later one; what comes
\* behind an option or iteration; an option, iteration or nonterminal passed by
\* before the ANY.
Rivals(s, g) ==
  LET between(x) ==
        UNION {{[pos |-> p, s |-> StartsTerm(x.e[ij[2]], x.K, g) \ {End}] :
                  p \in LeadingTerm(x.e[ij[1]], g)} :
                 ij \in {kl \in (DOMAIN x.e) \X (DOMAIN x.e) :
                           \/ kl[1] < kl[2]
                           \/ kl[1] > kl[2] /\ LeadingTerm(x.e[kl[2]], g) = {}}}
      behind(o) == IF o.f.typ \notin {"opt", "iter"} THEN {}
                   ELSE {[pos |-> p, s |-> o.K \ {End}] : p \in Leading(o.f.body, g)}
      before(y) ==
        CASE y.f.typ \in {"opt", "iter"} ->
               {[pos |-> p, s |-> Starts(y.f.body, {}, g)] : p \in LeadingTerm(y.to, g)}
          [] y.f.typ = "nt" ->
               {[pos |-> p, s |-> Starts(g.prod[y.f.sym], {}, g)] : p \in LeadingTerm(y.to, g)}
          [] OTHER -> {}
  IN UNION {between(x) : x \in Expressions(s, g)}
       \cup UNION {behind(o) : o \in Occurrences(s, g)}
       \cup UNION {before(y) : y \in Passed(g.prod[s], <<>>, g)}

----------------------------------------------------------------------------
(* LL(1) conflicts, in the terms of Tab::LL1Error, and resolvers that are  *)
(* of no use.  A resolver opens a term; the term is then chosen by it.     *)

Resolved(term) == term # <<>> /\ term[1].typ = "rslv"

\* What a term is chosen by, in the production of s with K behind it.
Chosen(term, K, g, follow, s) ==
  IF Resolved(term) THEN {} ELSE Close(StartsTerm(term, K, g), follow, s)

ConflictsOf(s, g, follow) ==
  LET between(x) ==
        {<<"alternatives", s, y>> : y \in UNION
           {Chosen(x.e[i], x.K, g, follow, s) \cap Chosen(x.e[j], x.K, g, follow, s) :
              <<i, j>> \in {ij \in (DOMAIN x.e) \X (DOMAIN x.e) : ij[1] < ij[2]}}}
      at(o) ==
        CASE o.f.typ \in {"opt", "iter"} /\ Nullable(o.f.body, g.null) -> {<<"deletable", s>>}
          [] o.f.typ \in {"opt", "iter"} /\ ~Nullable(o.f.body, g.null) ->
               {<<"successor", s, y>> : y \in Close(o.K, follow, s) \cap
                  IF Len(o.f.body) = 1 THEN Chosen(o.f.body[1], {}, g, follow, s)
                  ELSE Starts(o.f.body, {}, g)}
          [] o.f.typ = "any" /\ g.anys[o.f.pos] = {} -> {<<"empty ANY", s>>}
          [] OTHER -> {}
  IN UNION {between(x) : x \in Expressions(s, g)} \cup UNION {at(o) : o \in Occurrences(s, g)}

Useless(s, g, follow) ==
  LET closed(term, K) == Close(StartsTerm(term, K, g), follow, s)
      expected(x) == UNION {Chosen(x.e[i], x.K, g, follow, s) : i \in DOMAIN x.e}
      soFar(x, j) == UNION {closed(x.e[i], x.K) : i \in {h \in 1..(j - 1) : ~Resolved(x.e[h])}}
      behind(x, j) == closed(Tail(x.e[j]), x.K)
      resolved(x) == {j \in DOMAIN x.e : Resolved(x.e[j])}
      choices == {x \in Expressions(s, g) : Len(x.e) > 1}
      loops == {o \in Occurrences(s, g) : /\ o.f.typ \in {"opt", "iter"}
                                          /\ Len(o.f.body) = 1 /\ Resolved(o.f.body[1])}
      inLoop(o) == (StartsTerm(Tail(o.f.body[1]), o.K, g)) \ {End}
  IN UNION {{<<"never evaluated", x.e[j][1].pos>> :
               j \in {i \in resolved(x) : behind(x, i) \cap soFar(x, i) # {}}} : x \in choices}
     \cup UNION {{<<"no conflict", x.e[j][1].pos>> :
               j \in {i \in resolved(x) : behind(x, i) \cap expected(x) = {}}} : x \in choices}
     \cup {<<"no conflict", o.f.body[1][1].pos>> :
               o \in {p \in loops : inLoop(p) \cap Close(p.K, follow, s) = {}}}
     \cup IF Len(g.prod[s]) = 1 /\ Resolved(g.prod[s][1])
          THEN {<<"no alternative", g.prod[s][1][1].pos>>} ELSE {}
=============================================================================
