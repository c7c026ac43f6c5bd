----------------------------- MODULE MCParser -----------------------------
EXTENDS ParserChecks

CONSTANTS S, A, ta, tb, tc, td, te, tf

T(x) == Leaf("t", x)
W(x) == Leaf("wt", x)
N(x) == Leaf("nt", x)
AnyT == Leaf("any", 0)
Sync == Leaf("sync", 0)
Sem == Leaf("sem", 0)
Rslv == Leaf("rslv", 0)
Opt(x) == Bracket("opt", x)
Iter(x) == Bracket("iter", x)
Paren(x) == Bracket("paren", x)

\* op(x, y) for every x of the sequence s and y of the sequence t.
Combined(op(_, _), s, t) ==
  [i \in 1..(Len(s) * Len(t)) |-> op(s[((i - 1) \div Len(t)) + 1], t[((i - 1) % Len(t)) + 1])]

(***************************************************************************)
(* All expressions of one or two leaves, one of them in brackets or none,  *)
(* of two leaves in brackets and one of two behind them, and choices of    *)
(* two leaves or one and nothing, for the production of S.                 *)
(***************************************************************************)
Leaves == <<T(ta), T(tb), W(tb), N(A), AnyT, Sync>>
In(bracket(_)) == [i \in DOMAIN Leaves |-> bracket(<< <<Leaves[i]>> >>)]
Bracketed == In(Opt) \o In(Iter)
BothIn(bracket(_)) == Combined(LAMBDA x, y : bracket(<< <<x, y>> >>), Leaves, Leaves)
BothBracketed == BothIn(Opt) \o BothIn(Iter)

Alone1 == Combined(LAMBDA x, y : << <<x>> >>, Leaves, <<0>>)
InSequence(s, t) == Combined(LAMBDA x, y : << <<x, y>> >>, s, t)
EitherOf(s, t) == Combined(LAMBDA x, y : << <<x>>, y >>, s, t)

Bodies ==
  Alone1 \o InSequence(Leaves \o Bracketed, Leaves) \o InSequence(Leaves, Bracketed)
         \o InSequence(BothBracketed, <<T(ta), AnyT>>)
         \o EitherOf(Leaves, << <<>> >> \o [i \in DOMAIN Leaves |-> <<Leaves[i]>>])

\* Those for the production of A.
ABodies == << << <<T(tb)>> >>, << <<T(ta)>>, <<>> >>, << <<Iter(<< <<W(tb), T(ta)>> >>)>> >> >>

Clean(grammarText) ==
  LET read(tab, p) == WithProduction(tab, p[1], Placed(p[2], <<p[1]>>))
      ok == GrammarOk(Computed(FoldLeft(read, NewTab, grammarText)))
  IN ok.errors = {} /\ ok.warnings = {}

Small ==
  SelectSeq(Combined(LAMBDA x, y : << <<S, x>> >>, Bodies, <<0>>)
              \o Combined(LAMBDA x, y : << <<S, x>>, <<A, y>> >>, Bodies, ABodies),
            Clean)

(***************************************************************************)
(* Larger ones, with the terminals their inputs are made of and the length *)
(* of these: a list with weak separators, the separators in a loop of      *)
(* their own, statements that end with a weak terminal and begin at a SYNC *)
(* symbol, six alternatives, as a switch, at all places and in a loop, a   *)
(* set of four symbols, tests that are left out, ANY next to alternatives, *)
(* an ANY nothing is left for, resolvers, semantic actions, and at last    *)
(* one that deals with the end of the input itself.                        *)
(***************************************************************************)
Six == << <<T(ta)>>, <<T(tb)>>, <<T(tc)>>, <<T(td)>>, <<T(te), T(ta)>>, <<T(tf)>> >>

Large ==
  <<[text |-> << <<S, << <<N(A), Iter(<< <<W(tb), N(A)>> >>), T(tc)>> >> >>,
                <<A, << <<T(ta)>>, <<T(td), T(ta)>> >> >> >>, of |-> {ta, tb, tc, td}, len |-> 5],
   [text |-> << <<S, << <<T(ta), Iter(<< <<W(tb)>> >>), T(tc)>> >> >> >>,
    of |-> {ta, tb, tc, Pragma}, len |-> 4],
   [text |-> << <<S, << <<Iter(<< <<N(A), W(tb)>> >>), T(tc)>> >> >>,
                <<A, << <<Sync, T(ta), Opt(<< <<T(td)>> >>)>> >> >> >>, of |-> {ta, tb, tc, td}, len |-> 4],
   [text |-> << <<S, << <<Sync, T(ta), W(tb), Sem, W(tc), N(A)>> >> >>,
                <<A, << <<Sync, T(td)>>, <<Sync, T(te), W(tb)>> >> >> >>,
    of |-> {ta, tb, tc, td, te}, len |-> 4],
   [text |-> << <<S, << <<N(A), Opt(<< <<T(ta)>> >>)>> >> >>, <<A, Six>> >>,
    of |-> Terminals \cup {noSym}, len |-> 3],
   [text |-> << <<S, << <<Iter(Six)>> >> >> >>, of |-> Terminals, len |-> 3],
   [text |-> << <<S, << <<Opt(<< <<N(A), T(te)>> >>), T(tf)>> >> >>,
                <<A, << <<T(ta)>>, <<T(tb)>>, <<T(tc)>>, <<T(td)>> >> >> >>,
    of |-> {ta, td, te, tf}, len |-> 4],
   [text |-> << <<S, << <<Iter(<< <<T(ta)>>, <<Sem, T(tb), T(tc)>>, <<T(td)>> >>), T(te)>> >> >> >>,
    of |-> {ta, tb, tc, td, te, Pragma}, len |-> 3],
   [text |-> << <<S, << <<Iter(<< <<T(ta), T(ta)>>, <<T(tb), Opt(<< <<T(td), T(tb), T(ta)>> >>)>> >>), T(tc)>> >> >> >>,
    of |-> {ta, tb, tc, td}, len |-> 4],
   [text |-> << <<S, << <<Iter(<< <<AnyT>>, <<T(ta), T(tb)>> >>), T(tc)>> >> >> >>,
    of |-> {ta, tb, tc, td, noSym}, len |-> 4],
   [text |-> << <<S, << <<Paren(<< <<Rslv, AnyT>>, <<AnyT>> >>), T(tb)>> >> >> >>,
    of |-> {ta, tb}, len |-> 3],
   [text |-> << <<S, << <<Iter(<< <<Rslv, T(ta), T(tb)>> >>), T(ta), Sem, T(tc)>> >> >> >>,
    of |-> {ta, tb, tc}, len |-> 4],
   [text |-> << <<S, << <<Iter(<< <<T(ta), W(tb)>> >>), Paren(<< <<T(eofSy)>>, <<T(tc)>> >>)>> >> >> >>,
    of |-> {ta, tb, tc, Pragma}, len |-> 4]>>

MCTerminals == {ta, tb, tc, td, te, tf}
MCGrammar == Small \o [i \in DOMAIN Large |-> Large[i].text]
WrittenParsers == FoldLeft(LAMBDA ps, text : Append(ps, ParserOf(text)), <<>>, MCGrammar)
WrittenLanguages == FoldLeft(LAMBDA ls, text : Append(ls, ReferenceOf(text)), <<>>, MCGrammar)

\* LET: TLC does not go through the definitions for the coverage of each use.
MCParsers == LET parsers == WrittenParsers IN parsers
MCLanguages == LET languages == WrittenLanguages IN languages
MCExplicitEof == LET grammars == MCGrammar IN {Len(grammars)}

SeqsUpTo(n, s) == UNION {[1..k -> s] : k \in 0..n}
MCInputs ==
  [i \in DOMAIN Small |-> SeqsUpTo(3, {ta, tb, tc})]
    \o [i \in DOMAIN Large |-> SeqsUpTo(Large[i].len, Large[i].of)]
=============================================================================
