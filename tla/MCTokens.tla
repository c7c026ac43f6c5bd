------------------------------ MODULE MCTokens ------------------------------
(***************************************************************************)
(* Tokens over a pool of declarations that overlap in every way (common    *)
(* prefixes, classes that include or cut each other, iterations, contexts, *)
(* strings that a class token matches and strings none does), and over     *)
(* every small expression for itself.  A symbol is its number.             *)
(***************************************************************************)
EXTENDS Tokens

CONSTANTS lc, ld, le

Opt(x) == Bracket("opt", x)
Iter(x) == Bracket("iter", x)
Paren(x) == Bracket("paren", x)
Context(x) == Bracket("context", x)
Single(f) == << <<f>> >>

cdClass == Class({lc, ld})
deClass == Class({ld, le})
cdeClass == Class({lc, ld, le})

Pool ==
  << << <<Str(<<lc>>), Str(<<ld>>)>> >>,
     << <<Str(<<lc, ld>>), Str(<<le>>)>> >>,
     << <<cdClass, Iter(Single(cdClass))>> >>,
     << <<deClass, cdClass>> >>,
     << <<Str(<<lc>>), Context(Single(deClass))>> >>,
     << <<Str(<<ld>>)>>, <<Str(<<lc>>), Context(Single(Str(<<le>>)))>> >>,
     << <<cdeClass, Iter(Single(Str(<<le>>)))>> >>,
     Single(Str(<<lc>>)), Single(Str(<<lc, le>>)), Single(Str(<<ld, ld>>)), Single(Str(<<lc, ld, ld>>))>>

(***************************************************************************)
(* All expressions by size: a leaf, a bracket and the bar between two      *)
(* alternatives count 1 each, ( ) stands around two alternatives or more.  *)
(***************************************************************************)
Leaves == {Str(<<lc>>), Str(<<ld>>)}

RECURSIVE FactorsOfSize(_), TermsOfSize(_), ExpressionsOfSize(_)

FactorsOfSize(n) ==
  IF n = 1 THEN Leaves
  ELSE {Bracket(typ, x) : typ \in {"opt", "iter"}, x \in ExpressionsOfSize(n - 1)}
         \cup {Paren(x) : x \in {y \in ExpressionsOfSize(n - 1) : Len(y) > 1}}

TermsOfSize(n) ==
  IF n = 0 THEN {<<>>}
  ELSE UNION {{<<f>> \o t : f \in FactorsOfSize(k), t \in TermsOfSize(n - k)} : k \in 1..n}

ExpressionsOfSize(n) ==
  {<<t>> : t \in TermsOfSize(n) \ {<<>>}}
    \cup UNION {{<<t>> \o x : t \in TermsOfSize(k) \ {<<>>}, x \in ExpressionsOfSize(n - 1 - k)} :
                  k \in 1..(n - 2)}

\* Nothing but strings, or all of it in parentheses: as an expression without them.
Flat(x) == Len(x) = 1 /\ \A i \in DOMAIN x[1] : x[1][i].typ = "str"
Wrapped(x) == Len(x) = 1 /\ Len(x[1]) = 1 /\ x[1][1].typ = "paren"

\* Those that are converted without an error; lc and ld are alike.
Small ==
  FoldSet(LAMBDA x, exprs : Append(exprs, x), <<>>,
          {x \in UNION {ExpressionsOfSize(k) : k \in 1..4} :
             /\ ~Flat(x) /\ ~Wrapped(x) /\ ~IsString(x) /\ ~Converted(x).failed
             /\ LeavesOf(x)[1].sym = <<lc>>})

\* Iterations behind one another, at the start of a structure and in alternatives.
Larger ==
  << << <<Str(<<lc>>), Iter(Single(Str(<<ld>>))), Iter(Single(Str(<<lc>>)))>> >>,
     << <<Str(<<lc>>), Opt(Single(Iter(Single(Str(<<ld>>))))), Str(<<lc>>)>> >>,
     << <<Str(<<lc>>), Paren(<< <<Iter(Single(Str(<<ld>>)))>>, <<Str(<<le>>), Iter(Single(Str(<<lc>>)))>> >>)>> >>,
     << <<Iter(<< <<Str(<<lc>>)>>, <<Str(<<ld>>), Iter(Single(deClass))>> >>), Opt(Single(Str(<<ld>>))), Str(<<le>>)>> >> >>

GraphsOf(exprs) == [s \in {n \in DOMAIN exprs : ~IsString(exprs[n])} |-> Converted(exprs[s])]
TextsOf(exprs) == [s \in {n \in DOMAIN exprs : IsString(exprs[n])} |-> TokenString(exprs[s])]

Exprs == Pool \o Larger \o Small
Graphs == GraphsOf(Exprs)
Texts == TextsOf(Exprs)

MCChars == {lc, ld, le}
MCExpr == LET value == Exprs IN value
MCSyms == 1..Len(Exprs)
MCAlone == (Len(Pool) + 1)..Len(Exprs)
MCGraph == LET value == Graphs IN value
MCText == LET value == Texts IN value

(***************************************************************************)
(* Tokens in which an iteration is an alternative or ends one, and         *)
(* something follows the alternatives.                                     *)
(***************************************************************************)
Shared ==
  << << <<Paren(<< <<Iter(Single(Str(<<lc>>)))>>, <<Str(<<ld>>)>> >>), Str(<<le>>)>> >>,
     << <<Str(<<lc>>), Paren(<< <<Str(<<ld>>), Iter(Single(Str(<<lc>>)))>>, <<Str(<<le>>)>> >>),
          Opt(Single(Str(<<ld>>)))>> >> >>
SharedSyms == DOMAIN Shared
SharedGraph == GraphsOf(Shared)
SharedText == TextsOf(Shared)
=============================================================================
