---------------------------- MODULE ParserChecks ----------------------------
(***************************************************************************)
(* What the parsers ParserGen writes must do: their statements, executed   *)
(* by ParserRun, against the sentences of the grammars.                    *)
(***************************************************************************)
EXTENDS ParserRun, ParserGen, Sentences

CONSTANT Languages   \* the grammars the parsers were written for, as text

ASSUME LanguagesAssumption == DOMAIN Languages = DOMAIN Parsers

----------------------------------------------------------------------------
(* A grammar is the sequence of its productions, <<name, expression>>.     *)

\* The tables made of it.
TableOf(productions) ==
  LET read(tab, p) == WithProduction(tab, p[1], Placed(p[2], <<p[1]>>))
  IN Computed(FoldLeft(read, NewTab, productions))

ParserOf(productions) == WriteParser(TableOf(productions))

\* The grammar as text, with the ANY sets the parser was generated from; weak are
\* the terminals that are weak wherever they are used.
ReferenceOf(productions) ==
  LET nodes == TableOf(productions).nodes
      anys == {n \in ToSet(nodes) : n.typ = "any"}
      of(typ) == {n.sym : n \in {m \in ToSet(nodes) : m.typ = typ}}
      text(s) == (CHOOSE p \in ToSet(productions) : p[1] = s)[2]
  IN [prod |-> [s \in {p[1] : p \in ToSet(productions)} |-> Placed(text(s), <<s>>)],
      anys |-> [x \in {n.pos : n \in anys} |-> (CHOOSE n \in anys : n.pos = x).set],
      weak |-> of("wt") \ of("t")]

----------------------------------------------------------------------------
(* Properties.                                                             *)

language == Languages[grammar]

Tokens(n) == SelectSeq(SubSeq(input, 1, n), LAMBDA x : x # Pragma)

\* A parser with EXPLICIT_EOF does not look at what is behind a sentence.
Correct(w) ==
  IF grammar \in ExplicitEof THEN After(language, w, language.prod[gramSy], 0) \ {Open} # {}
  ELSE Sentence(language, w)

Syntactic == SelectSeq(raised, LAMBDA e : e.msg # SemErrMsg)

\* The parser generated for an LL(1) grammar accepts the sentences and nothing else:
\* each test it leaves out, because it was made before or decides nothing, is one
\* that could not fail.
Accepts == (Ended /\ ~asked) => (Syntactic = <<>> <=> Correct(Tokens(Len(input))))

\* The first error is found at the first token no sentence goes on with, and a
\* terminal it says is expected could have been there.
FirstErrorRight ==
  (Ended /\ Syntactic # <<>> /\ ~asked) =>
    LET e == Syntactic[1]
        before == Tokens(e.at - 1)
        right(x) == IF x = eofSy THEN Correct(before)
                    ELSE Viable(language, Append(before, x))
    IN /\ Viable(language, before)
       /\ ~right(IF e.at > Len(input) THEN eofSy ELSE input[e.at])
       /\ e.msg[1] = "expected" => right(e.msg[2])

\* A weak terminal that is missing is all that is wrong: the parser goes on as if it
\* had been there.
WeakForgiven ==
  (Ended /\ Syntactic # <<>> /\ ~asked) =>
    LET e == Syntactic[1]
        w == Tokens(Len(input))
        n == Len(Tokens(e.at - 1))
    IN (/\ e.msg[1] = "expected" /\ e.msg[2] \in language.weak
        /\ Correct(InsertAt(w, n + 1, e.msg[2]))) => Len(Syntactic) = 1
=============================================================================
