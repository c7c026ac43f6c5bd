----------------------------- MODULE ParserRun -----------------------------
(***************************************************************************)
(* A generated parser at work: the statements written for a grammar,       *)
(* whatever they are, executed on a sequence of tokens by the routines of  *)
(* Parser.frame (ParserFrame).                                             *)
(*                                                                         *)
(* todo is what is left to do: the statements of the block that is         *)
(* executed, of those around it and of the productions that called it.     *)
(* One action is one statement or one turn of a loop.  Pragmas are taken   *)
(* off the tokens by Get; what it does with their memory is in TokenHeap.  *)
(* What a resolver says, and whether a semantic action reports an error,   *)
(* is the user's: both are left open.                                      *)
(***************************************************************************)
EXTENDS Statements, ParserFrame

CONSTANTS
  Parsers,      \* the parsers written for the grammars
  Inputs,       \* the tokens without the end of the input, for each of them
  ExplicitEof,  \* the parsers whose frame was copied with EXPLICIT_EOF
  MaxErrors     \* bound: a resolver does not go on with a loop after so many errors

ASSUME ParserAssumption ==
  /\ DOMAIN Inputs = DOMAIN Parsers
  /\ \A g \in DOMAIN Inputs : Inputs[g] \subseteq Seq(AllTerminals \cup {Pragma})
  /\ ExplicitEof \subseteq DOMAIN Parsers
  /\ MaxErrors \in Nat

VARIABLES
  grammar,   \* the index of the grammar
  todo,      \* the statements that are left
  asked      \* history: a resolver was asked

vars == <<grammar, input, at, errDist, todo, raised, reported, asked>>

----------------------------------------------------------------------------
(* What the statements ask.                                                *)

la == IF at > Len(input) THEN eofSy ELSE input[at]
InSet(i) == la \in Parsers[grammar].symSet[i]

\* Parse: with EXPLICIT_EOF the grammar has to deal with the end of the input.
Parse(g) ==
  <<GetStatement, Call(gramSy)>> \o (IF g \in ExplicitEof THEN <<>> ELSE <<Expect(eofSy)>>)

Init ==
  /\ grammar \in DOMAIN Parsers /\ input \in Inputs[grammar]
  /\ FrameStart
  /\ todo = Parse(grammar) /\ asked = FALSE

----------------------------------------------------------------------------
(* The statements.                                                         *)

Do(op) == todo # <<>> /\ Head(todo).op = op /\ UNCHANGED <<grammar, input>>
statement == Head(todo)

Done == todo' = Tail(todo)
Enter(block) == todo' = block \o Tail(todo)
Stay == todo' = todo
Again(block) == todo' = block \o todo

Unasked == UNCHANGED asked

CallNt == Do("call") /\ Enter(Parsers[grammar].code[statement.sym]) /\ Quiet /\ Unasked

GetNext == Do("get") /\ Get /\ Done /\ Unasked

ExpectT ==
  /\ Do("expect") /\ Done /\ Unasked
  /\ IF la = statement.sym THEN Get ELSE Err(TErr(statement.sym))

\* A statement of its own for each of the loops that skip tokens.
Skip(sets) == [op |-> "skip", sets |-> sets]
Resume(syFol, body) == [op |-> "resume", syFol |-> syFol, body |-> body]

ExpectWeakT ==
  /\ Do("expectWeak") /\ Unasked
  /\ IF la = statement.sym THEN Get /\ Done
     ELSE Err(TErr(statement.sym)) /\ Enter(<<Skip({statement.follow})>>)

SkipToken ==
  /\ Do("skip") /\ Unasked
  /\ IF \E i \in statement.sets : InSet(i) THEN Quiet /\ Done ELSE Get /\ Stay

\* Mutant: it does not stop at the symbols of the SYNC sets.
SeparatorSetsOnly(w) == {w.syFol, w.repFol}

\* The sets WeakSeparator skips to; the first one is the union of the SYNC sets.
SeparatorSets(w) == {w.syFol, w.repFol, 1}

WeakSeparator ==
  /\ Do("whileWeak") /\ Unasked
  /\ IF la = statement.sym THEN Get /\ Again(statement.body)
     ELSE IF InSet(statement.repFol) THEN Quiet /\ Done
     ELSE /\ Err(TErr(statement.sym))
          /\ todo' = <<Skip(SeparatorSets(statement)), Resume(statement.syFol, statement.body)>>
                       \o todo

ResumeLoop ==
  /\ Do("resume") /\ Quiet /\ Unasked
  /\ IF InSet(statement.syFol) THEN Enter(statement.body)
     ELSE todo' = Tail(Tail(todo))

GetIfAllowed ==
  /\ Do("getIf") /\ Done /\ Unasked
  /\ IF la \in statement.cond.s \/ (statement.cond.typ = "startOf" /\ InSet(statement.cond.i))
     THEN Get ELSE Err(statement.err)

ErrorOnly == Do("error") /\ Err(statement.err) /\ Done /\ Unasked

\* What a condition may say.
MayHold(c) ==
  CASE c.typ = "oneOf"   -> la \in c.s
    [] c.typ = "startOf" -> InSet(c.i)
    [] OTHER             -> TRUE
MayFail(c) == c.typ = "rslv" \/ (c.typ # "else" /\ ~MayHold(c))

Ask(conds) == asked' = (asked \/ \E c \in conds : c.typ = "rslv")

\* while (!(...)) {SynErr; Get;}
Synchronize ==
  /\ Do("whileNot") /\ Unasked
  /\ IF MayHold(statement.cond) THEN Quiet /\ Done
     ELSE Err(statement.err) /\ Enter(<<GetStatement, statement>>)

Choose ==
  /\ Do("choice")
  /\ \E k \in 1..(Len(statement.branches) + 1) :
       LET conds == [j \in DOMAIN statement.branches |-> statement.branches[j].cond]
       IN /\ \A j \in 1..(k - 1) : MayFail(conds[j])
          /\ Ask({conds[j] : j \in 1..k \cap DOMAIN conds})
          /\ IF k \in DOMAIN conds
             THEN MayHold(conds[k]) /\ Enter(statement.branches[k].body) /\ Quiet
             ELSE Done /\ IF statement.err = NoErr THEN Quiet ELSE Err(statement.err)

Loop ==
  /\ Do("while") /\ Quiet /\ Ask({statement.cond})
  /\ \/ /\ MayHold(statement.cond) /\ Again(statement.body)
        /\ statement.cond.typ = "rslv" => Len(raised) < MaxErrors
     \/ MayFail(statement.cond) /\ Done

Semantic == Do("semText") /\ Done /\ Unasked /\ (Quiet \/ Err(SemErrMsg))

Next ==
  \/ CallNt \/ GetNext \/ ExpectT \/ ExpectWeakT \/ SkipToken \/ WeakSeparator \/ ResumeLoop
  \/ GetIfAllowed \/ ErrorOnly \/ Synchronize \/ Choose \/ Loop \/ Semantic

Spec == Init /\ [][Next]_vars /\ WF_vars(Next)

----------------------------------------------------------------------------
(* Properties.                                                             *)

Ended == todo = <<>>

TypeOK ==
  /\ grammar \in DOMAIN Parsers /\ input \in Inputs[grammar]
  /\ at \in 0..(Len(input) + 1) /\ errDist \in 0..MinErrDist
  /\ Ended => at > 0
  /\ asked \in BOOLEAN

\* The parser comes to its end, whatever the input: no loop that skips tokens, and
\* none that expects what does not come, goes on at the end of the input.
Ends == <>(Ended \/ asked)
=============================================================================
