---------------------------- MODULE ParserFrame ----------------------------
(***************************************************************************)
(* The part of Parser.frame all parsers share: Get goes on to the next     *)
(* token, past the pragmas, whose actions it executes, and SynErr and      *)
(* SemErr report an error unless another one was found near to it.         *)
(***************************************************************************)
EXTENDS Symbols, Integers, Sequences

VARIABLES
  input,     \* the tokens
  at,        \* the number of la in them; the end of the input is behind the last
  errDist,   \* the tokens recognized since the last error, capped at MinErrDist
  raised,    \* history: the errors found, each with its token
  reported   \* the errors reported

frame == <<input, at, errDist, raised, reported>>

MinErrDist == 2
Pragma == "pragma"
SemErrMsg == <<"semantic error">>
\* la goes from i to j: past pragmas, and never beyond the end of the input.
Follows(i, j) ==
  IF i > Len(input) THEN j = i
  ELSE /\ i < j
       /\ j > Len(input) \/ input[j] # Pragma
       /\ \A k \in (i + 1)..(j - 1) : input[k] = Pragma

Counted == IF errDist < MinErrDist THEN errDist + 1 ELSE errDist

\* Mutant: pragmas are not passed, and something is behind the end.
GetAny == at' = at + 1 /\ errDist' = Counted /\ UNCHANGED <<raised, reported>>

\* An error is found at the i-th token: it is reported unless another one is near.
Raise(i, msg) ==
  LET e == [at |-> i, msg |-> msg]
  IN /\ raised' = Append(raised, e)
     /\ reported' = IF errDist >= MinErrDist THEN Append(reported, e) ELSE reported

\* The action of a pragma that is passed may call SemErr.  An error in that of a later
\* one of them is near to it, and is not kept.
Get ==
  /\ at' \in {j \in at..(Len(input) + 1) : Follows(at, j)}
  /\ \/ errDist' = Counted /\ UNCHANGED <<raised, reported>>
     \/ /\ \E i \in (at + 1)..(at' - 1) : Raise(i, SemErrMsg)
        /\ errDist' = 1

\* SynErr and SemErr: the first of several errors near to each other is reported.
Err(msg) == Raise(at, msg) /\ errDist' = 0 /\ UNCHANGED at

Quiet == UNCHANGED <<at, errDist, raised, reported>>

\* Mutant: no token was recognized before the first.
ErrDistAtFirst0 == 0

ErrDistAtFirst == MinErrDist

FrameStart == at = 0 /\ errDist = ErrDistAtFirst /\ raised = <<>> /\ reported = <<>>

----------------------------------------------------------------------------
(* A parser for any grammar, as far as these routines can tell.            *)

FrameInit == input \in Seq(AllTerminals \cup {Pragma}) /\ FrameStart

FrameNext == UNCHANGED input /\ (Get \/ \E msg : Err(msg))

FrameSpec == FrameInit /\ [][FrameNext]_frame

\* However errors are suppressed, the first one is reported, and between two that are
\* reported the parser recognized as many tokens as minErrDist says, or came to the
\* end of the input.
Reported ==
  /\ raised # <<>> => reported # <<>> /\ reported[1] = raised[1]
  /\ \A i, j \in DOMAIN reported :
       i < j => \/ reported[i].at + MinErrDist <= reported[j].at
                \/ reported[j].at > Len(input)
=============================================================================
