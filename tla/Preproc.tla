------------------------------ MODULE Preproc ------------------------------
(***************************************************************************)
(* Class Preproc and its use by Tab.CopyFramePart: three integers stand    *)
(* for the whole stack of open conditionals of a frame file.               *)
(*                                                                         *)
(* open is a history variable: the conditionals around the next line, as a *)
(* reader of the frame file sees them.  The frame file is taken to be      *)
(* balanced: an $else or $endif belongs to an open conditional, and a      *)
(* conditional has at most one $else too many.  The code checks neither.   *)
(***************************************************************************)
EXTENDS Conditionals, Integers

CONSTANT MaxDepth       \* bound on the nesting of conditionals

ASSUME DepthAssumption == MaxDepth \in Nat

VARIABLES
  phase,    \* grammar: it is parsed; parser, scanner: the frame file copied
  curr,     \* Preproc.curr_: current logic level
  prev,     \* Preproc.prev_: previous logic level
  exec      \* Preproc.exec_: logic level at which we should exec

levels == <<curr, prev, exec>>
ppVars == <<phase, curr, prev, exec, defines, open, copying, kept>>

PPInit == Init /\ phase = "grammar" /\ curr = 0 /\ prev = 0 /\ exec = 0

\* Preproc.state()
state == curr = exec

----------------------------------------------------------------------------
\* The pragmas $define=NAME and $undef=NAME of the grammar.
DefineNames(names) ==
  /\ phase = "grammar"
  /\ defines' \in {defines \cup names, defines \ names}
  /\ UNCHANGED <<phase, levels, open, copying, kept>>

\* reset() at the start of WriteParser and WriteScanner: -->begin is not copied.
Reset ==
  /\ phase \in {"grammar", "parser"}
  /\ phase' = IF phase = "grammar" THEN "parser" ELSE "scanner"
  /\ curr' = 0 /\ prev' = 0 /\ exec' = 0
  /\ open' = <<>> /\ copying' = FALSE /\ kept' = FALSE
  /\ UNCHANGED defines

\* The stop marker ends the part: okay() does not see the line.
StopMarker ==
  /\ phase # "grammar" /\ copying' = TRUE
  /\ UNCHANGED <<phase, levels, defines, open, kept>>

----------------------------------------------------------------------------
(* okay(line) && doOutput, for the lines there are.                        *)

DirectiveLine ==
  /\ phase # "grammar" /\ kept' = FALSE
  /\ UNCHANGED <<phase, defines, copying>>

Ifdef(name, normal) ==
  /\ DirectiveLine /\ Len(open) < MaxDepth
  /\ LET holds == (name \in defines) = normal
     IN  /\ curr' = curr + 1
         /\ IF curr = exec /\ holds THEN exec' = curr + 1 /\ prev' = curr + 1
                                    ELSE UNCHANGED <<exec, prev>>
         /\ open' = Append(open, [holds |-> holds, elses |-> 0])

\* Mutant: an $else executes even when the branch before it was.
ElseLevelUnconditional ==
  IF curr = exec + 1 THEN curr ELSE IF curr = exec THEN exec - 1 ELSE exec

ElseLevel ==
  IF curr = exec + 1 /\ curr # prev THEN curr      \* in position to execute
  ELSE IF curr = exec THEN exec - 1                \* still nested too many levels
  ELSE exec

ElseLine ==
  /\ DirectiveLine
  /\ open # <<>> /\ Last(open).elses < 2
  /\ exec' = ElseLevel
  /\ open' = [open EXCEPT ![Len(open)] = [holds |-> @.holds, elses |-> @.elses + 1]]
  /\ UNCHANGED <<curr, prev>>

\* Mutant: prev_ is not pulled down.
EndifPrevKept(level) == level

\* Mutant: the level is left even when it did not execute.
EndifLevelAlways == exec - 1

EndifLevel == IF curr = exec THEN exec - 1 ELSE exec

\* prev_ once the conditional is closed: level is what it was, or exec_.
EndifPrev(level) == IF level > curr - 1 THEN curr - 1 ELSE level

EndifLine ==
  /\ DirectiveLine
  /\ open # <<>>
  /\ exec' = EndifLevel
  /\ prev' = EndifPrev(IF curr = exec THEN EndifLevel ELSE prev)
  /\ curr' = curr - 1
  /\ open' = Front(open)

\* A directive without its name.
NamelessLine == DirectiveLine /\ UNCHANGED <<levels, open>>

\* Everything else, a directive that is not known included.
TextLine ==
  /\ phase # "grammar" /\ kept' = (state /\ copying)
  /\ UNCHANGED <<phase, levels, defines, open, copying>>

PPNext ==
  \/ \E names \in SUBSET Names : DefineNames(names)
  \/ \E name \in Names, normal \in BOOLEAN : Ifdef(name, normal)
  \/ ElseLine \/ EndifLine \/ NamelessLine \/ TextLine \/ StopMarker \/ Reset

PPSpec == PPInit /\ [][PPNext]_ppVars

----------------------------------------------------------------------------
(* Properties.                                                             *)

TypeOK ==
  /\ phase \in {"grammar", "parser", "scanner"}
  /\ curr \in Nat /\ prev \in Nat /\ exec \in Nat
  /\ defines \subseteq Names /\ copying \in BOOLEAN /\ kept \in BOOLEAN
  /\ open \in Seq(Conditional)
  /\ phase = "grammar" => open = <<>>

\* How three numbers stand for the stack: exec counts the conditionals, from the
\* outermost, whose selected branch the line is in; prev tells of the first
\* one that is not selected whether its first branch was.
Levels ==
  /\ curr = Len(open) /\ exec <= curr /\ prev <= curr
  /\ \A k \in 1..exec : Selected(open[k])
  /\ exec < curr =>
       /\ ~Selected(open[exec + 1]) /\ prev <= exec + 1
       /\ open[exec + 1].holds => prev = exec + 1
       /\ open[exec + 1].elses = 0 => prev < exec + 1
  /\ \A k \in 1..exec : open[k].holds => prev >= k

\* A line is copied if and only if its branch is selected in every conditional
\* around it, however deep, and after any sequence of conditionals before it.
KeepsSelected == Spec
=============================================================================
