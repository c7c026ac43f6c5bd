---------------------------- MODULE Conditionals ----------------------------
(***************************************************************************)
(* What the directives of a frame file mean: "enable/disable parts of the  *)
(* frame code" (Scanner.frame).  A stack of conditionals is open; a line   *)
(* goes into the output when the branch it stands in is selected in every  *)
(* one of them.                                                            *)
(***************************************************************************)
EXTENDS Naturals, Sequences, SequencesExt

CONSTANT Names

VARIABLES
  defines,  \* the names defined by the grammar
  open,     \* the conditionals around the next line, outermost first
  copying,  \* the frame is being copied, not skipped
  kept      \* the last line went into the output

\* holds: the condition behind $ifdef or $ifndef; elses: how many $else were
\* passed.  A second $else is a mistake, and selects nothing.
Conditional == [holds : BOOLEAN, elses : 0..2]

Selected(c) == c.elses = IF c.holds THEN 0 ELSE 1
Keeping == \A k \in DOMAIN open : Selected(open[k])

Init == defines = {} /\ open = <<>> /\ copying = FALSE /\ kept = FALSE

Define == open = <<>> /\ defines' \in SUBSET Names /\ UNCHANGED <<open, copying, kept>>

Directive == kept' = FALSE /\ UNCHANGED <<defines, copying>>

Open(name, positive) ==
  /\ open' = Append(open, [holds |-> (name \in defines) = positive, elses |-> 0])
  /\ Directive

Else ==
  /\ open # <<>> /\ Last(open).elses < 2
  /\ open' = [open EXCEPT ![Len(open)] = [holds |-> @.holds, elses |-> @.elses + 1]]
  /\ Directive

Close == open # <<>> /\ open' = Front(open) /\ Directive

\* A directive that cannot be understood has no effect, and is not text.
Ignored == Directive /\ UNCHANGED open

Text == kept' = (Keeping /\ copying) /\ UNCHANGED <<defines, open, copying>>

\* Another frame file, or another part of the same one.
Restart == open' = <<>> /\ copying' = FALSE /\ kept' = FALSE /\ UNCHANGED defines
Part == copying' = TRUE /\ UNCHANGED <<defines, open, kept>>

Next ==
  \/ \E name \in Names, positive \in BOOLEAN : Open(name, positive)
  \/ Define \/ Else \/ Close \/ Ignored \/ Text \/ Restart \/ Part

vars == <<defines, open, copying, kept>>

Spec == Init /\ [][Next]_vars
=============================================================================
