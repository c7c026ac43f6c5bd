---------------------------- MODULE ActionLists ----------------------------
(***************************************************************************)
(* The action list of one scanner state (classes Action and State) and the *)
(* operations with which class DFA rewrites it.  An action leads from its  *)
(* state, under every character of syms, to every state of targets.        *)
(*                                                                         *)
(* A character class is abstracted to the set of characters it denotes and *)
(* a target list to the set of states on it: the list is kept sorted and   *)
(* free of duplicates by AddTarget, and no operation looks at its order.   *)
(* The order of the actions themselves is kept, because MakeUnique walks   *)
(* the list while SplitActions changes it.                                 *)
(***************************************************************************)
EXTENDS Integers, Sequences, SequencesExt

CONSTANT Chars          \* the characters tokens are made of

Typs == {"clas", "chr"}
TransitionCodes == {"normalTrans", "contextTrans"}

\* The actions that lead to states of Q only.
Action(Q) == [typ : Typs, syms : SUBSET Chars, tc : TransitionCodes,
              targets : (SUBSET Q) \ {{}}]

----------------------------------------------------------------------------
(* Class Action.                                                           *)

AddTargets(a, b) ==
  [typ |-> a.typ, syms |-> a.syms,
   tc |-> IF b.tc = "contextTrans" THEN "contextTrans" ELSE a.tc,
   targets |-> a.targets \cup b.targets]

IsSingle(s) == \E c \in s : s = {c}

ShiftWith(a, s) ==
  [typ |-> IF IsSingle(s) THEN "chr" ELSE "clas", syms |-> s, tc |-> a.tc,
   targets |-> a.targets]

----------------------------------------------------------------------------
(* Class State.  Node::clas < Node::chr in the enumeration, so a class is  *)
(* put in front of the first single character and a character at the end.  *)

Rank(a) == IF a.typ = "clas" THEN 4 ELSE 5

AddPlace(list, x) ==
  LET later == {k \in DOMAIN list : Rank(list[k]) > Rank(x)}
  IN  IF later = {} THEN Len(list) + 1
                    ELSE CHOOSE k \in later : \A m \in later : k <= m

AddAction(list, x) == InsertAt(list, AddPlace(list, x), x)

DetachAction(list, j) == RemoveAt(list, j)

----------------------------------------------------------------------------
(* Class DFA: the actions at i < j overlap and are made disjoint.  The     *)
(* result holds the list and the positions at which MakeUnique's pointers  *)
(* a and b->next stand in it.                                              *)

Overlap(a, b) == a.syms \cap b.syms # {}

\* Mutant: the detached action's targets are not carried over.
MergeEqualForgetting(list, i, j) ==
  [acts |-> DetachAction(list, j), a |-> i, next |-> j]

MergeEqual(list, i, j) ==
  [acts |-> DetachAction([list EXCEPT ![i] = AddTargets(list[i], list[j])], j),
   a |-> i, next |-> j]

\* Mutant: the bigger set is not shrunk.
ShareBigger(list, big, small, i, j) ==
  [acts |-> [list EXCEPT ![small] = AddTargets(list[small], list[big])],
   a |-> i, next |-> j + 1]

\* The action at big keeps the characters that the one at small lacks.
ShrinkBigger(list, big, small, i, j) ==
  [acts |-> [list EXCEPT
               ![small] = AddTargets(list[small], list[big]),
               ![big] = ShiftWith(list[big], list[big].syms \ list[small].syms)],
   a |-> i, next |-> j + 1]

\* Neither includes the other: their common characters get an action of their own.
SplitCommon(list, i, j) ==
  LET common == list[i].syms \cap list[j].syms
      a == ShiftWith(list[i], list[i].syms \ common)
      b == ShiftWith(list[j], list[j].syms \ common)
      blank == [typ |-> "clas", syms |-> {}, tc |-> "normalTrans", targets |-> {}]
      c == ShiftWith(AddTargets(AddTargets(blank, a), b), common)
      rest == [list EXCEPT ![i] = a, ![j] = b]
      p == AddPlace(rest, c)
      Moved(k) == IF p <= k THEN k + 1 ELSE k
  IN  [acts |-> AddAction(rest, c), a |-> Moved(i), next |-> Moved(j) + 1]

SplitActions(list, i, j) ==
  IF list[i].syms = list[j].syms THEN MergeEqual(list, i, j)
  ELSE IF list[j].syms \subseteq list[i].syms THEN ShrinkBigger(list, i, j, i, j)
  ELSE IF list[i].syms \subseteq list[j].syms THEN ShrinkBigger(list, j, i, i, j)
  ELSE SplitCommon(list, i, j)

----------------------------------------------------------------------------
(* What a list means, whatever its order: the states reached under a       *)
(* character, and whether one of the moves there is a context move.        *)

Reached(list, ch) ==
  UNION {list[k].targets : k \in {k \in DOMAIN list : ch \in list[k].syms}}

IsContextMove(list, ch) ==
  \E k \in DOMAIN list : ch \in list[k].syms /\ list[k].tc = "contextTrans"

SameMoves(l1, l2) ==
  \A ch \in Chars : /\ Reached(l1, ch) = Reached(l2, ch)
                    /\ IsContextMove(l1, ch) = IsContextMove(l2, ch)

Disjoint(list) ==
  \A i, j \in DOMAIN list : i # j => ~Overlap(list[i], list[j])
============================================================================
