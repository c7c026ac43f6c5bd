--------------------------- MODULE Preproc_proofs ---------------------------
(***************************************************************************)
(* For any nesting of conditionals and any set of names, the three numbers *)
(* of class Preproc stand for the stack of open conditionals, and so the   *)
(* lines that are copied are those the directives select.                  *)
(***************************************************************************)
EXTENDS Preproc, SequenceTheorems, TLAPS

Inv == TypeOK /\ Levels

LEMMA LastOpen ==
  ASSUME open \in Seq(Conditional), open # <<>>
  PROVE  /\ Len(open) \in Nat \ {0}
         /\ Last(open) = open[Len(open)]
         /\ open[Len(open)] \in Conditional
         /\ Front(open) \in Seq(Conditional)
         /\ Len(Front(open)) = Len(open) - 1
         /\ \A k \in 1..(Len(open) - 1) : Front(open)[k] = open[k]
<1> DEFINE n == Len(open)
<1>1. n \in Nat \ {0} /\ \A k \in 1..n : open[k] \in Conditional
  BY EmptySeq, ElementOfSeq
<1>2. Front(open) = SubSeq(open, 1, n - 1) /\ Last(open) = open[n]
  BY DEF Front, Last
<1> HIDE DEF n
<1>3. /\ SubSeq(open, 1, n - 1) \in Seq(Conditional)
      /\ Len(SubSeq(open, 1, n - 1)) = n - 1
      /\ \A k \in 1..(n - 1) : SubSeq(open, 1, n - 1)[k] = open[k]
  BY <1>1, SubSeqProperties
<1> QED
  BY <1>1, <1>2, <1>3 DEF n

LEMMA AppendOpen ==
  ASSUME open \in Seq(Conditional), NEW holds \in BOOLEAN
  PROVE  LET s == Append(open, [holds |-> holds, elses |-> 0])
         IN  /\ s \in Seq(Conditional)
             /\ Len(s) = Len(open) + 1
             /\ \A k \in 1..Len(open) : s[k] = open[k]
             /\ s[Len(open) + 1].holds <=> holds
             /\ s[Len(open) + 1].elses = 0
             /\ Selected(s[Len(open) + 1]) <=> holds
<1> DEFINE e == [holds |-> holds, elses |-> 0]
<1>1. e \in Conditional /\ e.elses = 0
  BY DEF Conditional
<1>2. (e.holds <=> holds) /\ (Selected(e) <=> holds)
  <2>1. e.holds = holds
    OBVIOUS
  <2>2. CASE holds
    <3>1. e.holds BY <2>1, <2>2, Zenon
    <3> QED BY <1>1, <3>1, <2>2 DEF Selected
  <2>3. CASE ~holds
    <3>1. ~e.holds BY <2>1, <2>3, Zenon
    <3> QED BY <1>1, <3>1, <2>3 DEF Selected
  <2> QED BY <2>2, <2>3
<1>3. /\ Append(open, e) \in Seq(Conditional)
      /\ Len(Append(open, e)) = Len(open) + 1
      /\ \A k \in 1..Len(open) : Append(open, e)[k] = open[k]
      /\ Append(open, e)[Len(open) + 1] = e
  <2> HIDE DEF e
  <2> QED BY <1>1, AppendProperties
<1> HIDE DEF e
<1>4. LET s == Append(open, e)
      IN  /\ s[Len(open) + 1].holds <=> holds
          /\ s[Len(open) + 1].elses = 0
          /\ Selected(s[Len(open) + 1]) <=> holds
  BY <1>1, <1>2, <1>3, Zenon
<1>5. LET s == Append(open, e)
      IN  /\ s \in Seq(Conditional)
          /\ Len(s) = Len(open) + 1
          /\ \A k \in 1..Len(open) : s[k] = open[k]
          /\ s[Len(open) + 1].holds <=> holds
          /\ s[Len(open) + 1].elses = 0
          /\ Selected(s[Len(open) + 1]) <=> holds
  BY <1>3, <1>4, Zenon
<1> QED
  BY <1>5, Zenon DEF e

LEMMA ElseOpen ==
  ASSUME open \in Seq(Conditional), open # <<>>, Last(open).elses < 2
  PROVE  LET s == [open EXCEPT ![Len(open)] = [holds |-> @.holds, elses |-> @.elses + 1]]
         IN  /\ s \in Seq(Conditional)
             /\ Len(s) = Len(open)
             /\ \A k \in 1..Len(open) : k # Len(open) => s[k] = open[k]
             /\ s[Len(open)] = [holds |-> open[Len(open)].holds,
                                elses |-> open[Len(open)].elses + 1]
<1> DEFINE e == [holds |-> open[Len(open)].holds, elses |-> open[Len(open)].elses + 1]
           s == [open EXCEPT ![Len(open)] = e]
<1>1. Len(open) \in 1..Len(open) /\ open[Len(open)] \in Conditional
  BY LastOpen
<1>2. e \in Conditional
  BY <1>1, LastOpen DEF Conditional
<1>3. s \in Seq(Conditional) /\ Len(s) = Len(open)
      /\ \A k \in 1..Len(open) : k # Len(open) => s[k] = open[k]
  BY <1>1, <1>2, ExceptSeq
<1>4. s[Len(open)] = e
  BY <1>1, ExceptSeq, <1>2
<1> QED
  BY <1>3, <1>4

LEMMA Initially == PPInit => Inv
<1> SUFFICES ASSUME PPInit PROVE Inv
  OBVIOUS
<1>1. kept \in BOOLEAN /\ copying \in BOOLEAN
  BY Zenon DEF PPInit, Init
<1>2. open = <<>> /\ open \in Seq(Conditional) /\ Len(open) = 0
  BY EmptySeq DEF PPInit, Init
<1> QED
  BY <1>1, <1>2 DEF PPInit, Init, Inv, TypeOK, Levels

(* One conditional more: it executes when all around it do and its own     *)
(* condition holds.                                                        *)
LEMMA IfdefStep ==
  ASSUME Inv, NEW name \in Names, NEW normal \in BOOLEAN, Ifdef(name, normal)
  PROVE  Inv'
<1> DEFINE holds == (name \in defines) = normal
<1>1. holds \in BOOLEAN
  OBVIOUS
<1> HIDE DEF holds
<1>2. /\ open' = Append(open, [holds |-> holds, elses |-> 0])
      /\ curr' = curr + 1
      /\ IF curr = exec /\ holds THEN exec' = curr + 1 /\ prev' = curr + 1
                                 ELSE exec' = exec /\ prev' = prev
      /\ phase # "grammar" /\ kept' = FALSE
      /\ phase' = phase /\ defines' = defines /\ copying' = copying
  BY DEF Ifdef, DirectiveLine, holds
<1>3. /\ open' \in Seq(Conditional) /\ Len(open') = Len(open) + 1
      /\ \A k \in 1..Len(open) : open'[k] = open[k]
      /\ open'[Len(open) + 1].holds <=> holds
      /\ open'[Len(open) + 1].elses = 0
      /\ Selected(open'[Len(open) + 1]) <=> holds
  BY <1>1, <1>2, AppendOpen, Zenon DEF Inv, TypeOK
<1>4. TypeOK'
  <2>1. kept' \in BOOLEAN /\ copying' \in BOOLEAN
    BY <1>2, Zenon DEF Inv, TypeOK
  <2> QED BY <1>2, <1>3, <2>1 DEF Inv, TypeOK
<1>5. Levels'
  <2>1. CASE curr = exec /\ holds
    BY <2>1, <1>2, <1>3 DEF Inv, TypeOK, Levels, Selected
  <2>2. CASE ~(curr = exec /\ holds)
    BY <2>2, <1>2, <1>3 DEF Inv, TypeOK, Levels, Selected
  <2> QED BY <2>1, <2>2
<1> QED
  BY <1>4, <1>5 DEF Inv

(* The innermost conditional changes its branch.                           *)
LEMMA ElseStep ==
  ASSUME Inv, ElseLine
  PROVE  Inv'
<1> DEFINE n == Len(open)
<1>1. /\ n \in Nat \ {0} /\ n = curr /\ open[n] \in Conditional /\ open[n].elses < 2
      /\ open' \in Seq(Conditional) /\ Len(open') = n
      /\ \A k \in 1..n : k # n => open'[k] = open[k]
      /\ open'[n] = [holds |-> open[n].holds, elses |-> open[n].elses + 1]
  BY LastOpen, ElseOpen DEF Inv, TypeOK, Levels, ElseLine
<1>2. /\ exec' = ElseLevel /\ curr' = curr /\ prev' = prev
      /\ phase # "grammar" /\ kept' = FALSE
      /\ phase' = phase /\ defines' = defines /\ copying' = copying
  BY DEF ElseLine, DirectiveLine
<1>3. open[n].holds \in BOOLEAN /\ open[n].elses \in {0, 1}
  BY <1>1 DEF Conditional
<1>4. Levels'
  <2>0. /\ exec \in Nat /\ curr \in Nat /\ prev \in Nat
        /\ exec <= curr /\ prev <= curr /\ curr' = Len(open')
        /\ \A k \in 1..n : k # curr => Selected(open'[k]) = Selected(open[k])
    BY <1>1, <1>2 DEF Inv, TypeOK, Levels, Selected
  <2>1. CASE curr = exec + 1 /\ curr # prev
    <3>1. exec' = curr /\ open[curr].elses = 0 /\ ~open[curr].holds
      BY <2>0, <2>1, <1>1, <1>2, <1>3 DEF Inv, Levels, ElseLevel, Selected
    <3>2. Selected(open'[curr]) /\ ~open'[curr].holds
      BY <3>1, <1>1, <1>3 DEF Selected
    <3>3. \A k \in 1..exec' : Selected(open'[k])
      BY <3>1, <3>2, <2>0, <2>1, <1>1 DEF Inv, Levels
    <3>4. \A k \in 1..exec' : open'[k].holds => prev' >= k
      BY <3>1, <3>2, <2>0, <2>1, <1>1, <1>2 DEF Inv, Levels
    <3> QED BY <3>1, <3>3, <3>4, <2>0, <1>2 DEF Levels
  <2>2. CASE curr = exec
    <3>1. exec' = curr - 1 /\ Selected(open[curr])
      BY <2>0, <2>2, <1>1, <1>2 DEF Inv, Levels, ElseLevel
    <3>2. /\ ~Selected(open'[curr]) /\ open'[curr].elses # 0
          /\ open'[curr].holds => prev >= curr
      BY <3>1, <2>0, <2>2, <1>1, <1>3 DEF Inv, Levels, Selected
    <3>3. \A k \in 1..exec' : Selected(open'[k])
      BY <3>1, <2>0, <2>2, <1>1 DEF Inv, Levels
    <3>4. \A k \in 1..exec' : open'[k].holds => prev' >= k
      BY <3>1, <2>0, <2>2, <1>1, <1>2 DEF Inv, Levels
    <3> QED BY <3>1, <3>2, <3>3, <3>4, <2>0, <1>2 DEF Levels
  <2>3. CASE curr # exec /\ ~(curr = exec + 1 /\ curr # prev)
    <3>1. exec' = exec /\ exec < curr
      BY <2>0, <2>3, <1>2 DEF ElseLevel
    <3>2. \A k \in 1..exec' : Selected(open'[k])
      BY <3>1, <2>0, <1>1 DEF Inv, Levels
    <3>3. \A k \in 1..exec' : open'[k].holds => prev' >= k
      BY <3>1, <2>0, <1>1, <1>2 DEF Inv, Levels
    <3>4. /\ ~Selected(open'[exec + 1]) /\ prev <= exec + 1
          /\ open'[exec + 1].holds => prev = exec + 1
          /\ open'[exec + 1].elses = 0 => prev < exec + 1
      <4>1. CASE exec + 1 = curr
        <5>1. prev = exec + 1 /\ open[exec + 1].elses = 1
          BY <4>1, <3>1, <2>0, <2>3, <1>1, <1>3 DEF Inv, Levels
        <5> QED BY <4>1, <5>1, <1>1, <1>3 DEF Selected
      <4>2. CASE exec + 1 # curr
        <5>1. exec + 1 \in 1..n /\ exec + 1 # n
          BY <4>2, <3>1, <2>0, <1>1
        <5> QED BY <5>1, <3>1, <2>0, <1>1 DEF Inv, Levels
      <4> QED BY <4>1, <4>2
    <3> QED BY <3>1, <3>2, <3>3, <3>4, <2>0, <1>2 DEF Levels
  <2> QED BY <2>1, <2>2, <2>3
<1>5. TypeOK'
  <2>1. kept' \in BOOLEAN /\ copying' \in BOOLEAN
    BY <1>2, Zenon DEF Inv, TypeOK
  <2> QED BY <1>1, <1>2, <2>1 DEF Inv, TypeOK, Levels, ElseLevel
<1> QED
  BY <1>4, <1>5 DEF Inv

(* The innermost conditional is closed.                                    *)
LEMMA EndifStep ==
  ASSUME Inv, EndifLine
  PROVE  Inv'
<1>1. /\ Len(open) \in Nat \ {0} /\ Len(open) = curr
      /\ open' \in Seq(Conditional) /\ Len(open') = curr - 1
      /\ \A k \in 1..(curr - 1) : open'[k] = open[k]
  BY LastOpen DEF Inv, TypeOK, Levels, EndifLine
<1>2. /\ exec' = EndifLevel /\ curr' = curr - 1
      /\ prev' = EndifPrev(IF curr = exec THEN EndifLevel ELSE prev)
      /\ phase # "grammar" /\ kept' = FALSE
      /\ phase' = phase /\ defines' = defines /\ copying' = copying
  BY DEF EndifLine, DirectiveLine
<1>3. TypeOK'
  <2>1. kept' \in BOOLEAN /\ copying' \in BOOLEAN
    BY <1>2, Zenon DEF Inv, TypeOK
  <2> QED BY <1>1, <1>2, <2>1 DEF Inv, TypeOK, Levels, EndifLevel, EndifPrev
<1>4. Levels'
  BY <1>1, <1>2 DEF Inv, TypeOK, Levels, EndifLevel, EndifPrev
<1> QED
  BY <1>3, <1>4 DEF Inv

(* The other steps leave the levels alone, or start from an empty stack.   *)
LEMMA OtherSteps ==
  ASSUME Inv,
         \/ \E names \in SUBSET Names : DefineNames(names)
         \/ NamelessLine \/ TextLine \/ StopMarker \/ Reset
         \/ UNCHANGED ppVars
  PROVE  Inv'
<1>1. CASE \E names \in SUBSET Names : DefineNames(names)
  BY <1>1 DEF DefineNames, Inv, TypeOK, Levels, levels
<1>2. CASE NamelessLine
  BY <1>2 DEF NamelessLine, DirectiveLine, Inv, TypeOK, Levels, levels
<1>3. CASE TextLine
  <2>1. kept' \in BOOLEAN
    BY <1>3, Zenon DEF TextLine, Inv, TypeOK, state
  <2> QED BY <1>3, <2>1 DEF TextLine, Inv, TypeOK, Levels, levels
<1>4. CASE StopMarker
  BY <1>4 DEF StopMarker, Inv, TypeOK, Levels, levels
<1>5. CASE Reset
  <2>1. kept' \in BOOLEAN /\ copying' \in BOOLEAN
    BY <1>5, Zenon DEF Reset
  <2>2. open' = <<>> /\ open' \in Seq(Conditional) /\ Len(open') = 0
    BY <1>5, EmptySeq DEF Reset
  <2> QED BY <1>5, <2>1, <2>2 DEF Reset, Inv, TypeOK, Levels
<1>6. CASE UNCHANGED ppVars
  BY <1>6 DEF ppVars, Inv, TypeOK, Levels
<1> QED
  BY <1>1, <1>2, <1>3, <1>4, <1>5, <1>6

LEMMA Step == Inv /\ [PPNext]_ppVars => Inv'
  BY IfdefStep, ElseStep, EndifStep, OtherSteps DEF PPNext

LEMMA Invariance == PPSpec => []Inv
  BY Initially, Step, PTL DEF PPSpec

(* The levels are never negative, whatever the grammar defines and however *)
(* the conditionals of a balanced frame file are nested.                   *)
THEOREM PreprocTypes == PPSpec => []TypeOK
<1>1. Inv => TypeOK
  BY DEF Inv
<1> QED
  BY <1>1, Invariance, PTL

(* curr_, prev_ and exec_ stand for the stack of open conditionals.        *)
THEOREM LevelsStandForStack == PPSpec => []Levels
<1>1. Inv => Levels
  BY DEF Inv
<1> QED
  BY <1>1, Invariance, PTL

(* state() holds exactly in the branches every conditional around selects. *)
LEMMA StateIsKeeping ==
  ASSUME Inv
  PROVE  state <=> Keeping
<1>0. DOMAIN open = 1..curr
  BY LenProperties DEF Inv, TypeOK, Levels
<1>1. CASE curr = exec
  BY <1>0, <1>1 DEF Inv, TypeOK, Levels, state, Keeping
<1>2. CASE curr # exec
  <2>1. exec + 1 \in DOMAIN open /\ ~Selected(open[exec + 1])
    BY <1>0, <1>2 DEF Inv, TypeOK, Levels
  <2> QED BY <1>2, <2>1 DEF state, Keeping
<1> QED BY <1>1, <1>2

LEMMA StepSimulation ==
  ASSUME Inv, [PPNext]_ppVars
  PROVE  [Next]_vars
<1>1. CASE \E names \in SUBSET Names : DefineNames(names)
  BY <1>1 DEF DefineNames, levels, Inv, TypeOK, Next, Define
<1>2. CASE \E name \in Names, normal \in BOOLEAN : Ifdef(name, normal)
  <2>1. PICK name \in Names, normal \in BOOLEAN : Ifdef(name, normal)
    BY <1>2
  <2>2. Open(name, normal)
    BY <2>1 DEF Ifdef, DirectiveLine, Open, Directive
  <2> QED BY <2>2 DEF Next
<1>3. CASE ElseLine
  BY <1>3 DEF ElseLine, DirectiveLine, Next, Else, Directive
<1>4. CASE EndifLine
  BY <1>4 DEF EndifLine, DirectiveLine, Next, Close, Directive
<1>5. CASE NamelessLine
  BY <1>5 DEF NamelessLine, DirectiveLine, Next, Ignored, Directive
<1>6. CASE TextLine
  <2>1. Text
    BY <1>6, StateIsKeeping, Zenon DEF TextLine, Text
  <2> QED BY <2>1 DEF Next
<1>7. CASE StopMarker
  BY <1>7 DEF StopMarker, Next, Part
<1>8. CASE Reset
  BY <1>8 DEF Reset, Next, Restart
<1>9. CASE UNCHANGED ppVars
  BY <1>9 DEF ppVars, vars
<1> QED
  BY <1>1, <1>2, <1>3, <1>4, <1>5, <1>6, <1>7, <1>8, <1>9 DEF PPNext

(* The lines Tab.CopyFramePart copies are those every conditional around   *)
(* them selects: Preproc implements Conditionals.                          *)
THEOREM ImplementsConditionals == PPSpec => KeepsSelected
<1>1. PPInit => Init
  BY DEF PPInit
<1>2. Inv /\ [PPNext]_ppVars => [Next]_vars
  BY StepSimulation
<1> QED
  BY <1>1, <1>2, Invariance, PTL DEF PPSpec, Spec, KeepsSelected
=============================================================================
