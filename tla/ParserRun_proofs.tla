-------------------------- MODULE ParserRun_proofs --------------------------
(***************************************************************************)
(* The errors of any generated parser, on any input: the first one is      *)
(* reported, and those that are reported are apart from each other.  A     *)
(* parser does nothing to its input and its errors but what Get, SynErr    *)
(* and SemErr do, whatever statements it is made of.                       *)
(***************************************************************************)
EXTENDS ParserRun, SequenceTheorems, TLAPS

\* Errors with these messages.
Errors(messages) == [at : Nat, msg : messages]

Types ==
  /\ input \in Seq(AllTerminals \cup {Pragma})
  /\ at \in 0..(Len(input) + 1) /\ errDist \in 0..MinErrDist
  /\ \E messages : raised \in Seq(Errors(messages)) /\ reported \in Seq(Errors(messages))

\* The first error is found with errDist as it was at first.
FirstKnown ==
  /\ raised = <<>> => reported = <<>> /\ errDist = MinErrDist
  /\ raised # <<>> => reported # <<>> /\ reported[1] = raised[1]

\* errDist counts no more tokens than there are behind each error.
Behind ==
  \A i \in DOMAIN reported :
    \/ reported[i].at + errDist <= at
    \/ at > Len(input)

Apart ==
  \A i, j \in DOMAIN reported :
    i < j => \/ reported[i].at + MinErrDist <= reported[j].at
             \/ reported[j].at > Len(input)

IInv == Types /\ FirstKnown /\ Behind /\ Apart

\* The errors reported are at tokens.
LEMMA ReportedAt ==
  ASSUME Types
  PROVE  \A i \in DOMAIN reported : i \in Nat /\ i <= Len(reported) /\ reported[i].at \in Nat
<1> PICK messages : reported \in Seq(Errors(messages))
  BY DEF Types
<1>1. \A i \in DOMAIN reported : i \in 1..Len(reported) /\ reported[i] \in Errors(messages)
  OBVIOUS
<1>2. \A x \in Errors(messages) : x.at \in Nat
  BY DEF Errors
<1> QED
  BY <1>1, <1>2

\* A sequence is one over any larger set.
LEMMA Wider ==
  ASSUME NEW S, NEW T, S \subseteq T, NEW s \in Seq(S)
  PROVE  s \in Seq(T)
<1>1. \A i \in 1..Len(s) : s[i] \in T
  BY ElementOfSeq
<1> QED
  BY <1>1, SeqDef, LenProperties

\* What one more error changes in a sequence of them.
LEMMA Appending ==
  ASSUME NEW S, NEW s \in Seq(S), NEW x
  PROVE  /\ Append(s, x) \in Seq(S \cup {x}) /\ Append(s, x) # <<>>
         /\ s = <<>> => Append(s, x)[1] = x
         /\ s # <<>> => Append(s, x)[1] = s[1]
         /\ \A i \in DOMAIN Append(s, x) :
              \/ i \in DOMAIN s /\ Append(s, x)[i] = s[i]
              \/ i = Len(s) + 1 /\ Append(s, x)[i] = x
<1>1. s \in Seq(S \cup {x})
  <2>1. S \subseteq S \cup {x}
    OBVIOUS
  <2> QED
    BY <2>1, Wider
<1> QED
  BY <1>1

\* The initial state satisfies the invariant.
LEMMA Start == FrameInit => IInv
  BY DEF FrameInit, FrameStart, IInv, Types, FirstKnown, Behind, Apart, ErrDistAtFirst, MinErrDist

\* Numbers of tokens.
LEMMA Between ==
  ASSUME NEW m \in Nat, NEW n \in Nat, NEW k \in (m + 1)..(n - 1)
  PROVE  k \in Nat /\ m <= k /\ k + 1 <= n
  OBVIOUS

LEMMA StillBehind ==
  ASSUME NEW e \in Nat, NEW k \in Nat, NEW l \in Nat, NEW n \in Nat, NEW d \in {0, 1},
         e + 2 <= k \/ k > l, n <= l, k + d <= n
  PROVE  e + d <= n
  OBVIOUS

\* An error at the k-th token is reported only if enough tokens are behind the last one.
LEMMA RaiseKeeps ==
  ASSUME IInv, UNCHANGED input, NEW k \in Nat, NEW msg, Raise(k, msg),
         at' \in at..(Len(input) + 1), errDist' \in {0, 1},
         at <= k, k + errDist' <= at'
  PROVE  IInv'
<1> USE DEF IInv, MinErrDist
<1> DEFINE e == [at |-> k, msg |-> msg]
<1> PICK messages : raised \in Seq(Errors(messages)) /\ reported \in Seq(Errors(messages))
  BY DEF Types
<1>1. /\ e.at = k /\ at \in Nat /\ Len(input) \in Nat /\ at' \in Nat /\ at <= at'
      /\ at' \in 0..(Len(input) + 1) /\ errDist' \in Nat
  BY DEF Types
<1>2. /\ raised' = Append(raised, e) /\ input' = input
      /\ reported' = IF errDist >= 2 THEN Append(reported, e) ELSE reported
  BY DEF Raise
<1>3. Types'
  <2> DEFINE more == messages \cup {msg}
  <2>1. \A s \in Seq(Errors(messages)) : s \in Seq(Errors(more)) /\ Append(s, e) \in Seq(Errors(more))
    <3>1. Errors(messages) \cup {e} \subseteq Errors(more)
      BY <1>1 DEF Errors
    <3>2. ASSUME NEW s \in Seq(Errors(messages)) PROVE s \in Seq(Errors(more)) /\ Append(s, e) \in Seq(Errors(more))
      <4>1. Errors(messages) \subseteq Errors(more)
        BY <3>1
      <4>2. s \in Seq(Errors(more))
        BY <4>1, Wider
      <4>3. e \in Errors(more)
        BY <3>1
      <4> HIDE DEF e, more
      <4> QED
        BY <4>2, <4>3
    <3> QED
      BY <3>2
  <2>2. raised' \in Seq(Errors(more)) /\ reported' \in Seq(Errors(more))
    BY <1>2, <2>1
  <2>3. errDist' \in 0..2 /\ UNCHANGED input
    BY <1>2
  <2> HIDE DEF more
  <2> QED
    BY <1>1, <2>2, <2>3 DEF Types
<1>4. FirstKnown'
  <2>1. CASE raised = <<>>
    <3> HIDE DEF e
    <3>1. reported = <<>> /\ errDist = 2
      BY <2>1 DEF FirstKnown
    <3>2. raised' # <<>> /\ raised'[1] = e
      BY <2>1, <1>2, Appending
    <3>3. reported' # <<>> /\ reported'[1] = e
      BY <3>1, <1>2, Appending
    <3> QED
      BY <3>2, <3>3 DEF FirstKnown
  <2>2. CASE raised # <<>>
    <3> HIDE DEF e
    <3>1. raised' # <<>> /\ raised'[1] = raised[1]
      BY <2>2, <1>2, Appending
    <3>2. reported' # <<>> /\ reported'[1] = reported[1]
      BY <2>2, <1>2, Appending DEF FirstKnown
    <3> QED
      BY <2>2, <3>1, <3>2 DEF FirstKnown
  <2> QED
    BY <2>1, <2>2
<1>5. \A i \in DOMAIN reported : reported[i].at \in Nat /\ i \in Nat /\ i <= Len(reported)
  BY ReportedAt
<1>6. CASE errDist >= 2
  <2>1. \A i \in DOMAIN reported' :
          \/ i \in DOMAIN reported /\ reported'[i] = reported[i]
          \/ i = Len(reported) + 1 /\ reported'[i] = e
    BY <1>1, <1>2, <1>6, Appending DEF Types
  <2>2. \A i \in DOMAIN reported : reported[i].at + 2 <= k \/ k > Len(input)
    BY <1>1, <1>5, <1>6 DEF Behind, Types
  <2>3. Behind'
    <3> SUFFICES ASSUME NEW i \in DOMAIN reported', at' <= Len(input)
                 PROVE reported'[i].at + errDist' <= at'
      BY <1>1, <1>2 DEF Behind
    <3>1. CASE i \in DOMAIN reported /\ reported'[i] = reported[i]
      <4>1. reported[i].at \in Nat /\ (reported[i].at + 2 <= k \/ k > Len(input))
        BY <3>1, <1>5, <2>2
      <4>2. reported'[i].at = reported[i].at
        BY <3>1
      <4> QED
        BY <1>1, <4>1, <4>2, StillBehind
    <3>2. CASE reported'[i] = e
      BY <1>1, <3>2
    <3> QED
      BY <2>1, <3>1, <3>2
  <2>4. Apart'
    <3> SUFFICES ASSUME NEW i \in DOMAIN reported', NEW j \in DOMAIN reported', i < j
                 PROVE reported'[i].at + 2 <= reported'[j].at \/ reported'[j].at > Len(input)
      BY <1>2 DEF Apart
    <3>1. i \in DOMAIN reported /\ reported'[i] = reported[i]
      <4>1. j \in Nat /\ j <= Len(reported) + 1 /\ Len(reported) \in Nat
        BY <2>1, <1>5 DEF Types
      <4> QED
        BY <4>1, <2>1, <1>5
    <3> QED
      BY <1>1, <2>1, <2>2, <3>1 DEF Apart
  <2> QED
    BY <1>3, <1>4, <2>3, <2>4
<1>7. CASE ~(errDist >= 2)
  <2>1. Behind'
    <3> SUFFICES ASSUME NEW i \in DOMAIN reported, at' <= Len(input)
                 PROVE reported[i].at + errDist' <= at'
      BY <1>1, <1>2, <1>7 DEF Behind
    <3>1. reported[i].at <= at
      BY <1>1, <1>5 DEF Behind, Types
    <3> QED
      BY <1>1, <1>5, <3>1
  <2>2. Apart'
    BY <1>2, <1>7 DEF Apart
  <2> QED
    BY <1>3, <1>4, <2>1, <2>2
<1> QED
  BY <1>6, <1>7 DEF Types

\* SynErr and SemErr report at the current token.
LEMMA ErrKeeps ==
  ASSUME IInv, UNCHANGED input, NEW msg, Err(msg)
  PROVE  IInv'
<1>1. /\ at \in Nat /\ Len(input) \in Nat /\ at' = at /\ errDist' = 0
      /\ at \in 0..(Len(input) + 1) /\ Raise(at, msg)
  BY DEF IInv, Types, Err
<1> QED
  BY <1>1, RaiseKeeps

\* Get goes on by one token at least, unless it is at the end; a pragma before the token
\* may report an error.
LEMMA GetKeeps == IInv /\ UNCHANGED input /\ Get => IInv'
<1> SUFFICES ASSUME IInv, UNCHANGED input, Get PROVE IInv'
  OBVIOUS
<1> USE DEF IInv, MinErrDist
<1>1. /\ at' \in at..(Len(input) + 1) /\ (at <= Len(input) => at < at')
      /\ at \in Nat /\ Len(input) \in Nat
  BY DEF Get, Follows, Types
<1>2. ASSUME errDist' = Counted, UNCHANGED <<raised, reported>>
      PROVE  IInv'
  <2>1. errDist' \in 0..2 /\ errDist' <= errDist + 1
    BY <1>2 DEF Counted, Types
  <2>2. Types'
    BY <1>1, <1>2, <2>1 DEF Types
  <2>3. FirstKnown'
    BY <1>2 DEF FirstKnown, Counted
  <2>4. Behind'
    <3> SUFFICES ASSUME NEW i \in DOMAIN reported, at' <= Len(input)
                 PROVE reported[i].at + errDist' <= at'
      BY <1>1, <1>2 DEF Behind
    <3>1. reported[i].at \in Nat
      BY ReportedAt
    <3>2. at <= Len(input)
      BY <1>1
    <3> QED
      BY <1>1, <2>1, <3>1, <3>2 DEF Behind, Types
  <2>5. Apart'
    BY <1>2 DEF Apart
  <2> QED
    BY <2>2, <2>3, <2>4, <2>5
<1>3. ASSUME NEW k \in (at + 1)..(at' - 1), Raise(k, SemErrMsg), errDist' = 1
      PROVE  IInv'
  <2>1. at' \in Nat
    BY <1>1
  <2>2. k \in Nat /\ at <= k /\ k + errDist' <= at' /\ errDist' \in {0, 1}
    <3>1. k \in Nat /\ at <= k /\ k + 1 <= at'
      BY <1>1, <2>1, Between
    <3> QED
      BY <1>3, <3>1
  <2> QED
    BY <1>1, <1>3, <2>2, RaiseKeeps
<1> QED
  BY <1>2, <1>3 DEF Get

\* For every input and every parser made of Get, SynErr and SemErr: the first error is
\* reported, and minErrDist tokens are recognized between two that are reported, unless
\* the second is at the end of the input.
THEOREM ErrorsReported == FrameSpec => []Reported
<1>1. IInv /\ [FrameNext]_frame => IInv'
  <2> SUFFICES ASSUME IInv, [FrameNext]_frame PROVE IInv'
    OBVIOUS
  <2>1. CASE UNCHANGED input /\ Get
    BY <2>1, GetKeeps
  <2>2. CASE UNCHANGED input /\ \E msg : Err(msg)
    BY <2>2, ErrKeeps
  <2>3. CASE UNCHANGED frame
    BY <2>3 DEF frame, IInv, Types, FirstKnown, Behind, Apart
  <2> QED
    BY <2>1, <2>2, <2>3 DEF FrameNext
<1>2. IInv => Reported
  BY DEF IInv, FirstKnown, Apart, Reported
<1> QED
  BY Start, <1>1, <1>2, PTL DEF FrameSpec
----------------------------------------------------------------------------
(* The parsers.                                                            *)

\* What a statement does to the input and the errors.
FrameStep == UNCHANGED input /\ (Get \/ Quiet \/ \E msg : Err(msg))

\* A statement is Get, SynErr or SemErr, or leaves all that alone.
LEMMA StatementSteps == Next => FrameStep /\ UNCHANGED grammar
<1> SUFFICES ASSUME Next PROVE FrameStep /\ UNCHANGED grammar
  OBVIOUS
<1> USE DEF FrameStep, Do
<1>1. CASE CallNt
  BY <1>1 DEF CallNt
<1>2. CASE GetNext
  BY <1>2 DEF GetNext
<1>3. CASE ExpectT
  BY <1>3, Zenon DEF ExpectT
<1>4. CASE ExpectWeakT
  BY <1>4, Zenon DEF ExpectWeakT
<1>5. CASE SkipToken
  BY <1>5, Zenon DEF SkipToken
<1>6. CASE WeakSeparator
  BY <1>6, Zenon DEF WeakSeparator
<1>7. CASE ResumeLoop
  BY <1>7, Zenon DEF ResumeLoop
<1>8. CASE GetIfAllowed
  BY <1>8, Zenon DEF GetIfAllowed
<1>9. CASE ErrorOnly
  BY <1>9, Zenon DEF ErrorOnly
<1>10. CASE Synchronize
  BY <1>10, Zenon DEF Synchronize
<1>11. CASE Choose
  BY <1>11, Zenon DEF Choose
<1>12. CASE Loop
  BY <1>12, Zenon DEF Loop
<1>13. CASE Semantic
  BY <1>13, Zenon DEF Semantic
<1> QED
  BY <1>1, <1>2, <1>3, <1>4, <1>5, <1>6, <1>7, <1>8, <1>9, <1>10, <1>11, <1>12, <1>13 DEF Next

\* Every parser implements the frame: whatever statements were written for its
\* grammar, all they do to the input and the errors is what Get, SynErr and SemErr do.
THEOREM ImplementsFrame == Spec => FrameSpec
<1>1. Init => FrameInit
  BY ParserAssumption DEF Init, FrameInit
<1>2. [Next]_vars => [FrameNext]_frame
  <2>1. CASE Next
    BY <2>1, StatementSteps, Zenon DEF FrameStep, FrameNext, Quiet, frame
  <2>2. CASE UNCHANGED vars
    BY <2>2 DEF vars, frame
  <2> QED
    BY <2>1, <2>2
<1> QED
  BY <1>1, <1>2, PTL DEF Spec, FrameSpec

\* So the first error of every parser is reported, and later ones only if enough tokens
\* are between.
THEOREM ParsersReport == Spec => []Reported
  BY ImplementsFrame, ErrorsReported, PTL

\* Until the first token was read, reading it is all there is to do.
RInv ==
  /\ IInv
  /\ grammar \in DOMAIN Parsers /\ input \in Inputs[grammar]
  /\ at = 0 => todo = Parse(grammar)
  /\ asked \in BOOLEAN

\* The history variable is set by the statements that may ask a resolver.
LEMMA AskedTyped == asked \in BOOLEAN /\ Next => asked' \in BOOLEAN
<1> SUFFICES ASSUME asked \in BOOLEAN, Next PROVE asked' \in BOOLEAN
  OBVIOUS
<1>1. CASE Choose
  BY <1>1, Zenon DEF Choose, Ask
<1>2. CASE Loop
  BY <1>2, Zenon DEF Loop, Ask
<1>3. CASE Unasked
  BY <1>3 DEF Unasked
<1> QED
  BY <1>1, <1>2, <1>3, Zenon DEF Next, CallNt, GetNext, ExpectT, ExpectWeakT, SkipToken,
     WeakSeparator, ResumeLoop, GetIfAllowed, ErrorOnly, Synchronize, Semantic

\* With EXPLICIT_EOF or without, Parse begins with Get.
LEMMA ParseFirst ==
  ASSUME NEW g
  PROVE  Parse(g) # <<>> /\ Head(Parse(g)).op = "get"
  BY DEF Parse, GetStatement

\* The first statement reads the first token.
LEMMA FirstToken ==
  ASSUME RInv, Next, at = 0
  PROVE  at' > 0
<1>1. todo = Parse(grammar) /\ todo # <<>> /\ Head(todo).op = "get"
  BY ParseFirst DEF RInv
<1>2. GetNext
  BY <1>1 DEF Next, Do, CallNt, ExpectT, ExpectWeakT, SkipToken, WeakSeparator, ResumeLoop,
     GetIfAllowed, ErrorOnly, Synchronize, Choose, Loop, Semantic
<1>3. Len(input) \in Nat
  BY DEF RInv, IInv, Types
<1> QED
  BY <1>2, <1>3 DEF GetNext, Get, Follows

\* The types of the parser: la is never beyond the end of the input, errDist never above
\* minErrDist, and the parser never ends without having read a token.
THEOREM ParserTypes == Spec => []TypeOK
<1>1. Init => RInv
  <2>1. Init => FrameInit
    BY ParserAssumption DEF Init, FrameInit
  <2> QED
    BY <2>1, Start DEF Init, RInv
<1>2. RInv /\ [Next]_vars => RInv'
  <2> SUFFICES ASSUME RInv, [Next]_vars PROVE RInv'
    OBVIOUS
  <2>1. CASE Next
    <3>1. FrameStep /\ UNCHANGED <<grammar, input>>
      BY <2>1, StatementSteps DEF FrameStep
    <3>2. IInv'
      <4>1. CASE Quiet
        BY <3>1, <4>1 DEF RInv, IInv, Types, FirstKnown, Behind, Apart, Quiet
      <4> QED
        BY <3>1, <4>1, GetKeeps, ErrKeeps DEF FrameStep, RInv
    <3>3. asked' \in BOOLEAN
      BY <2>1, AskedTyped DEF RInv
    <3>4. at' # 0
      <4>1. CASE at = 0
        BY <2>1, <4>1, FirstToken
      <4>2. CASE at # 0
        <5>1. at \in Nat /\ Len(input) \in Nat
          BY DEF RInv, IInv, Types
        <5>2. at' = at \/ at' \in at..(Len(input) + 1)
          BY <3>1 DEF FrameStep, Get, Quiet, Err
        <5> QED
          BY <4>2, <5>1, <5>2
      <4> QED
        BY <4>1, <4>2
    <3> QED
      BY <3>1, <3>2, <3>3, <3>4 DEF RInv
  <2>2. CASE UNCHANGED vars
    BY <2>2 DEF vars, RInv, IInv, Types, FirstKnown, Behind, Apart
  <2> QED
    BY <2>1, <2>2
<1>3. RInv => TypeOK
  <2> SUFFICES ASSUME RInv PROVE TypeOK
    OBVIOUS
  <2>1. at \in Nat /\ (Ended => at # 0)
    <3>1. at \in Nat
      BY DEF RInv, IInv, Types
    <3>2. at = 0 => todo # <<>>
      BY ParseFirst DEF RInv
    <3> QED
      BY <3>1, <3>2 DEF Ended
  <2>2. Ended => at > 0
    BY <2>1
  <2> QED
    BY <2>2 DEF RInv, IInv, Types, TypeOK
<1> QED
  BY <1>1, <1>2, <1>3, PTL DEF Spec
=============================================================================
