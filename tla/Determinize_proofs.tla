------------------------- MODULE Determinize_proofs -------------------------
(***************************************************************************)
(* What the operations on action lists keep of a list's moves, and type    *)
(* correctness and determinism of the automaton while it is made           *)
(* deterministic, for every grammar.                                       *)
(***************************************************************************)
EXTENDS Determinize, SequenceTheorems, WellFoundedInduction, FiniteSetTheorems, TLAPS

----------------------------------------------------------------------------
(* Action lists: what AddAction, DetachAction and SplitActions leave of a  *)
(* list's moves.                                                           *)

\* Every nonempty set of numbers has a least element.
LEMMA LeastNat ==
  ASSUME NEW T, T \subseteq Nat, T # {}
  PROVE  \E x \in T : \A y \in T : x <= y
<1> DEFINE R == {ss \in Nat \X Nat : ss[1] < ss[2]}
<1>1. IsWellFoundedOn(R, Nat)
  BY NatLessThanWellFounded, Zenon DEF OpToRel
<1>2. PICK x \in T : \A y \in T : <<y, x>> \notin R
  BY <1>1, WFMin, Zenon
<1>3. ASSUME NEW y \in T PROVE x <= y
  <2>1. x \in Nat /\ y \in Nat /\ <<y, x>> \in Nat \X Nat
    OBVIOUS
  <2>2. ~(y < x)
    BY <1>2, <2>1
  <2> QED BY <2>1, <2>2
<1> QED BY <1>3

\* RemoveAt drops one element and closes the gap.
LEMMA RemoveAtElements ==
  ASSUME NEW S, NEW s \in Seq(S), NEW i \in 1..Len(s)
  PROVE  /\ RemoveAt(s, i) \in Seq(S)
         /\ Len(RemoveAt(s, i)) = Len(s) - 1
         /\ \A k \in 1..(Len(s) - 1) :
              RemoveAt(s, i)[k] = IF k < i THEN s[k] ELSE s[k + 1]
<1> DEFINE p == SubSeq(s, 1, i - 1)
           q == SubSeq(s, i + 1, Len(s))
<1>1. /\ p \in Seq(S) /\ Len(p) = i - 1
      /\ \A k \in 1..(i - 1) : p[k] = s[k]
  <2>1. \A k \in 1..(i - 1) : s[k] \in S
    BY ElementOfSeq
  <2> QED BY <2>1, SubSeqProperties
<1>2. /\ q \in Seq(S) /\ Len(q) = Len(s) - i
      /\ \A k \in 1..(Len(s) - i) : q[k] = s[k + i]
  <2>1. \A k \in (i + 1)..Len(s) : s[k] \in S
    BY ElementOfSeq
  <2> QED BY <2>1, SubSeqProperties
<1>3. RemoveAt(s, i) = p \o q
  BY DEF RemoveAt
<1> HIDE DEF p, q
<1>4. /\ p \o q \in Seq(S) /\ Len(p \o q) = Len(s) - 1
      /\ \A k \in 1..(Len(s) - 1) : (p \o q)[k] = IF k <= i - 1 THEN p[k] ELSE q[k - (i - 1)]
  <2>1. /\ p \o q \in Seq(S) /\ Len(p \o q) = Len(p) + Len(q)
        /\ \A k \in 1..(Len(p) + Len(q)) :
             (p \o q)[k] = IF k <= Len(p) THEN p[k] ELSE q[k - Len(p)]
    BY <1>1, <1>2, ConcatProperties, Zenon
  <2> QED BY <1>1, <1>2, <2>1
<1> QED BY <1>1, <1>2, <1>3, <1>4

\* InsertAt puts the new element at its place and moves the rest up.
LEMMA InsertAtElements ==
  ASSUME NEW S, NEW s \in Seq(S), NEW i \in 1..(Len(s) + 1), NEW e \in S
  PROVE  /\ InsertAt(s, i, e) \in Seq(S)
         /\ Len(InsertAt(s, i, e)) = Len(s) + 1
         /\ \A k \in 1..(Len(s) + 1) :
              InsertAt(s, i, e)[k] = IF k < i THEN s[k] ELSE IF k = i THEN e ELSE s[k - 1]
<1> DEFINE p == SubSeq(s, 1, i - 1)
           q == SubSeq(s, i, Len(s))
           r == p \o <<e>>
<1>1. /\ p \in Seq(S) /\ Len(p) = i - 1
      /\ \A k \in 1..(i - 1) : p[k] = s[k]
  <2>1. \A k \in 1..(i - 1) : s[k] \in S
    BY ElementOfSeq
  <2> QED BY <2>1, SubSeqProperties
<1>2. /\ q \in Seq(S) /\ Len(q) = Len(s) - i + 1
      /\ \A k \in 1..(Len(s) - i + 1) : q[k] = s[k + i - 1]
  <2>1. \A k \in i..Len(s) : s[k] \in S
    BY ElementOfSeq
  <2> QED BY <2>1, SubSeqProperties
<1>3. InsertAt(s, i, e) = r \o q
  BY DEF InsertAt
<1>e. <<e>> \in Seq(S) /\ Len(<<e>>) = 1 /\ <<e>>[1] = e
  OBVIOUS
<1> HIDE DEF p, q
<1>4. /\ r \in Seq(S) /\ Len(r) = i
      /\ \A k \in 1..i : r[k] = IF k <= i - 1 THEN p[k] ELSE e
  BY <1>1, <1>e, ConcatProperties
<1> HIDE DEF r
<1>5. /\ r \o q \in Seq(S) /\ Len(r \o q) = Len(s) + 1
      /\ \A k \in 1..(Len(s) + 1) : (r \o q)[k] = IF k <= i THEN r[k] ELSE q[k - i]
  BY <1>2, <1>4, ConcatProperties
<1> QED BY <1>1, <1>2, <1>3, <1>4, <1>5

----------------------------------------------------------------------------
\* AddAction finds a place in the list or behind it.
LEMMA AddPlaceRange ==
  ASSUME NEW Q, NEW list \in Seq(Action(Q)), NEW x \in Action(Q)
  PROVE  AddPlace(list, x) \in 1..(Len(list) + 1)
<1> DEFINE later == {k \in DOMAIN list : Rank(list[k]) > Rank(x)}
<1>1. later \subseteq 1..Len(list) /\ Len(list) \in Nat
  OBVIOUS
<1>2. CASE later = {}
  BY <1>1, <1>2 DEF AddPlace
<1>3. CASE later # {}
  <2>1. \E k \in later : \A m \in later : k <= m
    <3>1. later \subseteq Nat
      BY <1>1
    <3> HIDE DEF later
    <3> QED BY <3>1, <1>3, LeastNat, Zenon
  <2>2. (CHOOSE k \in later : \A m \in later : k <= m) \in later
    BY <2>1
  <2> QED BY <1>1, <1>3, <2>2 DEF AddPlace
<1> QED BY <1>2, <1>3

\* What AddAction returns, element by element.
LEMMA AddActionElements ==
  ASSUME NEW Q, NEW list \in Seq(Action(Q)), NEW x \in Action(Q)
  PROVE  /\ AddAction(list, x) \in Seq(Action(Q))
         /\ Len(AddAction(list, x)) = Len(list) + 1
         /\ \A k \in 1..(Len(list) + 1) :
              AddAction(list, x)[k] = IF k < AddPlace(list, x) THEN list[k]
                                      ELSE IF k = AddPlace(list, x) THEN x ELSE list[k - 1]
<1>1. AddPlace(list, x) \in 1..(Len(list) + 1)
  BY AddPlaceRange
<1>2. AddAction(list, x) = InsertAt(list, AddPlace(list, x), x)
  BY DEF AddAction
<1> DEFINE p == AddPlace(list, x)
<1> HIDE DEF p
<1>3. /\ InsertAt(list, p, x) \in Seq(Action(Q))
      /\ Len(InsertAt(list, p, x)) = Len(list) + 1
      /\ \A k \in 1..(Len(list) + 1) :
           InsertAt(list, p, x)[k] = IF k < p THEN list[k] ELSE IF k = p THEN x ELSE list[k - 1]
  <2>1. p \in 1..(Len(list) + 1)
    BY <1>1 DEF p
  <2> QED BY <2>1, InsertAtElements
<1> QED BY <1>2, <1>3 DEF p

\* The moves of a list: one of its actions makes them.
LEMMA ReachedMember ==
  ASSUME NEW list, NEW ch, NEW q
  PROVE  q \in Reached(list, ch) <=>
           \E k \in DOMAIN list : ch \in list[k].syms /\ q \in list[k].targets
BY DEF Reached

\* AddAction adds the moves of the new action, whatever place it is put at.
LEMMA AddActionMoves ==
  ASSUME NEW Q, NEW list \in Seq(Action(Q)), NEW x \in Action(Q), NEW ch
  PROVE  /\ \A q : q \in Reached(AddAction(list, x), ch) <=>
                     q \in Reached(list, ch) \/ (ch \in x.syms /\ q \in x.targets)
         /\ IsContextMove(AddAction(list, x), ch) <=>
              IsContextMove(list, ch) \/ (ch \in x.syms /\ x.tc = "contextTrans")
<1> DEFINE l2 == AddAction(list, x)
           p == AddPlace(list, x)
           n == Len(list)
<1>1. p \in 1..(n + 1) /\ n \in Nat /\ DOMAIN list = 1..n
  BY AddPlaceRange
<1>2. /\ DOMAIN l2 = 1..(n + 1)
      /\ \A k \in 1..(n + 1) :
           l2[k] = IF k < p THEN list[k] ELSE IF k = p THEN x ELSE list[k - 1]
  <2>1. l2 \in Seq(Action(Q)) /\ Len(l2) = n + 1
    BY AddActionElements, Zenon
  <2>2. DOMAIN l2 = 1..(n + 1)
    BY <2>1
  <2> QED BY <2>2, AddActionElements, Zenon
<1> HIDE DEF l2, p, n
<1>3. \A k \in 1..(n + 1) : l2[k] = x \/ \E m \in 1..n : l2[k] = list[m]
  <2> TAKE k \in 1..(n + 1)
  <2>1. CASE k < p
    BY <1>1, <1>2, <2>1
  <2>2. CASE k = p
    BY <1>1, <1>2, <2>2
  <2>3. CASE k > p
    <3>1. k - 1 \in 1..n /\ l2[k] = list[k - 1]
      BY <1>1, <1>2, <2>3
    <3> QED BY <3>1
  <2> QED BY <1>1, <2>1, <2>2, <2>3
<1>4. \A m \in 1..n : \E k \in 1..(n + 1) : l2[k] = list[m]
  <2> TAKE m \in 1..n
  <2>1. CASE m < p
    BY <1>1, <1>2, <2>1
  <2>2. CASE m >= p
    <3>1. m + 1 \in 1..(n + 1) /\ ~(m + 1 < p) /\ m + 1 # p /\ (m + 1) - 1 = m
      BY <1>1, <2>2
    <3>2. l2[m + 1] = list[(m + 1) - 1]
      BY <1>2, <3>1
    <3> QED BY <3>1, <3>2
  <2> QED BY <1>1, <2>1, <2>2
<1>5. \E k \in 1..(n + 1) : l2[k] = x
  BY <1>1, <1>2
<1>6. ASSUME NEW q
      PROVE  q \in Reached(l2, ch) <=>
               q \in Reached(list, ch) \/ (ch \in x.syms /\ q \in x.targets)
  <2>1. ASSUME q \in Reached(l2, ch)
        PROVE  q \in Reached(list, ch) \/ (ch \in x.syms /\ q \in x.targets)
    <3>1. PICK k \in 1..(n + 1) : ch \in l2[k].syms /\ q \in l2[k].targets
      BY <2>1, <1>2, ReachedMember
    <3>2. CASE l2[k] = x
      BY <3>1, <3>2
    <3>3. ASSUME NEW m \in 1..n, l2[k] = list[m] PROVE q \in Reached(list, ch)
      BY <3>1, <3>3, <1>1, ReachedMember
    <3> QED BY <3>2, <3>3, <1>3
  <2>2. ASSUME q \in Reached(list, ch) PROVE q \in Reached(l2, ch)
    <3>1. PICK m \in 1..n : ch \in list[m].syms /\ q \in list[m].targets
      BY <2>2, <1>1, ReachedMember
    <3>2. PICK k \in 1..(n + 1) : l2[k] = list[m]
      BY <1>4
    <3> QED BY <3>1, <3>2, <1>2, ReachedMember
  <2>3. ASSUME ch \in x.syms, q \in x.targets PROVE q \in Reached(l2, ch)
    BY <2>3, <1>2, <1>5, ReachedMember
  <2> QED BY <2>1, <2>2, <2>3
<1>7. IsContextMove(l2, ch) <=>
        IsContextMove(list, ch) \/ (ch \in x.syms /\ x.tc = "contextTrans")
  <2>1. ASSUME IsContextMove(l2, ch)
        PROVE  IsContextMove(list, ch) \/ (ch \in x.syms /\ x.tc = "contextTrans")
    <3>1. PICK k \in 1..(n + 1) : ch \in l2[k].syms /\ l2[k].tc = "contextTrans"
      BY <2>1, <1>2 DEF IsContextMove
    <3>2. CASE l2[k] = x
      BY <3>1, <3>2
    <3>3. ASSUME NEW m \in 1..n, l2[k] = list[m] PROVE IsContextMove(list, ch)
      BY <3>1, <3>3, <1>1 DEF IsContextMove
    <3> QED BY <3>2, <3>3, <1>3
  <2>2. ASSUME IsContextMove(list, ch) PROVE IsContextMove(l2, ch)
    <3>1. PICK m \in 1..n : ch \in list[m].syms /\ list[m].tc = "contextTrans"
      BY <2>2, <1>1 DEF IsContextMove
    <3>2. PICK k \in 1..(n + 1) : l2[k] = list[m]
      BY <1>4
    <3> QED BY <3>1, <3>2, <1>2 DEF IsContextMove
  <2>3. ASSUME ch \in x.syms, x.tc = "contextTrans" PROVE IsContextMove(l2, ch)
    BY <2>3, <1>2, <1>5 DEF IsContextMove
  <2> QED BY <2>1, <2>2, <2>3
<1> QED BY <1>6, <1>7 DEF l2

\* DetachAction takes away one action; it keeps a move that another one makes.
LEMMA DetachElements ==
  ASSUME NEW Q, NEW list \in Seq(Action(Q)), NEW j \in 1..Len(list)
  PROVE  /\ DetachAction(list, j) \in Seq(Action(Q))
         /\ Len(DetachAction(list, j)) = Len(list) - 1
         /\ \A k \in DOMAIN DetachAction(list, j) :
              \E m \in DOMAIN list : m # j /\ DetachAction(list, j)[k] = list[m]
         /\ \A m \in DOMAIN list : m # j =>
              \E k \in DOMAIN DetachAction(list, j) : DetachAction(list, j)[k] = list[m]
<1> DEFINE l2 == DetachAction(list, j)
           n == Len(list)
<1>1. /\ l2 \in Seq(Action(Q)) /\ Len(l2) = n - 1
      /\ \A k \in 1..(n - 1) : l2[k] = IF k < j THEN list[k] ELSE list[k + 1]
  BY RemoveAtElements, Zenon DEF DetachAction
<1>2. n \in Nat /\ j \in 1..n /\ DOMAIN list = 1..n /\ DOMAIN l2 = 1..(n - 1)
  BY <1>1
<1> HIDE DEF l2, n
<1>3. \A k \in 1..(n - 1) : \E m \in 1..n : m # j /\ l2[k] = list[m]
  <2> TAKE k \in 1..(n - 1)
  <2>1. CASE k < j
    BY <1>1, <1>2, <2>1
  <2>2. CASE k >= j
    <3>1. k + 1 \in 1..n /\ k + 1 # j /\ l2[k] = list[k + 1]
      BY <1>1, <1>2, <2>2
    <3> QED BY <3>1
  <2> QED BY <1>2, <2>1, <2>2
<1>4. \A m \in 1..n : m # j => \E k \in 1..(n - 1) : l2[k] = list[m]
  <2> SUFFICES ASSUME NEW m \in 1..n, m # j PROVE \E k \in 1..(n - 1) : l2[k] = list[m]
    OBVIOUS
  <2>1. CASE m < j
    BY <1>1, <1>2, <2>1
  <2>2. CASE m > j
    <3>1. m - 1 \in 1..(n - 1) /\ ~(m - 1 < j) /\ (m - 1) + 1 = m
      BY <1>2, <2>2
    <3>2. l2[m - 1] = list[(m - 1) + 1]
      BY <1>1, <3>1
    <3> QED BY <3>1, <3>2
  <2> QED BY <1>2, <2>1, <2>2
<1> QED BY <1>1, <1>2, <1>3, <1>4 DEF l2, n

----------------------------------------------------------------------------
\* AddTargets returns an action with the targets of both.
LEMMA AddTargetsAction ==
  ASSUME NEW Q, NEW a \in Action(Q), NEW b \in Action(Q)
  PROVE  /\ AddTargets(a, b) \in Action(Q)
         /\ AddTargets(a, b).syms = a.syms
         /\ AddTargets(a, b).targets = a.targets \cup b.targets
         /\ AddTargets(a, b).tc = "contextTrans" <=>
              a.tc = "contextTrans" \/ b.tc = "contextTrans"
<1>1. /\ a.targets \cup b.targets \in (SUBSET Q) \ {{}}
      /\ a.typ \in Typs /\ a.syms \in SUBSET Chars /\ a.tc \in TransitionCodes
      /\ b.tc \in TransitionCodes
  BY DEF Action
<1>2. AddTargets(a, b) \in Action(Q)
  BY <1>1 DEF Action, TransitionCodes, AddTargets
<1> QED BY <1>1, <1>2 DEF AddTargets

\* ShiftWith returns an action that leads where the old one led.
LEMMA ShiftWithAction ==
  ASSUME NEW Q, NEW a \in Action(Q), NEW s \in SUBSET Chars
  PROVE  /\ ShiftWith(a, s) \in Action(Q)
         /\ ShiftWith(a, s).syms = s
         /\ ShiftWith(a, s).targets = a.targets
         /\ ShiftWith(a, s).tc = a.tc
BY DEF Action, Typs, ShiftWith

\* Two lists have the same moves if every move of an action of one is a move of
\* some action of the other.
LEMMA SameMovesIntro ==
  ASSUME NEW l1, NEW l2,
         \A ch \in Chars : \A k \in DOMAIN l1 : ch \in l1[k].syms =>
           /\ \A q \in l1[k].targets :
                \E m \in DOMAIN l2 : ch \in l2[m].syms /\ q \in l2[m].targets
           /\ l1[k].tc = "contextTrans" =>
                \E m \in DOMAIN l2 : ch \in l2[m].syms /\ l2[m].tc = "contextTrans",
         \A ch \in Chars : \A k \in DOMAIN l2 : ch \in l2[k].syms =>
           /\ \A q \in l2[k].targets :
                \E m \in DOMAIN l1 : ch \in l1[m].syms /\ q \in l1[m].targets
           /\ l2[k].tc = "contextTrans" =>
                \E m \in DOMAIN l1 : ch \in l1[m].syms /\ l1[m].tc = "contextTrans"
  PROVE  SameMoves(l1, l2)
<1> SUFFICES ASSUME NEW ch \in Chars
             PROVE  /\ Reached(l1, ch) = Reached(l2, ch)
                    /\ IsContextMove(l1, ch) = IsContextMove(l2, ch)
  BY DEF SameMoves
<1>1. ASSUME NEW q PROVE q \in Reached(l1, ch) => q \in Reached(l2, ch)
  BY ReachedMember
<1>2. ASSUME NEW q PROVE q \in Reached(l2, ch) => q \in Reached(l1, ch)
  BY ReachedMember
<1>3. IsContextMove(l1, ch) => IsContextMove(l2, ch)
  BY DEF IsContextMove
<1>4. IsContextMove(l2, ch) => IsContextMove(l1, ch)
  BY DEF IsContextMove
<1>5. IsContextMove(l1, ch) \in BOOLEAN /\ IsContextMove(l2, ch) \in BOOLEAN
  BY DEF IsContextMove
<1> QED BY <1>1, <1>2, <1>3, <1>4, <1>5

\* What SplitActions promises of its result.
SplitResult(Q, list, r) ==
  /\ r.acts \in Seq(Action(Q)) /\ SameMoves(r.acts, list)
  /\ r.a \in Nat \ {0} /\ r.next \in Nat /\ r.a < r.next

\* Two actions with the same characters become one.
LEMMA MergeKeepsMoves ==
  ASSUME NEW Q, NEW list \in Seq(Action(Q)), NEW i \in 1..Len(list), NEW j \in 1..Len(list),
         i < j, list[i].syms = list[j].syms
  PROVE  SplitResult(Q, list, MergeEqual(list, i, j))
<1> DEFINE x == AddTargets(list[i], list[j])
           mid == [list EXCEPT ![i] = x]
           l2 == DetachAction(mid, j)
<1>1. list[i] \in Action(Q) /\ list[j] \in Action(Q) /\ DOMAIN list = 1..Len(list)
  BY ElementOfSeq
<1>2. /\ x \in Action(Q) /\ x.syms = list[i].syms
      /\ x.targets = list[i].targets \cup list[j].targets
      /\ x.tc = "contextTrans" <=> list[i].tc = "contextTrans" \/ list[j].tc = "contextTrans"
  BY <1>1, AddTargetsAction
<1> HIDE DEF x
<1>3. /\ mid \in Seq(Action(Q)) /\ Len(mid) = Len(list) /\ DOMAIN mid = DOMAIN list
      /\ mid[i] = x /\ \A k \in DOMAIN list : k # i => mid[k] = list[k]
  BY <1>1, <1>2
<1> HIDE DEF mid
<1>4. /\ l2 \in Seq(Action(Q))
      /\ \A k \in DOMAIN l2 : \E m \in DOMAIN list : m # j /\ l2[k] = mid[m]
      /\ \A m \in DOMAIN list : m # j => \E k \in DOMAIN l2 : l2[k] = mid[m]
  <2>1. j \in 1..Len(mid)
    BY <1>3
  <2>2. /\ l2 \in Seq(Action(Q))
        /\ \A k \in DOMAIN l2 : \E m \in DOMAIN mid : m # j /\ l2[k] = mid[m]
        /\ \A m \in DOMAIN mid : m # j => \E k \in DOMAIN l2 : l2[k] = mid[m]
    BY <1>3, <2>1, DetachElements, Zenon
  <2> QED BY <1>3, <2>2, Zenon
<1> HIDE DEF l2
<1>5. PICK n \in DOMAIN l2 : l2[n] = x
  BY <1>1, <1>3, <1>4
<1>6. ASSUME NEW ch \in Chars, NEW k \in DOMAIN l2, ch \in l2[k].syms
      PROVE  /\ \A q \in l2[k].targets :
                  \E m \in DOMAIN list : ch \in list[m].syms /\ q \in list[m].targets
             /\ l2[k].tc = "contextTrans" =>
                  \E m \in DOMAIN list : ch \in list[m].syms /\ list[m].tc = "contextTrans"
  <2>1. PICK m \in DOMAIN list : m # j /\ l2[k] = mid[m]
    BY <1>4
  <2>2. CASE m = i
    BY <1>1, <1>2, <1>3, <1>6, <2>1, <2>2
  <2>3. CASE m # i
    BY <1>3, <1>6, <2>1, <2>3
  <2> QED BY <2>2, <2>3
<1>7. ASSUME NEW ch \in Chars, NEW m \in DOMAIN list, ch \in list[m].syms
      PROVE  /\ \A q \in list[m].targets :
                  \E k \in DOMAIN l2 : ch \in l2[k].syms /\ q \in l2[k].targets
             /\ list[m].tc = "contextTrans" =>
                  \E k \in DOMAIN l2 : ch \in l2[k].syms /\ l2[k].tc = "contextTrans"
  <2>1. CASE m = i \/ m = j
    BY <1>2, <1>5, <1>7, <2>1
  <2>2. CASE m # i /\ m # j
    <3>1. PICK k \in DOMAIN l2 : l2[k] = list[m]
      BY <1>3, <1>4, <2>2
    <3> QED BY <3>1, <1>7
  <2> QED BY <2>1, <2>2
<1>8. SameMoves(l2, list)
  BY <1>6, <1>7, SameMovesIntro
<1>9. MergeEqual(list, i, j) = [acts |-> l2, a |-> i, next |-> j]
  BY DEF MergeEqual, l2, mid, x
<1> QED BY <1>4, <1>8, <1>9 DEF SplitResult

\* The smaller action takes over the bigger one's targets for its characters.
LEMMA ShrinkKeepsMoves ==
  ASSUME NEW Q, NEW list \in Seq(Action(Q)), NEW i \in 1..Len(list), NEW j \in 1..Len(list),
         i < j, NEW big, NEW small, (big = i /\ small = j) \/ (big = j /\ small = i),
         list[small].syms \subseteq list[big].syms
  PROVE  SplitResult(Q, list, ShrinkBigger(list, big, small, i, j))
<1> DEFINE x == AddTargets(list[small], list[big])
           y == ShiftWith(list[big], list[big].syms \ list[small].syms)
           l2 == [list EXCEPT ![small] = x, ![big] = y]
<1>1. /\ big \in DOMAIN list /\ small \in DOMAIN list /\ big # small
      /\ list[big] \in Action(Q) /\ list[small] \in Action(Q)
  <2>1. big \in 1..Len(list) /\ small \in 1..Len(list) /\ big # small
    OBVIOUS
  <2> QED BY <2>1, ElementOfSeq
<1>2. /\ x \in Action(Q) /\ x.syms = list[small].syms
      /\ x.targets = list[small].targets \cup list[big].targets
      /\ x.tc = "contextTrans" <=>
           list[small].tc = "contextTrans" \/ list[big].tc = "contextTrans"
      /\ y \in Action(Q) /\ y.syms = list[big].syms \ list[small].syms
      /\ y.targets = list[big].targets /\ y.tc = list[big].tc
  <2>1. list[big].syms \ list[small].syms \in SUBSET Chars
    BY <1>1 DEF Action
  <2>2. /\ x \in Action(Q) /\ x.syms = list[small].syms
        /\ x.targets = list[small].targets \cup list[big].targets
        /\ x.tc = "contextTrans" <=>
             list[small].tc = "contextTrans" \/ list[big].tc = "contextTrans"
    BY <1>1, AddTargetsAction
  <2>3. /\ y \in Action(Q) /\ y.syms = list[big].syms \ list[small].syms
        /\ y.targets = list[big].targets /\ y.tc = list[big].tc
    BY <1>1, <2>1, ShiftWithAction
  <2> QED BY <2>2, <2>3
<1> HIDE DEF x, y
<1>3. /\ l2 \in Seq(Action(Q)) /\ DOMAIN l2 = DOMAIN list
      /\ l2[small] = x /\ l2[big] = y
      /\ \A k \in DOMAIN list : k # small /\ k # big => l2[k] = list[k]
  BY <1>1, <1>2
<1> HIDE DEF l2
<1>4. ASSUME NEW ch \in Chars, NEW k \in DOMAIN l2, ch \in l2[k].syms
      PROVE  /\ \A q \in l2[k].targets :
                  \E m \in DOMAIN list : ch \in list[m].syms /\ q \in list[m].targets
             /\ l2[k].tc = "contextTrans" =>
                  \E m \in DOMAIN list : ch \in list[m].syms /\ list[m].tc = "contextTrans"
  <2>1. CASE k = small
    BY <1>1, <1>2, <1>3, <1>4, <2>1
  <2>2. CASE k = big
    BY <1>1, <1>2, <1>3, <1>4, <2>2
  <2>3. CASE k # small /\ k # big
    BY <1>3, <1>4, <2>3
  <2> QED BY <2>1, <2>2, <2>3
<1>5. ASSUME NEW ch \in Chars, NEW m \in DOMAIN list, ch \in list[m].syms
      PROVE  /\ \A q \in list[m].targets :
                  \E k \in DOMAIN l2 : ch \in l2[k].syms /\ q \in l2[k].targets
             /\ list[m].tc = "contextTrans" =>
                  \E k \in DOMAIN l2 : ch \in l2[k].syms /\ l2[k].tc = "contextTrans"
  <2>1. CASE m = small \/ (m = big /\ ch \in list[small].syms)
    BY <1>1, <1>2, <1>3, <1>5, <2>1
  <2>2. CASE m = big /\ ch \notin list[small].syms
    BY <1>1, <1>2, <1>3, <1>5, <2>2
  <2>3. CASE m # small /\ m # big
    BY <1>3, <1>5, <2>3
  <2> QED BY <2>1, <2>2, <2>3
<1>6. SameMoves(l2, list)
  BY <1>4, <1>5, SameMovesIntro
<1>7. ShrinkBigger(list, big, small, i, j) = [acts |-> l2, a |-> i, next |-> j + 1]
  BY DEF ShrinkBigger, l2, x, y
<1> QED BY <1>3, <1>6, <1>7 DEF SplitResult

\* The common characters of two actions get an action of their own, wherever
\* AddAction puts it.
LEMMA SplitCommonKeepsMoves ==
  ASSUME NEW Q, NEW list \in Seq(Action(Q)), NEW i \in 1..Len(list), NEW j \in 1..Len(list),
         i < j
  PROVE  SplitResult(Q, list, SplitCommon(list, i, j))
<1> DEFINE common == list[i].syms \cap list[j].syms
           a == ShiftWith(list[i], list[i].syms \ common)
           b == ShiftWith(list[j], list[j].syms \ common)
           blank == [typ |-> "clas", syms |-> {}, tc |-> "normalTrans", targets |-> {}]
           ab == AddTargets(AddTargets(blank, a), b)
           c == ShiftWith(ab, common)
           rest == [list EXCEPT ![i] = a, ![j] = b]
           p == AddPlace(rest, c)
           l2 == AddAction(rest, c)
<1>1. /\ i \in DOMAIN list /\ j \in DOMAIN list /\ i # j
      /\ list[i] \in Action(Q) /\ list[j] \in Action(Q)
  <2>1. i \in 1..Len(list) /\ j \in 1..Len(list) /\ i # j
    OBVIOUS
  <2> QED BY <2>1, ElementOfSeq
<1>2. /\ list[i].syms \ common \in SUBSET Chars /\ list[j].syms \ common \in SUBSET Chars
      /\ common \in SUBSET Chars
  BY <1>1 DEF Action
<1>3. /\ a \in Action(Q) /\ a.syms = list[i].syms \ common
      /\ a.targets = list[i].targets /\ a.tc = list[i].tc
  BY <1>1, <1>2, ShiftWithAction
<1>4. /\ b \in Action(Q) /\ b.syms = list[j].syms \ common
      /\ b.targets = list[j].targets /\ b.tc = list[j].tc
  BY <1>1, <1>2, ShiftWithAction
<1> HIDE DEF a, b
<1>5. /\ c \in Action(Q) /\ c.syms = common
      /\ c.targets = list[i].targets \cup list[j].targets
      /\ c.tc = "contextTrans" <=> list[i].tc = "contextTrans" \/ list[j].tc = "contextTrans"
  <2>1. AddTargets(blank, a) =
          [typ |-> "clas", syms |-> {},
           tc |-> IF a.tc = "contextTrans" THEN "contextTrans" ELSE "normalTrans",
           targets |-> a.targets]
    BY DEF AddTargets
  <2>2. AddTargets(blank, a) \in Action(Q)
    <3>1. a.targets \in (SUBSET Q) \ {{}}
      BY <1>3 DEF Action
    <3> QED BY <2>1, <3>1 DEF Action, Typs, TransitionCodes
  <2> DEFINE a2 == AddTargets(blank, a)
  <2>3. /\ a2 \in Action(Q) /\ a2.targets = list[i].targets
        /\ a2.tc = "contextTrans" <=> list[i].tc = "contextTrans"
    BY <1>3, <2>1, <2>2
  <2> HIDE DEF a2
  <2>4. /\ AddTargets(a2, b) \in Action(Q)
        /\ AddTargets(a2, b).targets = list[i].targets \cup list[j].targets
        /\ AddTargets(a2, b).tc = "contextTrans" <=>
             list[i].tc = "contextTrans" \/ list[j].tc = "contextTrans"
    BY <1>4, <2>3, AddTargetsAction
  <2>5. ab = AddTargets(a2, b)
    BY DEF a2
  <2> HIDE DEF ab
  <2> QED BY <1>2, <2>4, <2>5, ShiftWithAction
<1> HIDE DEF c
<1>6. /\ rest \in Seq(Action(Q)) /\ Len(rest) = Len(list) /\ DOMAIN rest = DOMAIN list
      /\ rest[i] = a /\ rest[j] = b
      /\ \A k \in DOMAIN list : k # i /\ k # j => rest[k] = list[k]
  BY <1>1, <1>3, <1>4
<1> HIDE DEF rest
<1>7. p \in 1..(Len(list) + 1)
  BY <1>5, <1>6, AddPlaceRange
<1>8. /\ l2 \in Seq(Action(Q))
      /\ \A ch : \A q : q \in Reached(l2, ch) <=>
                        q \in Reached(rest, ch) \/ (ch \in c.syms /\ q \in c.targets)
      /\ \A ch : IsContextMove(l2, ch) <=>
                  IsContextMove(rest, ch) \/ (ch \in c.syms /\ c.tc = "contextTrans")
  BY <1>5, <1>6, AddActionElements, AddActionMoves
<1> HIDE DEF common
<1>9. ASSUME NEW ch \in Chars, NEW q
      PROVE  q \in Reached(list, ch) <=>
               q \in Reached(rest, ch) \/ (ch \in c.syms /\ q \in c.targets)
  <2>1. ASSUME q \in Reached(list, ch)
        PROVE  q \in Reached(rest, ch) \/ (ch \in c.syms /\ q \in c.targets)
    <3>1. PICK k \in DOMAIN list : ch \in list[k].syms /\ q \in list[k].targets
      BY <2>1, ReachedMember
    <3>2. CASE k # i /\ k # j
      BY <1>6, <3>1, <3>2, ReachedMember
    <3>3. CASE (k = i \/ k = j) /\ ch \in common
      BY <1>5, <3>1, <3>3
    <3>4. CASE k = i /\ ch \notin common
      BY <1>3, <1>6, <3>1, <3>4, ReachedMember
    <3>5. CASE k = j /\ ch \notin common
      BY <1>4, <1>6, <3>1, <3>5, ReachedMember
    <3> QED BY <3>2, <3>3, <3>4, <3>5
  <2>2. ASSUME q \in Reached(rest, ch) PROVE q \in Reached(list, ch)
    <3>1. PICK k \in DOMAIN list : ch \in rest[k].syms /\ q \in rest[k].targets
      BY <1>6, <2>2, ReachedMember
    <3>2. ch \in list[k].syms /\ q \in list[k].targets
      BY <1>3, <1>4, <1>6, <3>1
    <3> QED BY <3>2, ReachedMember
  <2>3. ASSUME ch \in c.syms, q \in c.targets PROVE q \in Reached(list, ch)
    <3>1. ch \in list[i].syms /\ ch \in list[j].syms
      BY <1>5, <2>3 DEF common
    <3> QED BY <1>1, <1>5, <2>3, <3>1, ReachedMember
  <2> QED BY <2>1, <2>2, <2>3
<1>10. ASSUME NEW ch \in Chars
       PROVE  IsContextMove(list, ch) <=>
                IsContextMove(rest, ch) \/ (ch \in c.syms /\ c.tc = "contextTrans")
  <2>1. ASSUME IsContextMove(list, ch)
        PROVE  IsContextMove(rest, ch) \/ (ch \in c.syms /\ c.tc = "contextTrans")
    <3>1. PICK k \in DOMAIN list : ch \in list[k].syms /\ list[k].tc = "contextTrans"
      BY <2>1 DEF IsContextMove
    <3>2. CASE k # i /\ k # j
      BY <1>6, <3>1, <3>2 DEF IsContextMove
    <3>3. CASE (k = i \/ k = j) /\ ch \in common
      BY <1>5, <3>1, <3>3
    <3>4. CASE k = i /\ ch \notin common
      BY <1>3, <1>6, <3>1, <3>4 DEF IsContextMove
    <3>5. CASE k = j /\ ch \notin common
      BY <1>4, <1>6, <3>1, <3>5 DEF IsContextMove
    <3> QED BY <3>2, <3>3, <3>4, <3>5
  <2>2. ASSUME IsContextMove(rest, ch) PROVE IsContextMove(list, ch)
    <3>1. PICK k \in DOMAIN list : ch \in rest[k].syms /\ rest[k].tc = "contextTrans"
      BY <1>6, <2>2 DEF IsContextMove
    <3>2. ch \in list[k].syms /\ list[k].tc = "contextTrans"
      BY <1>3, <1>4, <1>6, <3>1
    <3> QED BY <3>2 DEF IsContextMove
  <2>3. ASSUME ch \in c.syms, c.tc = "contextTrans" PROVE IsContextMove(list, ch)
    <3>1. ch \in list[i].syms /\ ch \in list[j].syms
      BY <1>5, <2>3 DEF common
    <3> QED BY <1>1, <1>5, <2>3, <3>1 DEF IsContextMove
  <2> QED BY <2>1, <2>2, <2>3
<1> HIDE DEF l2
<1>11. SameMoves(l2, list)
  <2> SUFFICES ASSUME NEW ch \in Chars
               PROVE  /\ Reached(l2, ch) = Reached(list, ch)
                      /\ IsContextMove(l2, ch) = IsContextMove(list, ch)
    BY DEF SameMoves
  <2>1. \A q : q \in Reached(l2, ch) <=> q \in Reached(list, ch)
    BY <1>8, <1>9
  <2>2. IsContextMove(l2, ch) <=> IsContextMove(list, ch)
    BY <1>8, <1>10
  <2>3. IsContextMove(l2, ch) \in BOOLEAN /\ IsContextMove(list, ch) \in BOOLEAN
    BY DEF IsContextMove
  <2> QED BY <2>1, <2>2, <2>3
<1> DEFINE Moved(k) == IF p <= k THEN k + 1 ELSE k
<1>12. SplitCommon(list, i, j) = [acts |-> l2, a |-> Moved(i), next |-> Moved(j) + 1]
  BY DEF SplitCommon, l2, rest, c, a, b, common
<1> HIDE DEF p
<1>13. Moved(i) \in Nat \ {0} /\ Moved(j) + 1 \in Nat /\ Moved(i) < Moved(j) + 1
  BY <1>7
<1> HIDE DEF Moved
<1> QED BY <1>8, <1>11, <1>12, <1>13 DEF SplitResult

\* Whatever way SplitActions makes two overlapping actions disjoint, the list
\* leads where it led, and MakeUnique's pointers stay in order.
THEOREM SplitKeepsMoves ==
  ASSUME NEW Q, NEW list \in Seq(Action(Q)), NEW i \in 1..Len(list), NEW j \in 1..Len(list),
         i < j
  PROVE  SplitResult(Q, list, SplitActions(list, i, j))
<1>1. CASE list[i].syms = list[j].syms
  BY <1>1, MergeKeepsMoves DEF SplitActions
<1>2. CASE list[i].syms # list[j].syms /\ list[j].syms \subseteq list[i].syms
  BY <1>2, ShrinkKeepsMoves DEF SplitActions
<1>3. CASE ~(list[j].syms \subseteq list[i].syms) /\ list[i].syms \subseteq list[j].syms
  <2>1. list[i].syms # list[j].syms
    BY <1>3
  <2> QED BY <1>3, <2>1, ShrinkKeepsMoves DEF SplitActions
<1>4. CASE ~(list[j].syms \subseteq list[i].syms) /\ ~(list[i].syms \subseteq list[j].syms)
  <2>1. list[i].syms # list[j].syms
    BY <1>4
  <2> QED BY <1>4, <2>1, SplitCommonKeepsMoves DEF SplitActions
<1> QED BY <1>1, <1>2, <1>3, <1>4

----------------------------------------------------------------------------
(* Types.                                                                  *)

\* A function on 1..n is a sequence.
LEMMA FunctionSeq ==
  ASSUME NEW S, NEW n \in Nat, NEW f \in [1..n -> S]
  PROVE  f \in Seq(S) /\ Len(f) = n /\ DOMAIN f = 1..n
OBVIOUS

\* Appending keeps both parts.
LEMMA ConcatSeq ==
  ASSUME NEW S, NEW s \in Seq(S), NEW t \in Seq(S)
  PROVE  /\ s \o t \in Seq(S) /\ Len(s \o t) = Len(s) + Len(t)
         /\ \A k \in 1..Len(s) : (s \o t)[k] = s[k]
         /\ \A k \in 1..Len(t) : (s \o t)[Len(s) + k] = t[k]
OBVIOUS

\* More allocated states make more actions.
LEMMA ActionGrows ==
  ASSUME NEW A, NEW B, A \subseteq B
  PROVE  /\ Action(A) \subseteq Action(B)
         /\ Seq(Action(A)) \subseteq Seq(Action(B))
         /\ Seq(Seq(Action(A))) \subseteq Seq(Seq(Action(B)))
<1>1. Action(A) \subseteq Action(B)
  BY DEF Action
<1>2. \A X, Y : X \subseteq Y => Seq(X) \subseteq Seq(Y)
  OBVIOUS
<1> QED BY <1>1, <1>2

\* The heap has a state, and the chain's states are in it.
LEMMA ChainStates ==
  ASSUME TypeOK
  PROVE  /\ Allocated = 1..Len(acts) /\ Len(acts) \in Nat \ {0} /\ first \in Allocated
         /\ DOMAIN chain = 1..Len(chain) /\ Len(chain) \in Nat \ {0}
         /\ \A k \in 1..Len(chain) : chain[k] \in Allocated
         /\ LastState \in Allocated /\ LastNr \in Nat
         /\ \A q \in Allocated : acts[q] \in Seq(Action(Allocated))
<1>1. Allocated = 1..Len(acts) /\ Len(acts) \in Nat \ {0}
  BY DEF TypeOK, HeapTypes, Allocated
<1>2. DOMAIN chain = 1..Len(chain) /\ Len(chain) \in Nat \ {0}
  BY DEF TypeOK, HeapTypes, Allocated
<1>3. chain \in Seq(Allocated) /\ acts \in Seq(Seq(Action(Allocated)))
  BY DEF TypeOK, HeapTypes, Allocated
<1> HIDE DEF Allocated
<1>4. \A k \in 1..Len(chain) : chain[k] \in Allocated
  BY <1>3, ElementOfSeq
<1>5. \A q \in Allocated : acts[q] \in Seq(Action(Allocated))
  BY <1>1, <1>3, ElementOfSeq
<1> QED BY <1>1, <1>2, <1>4, <1>5 DEF LastState, LastNr, first

\* A step that allocates nothing changes the list of one state.
LEMMA ListChanges ==
  ASSUME TypeOK, NEW q \in Allocated, NEW list \in Seq(Action(Allocated)),
         acts' = [acts EXCEPT ![q] = list], UNCHANGED <<endOf, ctx, nr, chain>>
  PROVE  /\ HeapTypes' /\ Allocated' = Allocated
         /\ (acts')[q] = list /\ \A p \in Allocated : p # q => (acts')[p] = acts[p]
<1>1. acts \in Seq(Seq(Action(Allocated))) /\ acts # <<>>
  BY DEF TypeOK, HeapTypes, Allocated
<1>2. DOMAIN acts' = DOMAIN acts
  BY <1>1
<1>3. acts' \in Seq(Seq(Action(DOMAIN acts))) /\ acts' # <<>> /\ Len(acts') = Len(acts)
  BY <1>1 DEF Allocated
<1>4. HeapTypes'
  BY <1>2, <1>3 DEF TypeOK, HeapTypes, Allocated
<1> QED BY <1>1, <1>2, <1>4 DEF Allocated

\* What a step does not touch keeps its type when states are only added.
LEMMA RoundKept ==
  ASSUME TypeOK, Allocated \subseteq Allocated', UNCHANGED <<melted, lastSim, round>>,
         stale' \in BOOLEAN
  PROVE  RoundTypes'
<1>1. \A X, Y : X \subseteq Y => Seq(X) \subseteq Seq(Y)
  OBVIOUS
<1>2. [set : SUBSET Nat, size : Nat, state : Allocated, round : Nat]
        \subseteq [set : SUBSET Nat, size : Nat, state : Allocated', round : Nat]
  OBVIOUS
<1> QED BY <1>1, <1>2 DEF TypeOK, RoundTypes

LEMMA ControlKept ==
  ASSUME TypeOK, Allocated \subseteq Allocated', UNCHANGED pending,
         pc' \in Phases, pc' # "convert" \/ UNCHANGED pc
  PROVE  ControlTypes'
<1>1. \A X, Y : X \subseteq Y => Seq(X) \subseteq Seq(Y)
  OBVIOUS
<1>2. [from : Allocated, to : Allocated, typ : Typs, syms : SUBSET Chars, tc : TransitionCodes]
        \subseteq [from : Allocated', to : Allocated', typ : Typs, syms : SUBSET Chars,
                   tc : TransitionCodes]
  OBVIOUS
<1> QED BY <1>1, <1>2 DEF TypeOK, ControlTypes

LEMMA MarksKept ==
  ASSUME TypeOK, Allocated \subseteq Allocated', UNCHANGED marks
  PROVE  MarkTypes'
<1>1. \A X, Y : X \subseteq Y => Seq(X) \subseteq Seq(Y)
  OBVIOUS
<1> QED BY <1>1 DEF TypeOK, MarkTypes, marks

LEMMA SymbolsKept ==
  ASSUME TypeOK, UNCHANGED symbols
  PROVE  SymbolTypes'
BY DEF TypeOK, SymbolTypes, symbols

----------------------------------------------------------------------------
(* The initial state, and the steps one by one.                            *)

LEMMA InitTypes == Init => TypeOK
<1> SUFFICES ASSUME Init PROVE TypeOK
  OBVIOUS
<1> USE DEF Init, first
<1>1. HeapTypes
  <2>1. << <<>> >> \in Seq(Seq(Action({1})))
    OBVIOUS
  <2> QED BY <2>1 DEF HeapTypes, Allocated
<1>2. SymbolTypes
  BY DEF SymbolTypes
<1>3. RoundTypes
  <2>1. \A S : <<>> \in Seq(S)
    OBVIOUS
  <2> QED BY <2>1 DEF RoundTypes
<1>4. ControlTypes
  BY DEF ControlTypes, Phases
<1>5. PositionTypes
  <2>1. Len(chain) = 1
    OBVIOUS
  <2>2. changed \in BOOLEAN
    BY Zenon
  <2>3. pc = "tokens" /\ at = 1 /\ ia = 1 /\ ib = 2 /\ ma = 1 /\ source = {} /\ mi = 1
    OBVIOUS
  <2> HIDE DEF Init
  <2> QED BY <2>1, <2>2, <2>3 DEF PositionTypes
<1>6. MarkTypes
  BY DEF MarkTypes, Allocated
<1> QED BY <1>1, <1>2, <1>3, <1>4, <1>5, <1>6 DEF TypeOK

\* Steps that leave the heap alone.
LEMMA HeapKept ==
  ASSUME TypeOK, UNCHANGED heap
  PROVE  HeapTypes' /\ Allocated' = Allocated
BY DEF TypeOK, HeapTypes, Allocated, LastState, heap

LEMMA CursorSteps ==
  ASSUME TypeOK, NextA \/ NextPass \/ NextUnique \/ MeltSkip \/ MeltedAll \/ MeltNext
                 \/ DeletedAll \/ CombineNext \/ Return \/ Abandon \/ Finished
  PROVE  TypeOK'
<1>1. UNCHANGED <<heap, symbols, pending, history, stale, melted, lastSim>>
  BY DEF NextA, NextPass, NextUnique, MeltSkip, MeltedAll, MeltNext, DeletedAll, CombineNext,
         Return, Abandon, Finished, vars
<1>2. HeapTypes' /\ Allocated' = Allocated
  BY <1>1, HeapKept
<1>3. SymbolTypes'
  BY <1>1, SymbolsKept
<1>4. RoundTypes'
  <2>1. stale' \in BOOLEAN
    BY <1>1 DEF TypeOK, RoundTypes
  <2> QED BY <1>1, <1>2, <2>1, RoundKept DEF history
<1>5. ControlTypes'
  <2>1. pc' \in Phases /\ (pc' # "convert" \/ UNCHANGED pc)
    BY DEF TypeOK, ControlTypes, Phases, NextA, NextPass, NextUnique, MeltSkip, MeltedAll,
           MeltNext, DeletedAll, CombineNext, Return, Abandon, Finished, vars
  <2> QED BY <1>1, <1>2, <2>1, ControlKept
<1>6. PositionTypes'
  <2>1. Len(chain) >= 1 /\ Len(chain) \in Nat
    BY ChainStates
  <2>2. acts' = acts /\ chain' = chain
    BY <1>1 DEF heap
  <2>3. at' \in Nat \ {0} /\ (pc' = "delete" => 1 < at') /\ (pc' # "delete" => at' <= Len(chain))
    BY <2>1, <2>2
       DEF TypeOK, PositionTypes, NextA, NextPass, NextUnique, MeltSkip, MeltedAll, MeltNext,
           DeletedAll, CombineNext, Return, Abandon, Finished, vars
  <2>8. changed' \in BOOLEAN
    BY Zenon DEF TypeOK, PositionTypes, NextA, NextPass, NextUnique, MeltSkip, MeltedAll,
                 MeltNext, DeletedAll, CombineNext, Return, Abandon, Finished, vars, cursor
  <2>4. ia' \in Nat \ {0} /\ ib' \in Nat /\ ia' < ib'
    BY DEF TypeOK, PositionTypes, NextA, NextPass, NextUnique, MeltSkip, MeltedAll, MeltNext,
           DeletedAll, CombineNext, Return, Abandon, Finished, vars, cursor
  <2>5. ma' \in Nat \ {0} /\ source' \subseteq Allocated /\ mi' \in Nat \ {0}
    BY DEF TypeOK, PositionTypes, NextA, NextPass, NextUnique, MeltSkip, MeltedAll, MeltNext,
           DeletedAll, CombineNext, Return, Abandon, Finished, vars, melting
  <2>6. pc' \in {"meltWith", "meltUnique"} =>
          pc \in {"meltWith", "meltUnique"} /\ at' = at /\ ma' = ma
    BY DEF NextA, NextPass, NextUnique, MeltSkip, MeltedAll, MeltNext,
           DeletedAll, CombineNext, Return, Abandon, Finished, vars, melting
  <2>7. pc' \in {"meltWith", "meltUnique"} => at' < Len(chain') /\ ma' <= Len(Melter')
    BY <2>2, <2>6 DEF TypeOK, PositionTypes, Melter
  <2> QED BY <1>2, <2>2, <2>3, <2>4, <2>5, <2>7, <2>8 DEF PositionTypes
<1>7. MarkTypes'
  <2>1. CASE UNCHANGED marks
    BY <1>2, <2>1, MarksKept
  <2>2. CASE MeltNext /\ used' = {} /\ todo' = <<first>>
    BY <1>2, <2>2, ChainStates DEF MarkTypes
  <2> QED
    BY <2>1, <2>2 DEF NextA, NextPass, NextUnique, MeltSkip, MeltedAll,
           MeltNext, DeletedAll, CombineNext, Return, Abandon, Finished, vars
<1> QED BY <1>2, <1>3, <1>4, <1>5, <1>6, <1>7 DEF TypeOK

----------------------------------------------------------------------------
(* Token declarations.                                                     *)

\* NewState appends to the heap and to the chain.
LEMMA NewStatesTypes ==
  ASSUME TypeOK, NEW n \in Nat, NEW ends \in Seq(Syms \cup {NoSym}), Len(ends) = n,
         NewStates(n, ends), Len(acts') = Len(acts) + n,
         acts' \in Seq(Seq(Action(1..(Len(acts) + n))))
  PROVE  /\ HeapTypes' /\ Allocated \subseteq Allocated' /\ Allocated' = 1..(Len(acts) + n)
         /\ Len(chain') = Len(chain) + n
<1>1. /\ Allocated = 1..Len(acts) /\ Len(acts) \in Nat \ {0}
      /\ LastNr \in Nat /\ Len(chain) \in Nat \ {0}
  BY ChainStates
<1>2. Allocated' = 1..(Len(acts) + n)
  BY DEF Allocated
<1>3. Allocated \subseteq Allocated'
  BY <1>1, <1>2
<1>4. endOf' \in Seq(Syms \cup {NoSym}) /\ Len(endOf') = Len(acts) + n
  <2>1. endOf \in Seq(Syms \cup {NoSym}) /\ Len(endOf) = Len(acts) /\ endOf' = endOf \o ends
    BY DEF TypeOK, HeapTypes, NewStates
  <2>2. endOf \o ends \in Seq(Syms \cup {NoSym}) /\ Len(endOf \o ends) = Len(endOf) + Len(ends)
    BY <2>1, ConcatSeq, Zenon
  <2> QED BY <2>1, <2>2
<1>5. ctx' \in Seq(BOOLEAN) /\ Len(ctx') = Len(acts) + n
  <2> DEFINE t == [k \in 1..n |-> FALSE]
  <2>1. ctx \in Seq(BOOLEAN) /\ Len(ctx) = Len(acts) /\ ctx' = ctx \o t
    BY DEF TypeOK, HeapTypes, NewStates
  <2>2. t \in [1..n -> BOOLEAN]
    BY Zenon
  <2> HIDE DEF t
  <2>3. t \in Seq(BOOLEAN) /\ Len(t) = n
    BY <2>2, FunctionSeq, Zenon
  <2>4. ctx \o t \in Seq(BOOLEAN) /\ Len(ctx \o t) = Len(ctx) + Len(t)
    BY <2>1, <2>3, ConcatSeq, Zenon
  <2> QED BY <2>1, <2>3, <2>4
<1>6. nr' \in Seq(Nat) /\ Len(nr') = Len(acts) + n
  <2> DEFINE t == [k \in 1..n |-> LastNr + k]
  <2>1. nr \in Seq(Nat) /\ Len(nr) = Len(acts) /\ nr' = nr \o t
    BY DEF TypeOK, HeapTypes, NewStates
  <2>2. t \in [1..n -> Nat]
    BY <1>1
  <2> HIDE DEF t
  <2>3. t \in Seq(Nat) /\ Len(t) = n
    BY <2>2, FunctionSeq, Zenon
  <2>4. nr \o t \in Seq(Nat) /\ Len(nr \o t) = Len(nr) + Len(t)
    BY <2>1, <2>3, ConcatSeq, Zenon
  <2> QED BY <2>1, <2>3, <2>4
<1> DEFINE added == [k \in 1..n |-> Len(acts) + k]
           B == 1..(Len(acts) + n)
<1>7. added \in Seq(B) /\ Len(added) = n /\ \A k \in 1..n : added[k] = Len(acts) + k
  BY <1>1, <1>2
<1>8. chain \in Seq(B) /\ chain \in Seq(Allocated)
  <2>1. chain \in Seq(Allocated)
    BY DEF TypeOK, HeapTypes
  <2>2. Allocated \subseteq B
    BY <1>2, <1>3
  <2> HIDE DEF Allocated, B
  <2> QED BY <2>1, <2>2
<1>9. chain' = chain \o added
  BY DEF NewStates
<1> HIDE DEF added
<1>10. /\ chain' \in Seq(B) /\ Len(chain') = Len(chain) + n
       /\ \A k \in 1..Len(chain) : (chain')[k] = chain[k]
       /\ \A k \in 1..n : (chain')[Len(chain) + k] = Len(acts) + k
  <2> HIDE DEF B
  <2>0. chain \in Seq(B) /\ added \in Seq(B)
    BY <1>7, <1>8
  <2>1. /\ chain \o added \in Seq(B) /\ Len(chain \o added) = Len(chain) + Len(added)
        /\ \A k \in 1..Len(chain) : (chain \o added)[k] = chain[k]
        /\ \A k \in 1..Len(added) : (chain \o added)[Len(chain) + k] = added[k]
    BY ONLY <2>0, ConcatSeq
  <2> QED BY <1>7, <1>9, <2>1
<1>11. ASSUME NEW k \in 1..(Len(chain) + n), NEW m \in 1..(Len(chain) + n),
              (chain')[k] = (chain')[m]
       PROVE  k = m
  <2>1. \A x \in 1..Len(chain) : (chain')[x] \in 1..Len(acts)
    BY <1>1, <1>10, ChainStates
  <2>2. \A x \in 1..(Len(chain) + n) :
          x \in 1..Len(chain) \/ (x - Len(chain) \in 1..n /\ x = Len(chain) + (x - Len(chain)))
    BY <1>1
  <2>3. CASE k \in 1..Len(chain) /\ m \in 1..Len(chain)
    BY <1>10, <1>11, <2>3, ChainStates DEF TypeOK, HeapTypes
  <2>4. \A x \in 1..(Len(chain) + n) :
          x \notin 1..Len(chain) => (chain')[x] = Len(acts) + (x - Len(chain))
    BY <1>10, <2>2
  <2>5. CASE k \notin 1..Len(chain) \/ m \notin 1..Len(chain)
    BY SMTT(30), <1>1, <1>11, <2>1, <2>2, <2>4, <2>5
  <2> QED BY <2>3, <2>5
<1>12. chain' # <<>> /\ (chain')[1] = first /\ DOMAIN chain' = 1..(Len(chain) + n)
  <2>1. chain[1] = first
    BY DEF TypeOK, HeapTypes
  <2>2. DOMAIN chain' = 1..(Len(chain) + n) /\ chain' # <<>>
    BY <1>1, <1>10
  <2>3. 1 \in 1..Len(chain)
    BY <1>1
  <2> QED BY <1>10, <2>1, <2>2, <2>3
<1>13. acts' # <<>>
  BY <1>1
<1>14. HeapTypes'
  BY <1>2, <1>4, <1>5, <1>6, <1>10, <1>11, <1>12, <1>13 DEF HeapTypes
<1> QED BY <1>2, <1>3, <1>10, <1>14

LEMMA NewActionType ==
  ASSUME NEW Q, NEW typ \in Typs, NEW syms \in SUBSET Chars, NEW tc \in TransitionCodes,
         NEW to \in Q
  PROVE  NewAction(typ, syms, tc, to) \in Action(Q)
BY DEF NewAction, Action

\* Lists of actions to old states, and lists for n new ones, make a heap.
LEMMA HeapGrows ==
  ASSUME TypeOK, NEW n \in Nat, NEW new \in Seq(Seq(Action(1..(Len(acts) + n)))), Len(new) = n
  PROVE  /\ acts \o new \in Seq(Seq(Action(1..(Len(acts) + n))))
         /\ Len(acts \o new) = Len(acts) + n
<1> DEFINE B == 1..(Len(acts) + n)
<1>1. acts \in Seq(Seq(Action(Allocated))) /\ Allocated = 1..Len(acts) /\ Len(acts) \in Nat
  BY ChainStates DEF TypeOK, HeapTypes
<1>2. acts \in Seq(Seq(Action(B)))
  <2>1. Allocated \subseteq B
    BY <1>1
  <2> HIDE DEF B
  <2> QED BY <1>1, <2>1, ActionGrows
<1> HIDE DEF B
<1>3. new \in Seq(Seq(Action(B)))
  BY DEF B
<1>4. acts \o new \in Seq(Seq(Action(B))) /\ Len(acts \o new) = Len(acts) + Len(new)
  BY ONLY <1>2, <1>3, ConcatSeq
<1> QED BY <1>4 DEF B

\* ConvertToStates adds the states of the graph and leaves its arcs pending.
LEMMA AddTokenTypes ==
  ASSUME TypeOK, NEW s \in DOMAIN Graph, AddToken(s)
  PROVE  /\ HeapTypes' /\ Allocated \subseteq Allocated' /\ Len(chain') >= Len(chain)
         /\ ControlTypes' /\ pc' = "convert"
         /\ kind' \in [Syms -> {"fixedToken", "classToken", "litToken", "classLitToken"}]
<1> DEFINE g == Graph[s]
           n == g.size
           B == 1..(Len(acts) + n)
           new == [k \in 1..n |-> <<>>]
           ends == [k \in 1..n |-> IF k \in g.ends THEN s ELSE NoSym]
           Id(q) == IF q = 0 THEN first ELSE Len(acts) + q
<1>1. /\ n \in Nat /\ g.arcs \in Seq(Arcs) /\ g.arcs # <<>>
      /\ \A k \in DOMAIN g.arcs : g.arcs[k].from <= n /\ g.arcs[k].to <= n
  BY GraphAssumption
<1>2. s \in Syms
  BY SymsAssumption
<1>3. /\ Len(acts) \in Nat \ {0} /\ Len(chain) \in Nat /\ first = 1
  BY ChainStates DEF first
<1>4. /\ acts' = acts \o new /\ NewStates(n, ends) /\ pc' = "convert"
      /\ pending' = [k \in 1..Len(g.arcs) |->
                       [from |-> Id(g.arcs[k].from), to |-> Id(g.arcs[k].to),
                        typ |-> g.arcs[k].typ, syms |-> g.arcs[k].syms, tc |-> g.arcs[k].tc]]
  BY DEF AddToken
<1>5. ends \in Seq(Syms \cup {NoSym}) /\ Len(ends) = n
  BY <1>1, <1>2
<1>6. new \in Seq(Seq(Action(B))) /\ Len(new) = n
  <2>1. \A S : <<>> \in Seq(S)
    OBVIOUS
  <2>2. new \in [1..n -> Seq(Action(B))]
    BY <2>1
  <2> HIDE DEF new
  <2> QED BY <1>1, <2>2, FunctionSeq
<1> HIDE DEF new, ends
<1>7. acts' \in Seq(Seq(Action(B))) /\ Len(acts') = Len(acts) + n
  <2> HIDE DEF n, g
  <2> QED BY <1>1, <1>4, <1>6, HeapGrows
<1>8. HeapTypes' /\ Allocated \subseteq Allocated' /\ Allocated' = B /\ Len(chain') = Len(chain) + n
  <2> HIDE DEF n, g
  <2> QED BY <1>1, <1>4, <1>5, <1>7, NewStatesTypes
<1>9. pending' \in Seq([from : B, to : B, typ : Typs, syms : SUBSET Chars, tc : TransitionCodes])
      /\ pending' # <<>>
  <2>1. Len(g.arcs) \in Nat \ {0} /\ DOMAIN g.arcs = 1..Len(g.arcs)
    BY <1>1
  <2>2. \A k \in 1..Len(g.arcs) : g.arcs[k] \in Arcs
    BY <1>1, ElementOfSeq
  <2>3. \A q \in Nat : q <= n => Id(q) \in B
    BY <1>1, <1>3
  <2> HIDE DEF Id, B, n, g
  <2>4. \A k \in 1..Len(g.arcs) :
          /\ Id(g.arcs[k].from) \in B /\ Id(g.arcs[k].to) \in B
          /\ g.arcs[k].typ \in Typs /\ g.arcs[k].syms \in SUBSET Chars
          /\ g.arcs[k].tc \in TransitionCodes
    BY <1>1, <2>1, <2>2, <2>3 DEF Arcs
  <2> DEFINE R == [from : B, to : B, typ : Typs, syms : SUBSET Chars, tc : TransitionCodes]
             m == Len(g.arcs)
  <2>5. pending' \in [1..m -> R] /\ m \in Nat \ {0}
    BY <1>4, <2>1, <2>4
  <2> HIDE DEF R, m
  <2>6. pending' \in Seq(R) /\ Len(pending') = m
    BY ONLY <2>5, FunctionSeq
  <2> QED BY <2>5, <2>6 DEF R
<1>10. ControlTypes'
  BY <1>4, <1>8, <1>9 DEF ControlTypes, Phases
<1>11. kind' \in [Syms -> {"fixedToken", "classToken", "litToken", "classLitToken"}]
  BY DEF AddToken, TypeOK, SymbolTypes
<1> QED BY <1>1, <1>3, <1>4, <1>8, <1>10, <1>11

\* A path of new states: lists that lead into S still do, and so do the new ones.
LEMMA AddPathElements ==
  ASSUME TypeOK, NEW s \in DOMAIN Text, AddPath(s), NEW Q, first \in Q, Q \subseteq Allocated,
         NEW S, \A q \in Q : acts[q] \in Seq(Action(S)),
         \A k \in 1..Len(Text[s]) : Len(acts) + k \in S
  PROVE  /\ DOMAIN acts' = 1..(Len(acts) + Len(Text[s]))
         /\ \A q \in Q : (acts')[q] \in Seq(Action(S))
         /\ \A k \in 1..Len(Text[s]) : (acts')[Len(acts) + k] \in Seq(Action(S))
<1> DEFINE n == Len(Text[s])
           Chr(k) == NewAction("chr", {Text[s][k]}, "normalTrans", Len(acts) + k)
           A(q) == IF q = first THEN AddAction(acts[first], Chr(1))
                   ELSE IF q <= Len(acts) THEN acts[q]
                   ELSE IF q = Len(acts) + n THEN <<>>
                   ELSE <<Chr(q - Len(acts) + 1)>>
<1>1. n \in Nat \ {0} /\ \A k \in 1..n : Text[s][k] \in Chars
  BY TextAssumption
<1>2. Len(acts) \in Nat \ {0} /\ first = 1 /\ Allocated = 1..Len(acts)
  BY ChainStates DEF first
<1>3. acts' = [q \in 1..(Len(acts) + n) |-> A(q)]
  BY DEF AddPath
<1>4. \A k \in 1..n : Chr(k) \in Action(S)
  <2> TAKE k \in 1..n
  <2>1. Len(acts) + k \in S /\ {Text[s][k]} \in SUBSET Chars
    BY <1>1
  <2> HIDE DEF n
  <2> QED BY <2>1, NewActionType DEF Typs, TransitionCodes
<1> HIDE DEF Chr, n, A
<1>5. PICK a \in Nat \ {0}, b \in Nat \ {0} : a = Len(acts) /\ b = n
  BY <1>1, <1>2
<1>6. ASSUME NEW q \in Q PROVE (acts')[q] \in Seq(Action(S))
  <2>1. q \in 1..a /\ q \in 1..(a + b)
    BY <1>2, <1>5
  <2>2. CASE q = first
    <3>1. (acts')[q] = AddAction(acts[first], Chr(1))
      BY <1>3, <1>5, <2>1, <2>2 DEF A
    <3>2. acts[first] \in Seq(Action(S)) /\ Chr(1) \in Action(S)
      BY <1>1, <1>4
    <3> QED BY <3>1, <3>2, AddActionElements
  <2>3. CASE q # first
    BY <1>3, <1>5, <2>1, <2>3 DEF A
  <2> QED BY <2>2, <2>3
<1>7. ASSUME NEW k \in 1..n PROVE (acts')[Len(acts) + k] \in Seq(Action(S))
  <2>1. /\ a + k \in 1..(a + b) /\ a + k > a /\ a + k # first /\ k \in 1..b
        /\ (a + k) - a + 1 = k + 1 /\ (a + k = a + b <=> k = b)
    BY <1>2, <1>5
  <2>2. CASE k = b
    <3>1. (acts')[a + k] = <<>>
      BY <1>3, <1>5, <2>1, <2>2 DEF A
    <3>2. \A T : <<>> \in Seq(T)
      OBVIOUS
    <3> QED BY <1>5, <3>1, <3>2
  <2>3. CASE k # b
    <3>1. (acts')[a + k] = <<Chr(k + 1)>>
      BY <1>3, <1>5, <2>1, <2>3 DEF A
    <3>2. k + 1 \in 1..n
      BY <1>5, <2>1, <2>3
    <3>3. Chr(k + 1) \in Action(S)
      BY <1>4, <3>2
    <3> QED BY <1>5, <3>1, <3>3
  <2> QED BY <2>2, <2>3
<1>8. DOMAIN acts' = 1..(Len(acts) + n)
  BY <1>3
<1> QED BY <1>6, <1>7, <1>8 DEF n

\* MatchLiteral adds a path of states, or changes what kind of token two symbols are.
LEMMA AddPathTypes ==
  ASSUME TypeOK, NEW s \in DOMAIN Text, AddPath(s)
  PROVE  /\ HeapTypes' /\ Allocated \subseteq Allocated' /\ Len(chain') >= Len(chain)
<1> DEFINE n == Len(Text[s])
           B == 1..(Len(acts) + n)
           ends == [k \in 1..n |-> IF k = n THEN s ELSE NoSym]
<1>1. n \in Nat \ {0} /\ s \in Syms
  BY TextAssumption, SymsAssumption
<1>2. /\ Len(acts) \in Nat \ {0} /\ Len(chain) \in Nat /\ first \in Allocated
      /\ Allocated = 1..Len(acts) /\ \A q \in Allocated : acts[q] \in Seq(Action(Allocated))
  BY ChainStates
<1>3. NewStates(n, ends)
  BY DEF AddPath
<1>4. ends \in Seq(Syms \cup {NoSym}) /\ Len(ends) = n
  BY <1>1
<1> HIDE DEF ends
<1>5. Allocated \subseteq B /\ \A k \in 1..n : Len(acts) + k \in B
  BY <1>1, <1>2
<1>6. DOMAIN acts' = B /\ \A q \in B : (acts')[q] \in Seq(Action(B))
  <2>1. PICK X : X = B
    OBVIOUS
  <2>2. \A q \in Allocated : acts[q] \in Seq(Action(X))
    BY <1>2, <1>5, <2>1, ActionGrows
  <2>3. /\ DOMAIN acts' = B
        /\ \A q \in Allocated : (acts')[q] \in Seq(Action(X))
        /\ \A k \in 1..n : (acts')[Len(acts) + k] \in Seq(Action(X))
    <3>1. /\ first \in Allocated /\ Allocated \subseteq Allocated
          /\ \A k \in 1..Len(Text[s]) : Len(acts) + k \in X
      BY <1>2, <1>5, <2>1
    <3>2. /\ DOMAIN acts' = 1..(Len(acts) + Len(Text[s]))
          /\ \A q \in Allocated : (acts')[q] \in Seq(Action(X))
          /\ \A k \in 1..Len(Text[s]) : (acts')[Len(acts) + k] \in Seq(Action(X))
      BY ONLY TypeOK, s \in DOMAIN Text, AddPath(s), <2>2, <3>1, AddPathElements
    <3> QED BY <3>2
  <2>4. \A q \in B : q \in Allocated \/ \E k \in 1..n : q = Len(acts) + k
    <3> TAKE q \in B
    <3>1. q \in 1..Len(acts) \/ (q - Len(acts) \in 1..n /\ q = Len(acts) + (q - Len(acts)))
      BY <1>1, <1>2
    <3> QED BY <1>2, <3>1
  <2> QED BY <2>1, <2>3, <2>4
<1>7. acts' \in Seq(Seq(Action(B))) /\ Len(acts') = Len(acts) + n
  <2>1. acts' = [q \in DOMAIN acts' |-> (acts')[q]]
    BY DEF AddPath
  <2>2. acts' \in [1..(Len(acts) + n) -> Seq(Action(B))]
    BY <1>6, <2>1
  <2>3. Len(acts) + n \in Nat
    BY <1>1, <1>2
  <2> HIDE DEF B
  <2> QED BY <2>2, <2>3, FunctionSeq
<1>8. HeapTypes' /\ Allocated \subseteq Allocated' /\ Len(chain') = Len(chain) + n
  BY <1>1, <1>3, <1>4, <1>7, NewStatesTypes
<1> QED BY <1>1, <1>2, <1>8

LEMMA MatchLiteralTypes ==
  ASSUME TypeOK, NEW s \in DOMAIN Text, MatchLiteral(s)
  PROVE  /\ HeapTypes' /\ Allocated \subseteq Allocated' /\ Len(chain') >= Len(chain)
         /\ kind' \in [Syms -> {"fixedToken", "classToken", "litToken", "classLitToken"}]
         /\ failed' \in BOOLEAN /\ dirtyDFA' \in BOOLEAN
<1> DEFINE w == Walk(Text[s])
<1> HIDE DEF w
<1>1. AddPath(s) \/ MatchExisting(s, w)
  BY DEF MatchLiteral, w
<1>2. kind \in [Syms -> {"fixedToken", "classToken", "litToken", "classLitToken"}]
  BY DEF TypeOK, SymbolTypes
<1>3. failed \in BOOLEAN /\ dirtyDFA \in BOOLEAN
  BY Zenon DEF TypeOK, SymbolTypes
<1>4. CASE AddPath(s)
  <2>1. UNCHANGED <<kind, failed>> /\ dirtyDFA' = TRUE
    BY <1>4 DEF AddPath
  <2>2. failed' \in BOOLEAN /\ dirtyDFA' \in BOOLEAN
    BY <1>3, <2>1, Zenon
  <2> QED BY <1>2, <1>4, <2>1, <2>2, AddPathTypes
<1>5. CASE MatchExisting(s, w)
  <2>1. UNCHANGED <<heap, dirtyDFA>> /\ (UNCHANGED failed \/ failed' = TRUE)
    BY <1>5, Zenon DEF MatchExisting
  <2>2. failed' \in BOOLEAN /\ dirtyDFA' \in BOOLEAN
    BY <1>3, <2>1, Zenon
  <2>3. kind' \in [Syms -> {"fixedToken", "classToken", "litToken", "classLitToken"}]
    BY <1>2, <1>5 DEF MatchExisting
  <2>4. chain' = chain /\ Len(chain) \in Nat
    BY <2>1, ChainStates DEF heap
  <2> QED BY <2>1, <2>2, <2>3, <2>4, HeapKept
<1> QED BY <1>1, <1>4, <1>5

\* A declaration in TOKENS, or a literal in PRODUCTIONS.
LEMMA DeclareTypes ==
  ASSUME TypeOK, NEW s \in Syms, DeclareToken(s) \/ UseLiteral(s)
  PROVE  TypeOK'
<1>1. CASE DeclareToken(s) /\ s \in DOMAIN Graph
  <2>1. /\ AddToken(s) /\ declared' = declared \cup {s} /\ UNCHANGED <<failed, dirtyDFA>>
        /\ UNCHANGED <<melted, lastSim, literals, at, cursor, melting, marks, history, stale>>
    BY <1>1 DEF DeclareToken, AddToken
  <2>2. /\ HeapTypes' /\ Allocated \subseteq Allocated' /\ Len(chain') >= Len(chain)
        /\ ControlTypes' /\ pc' = "convert"
        /\ kind' \in [Syms -> {"fixedToken", "classToken", "litToken", "classLitToken"}]
    BY <1>1, <2>1, AddTokenTypes
  <2>3. SymbolTypes'
    BY <2>1, <2>2 DEF TypeOK, SymbolTypes
  <2>4. RoundTypes' /\ MarkTypes'
    <3>1. stale' \in BOOLEAN
      BY <2>1 DEF TypeOK, RoundTypes
    <3> QED BY <2>1, <2>2, <3>1, RoundKept, MarksKept DEF history
  <2>5. PositionTypes'
    <3>1. pc = "tokens" /\ Len(chain) \in Nat /\ Len(chain') \in Nat
      BY <1>1, <2>2, ChainStates DEF DeclareToken, HeapTypes
    <3> QED BY <2>1, <2>2, <3>1 DEF TypeOK, PositionTypes, cursor, melting
  <2> QED BY <2>2, <2>3, <2>4, <2>5 DEF TypeOK
<1>2. CASE UseLiteral(s) \/ (DeclareToken(s) /\ s \notin DOMAIN Graph)
  <2>1. /\ s \in DOMAIN Text /\ MatchLiteral(s) /\ declared' = declared \cup {s}
        /\ (literals' = literals \/ literals' = literals + 1) /\ pc \in {"tokens", "productions"}
        /\ UNCHANGED <<melted, lastSim, at, cursor, melting, marks, history, stale, pc, pending>>
    BY <1>2, SymsAssumption DEF UseLiteral, DeclareToken
  <2>2. /\ HeapTypes' /\ Allocated \subseteq Allocated' /\ Len(chain') >= Len(chain)
        /\ kind' \in [Syms -> {"fixedToken", "classToken", "litToken", "classLitToken"}]
        /\ failed' \in BOOLEAN /\ dirtyDFA' \in BOOLEAN
    BY <2>1, MatchLiteralTypes
  <2>3. SymbolTypes'
    BY <2>1, <2>2 DEF TypeOK, SymbolTypes
  <2>4. RoundTypes' /\ MarkTypes' /\ ControlTypes'
    <3>1. stale' \in BOOLEAN /\ pc' \in Phases
      BY <2>1 DEF TypeOK, RoundTypes, ControlTypes
    <3> QED BY <2>1, <2>2, <3>1, RoundKept, MarksKept, ControlKept DEF history
  <2>5. PositionTypes'
    <3>1. Len(chain) \in Nat /\ Len(chain') \in Nat
      BY <2>2, ChainStates DEF HeapTypes
    <3> QED BY <2>1, <2>2, <3>1 DEF TypeOK, PositionTypes, cursor, melting
  <2> QED BY <2>2, <2>3, <2>4, <2>5 DEF TypeOK
<1> QED BY <1>1, <1>2

\* A call of NewTransition.
LEMMA NewTransitionTypes == ASSUME TypeOK, NewTransition PROVE TypeOK'
<1> DEFINE arc == Head(pending)
           x == NewAction(arc.typ, arc.syms, arc.tc, arc.to)
<1>1. /\ pending # <<>> /\ pc = "convert"
      /\ pending \in Seq([from : Allocated, to : Allocated, typ : Typs, syms : SUBSET Chars,
                          tc : TransitionCodes])
  BY DEF TypeOK, ControlTypes, NewTransition
<1>2. /\ arc \in [from : Allocated, to : Allocated, typ : Typs, syms : SUBSET Chars,
                   tc : TransitionCodes]
      /\ pending' \in Seq([from : Allocated, to : Allocated, typ : Typs, syms : SUBSET Chars,
                           tc : TransitionCodes])
      /\ Len(pending) # 1 => pending' # <<>>
  <2> DEFINE R == [from : Allocated, to : Allocated, typ : Typs, syms : SUBSET Chars,
                   tc : TransitionCodes]
  <2> HIDE DEF R
  <2>1. pending \in Seq(R) /\ pending # <<>> /\ pending' = Tail(pending)
    BY <1>1 DEF NewTransition, R
  <2>2. /\ Head(pending) \in R /\ Tail(pending) \in Seq(R)
        /\ Len(Tail(pending)) = Len(pending) - 1
    BY <2>1, HeadTailProperties, Zenon
  <2>3. Len(pending) # 1 => Tail(pending) # <<>>
    <3>1. Len(<<>>) = 0 /\ Len(pending) \in Nat
      BY <2>1
    <3>2. \A t : t = <<>> => Len(t) = 0
      BY <3>1, Zenon
    <3> DEFINE t == Tail(pending)
               n == Len(pending)
               tn == Len(t)
    <3>3. (t = <<>> => tn = 0) /\ tn = n - 1 /\ n \in Nat
      BY <2>2, <3>1, <3>2, Zenon
    <3> HIDE DEF t, n, tn
    <3>4. n # 1 => t # <<>>
      BY <3>3
    <3> QED BY <3>4 DEF t, n
  <2> QED BY <2>1, <2>2, <2>3 DEF R
<1> HIDE DEF arc
<1>3. x \in Action(Allocated) /\ arc.from \in Allocated
  <2> HIDE DEF Allocated
  <2> QED BY <1>2, NewActionType
<1>4. acts[arc.from] \in Seq(Action(Allocated))
  BY <1>3, ChainStates
<1>5. /\ acts' = [acts EXCEPT ![arc.from] = AddAction(acts[arc.from], x)]
      /\ UNCHANGED <<endOf, ctx, nr, chain, melted, lastSim, symbols, at, cursor, melting,
                     marks, history, stale>>
      /\ pc' = IF Len(pending) = 1 THEN "tokens" ELSE "convert"
  BY DEF NewTransition, arc, x
<1> HIDE DEF x
<1>6. AddAction(acts[arc.from], x) \in Seq(Action(Allocated))
  <2> HIDE DEF Allocated
  <2> QED BY <1>3, <1>4, AddActionElements
<1>7. HeapTypes' /\ Allocated' = Allocated
  <2> HIDE DEF Allocated
  <2> QED BY <1>3, <1>5, <1>6, ListChanges
<1>8. RoundTypes' /\ MarkTypes' /\ SymbolTypes'
  <2>1. stale' \in BOOLEAN
    BY <1>5 DEF TypeOK, RoundTypes
  <2> QED BY <1>5, <1>7, <2>1, RoundKept, MarksKept, SymbolsKept DEF history
<1>9. ControlTypes'
  BY <1>2, <1>5, <1>7 DEF ControlTypes, Phases
<1>10. PositionTypes'
  <2>1. pc' # "meltWith" /\ pc' # "meltUnique" /\ pc' # "delete"
    BY <1>5
  <2> QED BY <1>1, <1>5, <1>7, <2>1 DEF TypeOK, PositionTypes, cursor, melting
<1> QED BY <1>7, <1>8, <1>9, <1>10 DEF TypeOK

----------------------------------------------------------------------------
(* MakeDeterministic.                                                      *)

LEMMA StartRoundTypes ==
  ASSUME TypeOK, StartRound
  PROVE  TypeOK'
<1>1. /\ UNCHANGED <<acts, endOf, nr, chain, melted, symbols, pending, melting, marks, stale>>
      /\ lastSim' = LastNr /\ round' = round + 1
      /\ pc' = "unique" /\ at' = 1 /\ ia' = 1 /\ ib' = 2
  BY DEF StartRound
<1>2. changed' \in BOOLEAN
  BY Zenon DEF StartRound
<1>3. ctx' \in Seq(BOOLEAN) /\ Len(ctx') = Len(acts)
  <2>1. ctx' \in [Allocated -> BOOLEAN]
    <3>1. ctx' = [q \in Allocated |-> ctx[q] \/
               \E k \in DOMAIN chain : \E m \in DOMAIN acts[chain[k]] :
                 acts[chain[k]][m].tc = "contextTrans" /\ q \in acts[chain[k]][m].targets]
      BY DEF StartRound
    <3>2. \A q \in Allocated : (ctx[q] \/
               \E k \in DOMAIN chain : \E m \in DOMAIN acts[chain[k]] :
                 acts[chain[k]][m].tc = "contextTrans" /\ q \in acts[chain[k]][m].targets)
               \in BOOLEAN
      OBVIOUS
    <3> QED BY <3>1, <3>2, Zenon
  <2>2. ctx' \in [1..Len(acts) -> BOOLEAN] /\ Len(acts) \in Nat
    BY <2>1, ChainStates
  <2> QED BY <2>2, FunctionSeq
<1>4. HeapTypes' /\ Allocated' = Allocated
  BY <1>1, <1>3 DEF TypeOK, HeapTypes, Allocated
<1>5. MarkTypes' /\ SymbolTypes'
  BY <1>1, <1>4, MarksKept, SymbolsKept
<1>6. ControlTypes'
  <2>1. pc' \in Phases /\ pc' # "convert"
    BY <1>1 DEF Phases
  <2> QED BY <1>1, <1>4, <2>1, ControlKept
<1>7. RoundTypes'
  <2>1. LastNr \in Nat
    BY ChainStates
  <2>2. stale' \in BOOLEAN
    BY <1>1 DEF TypeOK, RoundTypes
  <2> HIDE DEF Allocated, LastNr
  <2> QED BY <1>1, <1>4, <2>1, <2>2 DEF TypeOK, RoundTypes
<1>8. PositionTypes'
  <2>1. Len(chain) \in Nat \ {0} /\ chain' = chain
    BY <1>1, ChainStates
  <2> QED BY <1>1, <1>2, <1>4, <2>1 DEF TypeOK, PositionTypes, melting
<1> QED BY <1>4, <1>5, <1>6, <1>7, <1>8 DEF TypeOK

LEMMA WriteTypes ==
  ASSUME TypeOK, Productions \/ WriteScanner
  PROVE  TypeOK'
<1>1. CASE StartRound
  BY <1>1, StartRoundTypes
<1>2. CASE /\ pc' = "written"
           /\ UNCHANGED <<heap, melted, lastSim, symbols, pending, at, cursor, melting, marks,
                          history, stale>>
           /\ pc = "productions"
  <2>1. HeapTypes' /\ Allocated' = Allocated
    BY <1>2, HeapKept
  <2>2. RoundTypes' /\ MarkTypes' /\ SymbolTypes' /\ ControlTypes'
    <3>1. stale' \in BOOLEAN /\ pc' \in Phases /\ pc' # "convert"
      BY <1>2 DEF TypeOK, RoundTypes, Phases
    <3> QED BY <1>2, <2>1, <3>1, RoundKept, MarksKept, SymbolsKept, ControlKept DEF history
  <2>3. PositionTypes'
    <3>1. chain' = chain
      BY <1>2 DEF heap
    <3> QED BY <1>2, <2>1, <3>1 DEF TypeOK, PositionTypes, cursor, melting
  <2> QED BY <2>1, <2>2, <2>3 DEF TypeOK
<1> QED BY <1>1, <1>2 DEF Productions, WriteScanner

\* The state whose list MakeUnique works on.
LEMMA SubjectAllocated ==
  ASSUME TypeOK, pc \in {"unique", "meltUnique", "combine"}
  PROVE  /\ Subject \in Allocated /\ acts[Subject] \in Seq(Action(Allocated))
         /\ pc = "meltUnique" => Subject # chain[at]
<1>1. at \in 1..Len(chain)
  BY ChainStates DEF TypeOK, PositionTypes
<1>2. Subject \in Allocated
  BY <1>1, ChainStates DEF Subject
<1>3. acts[Subject] \in Seq(Action(Allocated))
  BY <1>2, ChainStates
<1>4. ASSUME pc = "meltUnique" PROVE Subject # chain[at]
  <2>1. at < Len(chain) /\ Len(chain) \in DOMAIN chain /\ at \in DOMAIN chain
    BY <1>1, <1>4, ChainStates DEF TypeOK, PositionTypes
  <2>2. \A k, m \in DOMAIN chain : chain[k] = chain[m] => k = m
    BY DEF TypeOK, HeapTypes
  <2> QED BY <1>1, <1>4, <2>1, <2>2 DEF Subject, LastState
<1> QED BY <1>2, <1>3, <1>4

LEMMA CompareTypes == ASSUME TypeOK, Compare PROVE TypeOK'
<1> DEFINE list == acts[Subject]
           r == SplitActions(list, ia, ib)
<1>1. /\ pc \in {"unique", "meltUnique"} /\ ib <= Len(list)
      /\ UNCHANGED <<endOf, ctx, nr, chain, melted, lastSim, symbols, pc, pending, at, melting,
                     marks, history, stale>>
  BY DEF Compare
<1>2. /\ Subject \in Allocated /\ list \in Seq(Action(Allocated))
      /\ pc = "meltUnique" => Subject # chain[at]
  BY <1>1, SubjectAllocated
<1>3. ia \in 1..Len(list) /\ ib \in 1..Len(list) /\ ia < ib
  <2>1. Len(list) \in Nat
    BY <1>2
  <2> QED BY <1>1, <2>1 DEF TypeOK, PositionTypes
<1>4. SplitResult(Allocated, list, r)
  <2> HIDE DEF list, Allocated
  <2> QED BY <1>2, <1>3, SplitKeepsMoves
<1> HIDE DEF r
<1>5. CASE /\ acts' = [acts EXCEPT ![Subject] = r.acts]
           /\ ia' = r.a /\ ib' = r.next /\ changed' = TRUE
  <2>1. /\ HeapTypes' /\ Allocated' = Allocated
        /\ \A p \in Allocated : p # Subject => (acts')[p] = acts[p]
    <3> HIDE DEF Allocated, Subject
    <3> QED BY <1>1, <1>2, <1>4, <1>5, ListChanges DEF SplitResult
  <2>2. ia' \in Nat \ {0} /\ ib' \in Nat /\ ia' < ib'
    BY <1>4, <1>5 DEF SplitResult
  <2>3. pc = "meltUnique" => Melter' = Melter
    BY <1>1, <1>2, <2>1, ChainStates DEF Melter, TypeOK, PositionTypes
  <2>4. changed' \in BOOLEAN
    BY <1>5, Zenon
  <2>5. PositionTypes'
    BY <1>1, <2>1, <2>2, <2>3, <2>4 DEF TypeOK, PositionTypes, melting
  <2>6. RoundTypes' /\ MarkTypes' /\ SymbolTypes' /\ ControlTypes'
    <3>1. stale' \in BOOLEAN /\ pc' \in Phases
      BY <1>1 DEF TypeOK, RoundTypes, ControlTypes
    <3> QED BY <1>1, <2>1, <3>1, RoundKept, MarksKept, SymbolsKept, ControlKept DEF history
  <2> QED BY <2>1, <2>5, <2>6 DEF TypeOK
<1>6. CASE ib' = ib + 1 /\ UNCHANGED <<acts, ia, changed>>
  <2>1. HeapTypes' /\ Allocated' = Allocated
    BY <1>1, <1>6, HeapKept DEF heap
  <2>2. PositionTypes'
    BY <1>1, <1>6, <2>1 DEF TypeOK, PositionTypes, melting, Melter
  <2>3. RoundTypes' /\ MarkTypes' /\ SymbolTypes' /\ ControlTypes'
    <3>1. stale' \in BOOLEAN /\ pc' \in Phases
      BY <1>1 DEF TypeOK, RoundTypes, ControlTypes
    <3> QED BY <1>1, <2>1, <3>1, RoundKept, MarksKept, SymbolsKept, ControlKept DEF history
  <2> QED BY <2>1, <2>2, <2>3 DEF TypeOK
<1> QED BY <1>5, <1>6 DEF Compare, r

\* An action of the state being melted gets a single target.
LEMMA RetargetTypes ==
  ASSUME TypeOK, NEW q \in Allocated, at \in 1..Len(chain)
  PROVE  Retarget(Melter, q) \in Seq(Action(Allocated)) /\ Len(Retarget(Melter, q)) = Len(Melter)
<1>1. Melter \in Seq(Action(Allocated))
  BY ChainStates DEF Melter
<1> HIDE DEF Melter, Allocated
<1>2. CASE ma \in 1..Len(Melter)
  <2> DEFINE x == [Melter[ma] EXCEPT !.targets = {q}]
  <2>1. Melter[ma] \in Action(Allocated)
    BY <1>1, <1>2, ElementOfSeq
  <2>2. x \in Action(Allocated)
    BY <2>1 DEF Action
  <2>3. Retarget(Melter, q) = [Melter EXCEPT ![ma] = x]
    BY DEF Retarget
  <2> HIDE DEF x
  <2> QED BY <1>1, <1>2, <2>2, <2>3
<1>3. CASE ma \notin 1..Len(Melter)
  <2>1. Retarget(Melter, q) = Melter
    BY <1>1, <1>3 DEF Retarget
  <2> QED BY <1>1, <2>1
<1> QED BY <1>2, <1>3

LEMMA MeltKnownTypes == ASSUME TypeOK, MeltKnown PROVE TypeOK'
<1>1. PICK k \in Matches(TargetSet(Melter[ma])) :
        /\ acts' = [acts EXCEPT ![chain[at]] = Retarget(Melter, melted[k].state)]
        /\ stale' = (stale \/ ReadsStale(Melter[ma]) \/ melted[k].round < round)
  BY DEF MeltKnown, Melter
<1>2. /\ ma' = ma + 1 /\ pc = "melt" /\ failed' = (failed \/ Conflict(Melter[ma]))
      /\ UNCHANGED <<endOf, ctx, nr, chain, melted, lastSim, kind, declared, literals, dirtyDFA,
                     pc, pending, at, cursor, source, mi, marks, history>>
  BY DEF MeltKnown, Melts
<1>3. at \in 1..Len(chain)
  BY <1>2, ChainStates DEF TypeOK, PositionTypes
<1>4. chain[at] \in Allocated
  BY <1>3, ChainStates
<1>5. melted[k].state \in Allocated
  <2>1. k \in 1..Len(melted)
    BY DEF Matches, TypeOK, RoundTypes
  <2>2. melted[k] \in [set : SUBSET Nat, size : Nat, state : Allocated, round : Nat]
    BY <2>1, ElementOfSeq DEF TypeOK, RoundTypes
  <2> QED BY <2>2
<1>6. Retarget(Melter, melted[k].state) \in Seq(Action(Allocated))
  BY <1>3, <1>5, RetargetTypes
<1>7. HeapTypes' /\ Allocated' = Allocated
  <2> HIDE DEF Allocated
  <2> QED BY <1>1, <1>2, <1>4, <1>6, ListChanges
<1>8. failed' \in BOOLEAN /\ stale' \in BOOLEAN
  BY <1>1, <1>2, Zenon
<1>9. SymbolTypes'
  BY <1>2, <1>8 DEF TypeOK, SymbolTypes
<1>10. RoundTypes' /\ MarkTypes' /\ ControlTypes'
  <2>1. pc' \in Phases
    BY <1>2 DEF TypeOK, ControlTypes
  <2> QED BY <1>2, <1>7, <1>8, <2>1, RoundKept, MarksKept, ControlKept DEF history
<1>11. PositionTypes'
  BY <1>2, <1>7 DEF TypeOK, PositionTypes, cursor
<1> QED BY <1>7, <1>9, <1>10, <1>11 DEF TypeOK

\* MeltNew appends a state that Melter does not share.
LEMMA MeltNewTypes == ASSUME TypeOK, MeltNew PROVE TypeOK'
<1> DEFINE a == Melter[ma]
           B == 1..(Len(acts) + 1)
<1>1. /\ acts' = Append(acts, <<>>) /\ endOf' = Append(endOf, EndOfTargets(a))
      /\ ctx' = Append(ctx, \E t \in a.targets : ctx[t]) /\ nr' = Append(nr, LastNr + 1)
      /\ chain' = Append(chain, Len(acts) + 1)
      /\ source' = a.targets /\ mi' = 1 /\ failed' = (failed \/ Conflict(a))
      /\ stale' = (stale \/ ReadsStale(a)) /\ pc' = "meltWith" /\ pc = "melt"
      /\ ma <= Len(Melter)
      /\ UNCHANGED <<melted, lastSim, kind, declared, literals, dirtyDFA, pending, at, cursor, ma,
                     history, marks>>
  BY DEF MeltNew, Melts
<1>2. /\ Allocated = 1..Len(acts) /\ Len(acts) \in Nat \ {0} /\ LastNr \in Nat
      /\ Len(chain) \in Nat \ {0}
  BY ChainStates
<1>3. at \in 1..Len(chain) /\ ma \in Nat \ {0}
  BY <1>1, <1>2 DEF TypeOK, PositionTypes
<1>4. /\ chain[at] \in Allocated /\ Melter \in Seq(Action(Allocated))
      /\ ma \in 1..Len(Melter)
  <2>1. chain[at] \in Allocated /\ Melter \in Seq(Action(Allocated))
    BY <1>3, ChainStates DEF Melter
  <2>2. Len(Melter) \in Nat
    BY <2>1
  <2> QED BY <1>1, <1>3, <2>1, <2>2
<1>5. a \in Action(Allocated) /\ a.targets \subseteq Allocated
  <2>1. a \in Action(Allocated)
    <3> HIDE DEF Melter, Allocated
    <3> QED BY <1>4, ElementOfSeq
  <2> QED BY <2>1 DEF Action
<1>6. EndOfTargets(a) \in Syms \cup {NoSym}
  <2>1. \A t \in Allocated : endOf[t] \in Syms \cup {NoSym}
    BY <1>2, ElementOfSeq DEF TypeOK, HeapTypes
  <2>2. CASE Ending(a) = {}
    BY <2>2 DEF EndOfTargets
  <2>3. CASE Ending(a) # {}
    <3>1. \E t \in Ending(a) : \A u \in Ending(a) : nr[t] <= nr[u]
      <4> DEFINE N == {nr[t] : t \in Ending(a)}
      <4>1. \A t \in Ending(a) : nr[t] \in Nat
        <5>1. Ending(a) \subseteq Allocated /\ nr \in Seq(Nat) /\ Len(nr) = Len(acts)
          BY <1>5 DEF Ending, TypeOK, HeapTypes
        <5> QED BY <1>2, <5>1, ElementOfSeq
      <4>2. N \subseteq Nat /\ N # {}
        BY <2>3, <4>1
      <4> HIDE DEF N
      <4>3. PICK n \in N : \A m \in N : n <= m
        BY ONLY <4>2, LeastNat
      <4> QED BY <4>3 DEF N
    <3>2. (CHOOSE t \in Ending(a) : \A u \in Ending(a) : nr[t] <= nr[u]) \in Ending(a)
      BY <3>1
    <3>3. Ending(a) \subseteq Allocated
      BY <1>5 DEF Ending
    <3> HIDE DEF Allocated
    <3> QED BY <2>1, <2>3, <3>2, <3>3 DEF EndOfTargets
  <2> QED BY <2>2, <2>3
<1> HIDE DEF a
<1>7. acts' \in Seq(Seq(Action(B))) /\ Len(acts') = Len(acts) + 1
      /\ \A q \in Allocated : (acts')[q] = acts[q]
  <2>1. acts \in Seq(Seq(Action(Allocated)))
    BY DEF TypeOK, HeapTypes
  <2>2. Allocated \subseteq B
    BY <1>2
  <2>3. \A S : <<>> \in Seq(S)
    OBVIOUS
  <2>4. acts \in Seq(Seq(Action(B))) /\ <<>> \in Seq(Action(B))
    <3> HIDE DEF B, Allocated
    <3> QED BY <2>1, <2>2, <2>3, ActionGrows
  <2> DEFINE S == Seq(Action(B))
             e == <<>>
  <2>5. acts \in Seq(S) /\ e \in S
    BY <2>4
  <2> HIDE DEF S, e
  <2>6. Append(acts, e) \in Seq(S) /\ Len(Append(acts, e)) = Len(acts) + 1
        /\ \A k \in 1..Len(acts) : Append(acts, e)[k] = acts[k]
    BY <2>5, AppendProperties
  <2> QED BY <1>1, <1>2, <2>6 DEF S, e
<1>8. Allocated' = B /\ Allocated \subseteq Allocated'
  BY <1>2, <1>7 DEF Allocated
<1>9. /\ endOf' \in Seq(Syms \cup {NoSym}) /\ Len(endOf') = Len(acts) + 1
      /\ nr' \in Seq(Nat) /\ Len(nr') = Len(acts) + 1
  BY SMTT(30), <1>1, <1>2, <1>6, AppendProperties DEF TypeOK, HeapTypes
<1>10. ctx' \in Seq(BOOLEAN) /\ Len(ctx') = Len(acts) + 1
  <2> DEFINE b == \E t \in a.targets : ctx[t]
  <2>1. b \in BOOLEAN
    BY Zenon
  <2>2. ctx \in Seq(BOOLEAN) /\ Len(ctx) = Len(acts) /\ ctx' = Append(ctx, b)
    BY <1>1 DEF TypeOK, HeapTypes
  <2> HIDE DEF b
  <2>3. Append(ctx, b) \in Seq(BOOLEAN) /\ Len(Append(ctx, b)) = Len(ctx) + 1
    BY <2>1, <2>2, AppendProperties, Zenon
  <2> QED BY <2>2, <2>3
<1>11. /\ chain' \in Seq(B) /\ Len(chain') = Len(chain) + 1
       /\ \A k \in 1..Len(chain) : (chain')[k] = chain[k]
       /\ (chain')[Len(chain) + 1] = Len(acts) + 1
  <2>1. chain \in Seq(Allocated)
    BY DEF TypeOK, HeapTypes
  <2>2. Allocated \subseteq B /\ Len(acts) + 1 \in B
    BY <1>2
  <2>3. chain \in Seq(B)
    <3> HIDE DEF B, Allocated
    <3> QED BY <2>1, <2>2
  <2> HIDE DEF B
  <2> QED BY <1>1, <2>2, <2>3, AppendProperties
<1>12. ASSUME NEW k \in 1..(Len(chain) + 1), NEW m \in 1..(Len(chain) + 1),
              (chain')[k] = (chain')[m]
       PROVE  k = m
  <2>1. \A x \in 1..Len(chain) : (chain')[x] \in 1..Len(acts)
    BY <1>2, <1>11, ChainStates
  <2>2. CASE k \in 1..Len(chain) /\ m \in 1..Len(chain)
    BY <1>11, <1>12, <2>2, ChainStates DEF TypeOK, HeapTypes
  <2>3. CASE k = Len(chain) + 1 \/ m = Len(chain) + 1
    BY <1>2, <1>11, <1>12, <2>1, <2>3
  <2> QED BY <1>2, <2>2, <2>3
<1>13. chain' # <<>> /\ (chain')[1] = first /\ DOMAIN chain' = 1..(Len(chain) + 1) /\ acts' # <<>>
  <2>1. chain[1] = first /\ 1 \in 1..Len(chain)
    BY <1>2 DEF TypeOK, HeapTypes
  <2>2. DOMAIN chain' = 1..(Len(chain) + 1) /\ chain' # <<>> /\ acts' # <<>>
    BY <1>2, <1>7, <1>11
  <2> QED BY <1>11, <2>1, <2>2
<1>14. HeapTypes'
  BY <1>7, <1>8, <1>9, <1>10, <1>11, <1>12, <1>13 DEF HeapTypes
<1>15. failed' \in BOOLEAN /\ stale' \in BOOLEAN
  BY <1>1, Zenon
<1>16. SymbolTypes'
  BY <1>1, <1>15 DEF TypeOK, SymbolTypes
<1>17. RoundTypes' /\ MarkTypes' /\ ControlTypes'
  <2>1. pc' \in Phases /\ pc' # "convert"
    BY <1>1 DEF Phases
  <2> QED BY <1>1, <1>8, <1>15, <2>1, RoundKept, MarksKept, ControlKept DEF history
<1>18. Melter' = Melter
  BY <1>1, <1>3, <1>4, <1>7, <1>11 DEF Melter
<1>19. PositionTypes'
  BY <1>1, <1>2, <1>3, <1>4, <1>5, <1>8, <1>11, <1>18 DEF TypeOK, PositionTypes, cursor
<1> QED BY <1>14, <1>16, <1>17, <1>19 DEF TypeOK

\* State.MeltWith writes to the new state only, which Melter is not.
LEMMA MeltWithTypes == ASSUME TypeOK, MeltWith PROVE TypeOK'
<1>1. /\ pc = "meltWith" /\ source # {}
      /\ UNCHANGED <<endOf, ctx, nr, chain, melted, lastSim, symbols, pc, pending, at, cursor, ma,
                     marks, history, stale>>
  BY DEF MeltWith
<1>2. /\ Allocated = 1..Len(acts) /\ LastState \in Allocated
      /\ DOMAIN chain = 1..Len(chain) /\ Len(chain) \in Nat \ {0}
      /\ at \in 1..Len(chain) /\ at < Len(chain) /\ chain[at] \in Allocated
  BY <1>1, ChainStates DEF TypeOK, PositionTypes
<1>3. LastState # chain[at]
  <2>1. \A k, m \in DOMAIN chain : chain[k] = chain[m] => k = m
    BY DEF TypeOK, HeapTypes
  <2> QED BY <1>2, <2>1 DEF LastState
<1>4. \E t \in source : \A u \in source : nr[t] <= nr[u]
  <2> DEFINE N == {nr[t] : t \in source}
  <2>1. source \subseteq Allocated /\ nr \in Seq(Nat) /\ Len(nr) = Len(acts)
    BY DEF TypeOK, HeapTypes, PositionTypes
  <2>2. \A t \in source : nr[t] \in Nat
    BY <1>2, <2>1, ElementOfSeq
  <2>3. N \subseteq Nat /\ N # {}
    BY <1>1, <2>2
  <2> HIDE DEF N
  <2>4. PICK n \in N : \A m \in N : n <= m
    BY ONLY <2>3, LeastNat
  <2> QED BY <2>4 DEF N
<1>5. NextSource \in source /\ NextSource \in Allocated
  <2>1. NextSource \in source
    BY <1>4 DEF NextSource
  <2> QED BY <2>1 DEF TypeOK, PositionTypes
<1>6. acts[NextSource] \in Seq(Action(Allocated)) /\ acts[LastState] \in Seq(Action(Allocated))
  BY <1>2, <1>5, ChainStates
<1>7. CASE mi <= Len(acts[NextSource])
  <2>1. /\ acts' = [acts EXCEPT ![LastState] = AddAction(acts[LastState], acts[NextSource][mi])]
        /\ mi' = mi + 1 /\ UNCHANGED source
    BY <1>7 DEF MeltWith
  <2>2. acts[NextSource][mi] \in Action(Allocated)
    <3>1. mi \in 1..Len(acts[NextSource])
      BY <1>6, <1>7 DEF TypeOK, PositionTypes
    <3> HIDE DEF Allocated
    <3> QED BY <1>6, <3>1, ElementOfSeq
  <2>3. AddAction(acts[LastState], acts[NextSource][mi]) \in Seq(Action(Allocated))
    <3> HIDE DEF Allocated
    <3> QED BY <1>6, <2>2, AddActionElements
  <2>4. /\ HeapTypes' /\ Allocated' = Allocated
        /\ \A p \in Allocated : p # LastState => (acts')[p] = acts[p]
    <3> HIDE DEF Allocated, LastState
    <3> QED BY <1>1, <1>2, <2>1, <2>3, ListChanges
  <2>5. Melter' = Melter
    BY <1>1, <1>2, <1>3, <2>4 DEF Melter
  <2>6. PositionTypes'
    BY <1>1, <2>1, <2>4, <2>5 DEF TypeOK, PositionTypes, cursor
  <2>7. RoundTypes' /\ MarkTypes' /\ SymbolTypes' /\ ControlTypes'
    <3>1. stale' \in BOOLEAN /\ pc' \in Phases
      BY <1>1 DEF TypeOK, RoundTypes, ControlTypes
    <3> QED BY <1>1, <2>4, <3>1, RoundKept, MarksKept, SymbolsKept, ControlKept DEF history
  <2> QED BY <2>4, <2>6, <2>7 DEF TypeOK
<1>8. CASE ~(mi <= Len(acts[NextSource]))
  <2>1. source' = source \ {NextSource} /\ mi' = 1 /\ UNCHANGED acts
    BY <1>8 DEF MeltWith
  <2>2. HeapTypes' /\ Allocated' = Allocated
    BY <1>1, <2>1, HeapKept DEF heap
  <2>3. PositionTypes'
    BY <1>1, <2>1, <2>2 DEF TypeOK, PositionTypes, cursor, Melter
  <2>4. RoundTypes' /\ MarkTypes' /\ SymbolTypes' /\ ControlTypes'
    <3>1. stale' \in BOOLEAN /\ pc' \in Phases
      BY <1>1 DEF TypeOK, RoundTypes, ControlTypes
    <3> QED BY <1>1, <2>2, <3>1, RoundKept, MarksKept, SymbolsKept, ControlKept DEF history
  <2> QED BY <2>2, <2>3, <2>4 DEF TypeOK
<1> QED BY <1>7, <1>8

LEMMA NewMeltedTypes == ASSUME TypeOK, NewMelted PROVE TypeOK'
<1> DEFINE x == [set |-> TargetSet(Melter[ma]), size |-> MaxStates, state |-> LastState,
                 round |-> round]
           R == [set : SUBSET Nat, size : Nat, state : Allocated, round : Nat]
<1>1. /\ pc = "meltUnique" /\ melted' = <<x>> \o melted
      /\ acts' = [acts EXCEPT ![chain[at]] = Retarget(Melter, LastState)]
      /\ pc' = "melt" /\ ma' = ma + 1
      /\ UNCHANGED <<endOf, ctx, nr, chain, lastSim, symbols, pending, at, cursor, source, mi,
                     marks, history, stale>>
  BY DEF NewMelted, Melter
<1>2. /\ LastState \in Allocated /\ at \in 1..Len(chain) /\ chain[at] \in Allocated
      /\ Allocated = 1..Len(acts)
  BY <1>1, ChainStates DEF TypeOK, PositionTypes
<1>3. HeapTypes' /\ Allocated' = Allocated
  <2>1. Retarget(Melter, LastState) \in Seq(Action(Allocated))
    BY <1>2, RetargetTypes
  <2> HIDE DEF Allocated, LastState
  <2> QED BY <1>1, <1>2, <2>1, ListChanges
<1>4. x \in R
  <2>1. TargetSet(Melter[ma]) \in SUBSET Nat
    <3>1. nr \in Seq(Nat) /\ Len(nr) = Len(acts)
      BY DEF TypeOK, HeapTypes
    <3>2. \A t \in Allocated : nr[t] \in Nat
      BY <1>2, <3>1, ElementOfSeq
    <3>3. Melter[ma].targets \subseteq Allocated
      <4>1. Melter \in Seq(Action(Allocated)) /\ ma \in 1..Len(Melter)
        <5>1. Melter \in Seq(Action(Allocated))
          BY <1>2, ChainStates DEF Melter
        <5>2. Len(Melter) \in Nat
          BY <5>1
        <5> QED BY <1>1, <5>1, <5>2 DEF TypeOK, PositionTypes
      <4>2. Melter[ma] \in Action(Allocated)
        <5> HIDE DEF Allocated, Melter
        <5> QED BY <4>1, ElementOfSeq
      <4> QED BY <4>2 DEF Action
    <3>4. lastSim \in Nat
      BY DEF TypeOK, RoundTypes
    <3>5. \A n : MeltedSet(n) \cap (0..Stored(MaxStates) - 1) \subseteq Nat
      OBVIOUS
    <3> QED BY <3>2, <3>3, <3>5 DEF TargetSet
  <2>2. MaxStates \in Nat /\ round \in Nat
    BY DEF TypeOK, RoundTypes, MaxStates
  <2> HIDE DEF Allocated
  <2> QED BY <1>2, <2>1, <2>2
<1> HIDE DEF x, R
<1>5. melted' \in Seq(R)
  <2>1. <<x>> \in Seq(R) /\ melted \in Seq(R)
    BY <1>4 DEF TypeOK, RoundTypes, R
  <2> QED BY <1>1, <2>1, ConcatSeq
<1>6. RoundTypes'
  <2>1. round' = round /\ lastSim' = lastSim /\ stale' \in BOOLEAN
    BY <1>1 DEF TypeOK, RoundTypes, history
  <2>2. lastSim \in Nat /\ round \in Nat
    BY DEF TypeOK, RoundTypes
  <2> QED BY <1>3, <1>5, <2>1, <2>2 DEF RoundTypes, R
<1>7. MarkTypes' /\ SymbolTypes' /\ ControlTypes'
  <2>1. pc' \in Phases /\ pc' # "convert"
    BY <1>1 DEF Phases
  <2> QED BY <1>1, <1>3, <2>1, MarksKept, SymbolsKept, ControlKept
<1>8. PositionTypes'
  BY <1>1, <1>3 DEF TypeOK, PositionTypes, cursor
<1> QED BY <1>3, <1>6, <1>7, <1>8 DEF TypeOK

\* An action leads somewhere.
LEMMA TargetAllocated ==
  ASSUME NEW Q, NEW a \in Action(Q)
  PROVE  Target(a) \in Q
BY DEF Action, Target

LEMMA FindUsedTypes == ASSUME TypeOK, FindUsed PROVE TypeOK'
<1> DEFINE q == Head(todo)
           calls == [k \in DOMAIN acts[q] |-> Target(acts[q][k])]
<1>1. /\ pc = "mark" /\ todo # <<>>
      /\ UNCHANGED <<heap, melted, lastSim, symbols, pc, pending, at, cursor, melting, history,
                     stale>>
  BY DEF FindUsed
<1>2. HeapTypes' /\ Allocated' = Allocated
  BY <1>1, HeapKept
<1>3. RoundTypes' /\ SymbolTypes' /\ ControlTypes'
  <2>1. stale' \in BOOLEAN /\ pc' \in Phases
    BY <1>1 DEF TypeOK, RoundTypes, ControlTypes
  <2> QED BY <1>1, <1>2, <2>1, RoundKept, SymbolsKept, ControlKept DEF history
<1>4. PositionTypes'
  BY <1>1, <1>2 DEF TypeOK, PositionTypes, cursor, melting, heap
<1>5. q \in Allocated /\ Tail(todo) \in Seq(Allocated)
  <2>1. todo \in Seq(Allocated) /\ todo # <<>>
    BY <1>1 DEF TypeOK, MarkTypes
  <2> HIDE DEF Allocated
  <2> QED BY <2>1, HeadTailProperties
<1>6. calls \in Seq(Allocated)
  <2>1. acts[q] \in Seq(Action(Allocated))
    BY <1>5, ChainStates
  <2> DEFINE list == acts[q]
  <2> HIDE DEF q, Allocated, list
  <2>2. list \in Seq(Action(Allocated)) /\ Len(list) \in Nat /\ DOMAIN list = 1..Len(list)
    BY <2>1 DEF list
  <2>3. \A k \in 1..Len(list) : Target(list[k]) \in Allocated
    BY <2>2, ElementOfSeq, TargetAllocated
  <2>4. calls \in [1..Len(list) -> Allocated]
    BY <2>2, <2>3 DEF list
  <2> HIDE DEF calls
  <2> QED BY <2>2, <2>4, FunctionSeq
<1>7. nr[q] \in Nat
  <2>1. q \in 1..Len(nr) /\ nr \in Seq(Nat)
    BY <1>5, ChainStates DEF TypeOK, HeapTypes
  <2> QED BY <2>1, ElementOfSeq
<1>8. used' \subseteq Nat /\ todo' \in Seq(Allocated)
  <2>1. CASE nr[q] \in used
    BY <1>5, <2>1 DEF FindUsed, TypeOK, MarkTypes
  <2>2. CASE nr[q] \notin used
    <3>1. used' = used \cup {nr[q]} /\ todo' = calls \o Tail(todo)
      BY <2>2 DEF FindUsed
    <3> HIDE DEF calls, q, Allocated
    <3>2. calls \o Tail(todo) \in Seq(Allocated)
      BY <1>5, <1>6, ConcatSeq, Zenon
    <3> QED BY <1>7, <3>1, <3>2 DEF TypeOK, MarkTypes
  <2> QED BY <2>1, <2>2
<1>9. MarkTypes'
  BY <1>2, <1>8 DEF MarkTypes
<1> QED BY <1>2, <1>3, <1>4, <1>9 DEF TypeOK

\* An action to a final state that is dropped goes to one behind the first state.
LEMMA CombineFinalsInto ==
  ASSUME TypeOK, CombineFinals, NEW S, \A k \in 2..Len(chain) : chain[k] \in S,
         \A q \in Allocated : acts[q] \in Seq(Action(S))
  PROVE  /\ DOMAIN acts' = Allocated
         /\ \A q \in Allocated : (acts')[q] \in Seq(Action(S))
<1> DEFINE pos == DOMAIN chain
           dropped == {m \in pos : \E k \in pos : UsedFinals(k, m)}
           droppedNrs == {nr[chain[m]] : m \in dropped}
           kept == used \ droppedNrs
           Into(m, k) == UsedFinals(k, m) /\ \A j \in 1..(k - 1) : ~UsedFinals(j, m)
           newState(n) == chain[CHOOSE k \in pos :
                                  \E m \in dropped : nr[chain[m]] = n /\ Into(m, k)]
           moved(a) == IF nr[Target(a)] \in droppedNrs
                         THEN [a EXCEPT !.targets = {newState(nr[Target(a)])}] ELSE a
           live == {chain[k] : k \in pos}
           A(q) == IF q \in live /\ nr[q] \in kept
                     THEN [k \in DOMAIN acts[q] |-> moved(acts[q][k])] ELSE acts[q]
<1>1. acts' = [q \in Allocated |-> A(q)]
  BY DEF CombineFinals
<1>2. /\ Allocated = 1..Len(acts) /\ Len(acts) \in Nat \ {0} /\ pos = 1..Len(chain)
      /\ \A k \in pos : chain[k] \in Allocated
      /\ \A q \in Allocated : acts[q] \in Seq(Action(Allocated))
  BY ChainStates
<1>3. \A n \in droppedNrs : newState(n) \in S
  <2> SUFFICES ASSUME NEW n \in droppedNrs PROVE newState(n) \in S
    OBVIOUS
  <2>1. PICK m \in dropped : nr[chain[m]] = n
    OBVIOUS
  <2> DEFINE K == {k \in pos : UsedFinals(k, m)}
  <2>2. K \subseteq Nat /\ K # {}
    BY <1>2, <2>1
  <2> HIDE DEF K
  <2>3. PICK k \in K : \A j \in K : k <= j
    BY ONLY <2>2, LeastNat
  <2>4. k \in pos /\ UsedFinals(k, m)
    BY <2>3 DEF K
  <2>5. \A j \in 1..(k - 1) : ~UsedFinals(j, m)
    <3> SUFFICES ASSUME NEW j \in 1..(k - 1), UsedFinals(j, m) PROVE FALSE
      OBVIOUS
    <3>1. j \in K
      BY <1>2, <2>4 DEF K
    <3> QED BY <1>2, <2>3, <2>4, <3>1
  <2>6. \E kk \in pos : \E mm \in dropped : nr[chain[mm]] = n /\ Into(mm, kk)
    BY <2>1, <2>4, <2>5
  <2>7. \A kk, mm : Into(mm, kk) => 1 < kk
    BY DEF UsedFinals
  <2> HIDE DEF pos, dropped, Into
  <2>8. PICK c : c = CHOOSE kk \in pos : \E mm \in dropped : nr[chain[mm]] = n /\ Into(mm, kk)
    OBVIOUS
  <2>9. c \in pos /\ \E mm \in dropped : nr[chain[mm]] = n /\ Into(mm, c)
    BY <2>6, <2>8
  <2>10. c \in 2..Len(chain)
    BY <1>2, <2>7, <2>9
  <2> QED BY <2>8, <2>10
<1> HIDE DEF newState, droppedNrs
<1>4. ASSUME NEW a \in Action(S) PROVE moved(a) \in Action(S)
  <2>1. CASE nr[Target(a)] \in droppedNrs
    <3>1. {newState(nr[Target(a)])} \in (SUBSET S) \ {{}}
      BY <1>3, <2>1
    <3> QED BY <2>1, <3>1 DEF Action
  <2> QED BY <2>1
<1> HIDE DEF moved
<1>5. ASSUME NEW q \in Allocated PROVE A(q) \in Seq(Action(S))
  <2> DEFINE list == acts[q]
             new == [k \in DOMAIN list |-> moved(list[k])]
  <2>1. list \in Seq(Action(S)) /\ Len(list) \in Nat /\ DOMAIN list = 1..Len(list)
    BY <1>2
  <2>2. A(q) = new \/ A(q) = list
    OBVIOUS
  <2> HIDE DEF list, A
  <2>3. \A k \in 1..Len(list) : moved(list[k]) \in Action(S)
    BY <1>4, <2>1, ElementOfSeq
  <2>4. new \in [1..Len(list) -> Action(S)]
    BY <2>1, <2>3
  <2> HIDE DEF new
  <2>5. new \in Seq(Action(S))
    BY <2>1, <2>4, FunctionSeq
  <2> QED BY <2>1, <2>2, <2>5
<1> HIDE DEF A
<1> QED BY <1>1, <1>5 DEF Allocated

\* Every final state that is dropped has one that takes its place.
LEMMA CombineFinalsTypes == ASSUME TypeOK, CombineFinals PROVE TypeOK'
<1>1. /\ pc = "mark" /\ pc' = "delete" /\ at' = 2 /\ used' \subseteq used
      /\ UNCHANGED <<endOf, ctx, nr, chain, todo, melted, lastSim, symbols, pending, cursor,
                     melting, history, stale>>
  BY DEF CombineFinals
<1>2. /\ Allocated = 1..Len(acts) /\ Len(acts) \in Nat \ {0}
      /\ \A k \in 1..Len(chain) : chain[k] \in Allocated
      /\ \A q \in Allocated : acts[q] \in Seq(Action(Allocated))
  BY ChainStates
<1>3. DOMAIN acts' = Allocated /\ \A q \in Allocated : (acts')[q] \in Seq(Action(Allocated))
  <2>1. \A k \in 2..Len(chain) : chain[k] \in Allocated
    BY <1>2, ChainStates
  <2> HIDE DEF Allocated
  <2> QED BY <1>2, <2>1, CombineFinalsInto
<1>4. acts' = [q \in Allocated |-> (acts')[q]]
  BY DEF CombineFinals
<1>6. HeapTypes' /\ Allocated' = Allocated
  <2>1. acts' \in [1..Len(acts) -> Seq(Action(Allocated))]
    <3>1. acts' \in [Allocated -> Seq(Action(Allocated))]
      <4> HIDE DEF Allocated
      <4> QED BY <1>3, <1>4
    <3> QED BY <1>2, <3>1
  <2>2. /\ acts' \in Seq(Seq(Action(Allocated))) /\ Len(acts') = Len(acts)
        /\ DOMAIN acts' = 1..Len(acts)
    <3> DEFINE S == Seq(Action(Allocated))
    <3> HIDE DEF S
    <3>1. acts' \in [1..Len(acts) -> S]
      BY <2>1 DEF S
    <3> QED BY <1>2, <3>1, FunctionSeq DEF S
  <2>3. Allocated' = Allocated /\ acts' # <<>>
    BY <1>2, <2>2 DEF Allocated
  <2> HIDE DEF Allocated
  <2> QED BY <1>1, <2>2, <2>3 DEF TypeOK, HeapTypes
<1>7. RoundTypes' /\ SymbolTypes' /\ ControlTypes'
  <2>1. stale' \in BOOLEAN /\ pc' \in Phases /\ pc' # "convert"
    BY <1>1 DEF TypeOK, RoundTypes, Phases
  <2> QED BY <1>1, <1>6, <2>1, RoundKept, SymbolsKept, ControlKept DEF history
<1>8. PositionTypes'
  BY <1>1, <1>6 DEF TypeOK, PositionTypes, cursor, melting
<1>9. MarkTypes'
  BY <1>1, <1>6 DEF TypeOK, MarkTypes
<1> QED BY <1>6, <1>7, <1>8, <1>9 DEF TypeOK

LEMMA DeleteStateTypes == ASSUME TypeOK, DeleteState PROVE TypeOK'
<1>1. /\ pc = "delete" /\ at <= Len(chain) /\ at \in Nat /\ 1 < at
      /\ UNCHANGED <<acts, endOf, ctx, melted, lastSim, symbols, pc, pending, cursor, melting,
                     marks, history, stale>>
  BY DEF DeleteState, TypeOK, PositionTypes
<1>2. /\ chain \in Seq(Allocated) /\ chain # <<>> /\ chain[1] = first
      /\ \A k, m \in DOMAIN chain : chain[k] = chain[m] => k = m
      /\ DOMAIN chain = 1..Len(chain) /\ Len(chain) \in Nat \ {0} /\ at \in 1..Len(chain)
  BY <1>1, ChainStates DEF TypeOK, HeapTypes
<1>3. Allocated' = Allocated
  BY <1>1 DEF Allocated
<1>4. RoundTypes' /\ SymbolTypes' /\ ControlTypes' /\ MarkTypes'
  <2>1. stale' \in BOOLEAN /\ pc' \in Phases
    BY <1>1 DEF TypeOK, RoundTypes, ControlTypes
  <2> QED BY <1>1, <1>3, <2>1, RoundKept, SymbolsKept, ControlKept, MarksKept DEF history
<1>5. CASE nr' = [nr EXCEPT ![chain[at]] = at - 1] /\ at' = at + 1 /\ UNCHANGED chain
  <2>1. nr' \in Seq(Nat) /\ Len(nr') = Len(nr)
    <3>1. nr \in Seq(Nat) /\ at - 1 \in Nat /\ chain[at] \in 1..Len(nr)
      BY <1>1, <1>2, ChainStates DEF TypeOK, HeapTypes
    <3>2. nr' = [nr EXCEPT ![chain[at]] = at - 1]
      BY <1>5
    <3> DEFINE q == chain[at]
               n == at - 1
    <3> HIDE DEF q, n
    <3>3. nr \in Seq(Nat) /\ n \in Nat /\ q \in 1..Len(nr) /\ nr' = [nr EXCEPT ![q] = n]
      BY <3>1, <3>2 DEF q, n
    <3> QED BY ONLY <3>3
  <2>2. HeapTypes'
    BY <1>1, <1>3, <1>5, <2>1 DEF TypeOK, HeapTypes
  <2>3. PositionTypes'
    BY <1>1, <1>3, <1>5 DEF TypeOK, PositionTypes, cursor, melting
  <2> QED BY <1>4, <2>2, <2>3 DEF TypeOK
<1>6. CASE chain' = RemoveAt(chain, at) /\ UNCHANGED <<nr, at>>
  <2>1. /\ chain' \in Seq(Allocated) /\ Len(chain') = Len(chain) - 1
        /\ \A k \in 1..(Len(chain) - 1) :
             (chain')[k] = IF k < at THEN chain[k] ELSE chain[k + 1]
    <3>1. chain \in Seq(Allocated) /\ at \in 1..Len(chain) /\ chain' = RemoveAt(chain, at)
      BY <1>2, <1>6
    <3> HIDE DEF Allocated
    <3>2. /\ RemoveAt(chain, at) \in Seq(Allocated)
          /\ Len(RemoveAt(chain, at)) = Len(chain) - 1
          /\ \A k \in 1..(Len(chain) - 1) :
               RemoveAt(chain, at)[k] = IF k < at THEN chain[k] ELSE chain[k + 1]
      BY ONLY <3>1, RemoveAtElements
    <3> QED BY <3>1, <3>2
  <2>2. DOMAIN chain' = 1..(Len(chain) - 1) /\ chain' # <<>> /\ Len(chain) - 1 >= 1
    BY <1>1, <1>2, <2>1
  <2>3. (chain')[1] = first
    BY <1>1, <1>2, <2>1, <2>2
  <2>4. \A k, m \in DOMAIN chain' : (chain')[k] = (chain')[m] => k = m
    <3> SUFFICES ASSUME NEW k \in 1..(Len(chain) - 1), NEW m \in 1..(Len(chain) - 1),
                        (chain')[k] = (chain')[m]
                 PROVE  k = m
      BY <2>2
    <3> DEFINE Old(x) == IF x < at THEN x ELSE x + 1
    <3>1. \A x \in 1..(Len(chain) - 1) : Old(x) \in DOMAIN chain /\ (chain')[x] = chain[Old(x)]
      BY <1>1, <1>2, <2>1
    <3>2. Old(k) = Old(m)
      <4> HIDE DEF Old
      <4> QED BY <1>2, <3>1
    <3> QED BY <1>1, <3>2
  <2>5. HeapTypes'
    BY <1>1, <1>3, <1>6, <2>1, <2>2, <2>3, <2>4 DEF TypeOK, HeapTypes
  <2>6. PositionTypes'
    BY <1>1, <1>3, <1>6 DEF TypeOK, PositionTypes, cursor, melting
  <2> QED BY <1>4, <2>5, <2>6 DEF TypeOK
<1> QED BY <1>1, <1>5, <1>6 DEF DeleteState

LEMMA CombineTypes == ASSUME TypeOK, Combine PROVE TypeOK'
<1> DEFINE a == Melter[ia]
           b == Melter[ib]
           x == ShiftWith(a, a.syms \cup b.syms)
           mid == [Melter EXCEPT ![ia] = x]
           list == DetachAction(mid, ib)
<1>1. /\ pc = "combine" /\ ib <= Len(Melter)
      /\ UNCHANGED <<endOf, ctx, nr, chain, melted, lastSim, symbols, pc, pending, at, ia, changed,
                     melting, marks, history, stale>>
  BY DEF Combine
<1>2. at \in 1..Len(chain) /\ chain[at] \in Allocated /\ Melter \in Seq(Action(Allocated))
  <2>1. at \in 1..Len(chain)
    BY <1>1, ChainStates DEF TypeOK, PositionTypes
  <2> QED BY <2>1, ChainStates DEF Melter
<1>3. ia \in 1..Len(Melter) /\ ib \in 1..Len(Melter) /\ ia < ib
  <2>1. Len(Melter) \in Nat
    BY <1>2
  <2> QED BY <1>1, <2>1 DEF TypeOK, PositionTypes
<1>4. mid \in Seq(Action(Allocated)) /\ Len(mid) = Len(Melter)
  <2> HIDE DEF Allocated, Melter
  <2>1. a \in Action(Allocated) /\ b \in Action(Allocated)
    BY <1>2, <1>3, ElementOfSeq
  <2>2. a.syms \cup b.syms \in SUBSET Chars
    BY <2>1 DEF Action
  <2>3. x \in Action(Allocated)
    BY <2>1, <2>2, ShiftWithAction
  <2> HIDE DEF x
  <2> QED BY <1>2, <1>3, <2>3
<1> HIDE DEF mid
<1>5. list \in Seq(Action(Allocated))
  <2> HIDE DEF Allocated, Melter
  <2> QED BY <1>3, <1>4, DetachElements
<1>6. CASE acts' = [acts EXCEPT ![chain[at]] = list] /\ UNCHANGED ib
  <2>1. HeapTypes' /\ Allocated' = Allocated
    <3> HIDE DEF Allocated, list
    <3> QED BY <1>1, <1>2, <1>5, <1>6, ListChanges
  <2>2. RoundTypes' /\ SymbolTypes' /\ ControlTypes' /\ MarkTypes'
    <3>1. stale' \in BOOLEAN /\ pc' \in Phases
      BY <1>1 DEF TypeOK, RoundTypes, ControlTypes
    <3> QED BY <1>1, <2>1, <3>1, RoundKept, SymbolsKept, ControlKept, MarksKept DEF history
  <2>3. PositionTypes'
    BY <1>1, <1>6, <2>1 DEF TypeOK, PositionTypes, melting
  <2> QED BY <2>1, <2>2, <2>3 DEF TypeOK
<1>7. CASE ib' = ib + 1 /\ UNCHANGED acts
  <2>1. HeapTypes' /\ Allocated' = Allocated
    BY <1>1, <1>7, HeapKept DEF heap
  <2>2. RoundTypes' /\ SymbolTypes' /\ ControlTypes' /\ MarkTypes'
    <3>1. stale' \in BOOLEAN /\ pc' \in Phases
      BY <1>1 DEF TypeOK, RoundTypes, ControlTypes
    <3> QED BY <1>1, <2>1, <3>1, RoundKept, SymbolsKept, ControlKept, MarksKept DEF history
  <2>3. PositionTypes'
    BY <1>1, <1>7, <2>1 DEF TypeOK, PositionTypes, melting
  <2> QED BY <2>1, <2>2, <2>3 DEF TypeOK
<1> QED BY <1>6, <1>7 DEF Combine, mid, Melter

----------------------------------------------------------------------------
\* The automaton, its lists and every position the program holds in them stay well
\* formed through declarations, splitting, melting and the renumbering of states,
\* for every set of characters, every token graph and any number of tokens.
THEOREM TypeCorrect == Spec => []TypeOK
<1>1. TypeOK /\ [Next]_vars => TypeOK'
  <2> SUFFICES ASSUME TypeOK, [Next]_vars PROVE TypeOK'
    OBVIOUS
  <2>1. CASE \E s \in Syms : DeclareToken(s) \/ UseLiteral(s)
    BY <2>1, DeclareTypes
  <2>2. CASE NewTransition
    BY <2>2, NewTransitionTypes
  <2>3. CASE Productions \/ WriteScanner
    BY <2>3, WriteTypes
  <2>4. CASE NextA \/ NextPass \/ NextUnique \/ MeltSkip \/ MeltedAll \/ MeltNext
             \/ DeletedAll \/ CombineNext \/ Return \/ Abandon \/ Finished
    BY <2>4, CursorSteps
  <2>5. CASE Compare
    BY <2>5, CompareTypes
  <2>6. CASE MeltKnown
    BY <2>6, MeltKnownTypes
  <2>7. CASE MeltNew
    BY <2>7, MeltNewTypes
  <2>8. CASE MeltWith
    BY <2>8, MeltWithTypes
  <2>9. CASE NewMelted
    BY <2>9, NewMeltedTypes
  <2>10. CASE FindUsed
    BY <2>10, FindUsedTypes
  <2>11. CASE CombineFinals
    BY <2>11, CombineFinalsTypes
  <2>12. CASE DeleteState
    BY <2>12, DeleteStateTypes
  <2>13. CASE Combine
    BY <2>13, CombineTypes
  <2>14. CASE UNCHANGED vars
    <3>1. pc \in {"written", "abandoned"} /\ UNCHANGED vars => Finished
      BY DEF Finished
    <3>2. HeapTypes' /\ Allocated' = Allocated
      BY <2>14, HeapKept DEF vars
    <3>3. stale' \in BOOLEAN /\ pc' \in Phases
      BY <2>14 DEF vars, TypeOK, RoundTypes, ControlTypes
    <3>4. RoundTypes' /\ SymbolTypes' /\ ControlTypes' /\ MarkTypes'
      BY <2>14, <3>2, <3>3, RoundKept, SymbolsKept, ControlKept, MarksKept DEF vars, history
    <3>5. PositionTypes'
      BY <2>14, <3>2 DEF TypeOK, PositionTypes, vars, cursor, melting, heap, Melter
    <3> QED BY <3>2, <3>4, <3>5 DEF TypeOK
  <2> QED
    BY <2>1, <2>2, <2>3, <2>4, <2>5, <2>6, <2>7, <2>8, <2>9, <2>10, <2>11, <2>12, <2>13, <2>14
       DEF Next, Determinizing, MakeUnique, MeltStates, DeleteRedundantStates, CombineShifts
<1> QED BY InitTypes, <1>1, PTL DEF Spec

\* No pass of MakeUnique ever changes a move of any state, although SplitActions
\* rewrites the list that MakeUnique is walking.
THEOREM MakeUniqueKeepsMoves == Spec => UniqueKeepsMoves
<1>1. TypeOK /\ [Next]_vars =>
        [(pc \in {"unique", "meltUnique"} /\ pc' = pc)
           => (\A q \in Allocated : SameMoves((acts')[q], acts[q]))]_vars
  <2> SUFFICES ASSUME TypeOK, Next, pc \in {"unique", "meltUnique"}, pc' = pc,
                      NEW q \in Allocated
               PROVE  SameMoves((acts')[q], acts[q])
    OBVIOUS
  <2>1. CASE acts' = acts
    BY <2>1 DEF SameMoves
  <2>2. CASE Compare /\ acts' # acts
    <3> DEFINE list == acts[Subject]
               r == SplitActions(list, ia, ib)
    <3>1. acts' = [acts EXCEPT ![Subject] = r.acts] /\ ib <= Len(list)
      BY <2>2 DEF Compare
    <3>2. /\ Subject \in Allocated /\ list \in Seq(Action(Allocated))
          /\ ia \in 1..Len(list) /\ ib \in 1..Len(list) /\ ia < ib
      <4>1. Subject \in Allocated /\ list \in Seq(Action(Allocated))
        BY SubjectAllocated
      <4>2. Len(list) \in Nat
        BY <4>1
      <4> QED BY <3>1, <4>1, <4>2 DEF TypeOK, PositionTypes
    <3>3. SameMoves(r.acts, list)
      <4> HIDE DEF list, Allocated
      <4> QED BY <3>2, SplitKeepsMoves DEF SplitResult
    <3>4. CASE q = Subject
      <4>1. (acts')[q] = r.acts
        BY <3>1, <3>2, <3>4 DEF Allocated
      <4> QED BY <3>3, <3>4, <4>1
    <3>5. CASE q # Subject
      <4>1. (acts')[q] = acts[q]
        BY SMTT(30), <3>1, <3>2, <3>5 DEF Allocated
      <4> QED BY <4>1 DEF SameMoves
    <3> QED BY <3>4, <3>5
  <2>3. acts' = acts \/ Compare
    BY DEF Next, Determinizing, MakeUnique, MeltStates, DeleteRedundantStates, CombineShifts,
           DeclareToken, UseLiteral, NewTransition, Productions, StartRound, WriteScanner,
           Abandon, NextA, NextPass, NextUnique, MeltSkip, MeltKnown, MeltNew, Melts, MeltWith,
           MeltedAll, NewMelted, MeltNext, FindUsed, CombineFinals, DeleteState, DeletedAll,
           Combine, CombineNext, Return, Finished, heap, vars
  <2> QED BY <2>1, <2>2, <2>3
<1> QED BY TypeCorrect, <1>1, PTL DEF Spec, UniqueKeepsMoves

----------------------------------------------------------------------------
(* What is written is deterministic.                                       *)

\* A nonempty set of states with at most one element is a singleton.
LEMMA SmallSetSingle ==
  ASSUME TypeOK, NEW T, T \subseteq Allocated, T # {}, Cardinality(T) <= 1
  PROVE  IsSingle(T)
<1>1. IsFiniteSet(T)
  <2>1. Len(acts) \in Nat /\ Allocated = 1..Len(acts)
    BY ChainStates
  <2>2. IsFiniteSet(1..Len(acts))
    BY <2>1, FS_Interval
  <2> QED BY <2>1, <2>2, FS_Subset
<1>2. Cardinality(T) = 1
  BY <1>1, FS_CardinalityType, FS_EmptySet
<1> QED BY <1>1, <1>2, FS_Singleton DEF IsSingle

\* Retarget changes the targets of the action being melted and nothing else.
LEMMA RetargetElements ==
  ASSUME TypeOK, NEW q, at \in 1..Len(chain)
  PROVE  /\ DOMAIN Retarget(Melter, q) = DOMAIN Melter
         /\ \A m \in DOMAIN Melter :
              /\ Retarget(Melter, q)[m].syms = Melter[m].syms
              /\ m # ma => Retarget(Melter, q)[m] = Melter[m]
              /\ m = ma => Retarget(Melter, q)[m].targets = {q}
<1>1. Melter \in Seq(Action(Allocated))
  BY ChainStates DEF Melter
<1>2. \A m \in DOMAIN Melter : Melter[m] \in Action(Allocated)
  <2> HIDE DEF Melter, Allocated
  <2> QED BY <1>1, ElementOfSeq
<1> HIDE DEF Melter, Allocated
<1>3. \A m \in DOMAIN Melter : [Melter[m] EXCEPT !.targets = {q}].targets = {q}
                            /\ [Melter[m] EXCEPT !.targets = {q}].syms = Melter[m].syms
  BY <1>2 DEF Action
<1> QED BY <1>1, <1>3 DEF Retarget

\* A list whose actions have the characters of another's is disjoint with it.
LEMMA DisjointSyms ==
  ASSUME NEW l1, NEW l2, DOMAIN l1 = DOMAIN l2, \A m \in DOMAIN l1 : l1[m].syms = l2[m].syms,
         Disjoint(l2)
  PROVE  Disjoint(l1)
BY DEF Disjoint, Overlap

\* Once every pair of positions has been compared, the list is disjoint.
LEMMA PassMakesDisjoint ==
  ASSUME TypeOK, pc \in {"unique", "meltUnique"}, ComparedApart, PassEnded
  PROVE  Disjoint(acts[Subject])
<1>1. acts[Subject] \in Seq(Action(Allocated)) 
  BY SubjectAllocated
<1>2. Len(acts[Subject]) \in Nat /\ DOMAIN acts[Subject] = 1..Len(acts[Subject]) /\ ia \in Nat
  BY <1>1 DEF TypeOK, PositionTypes
<1> DEFINE list == acts[Subject]
<1>3. \A i, j \in DOMAIN list : i < j => ~Overlap(list[i], list[j])
  BY <1>2 DEF ComparedApart, PassEnded
<1>4. \A i, j \in DOMAIN list : Overlap(list[i], list[j]) => Overlap(list[j], list[i])
  BY DEF Overlap
<1>5. \A i, j \in DOMAIN list : i # j => i < j \/ j < i
  BY <1>2
<1> HIDE DEF list
<1> QED BY <1>3, <1>4, <1>5 DEF Disjoint, list

\* Declarations leave the phases in which something has been reached, and a literal
\* that adds states sets dirtyDFA.
LEMMA DeclareSoFar ==
  ASSUME TypeOK, DeterministicSoFar, NEW s \in Syms, DeclareToken(s) \/ UseLiteral(s)
  PROVE  DeterministicSoFar'
<1>1. CASE DeclareToken(s)
  <2>1. pc' \in {"tokens", "convert"}
    BY <1>1 DEF DeclareToken, AddToken
  <2> QED BY <2>1 DEF DeterministicSoFar
<1>2. CASE UseLiteral(s)
  <2>1. pc' = "productions" /\ pc = "productions"
    BY <1>2 DEF UseLiteral
  <2>2. dirtyDFA' = TRUE \/ UNCHANGED <<heap, dirtyDFA>>
    BY <1>2 DEF UseLiteral, MatchLiteral, AddPath, MatchExisting
  <2>3. CASE dirtyDFA' = TRUE
    BY <2>1, <2>3 DEF DeterministicSoFar
  <2>4. CASE UNCHANGED <<heap, dirtyDFA>>
    BY <2>1, <2>4 DEF DeterministicSoFar, heap
  <2> QED BY <2>2, <2>3, <2>4
<1> QED BY <1>1, <1>2

LEMMA StartSoFar ==
  ASSUME TypeOK, TypeOK', DeterministicSoFar, Productions \/ WriteScanner
  PROVE  DeterministicSoFar'
<1>1. CASE StartRound
  <2>1. pc' = "unique" /\ at' = 1 /\ ia' = 1 /\ ib' = 2
    BY <1>1 DEF StartRound
  <2>2. acts' = acts /\ chain' = chain /\ Subject' = first
    BY <1>1, <2>1 DEF StartRound, Subject, TypeOK, HeapTypes
  <2>3. DOMAIN acts[first] \subseteq Nat \ {0} /\ DOMAIN chain \subseteq Nat \ {0}
    <3>1. acts[first] \in Seq(Action(Allocated)) /\ chain \in Seq(Allocated)
      BY ChainStates DEF TypeOK, HeapTypes
    <3> QED BY <3>1
  <2>4. ComparedApart'
    BY <2>1, <2>2, <2>3 DEF ComparedApart
  <2> QED BY <2>1, <2>2, <2>3, <2>4 DEF DeterministicSoFar
<1>2. CASE pc = "productions" /\ ~Rerun /\ pc' = "written" /\ UNCHANGED heap
  BY <1>2 DEF DeterministicSoFar, Rerun, heap
<1> QED BY <1>1, <1>2 DEF Productions, WriteScanner

\* Where the cursor of the pass moves, what is reached moves with it.
LEMMA CursorSoFar ==
  ASSUME TypeOK, DeterministicSoFar, NextA \/ NextPass \/ NextUnique
  PROVE  DeterministicSoFar'
<1>1. UNCHANGED heap
  BY DEF NextA, NextPass, NextUnique
<1>2. acts' = acts /\ chain' = chain
  BY <1>1 DEF heap
<1>3. at \in Nat \ {0} /\ ia \in Nat /\ ib \in Nat /\ ia < ib
  BY DEF TypeOK, PositionTypes
<1>4. DOMAIN chain = 1..Len(chain) /\ Len(chain) \in Nat \ {0}
  BY ChainStates
<1>5. ASSUME pc \in {"unique", "meltUnique"}
      PROVE  DOMAIN acts[Subject] = 1..Len(acts[Subject]) /\ Len(acts[Subject]) \in Nat
  <2>1. acts[Subject] \in Seq(Action(Allocated))
    BY <1>5, SubjectAllocated
  <2> QED BY <2>1
<1>6. CASE NextA
  <2>1. /\ pc' = pc /\ at' = at /\ ma' = ma /\ dirtyDFA' = dirtyDFA /\ changed' = changed
        /\ ia' = ia + 1 /\ ib' = ia + 2 /\ ib > Len(acts[Subject])
        /\ pc \in {"unique", "meltUnique", "combine"}
    BY <1>6 DEF NextA, melting, symbols
  <2>2. Subject' = Subject
    BY <1>2, <2>1 DEF Subject, LastState
  <2>3. ASSUME pc \in {"unique", "meltUnique"}, ComparedApart PROVE ComparedApart'
    <3> SUFFICES ASSUME NEW i \in DOMAIN acts[Subject], NEW j \in DOMAIN acts[Subject],
                        i < j /\ (i < ia' \/ (i = ia' /\ j < ib'))
                 PROVE  ~Overlap(acts[Subject][i], acts[Subject][j])
      BY <1>2, <2>2 DEF ComparedApart
    <3>1. i < ia \/ (i = ia /\ j < ib)
      BY <1>3, <1>5, <2>1, <2>3
    <3> QED BY <2>3, <3>1 DEF ComparedApart
  <2>4. pc \in {"unique", "meltUnique"} /\ ~changed => ComparedApart'
    BY <2>3 DEF DeterministicSoFar
  <2> QED BY <1>2, <2>1, <2>4 DEF DeterministicSoFar
<1>7. CASE NextPass
  <2>1. /\ pc' = pc /\ at' = at /\ ma' = ma /\ ia' = 1 /\ ib' = 2
        /\ pc \in {"unique", "meltUnique"}
    BY <1>7 DEF NextPass, melting, symbols
  <2>2. Subject' = Subject
    BY <1>2, <2>1 DEF Subject, LastState
  <2>3. ComparedApart'
    <3> SUFFICES ASSUME NEW i \in DOMAIN acts[Subject], NEW j \in DOMAIN acts[Subject],
                        i < j /\ (i < 1 \/ (i = 1 /\ j < 2))
                 PROVE  FALSE
      BY <1>2, <2>1, <2>2 DEF ComparedApart
    <3> QED BY <1>5, <2>1
  <2> QED BY <1>2, <2>1, <2>3 DEF DeterministicSoFar
<1>8. CASE NextUnique
  <2>1. /\ pc = "unique" /\ PassEnded /\ ~changed /\ ia' = 1 /\ ib' = 2 /\ ma' = 1
        /\ \/ at < Len(chain) /\ at' = at + 1 /\ pc' = "unique"
           \/ ~(at < Len(chain)) /\ at' = 1 /\ pc' = "melt"
    BY <1>8 DEF NextUnique
  <2>2. Disjoint(acts[chain[at]])
    BY <2>1, PassMakesDisjoint DEF DeterministicSoFar, Subject
  <2>3. at \in DOMAIN chain /\ \A k \in DOMAIN chain : k <= at => Disjoint(acts[chain[k]])
    BY <1>3, <1>4, <2>1, <2>2 DEF DeterministicSoFar, TypeOK, PositionTypes
  <2>4. CASE at < Len(chain) /\ at' = at + 1 /\ pc' = "unique"
    <3>1. \A k \in DOMAIN chain : k < at + 1 => k <= at
      BY <1>3, <1>4
    <3>2. at + 1 \in DOMAIN chain /\ Subject' = chain[at + 1]
      BY <1>2, <1>3, <1>4, <2>4 DEF Subject
    <3>3. DOMAIN acts[chain[at + 1]] \subseteq Nat \ {0}
      <4>1. acts[chain[at + 1]] \in Seq(Action(Allocated))
        BY <1>4, <3>2, ChainStates
      <4> QED BY <4>1
    <3>4. ComparedApart'
      BY <1>2, <2>1, <3>2, <3>3 DEF ComparedApart
    <3> QED BY <1>2, <2>3, <2>4, <3>1, <3>4 DEF DeterministicSoFar
  <2>5. CASE ~(at < Len(chain)) /\ at' = 1 /\ pc' = "melt"
    <3>1. \A k \in DOMAIN chain : k <= at
      BY <1>3, <1>4, <2>5
    <3>2. \A k \in DOMAIN chain : Disjoint(acts[chain[k]])
      BY <2>3, <3>1
    <3>3. \A k \in DOMAIN chain : \A m \in DOMAIN acts[chain[k]] :
            ~(k < 1 \/ (k = 1 /\ m < 1))
      <4> SUFFICES ASSUME NEW k \in DOMAIN chain, NEW m \in DOMAIN acts[chain[k]]
                   PROVE  k \in Nat \ {0} /\ m \in Nat \ {0}
        OBVIOUS
      <4>1. acts[chain[k]] \in Seq(Action(Allocated))
        BY <1>4, ChainStates
      <4> QED BY <1>4, <4>1
    <3> QED BY <1>2, <2>1, <2>5, <3>2, <3>3 DEF DeterministicSoFar
  <2> QED BY <2>1, <2>4, <2>5
<1> QED BY <1>6, <1>7, <1>8

\* MeltStates steps over an action that has one target, and over a state whose
\* actions all have one.
LEMMA MeltCursorSoFar ==
  ASSUME TypeOK, DeterministicSoFar, MeltSkip \/ MeltedAll \/ MeltNext
  PROVE  DeterministicSoFar'
<1>1. acts' = acts /\ chain' = chain
  BY DEF MeltSkip, MeltedAll, MeltNext, heap
<1>2. at \in Nat \ {0} /\ ma \in Nat \ {0}
  BY DEF TypeOK, PositionTypes
<1>3. DOMAIN chain = 1..Len(chain) /\ Len(chain) \in Nat \ {0}
  BY ChainStates
<1>4. \A k \in DOMAIN chain : /\ acts[chain[k]] \in Seq(Action(Allocated))
                              /\ DOMAIN acts[chain[k]] = 1..Len(acts[chain[k]])
                              /\ Len(acts[chain[k]]) \in Nat
  <2> SUFFICES ASSUME NEW k \in DOMAIN chain
               PROVE /\ acts[chain[k]] \in Seq(Action(Allocated))
                     /\ DOMAIN acts[chain[k]] = 1..Len(acts[chain[k]])
                     /\ Len(acts[chain[k]]) \in Nat
    OBVIOUS
  <2>1. acts[chain[k]] \in Seq(Action(Allocated))
    BY <1>3, ChainStates
  <2> QED BY <2>1
<1>5. CASE MeltSkip
  <2>1. /\ pc = "melt" /\ pc' = pc /\ at' = at /\ ma' = ma + 1
        /\ ma <= Len(Melter) /\ Cardinality(Melter[ma].targets) <= 1
    BY <1>5 DEF MeltSkip
  <2>2. at \in DOMAIN chain
    BY <1>2, <1>3, <2>1 DEF TypeOK, PositionTypes
  <2>3. ma \in DOMAIN Melter
    BY <1>2, <1>4, <2>1, <2>2 DEF Melter
  <2>4. Melter[ma] \in Action(Allocated)
    <3> DEFINE list == Melter
    <3>1. list \in Seq(Action(Allocated)) /\ ma \in 1..Len(list)
      BY <1>4, <2>2, <2>3 DEF Melter
    <3> HIDE DEF list, Allocated
    <3> QED BY <3>1, ElementOfSeq DEF list
  <2>5. IsSingle(Melter[ma].targets)
    <3> DEFINE T == Melter[ma].targets
    <3>1. T \subseteq Allocated /\ T # {} /\ Cardinality(T) <= 1
      BY <2>1, <2>4 DEF Action
    <3> HIDE DEF T, Allocated
    <3> QED BY <3>1, SmallSetSingle DEF T
  <2>6. \A k \in DOMAIN chain : \A m \in DOMAIN acts[chain[k]] :
          k < at \/ (k = at /\ m < ma + 1) => IsSingle(acts[chain[k]][m].targets)
    <3> SUFFICES ASSUME NEW k \in DOMAIN chain, NEW m \in DOMAIN acts[chain[k]],
                        k < at \/ (k = at /\ m < ma + 1)
                 PROVE  IsSingle(acts[chain[k]][m].targets)
      OBVIOUS
    <3>1. k < at \/ (k = at /\ m < ma) \/ (k = at /\ m = ma)
      BY <1>2, <1>3, <1>4
    <3> QED BY <2>1, <2>5, <3>1 DEF DeterministicSoFar, Melter
  <2> QED BY <1>1, <2>1, <2>6 DEF DeterministicSoFar
<1>6. CASE MeltedAll
  <2>1. /\ pc = "meltWith" /\ pc' = "meltUnique" /\ at' = at /\ ma' = ma
        /\ ia' = 1 /\ ib' = 2
    BY <1>6 DEF MeltedAll, melting
  <2>2. Subject' = LastState
    BY <1>1, <2>1 DEF Subject, LastState
  <2>3. DOMAIN acts[LastState] \subseteq Nat \ {0}
    BY <1>3, <1>4 DEF LastState
  <2>4. ComparedApart'
    BY <1>1, <2>1, <2>2, <2>3 DEF ComparedApart
  <2> QED BY <1>1, <2>1, <2>4 DEF DeterministicSoFar
<1>7. CASE MeltNext
  <2>1. /\ pc = "melt" /\ ma > Len(Melter) /\ ma' = 1
        /\ \/ at < Len(chain) /\ at' = at + 1 /\ pc' = pc
           \/ ~(at < Len(chain)) /\ at' = 1 /\ pc' = "mark"
    BY <1>7 DEF MeltNext
  <2>2. at \in DOMAIN chain
    BY <1>2, <1>3, <2>1 DEF TypeOK, PositionTypes
  <2>3. \A k \in DOMAIN chain : k <= at =>
          \A m \in DOMAIN acts[chain[k]] : IsSingle(acts[chain[k]][m].targets)
    <3> SUFFICES ASSUME NEW k \in DOMAIN chain, k <= at, NEW m \in DOMAIN acts[chain[k]]
                 PROVE  IsSingle(acts[chain[k]][m].targets)
      OBVIOUS
    <3>1. k < at \/ (k = at /\ m < ma)
      BY <1>2, <1>3, <1>4, <2>1, <2>2 DEF Melter
    <3> QED BY <2>1, <3>1 DEF DeterministicSoFar
  <2>4. CASE at < Len(chain) /\ at' = at + 1 /\ pc' = pc
    <3>1. \A k \in DOMAIN chain : \A m \in DOMAIN acts[chain[k]] :
            k < at + 1 \/ (k = at + 1 /\ m < 1) => k <= at
      BY <1>2, <1>3, <1>4
    <3> QED BY <1>1, <2>1, <2>3, <2>4, <3>1 DEF DeterministicSoFar
  <2>5. CASE ~(at < Len(chain)) /\ at' = 1 /\ pc' = "mark"
    <3>1. \A k \in DOMAIN chain : k <= at
      BY <1>2, <1>3, <2>2, <2>5
    <3>2. \A k \in DOMAIN chain : DeterministicList(acts[chain[k]])
      BY <2>1, <2>3, <3>1 DEF DeterministicSoFar, DeterministicList
    <3> QED BY <1>1, <2>5, <3>2 DEF DeterministicSoFar
  <2> QED BY <2>1, <2>4, <2>5
<1> QED BY <1>5, <1>6, <1>7

\* Steps that leave the lists alone once every state of the chain is deterministic,
\* or before MakeDeterministic is started.
LEMMA QuietSoFar ==
  ASSUME TypeOK, DeterministicSoFar,
         NewTransition \/ FindUsed \/ DeletedAll \/ CombineNext \/ Return \/ Abandon
         \/ Finished \/ UNCHANGED vars
  PROVE  DeterministicSoFar'
<1>1. CASE NewTransition
  <2>1. pc' \in {"tokens", "convert"}
    BY <1>1 DEF NewTransition
  <2> QED BY <2>1 DEF DeterministicSoFar
<1>2. CASE FindUsed \/ DeletedAll \/ CombineNext \/ Return
  <2>1. /\ acts' = acts /\ chain' = chain
        /\ pc \in {"mark", "delete", "combine", "deterministic"}
        /\ pc' \in {"mark", "delete", "combine", "deterministic", "productions", "written"}
    BY <1>2 DEF FindUsed, DeletedAll, CombineNext, Return, heap
  <2> QED BY <2>1 DEF DeterministicSoFar
<1>3. CASE Abandon
  <2>1. pc' = "abandoned"
    BY <1>3 DEF Abandon
  <2> QED BY <2>1 DEF DeterministicSoFar
<1>4. CASE Finished \/ UNCHANGED vars
  <2>1. UNCHANGED <<acts, chain, pc, at, ma, ia, ib, changed, dirtyDFA>>
    BY <1>4 DEF Finished, vars, heap, cursor, melting, symbols
  <2> QED BY <2>1 DEF DeterministicSoFar, ComparedApart, Subject, LastState
<1> QED BY <1>1, <1>2, <1>3, <1>4

\* A step that changes the list of the state at one position of the chain leaves the
\* lists at the other positions alone.
LEMMA OneListChanges ==
  ASSUME TypeOK, NEW p \in DOMAIN chain, NEW list,
         acts' = [acts EXCEPT ![chain[p]] = list], chain' = chain
  PROVE  /\ (acts')[chain[p]] = list
         /\ \A k \in DOMAIN chain : k # p => (acts')[chain[k]] = acts[chain[k]]
<1>1. chain[p] \in DOMAIN acts /\ \A k \in DOMAIN chain : chain[k] = chain[p] => k = p
  BY ChainStates DEF TypeOK, HeapTypes, Allocated
<1> QED BY <1>1

\* A split changes the list of the state MakeUnique is at and starts another pass.
LEMMA CompareSoFar ==
  ASSUME TypeOK, DeterministicSoFar, Compare
  PROVE  DeterministicSoFar'
<1>1. /\ pc \in {"unique", "meltUnique"} /\ pc' = pc /\ at' = at /\ ma' = ma
      /\ chain' = chain /\ dirtyDFA' = dirtyDFA
  BY DEF Compare, melting, symbols
<1>2. DOMAIN chain = 1..Len(chain) /\ Len(chain) \in Nat \ {0} /\ at \in Nat \ {0}
  BY ChainStates DEF TypeOK, PositionTypes
<1> DEFINE p == IF pc = "meltUnique" THEN Len(chain) ELSE at
           list == SplitActions(acts[Subject], ia, ib).acts
<1>3. p \in DOMAIN chain /\ Subject = chain[p] /\ Subject' = Subject
  BY <1>1, <1>2 DEF Subject, LastState, TypeOK, PositionTypes
<1>4. CASE acts' = [acts EXCEPT ![Subject] = list] /\ changed' = TRUE
  <2>1. \A k \in DOMAIN chain : k # p => (acts')[chain[k]] = acts[chain[k]]
    <3> HIDE DEF list, p
    <3> QED BY <1>1, <1>3, <1>4, OneListChanges
  <2>2. CASE pc = "unique"
    <3>1. \A k \in DOMAIN chain : k < at => Disjoint((acts')[chain[k]])
      BY <1>2, <2>1, <2>2 DEF DeterministicSoFar
    <3> QED BY <1>1, <1>4, <2>2, <3>1 DEF DeterministicSoFar
  <2>3. CASE pc = "meltUnique"
    <3>1. \A k \in DOMAIN chain : k < Len(chain) => (acts')[chain[k]] = acts[chain[k]]
      BY <1>2, <2>1, <2>3
    <3>2. at < Len(chain)
      BY <2>3 DEF TypeOK, PositionTypes
    <3>3. \A k \in DOMAIN chain : k <= at => (acts')[chain[k]] = acts[chain[k]]
      BY <1>2, <3>1, <3>2
    <3>4. \A k \in DOMAIN chain : \A m \in DOMAIN (acts')[chain[k]] :
            k < at \/ (k = at /\ m < ma) => IsSingle((acts')[chain[k]][m].targets)
      BY <1>2, <2>3, <3>3 DEF DeterministicSoFar
    <3>5. \A k \in DOMAIN chain : k < Len(chain) => Disjoint((acts')[chain[k]])
      BY <2>3, <3>1 DEF DeterministicSoFar
    <3> QED BY <1>1, <1>4, <2>3, <3>4, <3>5 DEF DeterministicSoFar
  <2> QED BY <1>1, <2>2, <2>3
<1>5. CASE /\ ib <= Len(acts[Subject]) /\ ~Overlap(acts[Subject][ia], acts[Subject][ib])
           /\ ib' = ib + 1 /\ UNCHANGED <<acts, ia, changed>>
  <2>1. acts[Subject] \in Seq(Action(Allocated)) /\ ia \in Nat /\ ib \in Nat /\ ia < ib
    BY <1>1, SubjectAllocated DEF TypeOK, PositionTypes
  <2>2. DOMAIN acts[Subject] = 1..Len(acts[Subject]) /\ Len(acts[Subject]) \in Nat
    BY <2>1
  <2>3. ASSUME ComparedApart PROVE ComparedApart'
    <3> SUFFICES ASSUME NEW i \in DOMAIN acts[Subject], NEW j \in DOMAIN acts[Subject],
                        i < j /\ (i < ia \/ (i = ia /\ j < ib + 1))
                 PROVE  ~Overlap(acts[Subject][i], acts[Subject][j])
      BY <1>3, <1>5 DEF ComparedApart
    <3>1. i < ia \/ (i = ia /\ j < ib) \/ (i = ia /\ j = ib)
      BY <2>1, <2>2
    <3> QED BY <1>5, <2>3, <3>1 DEF ComparedApart
  <2>4. pc \in {"unique", "meltUnique"} /\ ~changed => ComparedApart'
    BY <2>3 DEF DeterministicSoFar
  <2> QED BY <1>1, <1>5, <2>4 DEF DeterministicSoFar
<1> QED BY <1>4, <1>5 DEF Compare

\* The action being melted gets its single target; its characters stay.
LEMMA RetargetSoFar ==
  ASSUME TypeOK, DeterministicSoFar, NEW q, at \in DOMAIN chain, chain' = chain,
         acts' = [acts EXCEPT ![chain[at]] = Retarget(acts[chain[at]], q)],
         pc' = "melt", at' = at, ma' = ma + 1,
         \A k \in DOMAIN chain : Disjoint(acts[chain[k]]),
         \A k \in DOMAIN chain : \A m \in DOMAIN acts[chain[k]] :
            k < at \/ (k = at /\ m < ma) => IsSingle(acts[chain[k]][m].targets)
  PROVE  DeterministicSoFar'
<1> DEFINE list == Retarget(Melter, q)
<1>1. DOMAIN chain = 1..Len(chain) /\ at \in 1..Len(chain) /\ at \in Nat /\ ma \in Nat
  BY ChainStates DEF TypeOK, PositionTypes
<1>2. acts[chain[at]] = Melter /\ DOMAIN Melter \subseteq Nat
  <2>1. Melter \in Seq(Action(Allocated))
    BY <1>1, ChainStates DEF Melter
  <2> QED BY <2>1 DEF Melter
<1>3. /\ DOMAIN list = DOMAIN Melter
      /\ \A m \in DOMAIN Melter :
           /\ list[m].syms = Melter[m].syms
           /\ m # ma => list[m] = Melter[m]
           /\ m = ma => list[m].targets = {q}
  BY <1>1, RetargetElements
<1>4. /\ (acts')[chain[at]] = list
      /\ \A k \in DOMAIN chain : k # at => (acts')[chain[k]] = acts[chain[k]]
  <2> HIDE DEF list
  <2>1. acts' = [acts EXCEPT ![chain[at]] = list]
    BY <1>2 DEF list
  <2> QED BY <2>1, OneListChanges
<1> HIDE DEF list
<1>5. Disjoint(list)
  BY <1>2, <1>3, DisjointSyms
<1>6. \A k \in DOMAIN chain : Disjoint((acts')[chain[k]])
  BY <1>4, <1>5
<1>7. \A k \in DOMAIN chain : \A m \in DOMAIN (acts')[chain[k]] :
        k < at \/ (k = at /\ m < ma + 1) => IsSingle((acts')[chain[k]][m].targets)
  <2> SUFFICES ASSUME NEW k \in DOMAIN chain, NEW m \in DOMAIN (acts')[chain[k]],
                      k < at \/ (k = at /\ m < ma + 1)
               PROVE  IsSingle((acts')[chain[k]][m].targets)
    OBVIOUS
  <2>1. CASE k < at
    BY <1>1, <1>4, <2>1
  <2>2. CASE k = at /\ m = ma
    BY <1>2, <1>3, <1>4, <2>2 DEF IsSingle
  <2>3. CASE k = at /\ m < ma
    BY <1>1, <1>2, <1>3, <1>4, <2>3
  <2>4. k < at \/ (k = at /\ m = ma) \/ (k = at /\ m < ma)
    BY <1>1, <1>2, <1>3, <1>4
  <2> QED BY <2>1, <2>2, <2>3, <2>4
<1> QED BY <1>6, <1>7 DEF DeterministicSoFar

LEMMA MeltRetargetSoFar ==
  ASSUME TypeOK, DeterministicSoFar, MeltKnown \/ NewMelted
  PROVE  DeterministicSoFar'
<1>1. CASE MeltKnown
  <2>1. PICK k \in Matches(TargetSet(Melter[ma])) :
          acts' = [acts EXCEPT ![chain[at]] = Retarget(acts[chain[at]], melted[k].state)]
    BY <1>1 DEF MeltKnown
  <2>2. pc = "melt" /\ pc' = pc /\ at' = at /\ ma' = ma + 1 /\ chain' = chain
    BY <1>1 DEF MeltKnown, Melts
  <2>3. at \in DOMAIN chain
    BY <2>2, ChainStates DEF TypeOK, PositionTypes
  <2> QED BY <2>1, <2>2, <2>3, RetargetSoFar DEF DeterministicSoFar
<1>2. CASE NewMelted
  <2>1. /\ pc = "meltUnique" /\ pc' = "melt" /\ PassEnded /\ ~changed
        /\ at' = at /\ ma' = ma + 1 /\ chain' = chain
        /\ acts' = [acts EXCEPT ![chain[at]] = Retarget(acts[chain[at]], LastState)]
    BY <1>2 DEF NewMelted
  <2>2. at \in DOMAIN chain
    BY <2>1, ChainStates DEF TypeOK, PositionTypes
  <2>3. Disjoint(acts[chain[Len(chain)]])
    BY <2>1, PassMakesDisjoint DEF DeterministicSoFar, Subject, LastState
  <2>4. \A k \in DOMAIN chain : Disjoint(acts[chain[k]])
    <3>1. \A k \in DOMAIN chain : k < Len(chain) \/ k = Len(chain)
      BY ChainStates
    <3> QED BY <2>1, <2>3, <3>1 DEF DeterministicSoFar
  <2> QED BY <2>1, <2>2, <2>4, RetargetSoFar DEF DeterministicSoFar
<1> QED BY <1>1, <1>2

\* The new state is the last of the chain; the lists before it stay.
LEMMA MeltNewSoFar ==
  ASSUME TypeOK, DeterministicSoFar, MeltNew
  PROVE  DeterministicSoFar'
<1>1. /\ pc = "melt" /\ pc' = "meltWith" /\ at' = at /\ ma' = ma
      /\ acts' = Append(acts, <<>>) /\ chain' = Append(chain, Len(acts) + 1)
  BY DEF MeltNew, Melts
<1>2. /\ Allocated = 1..Len(acts) /\ Len(acts) \in Nat
      /\ DOMAIN chain = 1..Len(chain) /\ Len(chain) \in Nat \ {0}
      /\ \A k \in 1..Len(chain) : chain[k] \in Allocated
      /\ at \in 1..Len(chain) /\ at \in Nat
  BY <1>1, ChainStates DEF TypeOK, PositionTypes
<1>3. /\ Len(chain') = Len(chain) + 1 /\ DOMAIN chain' = 1..(Len(chain) + 1)
      /\ \A k \in 1..Len(chain) : (chain')[k] = chain[k]
  <2>1. chain \in Seq(Nat)
    BY <1>2 DEF TypeOK, HeapTypes
  <2>2. chain' = Append(chain, Len(acts) + 1) /\ Len(acts) + 1 \in Nat
    BY <1>1, <1>2
  <2> QED BY ONLY <2>1, <2>2
<1>4. \A q \in Allocated : (acts')[q] = acts[q]
  BY <1>1, <1>2 DEF TypeOK, HeapTypes
<1>5. \A k \in DOMAIN chain' : k < Len(chain') =>
        k \in DOMAIN chain /\ (acts')[(chain')[k]] = acts[chain[k]]
  BY <1>2, <1>3, <1>4
<1>6. \A k \in DOMAIN chain' : k < Len(chain') => Disjoint((acts')[(chain')[k]])
  BY <1>1, <1>5 DEF DeterministicSoFar
<1>7. \A k \in DOMAIN chain' : \A m \in DOMAIN (acts')[(chain')[k]] :
        k < at \/ (k = at /\ m < ma) => IsSingle((acts')[(chain')[k]][m].targets)
  <2>1. \A k \in DOMAIN chain' : k <= at => k < Len(chain')
    BY <1>2, <1>3
  <2> QED BY <1>1, <1>2, <1>5, <2>1 DEF DeterministicSoFar
<1> QED BY <1>1, <1>6, <1>7 DEF DeterministicSoFar

\* What is copied into the new state disturbs no state before it.
LEMMA MeltWithSoFar ==
  ASSUME TypeOK, DeterministicSoFar, MeltWith
  PROVE  DeterministicSoFar'
<1>1. pc = "meltWith" /\ pc' = pc /\ at' = at /\ ma' = ma /\ chain' = chain
  BY DEF MeltWith
<1>2. DOMAIN chain = 1..Len(chain) /\ Len(chain) \in Nat \ {0} /\ at \in Nat /\ at < Len(chain)
  BY <1>1, ChainStates DEF TypeOK, PositionTypes
<1>3. \A k \in DOMAIN chain : k < Len(chain) => (acts')[chain[k]] = acts[chain[k]]
  <2>1. CASE UNCHANGED acts
    BY <2>1
  <2>2. CASE acts' = [acts EXCEPT ![LastState] =
                        AddAction(acts[LastState], acts[NextSource][mi])]
    <3> DEFINE list == AddAction(acts[LastState], acts[NextSource][mi])
               n == Len(chain)
    <3>1. n \in DOMAIN chain /\ acts' = [acts EXCEPT ![chain[n]] = list]
      BY <1>2, <2>2 DEF LastState
    <3> HIDE DEF list, n
    <3>2. \A k \in DOMAIN chain : k # n => (acts')[chain[k]] = acts[chain[k]]
      BY <1>1, <3>1, OneListChanges
    <3> QED BY <1>2, <3>2 DEF n
  <2> QED BY <2>1, <2>2 DEF MeltWith
<1>4. \A k \in DOMAIN chain : k < Len(chain) => Disjoint((acts')[chain[k]])
  BY <1>1, <1>3 DEF DeterministicSoFar
<1>5. \A k \in DOMAIN chain : \A m \in DOMAIN (acts')[chain[k]] :
        k < at \/ (k = at /\ m < ma) => IsSingle((acts')[chain[k]][m].targets)
  <2>1. \A k \in DOMAIN chain : k <= at => k < Len(chain)
    BY <1>2
  <2> QED BY <1>1, <1>2, <1>3, <2>1 DEF DeterministicSoFar
<1> QED BY <1>1, <1>4, <1>5 DEF DeterministicSoFar

\* An action that is moved to an equal final state keeps its characters and still
\* has one target.
LEMMA CombineFinalsSoFar ==
  ASSUME TypeOK, DeterministicSoFar, CombineFinals
  PROVE  DeterministicSoFar'
<1>1. pc = "mark" /\ pc' = "delete" /\ chain' = chain
  BY DEF CombineFinals
<1>2. \A q \in Allocated :
        /\ DOMAIN (acts')[q] = DOMAIN acts[q]
        /\ \A m \in DOMAIN acts[q] :
             \/ (acts')[q][m] = acts[q][m]
             \/ \E t : (acts')[q][m] = [acts[q][m] EXCEPT !.targets = {t}]
  BY DEF CombineFinals
<1>3. \A k \in DOMAIN chain : DeterministicList((acts')[chain[k]])
  <2> SUFFICES ASSUME NEW k \in DOMAIN chain PROVE DeterministicList((acts')[chain[k]])
    OBVIOUS
  <2> DEFINE q == chain[k]
             l1 == (acts')[q]
             l2 == acts[q]
  <2>1. q \in Allocated /\ l2 \in Seq(Action(Allocated)) /\ DeterministicList(l2)
    BY <1>1, ChainStates DEF DeterministicSoFar
  <2>2. \A m \in DOMAIN l2 : l2[m] \in Action(Allocated)
    <3> HIDE DEF l2, Allocated
    <3> QED BY <2>1, ElementOfSeq
  <2>3. /\ DOMAIN l1 = DOMAIN l2
        /\ \A m \in DOMAIN l2 :
             \/ l1[m] = l2[m]
             \/ \E t : l1[m] = [l2[m] EXCEPT !.targets = {t}]
    BY <1>2, <2>1
  <2> HIDE DEF q, l1, l2
  <2>4. \A m \in DOMAIN l2 : l1[m].syms = l2[m].syms /\ IsSingle(l1[m].targets)
    <3> SUFFICES ASSUME NEW m \in DOMAIN l2
                 PROVE  l1[m].syms = l2[m].syms /\ IsSingle(l1[m].targets)
      OBVIOUS
    <3>1. CASE l1[m] = l2[m]
      BY <2>1, <3>1 DEF DeterministicList
    <3>2. ASSUME NEW t, l1[m] = [l2[m] EXCEPT !.targets = {t}]
          PROVE  l1[m].syms = l2[m].syms /\ IsSingle(l1[m].targets)
      BY <2>2, <3>2 DEF Action, IsSingle
    <3> QED BY <2>3, <3>1, <3>2
  <2>5. Disjoint(l1)
    BY <2>1, <2>3, <2>4, DisjointSyms DEF DeterministicList
  <2> QED BY <2>3, <2>4, <2>5 DEF DeterministicList, l1, q
<1> QED BY <1>1, <1>3 DEF DeterministicSoFar

LEMMA DeleteSoFar ==
  ASSUME TypeOK, DeterministicSoFar, DeleteState
  PROVE  DeterministicSoFar'
<1>1. pc = "delete" /\ pc' = pc /\ acts' = acts
  BY DEF DeleteState
<1>2. \A k \in DOMAIN chain' : \E m \in DOMAIN chain : (chain')[k] = chain[m]
  <2>1. CASE UNCHANGED chain
    BY <2>1
  <2>2. CASE chain' = RemoveAt(chain, at) /\ at <= Len(chain)
    <3>1. chain \in Seq(Allocated) /\ at \in 1..Len(chain) /\ DOMAIN chain = 1..Len(chain)
          /\ Len(chain) \in Nat /\ at \in Nat
      BY <1>1, <2>2, ChainStates DEF TypeOK, HeapTypes, PositionTypes
    <3>2. /\ RemoveAt(chain, at) \in Seq(Allocated)
          /\ Len(RemoveAt(chain, at)) = Len(chain) - 1
          /\ \A k \in 1..(Len(chain) - 1) :
               RemoveAt(chain, at)[k] = IF k < at THEN chain[k] ELSE chain[k + 1]
      <4> HIDE DEF Allocated
      <4> QED BY ONLY <3>1, RemoveAtElements
    <3>3. DOMAIN chain' = 1..(Len(chain) - 1)
      BY <2>2, <3>1, <3>2
    <3> QED BY SMTT(30), <2>2, <3>1, <3>2, <3>3
  <2> QED BY <2>1, <2>2 DEF DeleteState
<1>3. \A k \in DOMAIN chain' : DeterministicList((acts')[(chain')[k]])
  BY <1>1, <1>2 DEF DeterministicSoFar
<1> QED BY <1>1, <1>3 DEF DeterministicSoFar

\* Two actions to the same state become one with the characters of both.
LEMMA CombineSoFar ==
  ASSUME TypeOK, DeterministicSoFar, Combine
  PROVE  DeterministicSoFar'
<1> DEFINE a == Melter[ia]
           b == Melter[ib]
           x == ShiftWith(a, a.syms \cup b.syms)
           mid == [Melter EXCEPT ![ia] = x]
           list == DetachAction(mid, ib)
<1>1. pc = "combine" /\ pc' = pc /\ ib <= Len(Melter) /\ chain' = chain
  BY DEF Combine
<1>2. at \in DOMAIN chain /\ Melter \in Seq(Action(Allocated)) /\ DeterministicList(Melter)
  <2>1. at \in DOMAIN chain
    BY <1>1, ChainStates DEF TypeOK, PositionTypes
  <2> QED BY <1>1, <2>1, ChainStates DEF Melter, DeterministicSoFar
<1>3. /\ ia \in 1..Len(Melter) /\ ib \in 1..Len(Melter) /\ ia # ib
      /\ DOMAIN Melter = 1..Len(Melter)
  <2>1. Len(Melter) \in Nat /\ DOMAIN Melter = 1..Len(Melter)
    BY <1>2
  <2> QED BY <1>1, <2>1 DEF TypeOK, PositionTypes
<1>4. CASE acts' = [acts EXCEPT ![chain[at]] = list]
  <2>1. a \in Action(Allocated) /\ b \in Action(Allocated)
    <3> HIDE DEF Melter, Allocated
    <3> QED BY <1>2, <1>3, ElementOfSeq
  <2>2. x \in Action(Allocated) /\ x.syms = a.syms \cup b.syms /\ x.targets = a.targets
    <3>1. a.syms \cup b.syms \in SUBSET Chars
      BY <2>1 DEF Action
    <3> HIDE DEF a, b, Allocated
    <3> QED BY <2>1, <3>1, ShiftWithAction
  <2> HIDE DEF x
  <2>3. /\ mid \in Seq(Action(Allocated)) /\ Len(mid) = Len(Melter)
        /\ DOMAIN mid = DOMAIN Melter /\ mid[ia] = x
        /\ \A m \in DOMAIN Melter : m # ia => mid[m] = Melter[m]
    <3> HIDE DEF Allocated, Melter
    <3> QED BY <1>2, <1>3, <2>2
  <2> HIDE DEF mid
  <2>4. /\ DOMAIN list = 1..(Len(Melter) - 1)
        /\ \A k \in 1..(Len(Melter) - 1) :
             list[k] = IF k < ib THEN mid[k] ELSE mid[k + 1]
    <3>1. ib \in 1..Len(mid)
      BY SMTT(30), <1>3, <2>3
    <3>2. /\ list \in Seq(Action(Allocated)) /\ Len(list) = Len(mid) - 1
          /\ \A k \in 1..(Len(mid) - 1) : list[k] = IF k < ib THEN mid[k] ELSE mid[k + 1]
      <4> HIDE DEF Allocated
      <4> QED BY <2>3, <3>1, RemoveAtElements DEF DetachAction
    <3> HIDE DEF list
    <3> QED BY <2>3, <3>2
  <2> HIDE DEF list
  <2> DEFINE n == Len(Melter)
             Old(k) == IF k < ib THEN k ELSE k + 1
  <2>5. \A k \in 1..(n - 1) : Old(k) \in 1..n /\ Old(k) # ib /\ list[k] = mid[Old(k)]
    <3>1. n \in Nat /\ ib \in 1..n
      BY <1>2, <1>3
    <3> HIDE DEF n
    <3> QED BY <2>4, <3>1 DEF n
  <2>6. \A k, m \in 1..(n - 1) : k # m => Old(k) # Old(m)
    <3>1. n \in Nat /\ ib \in 1..n
      BY <1>2, <1>3
    <3> HIDE DEF n
    <3> QED BY <3>1
  <2>7. \A i, j \in 1..n : i # j /\ i # ib /\ j # ib => ~Overlap(mid[i], mid[j])
    <3> SUFFICES ASSUME NEW i \in 1..n, NEW j \in 1..n, i # j, i # ib, j # ib
                 PROVE  ~Overlap(mid[i], mid[j])
      OBVIOUS
    <3>1. \A k, m \in 1..n : k # m => Melter[k].syms \cap Melter[m].syms = {}
      BY <1>2, <1>3 DEF DeterministicList, Disjoint, Overlap
    <3>2. CASE i = ia
      <4>1. mid[i].syms = a.syms \cup b.syms /\ mid[j] = Melter[j]
        BY <1>3, <2>2, <2>3, <3>2
      <4> QED BY <1>3, <3>1, <3>2, <4>1 DEF Overlap
    <3>3. CASE j = ia
      <4>1. mid[j].syms = a.syms \cup b.syms /\ mid[i] = Melter[i]
        BY <1>3, <2>2, <2>3, <3>3
      <4> QED BY <1>3, <3>1, <3>3, <4>1 DEF Overlap
    <3>4. CASE i # ia /\ j # ia
      <4>1. mid[i] = Melter[i] /\ mid[j] = Melter[j]
        BY <1>3, <2>3, <3>4
      <4> QED BY <3>1, <4>1 DEF Overlap
    <3> QED BY <3>2, <3>3, <3>4
  <2>8. \A i \in 1..n : IsSingle(mid[i].targets)
    <3>1. \A k \in 1..n : IsSingle(Melter[k].targets)
      BY <1>2, <1>3 DEF DeterministicList
    <3> QED BY <1>3, <2>2, <2>3, <3>1
  <2> HIDE DEF Old, n
  <2>9. DeterministicList(list)
    <3>1. DOMAIN list = 1..(n - 1)
      BY <2>4 DEF n
    <3> QED BY <2>5, <2>6, <2>7, <2>8, <3>1 DEF DeterministicList, Disjoint
  <2>10. \A k \in DOMAIN chain : DeterministicList((acts')[chain[k]])
    BY <1>1, <1>2, <1>4, <2>9, OneListChanges DEF DeterministicSoFar
  <2> QED BY <1>1, <2>10 DEF DeterministicSoFar
<1>5. CASE UNCHANGED acts
  BY <1>1, <1>5 DEF DeterministicSoFar
<1> QED BY <1>4, <1>5 DEF Combine, Melter

\* How far each phase of MakeDeterministic has come; every step keeps it.
THEOREM DeterministicEver == Spec => []DeterministicSoFar
<1>1. Init => DeterministicSoFar
  BY DEF Init, DeterministicSoFar
<1>2. TypeOK /\ TypeOK' /\ DeterministicSoFar /\ [Next]_vars => DeterministicSoFar'
  <2> SUFFICES ASSUME TypeOK, TypeOK', DeterministicSoFar, [Next]_vars
               PROVE  DeterministicSoFar'
    OBVIOUS
  <2>1. CASE \E s \in Syms : DeclareToken(s) \/ UseLiteral(s)
    BY <2>1, DeclareSoFar
  <2>2. CASE Productions \/ WriteScanner
    BY <2>2, StartSoFar
  <2>3. CASE Compare
    BY <2>3, CompareSoFar
  <2>4. CASE NextA \/ NextPass \/ NextUnique
    BY <2>4, CursorSoFar
  <2>5. CASE MeltSkip \/ MeltedAll \/ MeltNext
    BY <2>5, MeltCursorSoFar
  <2>6. CASE MeltKnown \/ NewMelted
    BY <2>6, MeltRetargetSoFar
  <2>7. CASE MeltNew
    BY <2>7, MeltNewSoFar
  <2>8. CASE MeltWith
    BY <2>8, MeltWithSoFar
  <2>9. CASE CombineFinals
    BY <2>9, CombineFinalsSoFar
  <2>10. CASE DeleteState
    BY <2>10, DeleteSoFar
  <2>11. CASE Combine
    BY <2>11, CombineSoFar
  <2>12. CASE NewTransition \/ FindUsed \/ DeletedAll \/ CombineNext \/ Return \/ Abandon
              \/ Finished \/ UNCHANGED vars
    BY <2>12, QuietSoFar
  <2> QED
    BY <2>1, <2>2, <2>3, <2>4, <2>5, <2>6, <2>7, <2>8, <2>9, <2>10, <2>11, <2>12
       DEF Next, Determinizing, MakeUnique, MeltStates, DeleteRedundantStates, CombineShifts
<1> QED BY TypeCorrect, <1>1, <1>2, PTL DEF Spec

\* What WriteScanner writes is deterministic, for every set of tokens and literals.
THEOREM DeterministicWritten == Spec => []WrittenDeterministic
<1>1. DeterministicSoFar => WrittenDeterministic
  BY DEF DeterministicSoFar, WrittenDeterministic
<1> QED BY DeterministicEver, <1>1, PTL
=============================================================================
