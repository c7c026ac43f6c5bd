------------------------------ MODULE CharSet ------------------------------
(***************************************************************************)
(* Class CharSet: a set of characters as a list of ranges.  The sets the   *)
(* scanner generator asks questions of (character classes, the sets it     *)
(* splits transitions into, what it ignores) are all built by these        *)
(* operations, and Equals and the generated conditions rely on the list    *)
(* being the shortest there is.                                            *)
(***************************************************************************)
EXTENDS Integers, Sequences, SequencesExt, FiniteSets

CONSTANTS Objects, MaxChar

ASSUME CharsAssumption == MaxChar \in Nat

VARIABLE list   \* head and its successors, of each object

NewRange(from, to) == [from |-> from, to |-> to]

----------------------------------------------------------------------------
(* Set(i).                                                                 *)

\* Where the loop stops: at the first range that i is not behind.
Place(s, i) == CHOOSE k \in 1..(Len(s) + 1) :
  /\ k > Len(s) \/ i <= s[k].to + 1
  /\ \A j \in 1..(k - 1) : i > s[j].to + 1

\* Mutant: the range to the right is not joined.
ExtendOnly(s, k) == [s EXCEPT ![k] = NewRange(@.from, @.to + 1)]

\* Mutant: the range to the right is taken out, but not its characters in.
JoinWithoutEnd(s, k) ==
  IF k < Len(s) /\ s[k].to + 1 = s[k + 1].from - 1
  THEN RemoveAt([s EXCEPT ![k] = NewRange(@.from, @.to + 1)], k + 1)
  ELSE [s EXCEPT ![k] = NewRange(@.from, @.to + 1)]

\* Range k grows by one to the right, and may meet the next one.
ExtendRight(s, k) ==
  IF k < Len(s) /\ s[k].to + 1 = s[k + 1].from - 1
  THEN RemoveAt([s EXCEPT ![k] = NewRange(@.from, s[k + 1].to)], k + 1)
  ELSE [s EXCEPT ![k] = NewRange(@.from, @.to + 1)]

Set(s, i) ==
  LET k == Place(s, i)
  IN  IF k > Len(s) \/ i < s[k].from - 1 THEN InsertAt(s, k, NewRange(i, i))
      ELSE IF i = s[k].from - 1 THEN [s EXCEPT ![k] = NewRange(@.from - 1, @.to)]
      ELSE IF i = s[k].to + 1 THEN ExtendRight(s, k)
      ELSE s

----------------------------------------------------------------------------
(* The other operations.                                                   *)

\* Mutant: the last character of a range is left out.
GetStrict(s, i) == \E k \in DOMAIN s :
  /\ s[k].from <= i /\ i < s[k].to
  /\ \A j \in 1..(k - 1) : i >= s[j].from

\* The ranges are looked through until one starts behind i.
Get(s, i) == \E k \in DOMAIN s :
  /\ s[k].from <= i /\ i <= s[k].to
  /\ \A j \in 1..(k - 1) : i >= s[j].from

\* The loop over the characters of a range: the chosen ones are added to the list.
AddRange(s, p, chosen) ==
  LET add[i \in (p.from - 1)..p.to] ==
        IF i < p.from THEN s ELSE IF i \in chosen THEN Set(add[i - 1], i) ELSE add[i - 1]
  IN add[p.to]

\* The loop over the ranges of a list.
AddRanges(s, ranges, chosen) ==
  LET add[k \in 0..Len(ranges)] ==
        IF k = 0 THEN s ELSE AddRange(add[k - 1], ranges[k], chosen)
  IN add[Len(ranges)]

Chars == 0..MaxChar

Or(s, b) == AddRanges(s, b, Chars)

\* Both build a new list, from the characters that stay.
And(s, b) == AddRanges(<<>>, s, {i \in Chars : Get(b, i)})
Subtract(s, b) == AddRanges(<<>>, s, {i \in Chars : ~Get(b, i)})

Includes(s, b) == \A k \in DOMAIN b : \A i \in b[k].from..b[k].to : Get(s, i)
Intersects(s, b) == \E k \in DOMAIN b : \E i \in b[k].from..b[k].to : Get(s, i)

\* "Return true if ranges are identical"
Equals(s, b) == Len(s) = Len(b) /\ \A k \in DOMAIN s : s[k] = b[k]

Elements(s) ==
  LET n[k \in 0..Len(s)] == IF k = 0 THEN 0 ELSE n[k - 1] + (s[k].to - s[k].from + 1)
  IN n[Len(s)]

First(s) == IF s = <<>> THEN -1 ELSE s[1].from

----------------------------------------------------------------------------
Init == list = [o \in Objects |-> <<>>]

Assign(o, s) == list' = [list EXCEPT ![o] = s]

SetChar(o, i) == Assign(o, Set(list[o], i))
Clear(o) == Assign(o, <<>>)
Fill(o) == Assign(o, <<NewRange(0, MaxChar)>>)

\* No caller passes a set to itself: And and Subtract free what they read.
AndWith(o, b) == o # b /\ Assign(o, And(list[o], list[b]))
OrWith(o, b) == o # b /\ Assign(o, Or(list[o], list[b]))
SubtractFrom(o, b) == o # b /\ Assign(o, Subtract(list[o], list[b]))

\* The copy constructor, behind Clone.  It leaves head uninitialized when the
\* set is empty; DFA clones only sets that overlap another one.
Copy(o, b) == o # b /\ list[b] # <<>> /\ Assign(o, list[b])

Next == \E o \in Objects :
  \/ \E i \in Chars : SetChar(o, i)
  \/ Clear(o) \/ Fill(o)
  \/ \E b \in Objects : AndWith(o, b) \/ OrWith(o, b) \/ SubtractFrom(o, b) \/ Copy(o, b)

Spec == Init /\ [][Next]_list

----------------------------------------------------------------------------
(* Properties.                                                             *)

Members(s) == UNION {s[k].from..s[k].to : k \in DOMAIN s}

\* The list is the shortest one: the ranges ascend, and between two of them there
\* is a character that belongs to neither.
Canonical == \A o \in Objects :
  LET s == list[o] IN
  /\ \A k \in DOMAIN s : 0 <= s[k].from /\ s[k].from <= s[k].to /\ s[k].to <= MaxChar
  /\ \A k \in 1..(Len(s) - 1) : s[k].to + 1 < s[k + 1].from

\* What is answered about the ranges is true of the sets they stand for.
AnswersAboutSets == \A o, b \in Objects :
  LET s == list[o]
      m == Members(s)
  IN  /\ \A i \in 0..(MaxChar + 1) : Get(s, i) <=> i \in m
      /\ Equals(s, list[b]) <=> m = Members(list[b])
      /\ Includes(s, list[b]) <=> Members(list[b]) \subseteq m
      /\ Intersects(s, list[b]) <=> Members(list[b]) \cap m # {}
      /\ Elements(s) = Cardinality(m)
      /\ First(s) = IF m = {} THEN -1 ELSE CHOOSE i \in m : \A j \in m : i <= j

\* What is done to the ranges is done to the sets they stand for.
OperatesOnSets == \A o, b \in Objects :
  LET s == list[o]
      m == Members(s)
      other == Members(list[b])
  IN  /\ \A i \in Chars : Members(Set(s, i)) = m \cup {i}
      /\ Members(And(s, list[b])) = m \cap other
      /\ Members(Or(s, list[b])) = m \cup other
      /\ Members(Subtract(s, list[b])) = m \ other
=============================================================================
