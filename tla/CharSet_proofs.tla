--------------------------- MODULE CharSet_proofs ---------------------------
(***************************************************************************)
(* Every list of ranges stays the shortest one for its set, and every      *)
(* operation does on the ranges what it means for sets: for every range of *)
(* characters and number of objects.  The loops over characters and ranges *)
(* are recursive functions; what they compute is shown by looking at the   *)
(* least number for which it would be wrong (LeastNat, UpTo).              *)
(***************************************************************************)
EXTENDS CharSet, SequenceTheorems, FiniteSetTheorems, WellFoundedInduction, TLAPS

Ranges == [from : Int, to : Int]

\* Canonical, of one list, with the order of any two ranges.
Canon(s) ==
  /\ s \in Seq(Ranges)
  /\ \A k \in 1..Len(s) : 0 <= s[k].from /\ s[k].from <= s[k].to /\ s[k].to <= MaxChar
  /\ \A j, k \in 1..Len(s) : j < k => s[j].to + 1 < s[k].from

\* Every nonempty set of numbers has a least element.
LEMMA LeastNat ==
  ASSUME NEW T, T \subseteq Nat, T # {}
  PROVE  \E x \in T : \A y \in T : x <= y
<1> DEFINE R == {ss \in Nat \X Nat : ss[1] < ss[2]}
<1>1. IsWellFoundedOn(R, Nat)
  BY NatLessThanWellFounded, Zenon DEF OpToRel
<1>2. PICK x \in T : \A y \in T : <<y, x>> \notin R
  BY <1>1, WFMin, Zenon
<1>3. ASSUME NEW y \in T PROVE x <= y
  <2>1. x \in Nat /\ y \in Nat /\ <<y, x>> \in Nat \X Nat
    OBVIOUS
  <2>2. ~(y < x)
    BY <1>2, <2>1
  <2> QED
    BY <2>1, <2>2
<1> QED
  BY <1>3

\* Induction up to n, as a fact about sets.
LEMMA UpTo ==
  ASSUME NEW n \in Nat, NEW G, 0 \in G, \A m \in 0..n : m < n /\ m \in G => m + 1 \in G
  PROVE  0..n \subseteq G
<1> DEFINE T == (0..n) \ G
<1>1. SUFFICES ASSUME T # {} PROVE FALSE
  OBVIOUS
<1>2. PICK m \in T : \A y \in T : m <= y
  <2>1. T \subseteq Nat
    OBVIOUS
  <2> HIDE DEF T
  <2> QED
    BY <1>1, <2>1, LeastNat
<1>3. m \in Nat /\ m <= n /\ m # 0 /\ m \notin G
  OBVIOUS
<1>4. m - 1 \in 0..n /\ m - 1 < n /\ m - 1 \notin T
  BY <1>2, <1>3
<1>5. m - 1 \in G
  BY <1>4
<1>6. (m - 1) + 1 \in G
  BY <1>4, <1>5
<1> QED
  BY <1>3, <1>6

\* RemoveAt drops one element and closes the gap.
LEMMA Removed ==
  ASSUME NEW S, NEW s \in Seq(S), NEW i \in 1..Len(s)
  PROVE  /\ RemoveAt(s, i) \in Seq(S)
         /\ Len(RemoveAt(s, i)) = Len(s) - 1
         /\ \A k \in 1..(Len(s) - 1) :
              RemoveAt(s, i)[k] = IF k < i THEN s[k] ELSE s[k + 1]
<1> DEFINE p == SubSeq(s, 1, i - 1)
           q == SubSeq(s, i + 1, Len(s))
<1>1. /\ p \in Seq(S) /\ Len(p) = i - 1
      /\ \A k \in 1..(i - 1) : p[k] = s[k]
  <2>1. \A k \in 1..(i - 1) : s[k] \in S
    BY ElementOfSeq
  <2> QED
    BY <2>1, SubSeqProperties
<1>2. /\ q \in Seq(S) /\ Len(q) = Len(s) - i
      /\ \A k \in 1..(Len(s) - i) : q[k] = s[k + i]
  <2>1. \A k \in (i + 1)..Len(s) : s[k] \in S
    BY ElementOfSeq
  <2> QED
    BY <2>1, SubSeqProperties
<1>3. RemoveAt(s, i) = p \o q
  BY DEF RemoveAt
<1> HIDE DEF p, q
<1>4. /\ p \o q \in Seq(S) /\ Len(p \o q) = Len(p) + Len(q)
      /\ \A k \in 1..(Len(p) + Len(q)) :
           (p \o q)[k] = IF k <= Len(p) THEN p[k] ELSE q[k - Len(p)]
  BY <1>1, <1>2, ConcatProperties, Zenon
<1>5. /\ p \o q \in Seq(S) /\ Len(p \o q) = Len(s) - 1
      /\ \A k \in 1..(Len(s) - 1) : (p \o q)[k] = IF k <= i - 1 THEN p[k] ELSE q[k - (i - 1)]
  BY <1>1, <1>2, <1>4
<1> QED
  BY <1>1, <1>2, <1>3, <1>5

\* InsertAt puts the new element at its place and moves the rest up.
IsInserted(t, S, s, i, e) ==
  /\ t \in Seq(S) /\ Len(t) = Len(s) + 1
  /\ \A k \in 1..(Len(s) + 1) :
       t[k] = IF k < i THEN s[k] ELSE IF k = i THEN e ELSE s[k - 1]

LEMMA Inserted ==
  ASSUME NEW S, NEW s \in Seq(S), NEW i \in 1..(Len(s) + 1), NEW e \in S
  PROVE  IsInserted(InsertAt(s, i, e), S, s, i, e)
<1> DEFINE p == SubSeq(s, 1, i - 1)
           q == SubSeq(s, i, Len(s))
           r == p \o <<e>>
<1>1. /\ p \in Seq(S) /\ Len(p) = i - 1
      /\ \A k \in 1..(i - 1) : p[k] = s[k]
  <2>1. \A k \in 1..(i - 1) : s[k] \in S
    BY ElementOfSeq
  <2> QED
    BY <2>1, SubSeqProperties
<1>2. /\ q \in Seq(S) /\ Len(q) = Len(s) - i + 1
      /\ \A k \in 1..(Len(s) - i + 1) : q[k] = s[k + i - 1]
  <2>1. \A k \in i..Len(s) : s[k] \in S
    BY ElementOfSeq
  <2> QED
    BY <2>1, SubSeqProperties
<1>3. InsertAt(s, i, e) = r \o q
  BY DEF InsertAt
<1>4. <<e>> \in Seq(S) /\ Len(<<e>>) = 1 /\ <<e>>[1] = e
  OBVIOUS
<1> HIDE DEF p, q
<1>5. /\ r \in Seq(S) /\ Len(r) = i
      /\ \A k \in 1..i : r[k] = IF k <= i - 1 THEN p[k] ELSE e
  BY <1>1, <1>4, ConcatProperties
<1> HIDE DEF r
<1>6. /\ r \o q \in Seq(S) /\ Len(r \o q) = Len(s) + 1
      /\ \A k \in 1..(Len(s) + 1) : (r \o q)[k] = IF k <= i THEN r[k] ELSE q[k - i]
  <2>1. /\ r \o q \in Seq(S) /\ Len(r \o q) = Len(r) + Len(q)
        /\ \A k \in 1..(Len(r) + Len(q)) :
             (r \o q)[k] = IF k <= Len(r) THEN r[k] ELSE q[k - Len(r)]
    BY <1>2, <1>5, ConcatProperties, Zenon
  <2>2. Len(r) = i /\ Len(r) + Len(q) = Len(s) + 1
    BY <1>2, <1>5
  <2> QED
    BY <2>1, <2>2, Zenon
<1>7. \A k \in 1..(Len(s) + 1) :
        (r \o q)[k] = IF k < i THEN s[k] ELSE IF k = i THEN e ELSE s[k - 1]
  BY <1>1, <1>2, <1>5, <1>6
<1> QED
  BY <1>3, <1>6, <1>7, Zenon DEF IsInserted

\* One element is another one.
LEMMA Replaced ==
  ASSUME NEW s \in Seq(Ranges), NEW k \in 1..Len(s), NEW r \in Ranges,
         NEW t, t = [s EXCEPT ![k] = r]
  PROVE  /\ t \in Seq(Ranges) /\ Len(t) = Len(s)
         /\ \A j \in 1..Len(s) : t[j] = IF j = k THEN r ELSE s[j]
  BY DEF Ranges

LEMMA RangeFields ==
  ASSUME NEW from \in Int, NEW to \in Int
  PROVE  LET r == NewRange(from, to) IN r \in Ranges /\ r.from = from /\ r.to = to
  BY DEF NewRange, Ranges

----------------------------------------------------------------------------
(* Set(i).                                                                 *)

\* x is in the set.
LEMMA InMembers ==
  ASSUME NEW s \in Seq(Ranges), NEW x
  PROVE  x \in Members(s) <=> \E k \in 1..Len(s) : x \in s[k].from..s[k].to
  BY DEF Members

\* The bounds of the ranges of a list.
LEMMA Bounds ==
  ASSUME NEW s, Canon(s), NEW k \in 1..Len(s)
  PROVE  /\ s[k] \in Ranges /\ s[k].from \in Nat /\ s[k].to \in Nat
         /\ s[k].from <= s[k].to /\ s[k].to <= MaxChar
         /\ s[k] = NewRange(s[k].from, s[k].to)
<1>1. s[k] \in Ranges
  BY ElementOfSeq DEF Canon
<1>2. s[k].from \in Int /\ s[k].to \in Int /\ s[k] = NewRange(s[k].from, s[k].to)
  BY <1>1 DEF Ranges, NewRange
<1> QED
  BY <1>1, <1>2, CharsAssumption DEF Canon

\* The loop stops at a range, or behind the last one.
LEMMA PlaceFound ==
  ASSUME NEW s, Canon(s), NEW i \in Chars
  PROVE  LET k == Place(s, i)
         IN /\ k \in 1..(Len(s) + 1)
            /\ k > Len(s) \/ i <= s[k].to + 1
            /\ \A j \in 1..(k - 1) : i > s[j].to + 1
<1> DEFINE T == {k \in 1..(Len(s) + 1) : k > Len(s) \/ i <= s[k].to + 1}
<1>1. s \in Seq(Ranges) /\ Len(s) \in Nat /\ i \in Nat
  BY CharsAssumption DEF Canon, Chars
<1>2. T \subseteq Nat /\ Len(s) + 1 \in T
  BY <1>1
<1>3. PICK k \in T : \A m \in T : k <= m
  <2> HIDE DEF T
  <2> QED
    BY <1>2, LeastNat
<1>4. ASSUME NEW j \in 1..(k - 1) PROVE i > s[j].to + 1
  <2>1. j \in 1..Len(s) /\ j \notin T
    BY <1>1, <1>3
  <2>2. s[j].to \in Nat
    BY <2>1, Bounds
  <2> QED
    BY <1>1, <2>1, <2>2
<1>5. \E n \in 1..(Len(s) + 1) : /\ n > Len(s) \/ i <= s[n].to + 1
                                 /\ \A j \in 1..(n - 1) : i > s[j].to + 1
  BY <1>3, <1>4
<1> QED
  BY <1>5 DEF Place

\* t is s with the characters of c.
Adds(s, c, t) == Canon(t) /\ Members(t) = Members(s) \cup c

\* A new range between two others, or at an end.
LEMMA SetInserts ==
  ASSUME NEW s, Canon(s), NEW i \in Chars, NEW k \in 1..(Len(s) + 1),
         k > Len(s) \/ i < s[k].from - 1,
         \A j \in 1..(k - 1) : i > s[j].to + 1
  PROVE  LET t == InsertAt(s, k, NewRange(i, i))
         IN Adds(s, {i}, t)
<1> DEFINE n == NewRange(i, i)
           t == InsertAt(s, k, n)
<1>1. s \in Seq(Ranges) /\ Len(s) \in Nat /\ i \in Nat /\ i <= MaxChar /\ MaxChar \in Nat
  BY CharsAssumption DEF Canon, Chars
<1>2. n \in Ranges /\ n.from = i /\ n.to = i
  BY <1>1, RangeFields
<1> HIDE DEF n
<1>12. IsInserted(t, Ranges, s, k, n)
  BY <1>1, <1>2, Inserted, Zenon
<1> HIDE DEF t
<1>3. /\ t \in Seq(Ranges) /\ Len(t) = Len(s) + 1
      /\ \A j \in 1..(Len(s) + 1) : t[j] = IF j < k THEN s[j] ELSE IF j = k THEN n ELSE s[j - 1]
  BY <1>12, Zenon DEF IsInserted
<1>4. \A j \in 1..Len(s) : /\ s[j].from \in Nat /\ s[j].to \in Nat
                           /\ s[j].from <= s[j].to /\ s[j].to <= MaxChar
  BY Bounds
<1>5. \A j, m \in 1..Len(s) : j < m => s[j].to + 1 < s[m].from
  BY DEF Canon
<1>6. \A j \in 1..Len(s) : j >= k => i < s[j].from - 1
  <2>1. TAKE j \in 1..Len(s)
  <2>2. HAVE j >= k
  <2>3. k \in 1..Len(s) /\ i < s[k].from - 1
    BY <1>1, <2>2
  <2> QED
    BY <1>1, <1>4, <1>5, <2>2, <2>3
<1>7. \A j \in 1..Len(t) : 0 <= t[j].from /\ t[j].from <= t[j].to /\ t[j].to <= MaxChar
  <2>1. TAKE j \in 1..Len(t)
  <2>2. CASE j < k
    BY <1>1, <1>3, <1>4, <2>2
  <2>3. CASE j = k
    BY <1>1, <1>2, <1>3, <2>3
  <2>4. CASE j > k
    <3>1. j - 1 \in 1..Len(s) /\ t[j] = s[j - 1]
      BY <1>1, <1>3, <2>4
    <3> QED
      BY <1>4, <3>1
  <2> QED
    BY <2>2, <2>3, <2>4, <1>1
<1>8. \A j, m \in 1..Len(t) : j < m => t[j].to + 1 < t[m].from
  <2>1. TAKE j, m \in 1..Len(t)
  <2>2. HAVE j < m
  <2>3. CASE m < k
    BY <1>1, <1>3, <1>5, <2>2, <2>3
  <2>4. CASE m = k
    BY <1>1, <1>2, <1>3, <2>2, <2>4
  <2>5. CASE m > k
    <3>1. m - 1 \in 1..Len(s) /\ t[m] = s[m - 1]
      BY <1>1, <1>3, <2>5
    <3>2. CASE j < k
      <4>1. j \in 1..Len(s) /\ t[j] = s[j] /\ j < m - 1
        BY <1>1, <1>3, <2>2, <2>5, <3>2
      <4> QED
        BY <1>5, <3>1, <4>1
    <3>3. CASE j = k
      <4>1. t[j] = n /\ i < s[m - 1].from - 1
        BY <1>1, <1>3, <1>6, <2>5, <3>1, <3>3
      <4>2. s[m - 1].from \in Nat
        BY <1>4, <3>1
      <4> QED
        BY <1>1, <1>2, <3>1, <4>1, <4>2
    <3>4. CASE j > k
      <4>1. j - 1 \in 1..Len(s) /\ t[j] = s[j - 1] /\ j - 1 < m - 1
        BY <1>1, <1>3, <2>2, <3>4
      <4> QED
        BY <1>5, <3>1, <4>1
    <3> QED
      BY <3>2, <3>3, <3>4, <1>1
  <2> QED
    BY <2>3, <2>4, <2>5, <1>1
<1>9. Canon(t)
  BY <1>3, <1>7, <1>8 DEF Canon
<1>10. ASSUME NEW x PROVE x \in Members(t) <=> x \in Members(s) \/ x = i
  <2>1. ASSUME x \in Members(t) PROVE x \in Members(s) \/ x = i
    <3>1. PICK j \in 1..Len(t) : x \in t[j].from..t[j].to
      BY <1>3, <2>1, InMembers
    <3>2. CASE j = k
      BY <1>1, <1>2, <1>3, <3>1, <3>2
    <3>3. CASE j # k
      <4>1. \E m \in 1..Len(s) : t[j] = s[m]
        <5>1. CASE j < k
          BY <1>1, <1>3, <5>1
        <5>2. CASE j > k
          <6>1. j - 1 \in 1..Len(s) /\ t[j] = s[j - 1]
            BY <1>1, <1>3, <5>2
          <6> QED
            BY <6>1
        <5> QED
          BY <3>3, <5>1, <5>2, <1>1
      <4> QED
        BY <1>1, <3>1, <4>1, InMembers
    <3> QED
      BY <3>2, <3>3
  <2>2. ASSUME x \in Members(s) PROVE x \in Members(t)
    <3>1. PICK j \in 1..Len(s) : x \in s[j].from..s[j].to
      BY <1>1, <2>2, InMembers
    <3>2. \E m \in 1..Len(t) : t[m] = s[j]
      <4>1. CASE j < k
        BY <1>1, <1>3, <4>1
      <4>2. CASE j >= k
        <5>1. j + 1 \in 1..Len(t) /\ t[j + 1] = s[j]
          BY <1>1, <1>3, <4>2
        <5> QED
          BY <5>1
      <4> QED
        BY <4>1, <4>2, <1>1
    <3> QED
      BY <1>3, <3>1, <3>2, InMembers
  <2>3. i \in Members(t)
    <3>1. k \in 1..Len(t) /\ t[k] = n
      BY <1>1, <1>3
    <3> QED
      BY <1>1, <1>2, <1>3, <3>1, InMembers
  <2> QED
    BY <2>1, <2>2, <2>3
<1>11. Members(t) = Members(s) \cup {i}
  BY <1>10
<1> QED
  BY <1>9, <1>11, Zenon DEF t, n, Adds

Grown(s, i, k, r) ==
  /\ \/ r.from = i /\ i = s[k].from - 1 /\ r.to = s[k].to
     \/ r.from = s[k].from /\ r.to = i /\ i = s[k].to + 1
  /\ \A j \in 1..Len(s) : j < k => s[j].to + 1 < r.from
  /\ \A j \in 1..Len(s) : j > k => r.to + 1 < s[j].from

\* A range that grows by the character before or behind it, without meeting another.
LEMMA SetGrows ==
  ASSUME NEW s, Canon(s), NEW i \in Chars, NEW k \in 1..Len(s), NEW r \in Ranges,
         Grown(s, i, k, r), NEW t, t = [s EXCEPT ![k] = r]
  PROVE  Adds(s, {i}, t)
<1>0. /\ \/ r.from = i /\ i = s[k].from - 1 /\ r.to = s[k].to
         \/ r.from = s[k].from /\ r.to = i /\ i = s[k].to + 1
      /\ \A j \in 1..Len(s) : j < k => s[j].to + 1 < r.from
      /\ \A j \in 1..Len(s) : j > k => r.to + 1 < s[j].from
  BY DEF Grown
<1>1. s \in Seq(Ranges) /\ Len(s) \in Nat /\ i \in Nat /\ i <= MaxChar /\ MaxChar \in Nat
  BY CharsAssumption DEF Canon, Chars
<1>2. t \in Seq(Ranges) /\ Len(t) = Len(s) /\ \A j \in 1..Len(s) : t[j] = IF j = k THEN r ELSE s[j]
  BY <1>1, Replaced
<1>3. \A j \in 1..Len(s) : /\ s[j].from \in Nat /\ s[j].to \in Nat
                           /\ s[j].from <= s[j].to /\ s[j].to <= MaxChar
  BY Bounds
<1>4. r.from \in Int /\ r.to \in Int /\ 0 <= r.from /\ r.from <= r.to /\ r.to <= MaxChar
  <2>1. r.from \in Int /\ r.to \in Int
    BY DEF Ranges
  <2>2. s[k].from \in Nat /\ s[k].to \in Nat /\ s[k].from <= s[k].to /\ s[k].to <= MaxChar
    BY <1>3
  <2> QED
    BY <1>0, <1>1, <2>1, <2>2
<1>5. \A x : x \in r.from..r.to <=> x \in s[k].from..s[k].to \/ x = i
  BY <1>0, <1>1, <1>3, <1>4
<1>6. \A j \in 1..Len(t) : 0 <= t[j].from /\ t[j].from <= t[j].to /\ t[j].to <= MaxChar
  BY <1>2, <1>3, <1>4
<1>7. \A j, m \in 1..Len(t) : j < m => t[j].to + 1 < t[m].from
  <2>1. TAKE j, m \in 1..Len(t)
  <2>2. HAVE j < m
  <2>3. s[j].to + 1 < s[m].from
    BY <1>2, <2>2 DEF Canon
  <2> QED
    BY <1>0, <1>2, <2>2, <2>3
<1>8. Canon(t)
  BY <1>2, <1>6, <1>7 DEF Canon
<1>9. ASSUME NEW x PROVE x \in Members(t) <=> x \in Members(s) \/ x = i
  <2>1. x \in Members(t) <=> \E j \in 1..Len(s) : x \in t[j].from..t[j].to
    BY <1>2, InMembers
  <2>2. x \in Members(s) <=> \E j \in 1..Len(s) : x \in s[j].from..s[j].to
    BY <1>1, InMembers
  <2>3. \A j \in 1..Len(s) : j # k => t[j] = s[j]
    BY <1>2
  <2>4. t[k] = r
    BY <1>2
  <2> QED
    BY <2>1, <2>2, <2>3, <2>4, <1>5
<1>10. Members(t) = Members(s) \cup {i}
  BY <1>9
<1> QED
  BY <1>8, <1>10, Zenon DEF Adds

\* A range that meets the next one when it grows: one takes the place of both.
LEMMA SetJoins ==
  ASSUME NEW s, Canon(s), NEW i \in Chars, NEW k \in 1..Len(s), k < Len(s),
         i = s[k].to + 1, i = s[k + 1].from - 1
  PROVE  LET t == RemoveAt([s EXCEPT ![k] = NewRange(s[k].from, s[k + 1].to)], k + 1)
         IN Adds(s, {i}, t)
<1> DEFINE r == NewRange(s[k].from, s[k + 1].to)
           u == [s EXCEPT ![k] = r]
           t == RemoveAt(u, k + 1)
<1>1. s \in Seq(Ranges) /\ Len(s) \in Nat /\ i \in Nat /\ MaxChar \in Nat /\ k + 1 \in 1..Len(s)
  BY CharsAssumption DEF Canon, Chars
<1>2. \A j \in 1..Len(s) : /\ s[j].from \in Nat /\ s[j].to \in Nat
                           /\ s[j].from <= s[j].to /\ s[j].to <= MaxChar
  BY Bounds
<1>3. r \in Ranges /\ r.from = s[k].from /\ r.to = s[k + 1].to
  BY <1>1, <1>2, RangeFields
<1> HIDE DEF r
<1>4. u \in Seq(Ranges) /\ Len(u) = Len(s) /\ \A j \in 1..Len(s) : u[j] = IF j = k THEN r ELSE s[j]
  BY <1>1, <1>3, Replaced
<1> HIDE DEF u
<1>5. /\ t \in Seq(Ranges) /\ Len(t) = Len(s) - 1
      /\ \A j \in 1..(Len(s) - 1) : t[j] = IF j < k + 1 THEN u[j] ELSE u[j + 1]
  <2>1. k + 1 \in 1..Len(u)
    BY <1>1, <1>4
  <2>2. /\ t \in Seq(Ranges) /\ Len(t) = Len(u) - 1
        /\ \A j \in 1..(Len(u) - 1) : t[j] = IF j < k + 1 THEN u[j] ELSE u[j + 1]
    BY <1>4, <2>1, Removed, Zenon
  <2> QED
    BY <1>4, <2>2
<1> HIDE DEF t
<1> DEFINE a == s[k].from  b == s[k].to  c == s[k + 1].from  d == s[k + 1].to
<1>20. a \in Nat /\ b \in Nat /\ c \in Nat /\ d \in Nat /\ a <= b /\ c <= d /\ d <= MaxChar
  BY <1>1, <1>2
<1>21. i = b + 1 /\ i = c - 1 /\ r.from = a /\ r.to = d
  BY <1>3
<1> HIDE DEF a, b, c, d
<1>6. \A j \in 1..Len(t) : t[j] = IF j < k THEN s[j] ELSE IF j = k THEN r ELSE s[j + 1]
  BY <1>1, <1>4, <1>5
<1>7. \A j \in 1..Len(t) : 0 <= t[j].from /\ t[j].from <= t[j].to /\ t[j].to <= MaxChar
  <2>1. TAKE j \in 1..Len(t)
  <2>2. j \in 1..Len(s) /\ j + 1 \in 1..Len(s)
    BY <1>1, <1>5
  <2>3. CASE j = k
    BY <1>1, <1>6, <1>20, <1>21, <2>3
  <2>4. CASE j # k
    BY <1>2, <1>6, <2>2, <2>4
  <2> QED
    BY <2>3, <2>4
<1>8. \A j, m \in 1..Len(t) : j < m => t[j].to + 1 < t[m].from
  <2>1. TAKE j, m \in 1..Len(t)
  <2>2. HAVE j < m
  <2>3. /\ j \in 1..Len(s) /\ j + 1 \in 1..Len(s) /\ m \in 1..Len(s) /\ m + 1 \in 1..Len(s)
        /\ j \in Nat /\ m \in Nat
    BY <1>1, <1>5
  <2>4. \A p, q \in 1..Len(s) : p < q => s[p].to + 1 < s[q].from
    BY DEF Canon
  <2>5. t[m].from = IF m <= k THEN s[m].from ELSE s[m + 1].from
    BY <1>1, <1>3, <1>6, <2>3
  <2>6. t[j].to = IF j < k THEN s[j].to ELSE s[j + 1].to
    BY <1>1, <1>3, <1>6, <2>3
  <2> QED
    BY <1>1, <2>2, <2>3, <2>4, <2>5, <2>6
<1>9. Canon(t)
  BY <1>5, <1>7, <1>8 DEF Canon
<1>10. \A x : x \in r.from..r.to
              <=> x \in s[k].from..s[k].to \/ x \in s[k + 1].from..s[k + 1].to \/ x = i
  <2>1. \A x : x \in a..d <=> x \in a..b \/ x \in c..d \/ x = i
    BY <1>1, <1>20, <1>21
  <2> QED
    BY <1>21, <2>1, Zenon DEF a, b, c, d
<1>11. ASSUME NEW x PROVE x \in Members(t) <=> x \in Members(s) \/ x = i
  <2>1. ASSUME x \in Members(t) PROVE x \in Members(s) \/ x = i
    <3>1. PICK j \in 1..Len(t) : x \in t[j].from..t[j].to
      BY <1>5, <2>1, InMembers
    <3>2. CASE j = k
      BY <1>1, <1>6, <1>10, <3>1, <3>2, InMembers
    <3>3. CASE j # k
      <4>1. \E m \in 1..Len(s) : t[j] = s[m]
        <5>1. j \in 1..Len(s) /\ j + 1 \in 1..Len(s)
          BY <1>1, <1>5
        <5> QED
          BY <1>6, <3>3, <5>1
      <4> QED
        BY <1>1, <3>1, <4>1, InMembers
    <3> QED
      BY <3>2, <3>3
  <2>2. k \in 1..Len(t) /\ t[k] = r
    BY <1>1, <1>5, <1>6
  <2>3. ASSUME x \in Members(s) PROVE x \in Members(t)
    <3>1. PICK j \in 1..Len(s) : x \in s[j].from..s[j].to
      BY <1>1, <2>3, InMembers
    <3>2. CASE j = k \/ j = k + 1
      BY <1>5, <1>10, <2>2, <3>1, <3>2, InMembers
    <3>3. CASE j < k
      <4>1. j \in 1..Len(t) /\ t[j] = s[j]
        BY <1>1, <1>5, <1>6, <3>3
      <4> QED
        BY <1>5, <3>1, <4>1, InMembers
    <3>4. CASE j > k + 1
      <4>1. j - 1 \in 1..Len(t) /\ t[j - 1] = s[j]
        BY <1>1, <1>5, <1>6, <3>4
      <4> QED
        BY <1>5, <3>1, <4>1, InMembers
    <3> QED
      BY <3>2, <3>3, <3>4, <1>1
  <2>4. i \in Members(t)
    BY <1>5, <1>10, <2>2, InMembers
  <2> QED
    BY <2>1, <2>3, <2>4
<1>12. Members(t) = Members(s) \cup {i}
  BY <1>11
<1> QED
  BY <1>9, <1>12, Zenon DEF t, u, r, Adds

\* Set(i) adds the character, and the list stays the shortest.
LEMMA SetRight ==
  ASSUME NEW s, Canon(s), NEW i \in Chars
  PROVE  Adds(s, {i}, Set(s, i))
<1>1. s \in Seq(Ranges) /\ Len(s) \in Nat /\ i \in Nat /\ MaxChar \in Nat
  BY CharsAssumption DEF Canon, Chars
<1>0. PICK k : k = Place(s, i)
  OBVIOUS
<1>2. /\ k \in 1..(Len(s) + 1)
      /\ k > Len(s) \/ i <= s[k].to + 1
      /\ \A j \in 1..(k - 1) : i > s[j].to + 1
  BY <1>0, PlaceFound
<1>3. Set(s, i) = IF k > Len(s) \/ i < s[k].from - 1 THEN InsertAt(s, k, NewRange(i, i))
                  ELSE IF i = s[k].from - 1 THEN [s EXCEPT ![k] = NewRange(s[k].from - 1, s[k].to)]
                  ELSE IF i = s[k].to + 1 THEN ExtendRight(s, k)
                  ELSE s
  BY <1>0 DEF Set
<1>4. \A j \in 1..Len(s) : /\ s[j].from \in Nat /\ s[j].to \in Nat
                           /\ s[j].from <= s[j].to /\ s[j].to <= MaxChar
  BY Bounds
<1>5. \A a, b \in 1..Len(s) : a < b => s[a].to + 1 < s[b].from
  BY DEF Canon
<1>6. CASE k > Len(s) \/ i < s[k].from - 1
  BY <1>2, <1>3, <1>6, SetInserts
<1>7. CASE ~(k > Len(s) \/ i < s[k].from - 1) /\ i = s[k].from - 1
  <2>1. k \in 1..Len(s)
    BY <1>1, <1>2, <1>7
  <2>0. PICK r : r = NewRange(s[k].from - 1, s[k].to)
    OBVIOUS
  <2>2. r \in Ranges /\ r.from = i /\ r.to = s[k].to
    BY <1>1, <1>4, <1>7, <2>0, <2>1, RangeFields
  <2>3. \A j \in 1..Len(s) : j < k => s[j].to + 1 < r.from
    BY <1>1, <1>2, <1>4, <2>1, <2>2
  <2>4. \A j \in 1..Len(s) : j > k => r.to + 1 < s[j].from
    BY <1>5, <2>1, <2>2
  <2>5. Set(s, i) = [s EXCEPT ![k] = r]
    BY <1>3, <1>7, <2>0
  <2> QED
    <3>1. Grown(s, i, k, r)
      BY <1>7, <2>2, <2>3, <2>4, Zenon DEF Grown
    <3> QED
      BY <2>1, <2>2, <2>5, <3>1, SetGrows, Zenon
<1>8. CASE ~(k > Len(s) \/ i < s[k].from - 1) /\ i # s[k].from - 1 /\ i = s[k].to + 1
  <2>1. k \in 1..Len(s) /\ Set(s, i) = ExtendRight(s, k)
    BY <1>1, <1>2, <1>3, <1>8
  <2>2. CASE k < Len(s) /\ s[k].to + 1 = s[k + 1].from - 1
    <3>1. Set(s, i) = RemoveAt([s EXCEPT ![k] = NewRange(s[k].from, s[k + 1].to)], k + 1)
      BY <2>1, <2>2 DEF ExtendRight
    <3> QED
      BY <1>8, <2>1, <2>2, <3>1, SetJoins
  <2>3. CASE ~(k < Len(s) /\ s[k].to + 1 = s[k + 1].from - 1)
    <3>0. PICK r : r = NewRange(s[k].from, s[k].to + 1)
      OBVIOUS
    <3>1. r \in Ranges /\ r.from = s[k].from /\ r.to = i
      BY <1>1, <1>4, <1>8, <2>1, <3>0, RangeFields
    <3>2. Set(s, i) = [s EXCEPT ![k] = r]
      BY <2>1, <2>3, <3>0 DEF ExtendRight
    <3>3. \A j \in 1..Len(s) : j < k => s[j].to + 1 < r.from
      BY <1>5, <2>1, <3>1
    <3>4. \A j \in 1..Len(s) : j > k => r.to + 1 < s[j].from
      <4>1. TAKE j \in 1..Len(s)
      <4>2. HAVE j > k
      <4>3. k < Len(s) /\ k + 1 \in 1..Len(s)
        BY <1>1, <2>1, <4>2
      <4>4. s[k].to + 1 < s[k + 1].from /\ s[k].to + 1 # s[k + 1].from - 1
        BY <1>1, <1>5, <2>1, <2>3, <4>3
      <4>5. j = k + 1 \/ s[k + 1].to + 1 < s[j].from
        BY <1>1, <1>5, <2>1, <4>2, <4>3
      <4>6. s[k].to \in Nat /\ s[k + 1].from \in Nat /\ s[k + 1].to \in Nat /\ s[j].from \in Nat
            /\ s[k + 1].from <= s[k + 1].to
        BY <1>4, <2>1, <4>3
      <4>7. r.to = s[k].to + 1
        BY <1>8, <3>1
      <4>8. r.to + 1 < s[k + 1].from
        <5> DEFINE a == s[k].to  c == s[k + 1].from  e == r.to
        <5>1. a \in Nat /\ c \in Nat /\ a + 1 < c /\ a + 1 # c - 1 /\ e = a + 1
          BY <4>4, <4>6, <4>7
        <5> HIDE DEF a, c, e
        <5>2. e + 1 < c
          BY <5>1
        <5> QED
          BY <5>2 DEF c, e
      <4>9. CASE j = k + 1
        BY <4>8, <4>9
      <4>10. CASE s[k + 1].to + 1 < s[j].from
        <5> DEFINE c == s[k + 1].from  d == s[k + 1].to  e == r.to  f == s[j].from
        <5>1. c \in Nat /\ d \in Nat /\ f \in Nat /\ e \in Int /\ c <= d /\ e + 1 < c /\ d + 1 < f
          BY <4>6, <4>7, <4>8, <4>10
        <5> HIDE DEF c, d, e, f
        <5>2. e + 1 < f
          BY <5>1
        <5> QED
          BY <5>2 DEF e, f
      <4> QED
        BY <4>5, <4>9, <4>10
    <3>5. r \in Ranges /\ r.from = s[k].from /\ r.to = i /\ i = s[k].to + 1 /\ k \in 1..Len(s)
      BY <1>8, <2>1, <3>1
    <3> QED
      <4>1. Grown(s, i, k, r)
        BY <3>3, <3>4, <3>5, Zenon DEF Grown
      <4> QED
        BY <3>2, <3>5, <4>1, SetGrows, Zenon
  <2> QED
    BY <2>2, <2>3
<1>9. CASE ~(k > Len(s) \/ i < s[k].from - 1) /\ i # s[k].from - 1 /\ i # s[k].to + 1
  <2>1. k \in 1..Len(s) /\ Set(s, i) = s
    BY <1>1, <1>2, <1>3, <1>9
  <2>2. i \in s[k].from..s[k].to
    <3>1. s[k].from \in Nat /\ s[k].to \in Nat /\ s[k].from <= s[k].to /\ i <= s[k].to + 1
          /\ i >= s[k].from - 1
      BY <1>1, <1>2, <1>4, <1>9, <2>1
    <3> QED
      BY <1>1, <1>9, <3>1
  <2>3. i \in Members(s)
    BY <1>1, <2>1, <2>2, InMembers
  <2>4. Members(s) = Members(s) \cup {i}
    BY <2>3
  <2> QED
    BY <2>1, <2>4 DEF Adds
<1> QED
  BY <1>6, <1>7, <1>8, <1>9

----------------------------------------------------------------------------
(* The loops over the characters of a range and over the ranges of a list. *)

Lists == {s \in Seq(Ranges) : Canon(s)}

\* What a loop has after each round i: step makes it of what it had before.
IsLoop(f, S, x, a, b, step) ==
  /\ f \in [a..b -> S]
  /\ f[a] = x
  /\ \A i \in (a + 1)..b : f[i] = step[<<i, f[i - 1]>>]

\* The function that a loop computes exists.
LEMMA LoopExists ==
  ASSUME NEW S, NEW x \in S, NEW a \in Int, NEW b \in Int, a <= b,
         NEW step \in [(a..b) \X S -> S]
  PROVE  \E f : IsLoop(f, S, x, a, b, step)
<1> DEFINE Good(m, f) ==
             /\ f \in [a..(a + m) -> S]
             /\ f[a] = x
             /\ \A i \in (a + 1)..(a + m) : f[i] = step[<<i, f[i - 1]>>]
           G == {m \in 0..(b - a) : \E f : Good(m, f)}
<1>1. b - a \in Nat
  OBVIOUS
<1>2. 0 \in G
  <2> DEFINE f == [i \in a..(a + 0) |-> x]
  <2>1. Good(0, f)
    OBVIOUS
  <2>2. \E g : Good(0, g)
    BY <2>1
  <2> QED
    BY <1>1, <2>2
<1>3. ASSUME NEW m \in 0..(b - a), m < b - a, m \in G PROVE m + 1 \in G
  <2>1. PICK f : Good(m, f)
    BY <1>3
  <2> DEFINE n == a + m + 1
             g == [i \in a..n |-> IF i = n THEN step[<<n, f[n - 1]>>] ELSE f[i]]
  <2>2. n \in a..b /\ n - 1 \in a..(a + m) /\ n = a + (m + 1)
    BY <1>1, <1>3
  <2>3. f[n - 1] \in S
    BY <2>1, <2>2
  <2>4. step[<<n, f[n - 1]>>] \in S
    <3>1. <<n, f[n - 1]>> \in (a..b) \X S
      BY <2>2, <2>3
    <3> QED
      BY <3>1
  <2>5. g \in [a..n -> S]
    BY <2>1, <2>2, <2>4
  <2>6. g[a] = x
    BY <2>1, <2>2
  <2>7. \A i \in (a + 1)..n : g[i] = step[<<i, g[i - 1]>>]
    <3>1. TAKE i \in (a + 1)..n
    <3>2. g[i - 1] = f[i - 1]
      BY <2>2
    <3>3. CASE i = n
      <4>1. g[n] = step[<<n, f[n - 1]>>]
        BY <2>2
      <4> HIDE DEF g, n
      <4> QED
        BY <3>2, <3>3, <4>1
    <3>4. CASE i # n
      <4>1. i \in (a + 1)..(a + m) /\ g[i] = f[i]
        BY <2>2, <3>4
      <4> QED
        BY <2>1, <3>2, <4>1
    <3> QED
      BY <3>3, <3>4
  <2>8. Good(m + 1, g)
    BY <2>2, <2>5, <2>6, <2>7
  <2>9. m + 1 \in 0..(b - a)
    BY <1>1, <1>3
  <2> HIDE DEF Good, g
  <2>10. \E h : Good(m + 1, h)
    BY <2>8
  <2> QED
    BY <2>9, <2>10
<1> HIDE DEF Good
<1>4. 0..(b - a) \subseteq G
  <2> HIDE DEF G
  <2> QED
    BY <1>1, <1>2, <1>3, UpTo
<1>5. PICK f : Good(b - a, f)
  BY <1>1, <1>4
<1>6. /\ f \in [a..b -> S] /\ f[a] = x
      /\ \A i \in (a + 1)..b : f[i] = step[<<i, f[i - 1]>>]
  <2>1. a + (b - a) = b
    OBVIOUS
  <2> QED
    BY <1>5, <2>1 DEF Good
<1>7. IsLoop(f, S, x, a, b, step)
  BY <1>6, Zenon DEF IsLoop
<1> QED
  BY <1>7

\* What the loop has after every round satisfies what holds at first and stays.
LEMMA LoopKeeps ==
  ASSUME NEW a \in Int, NEW b \in Int, a <= b, NEW G, a \in G,
         \A i \in (a + 1)..b : i - 1 \in G => i \in G
  PROVE  b \in G
<1> DEFINE H == {m \in 0..(b - a) : a + m \in G}
<1>1. b - a \in Nat /\ 0 \in H
  OBVIOUS
<1>2. ASSUME NEW m \in 0..(b - a), m < b - a, m \in H PROVE m + 1 \in H
  <2>1. a + m + 1 \in (a + 1)..b /\ (a + m + 1) - 1 = a + m /\ a + (m + 1) = a + m + 1
    BY <1>1, <1>2
  <2>2. a + m + 1 \in G
    BY <1>2, <2>1
  <2> QED
    BY <1>1, <1>2, <2>1, <2>2
<1>3. 0..(b - a) \subseteq H
  <2> HIDE DEF H
  <2> QED
    BY <1>1, <1>2, UpTo
<1>4. b - a \in H /\ a + (b - a) = b
  BY <1>1, <1>3
<1> QED
  BY <1>4

\* Characters added one lot after the other.
LEMMA AddsThen ==
  ASSUME NEW s, NEW t, NEW u, NEW c, NEW d, Adds(s, c, t), Adds(t, d, u)
  PROVE  Adds(s, c \cup d, u)
<1>1. Canon(u) /\ Members(u) = Members(t) \cup d /\ Members(t) = Members(s) \cup c
  BY Zenon DEF Adds
<1>2. Members(u) = Members(s) \cup (c \cup d)
  BY <1>1
<1> QED
  BY <1>1, <1>2, Zenon DEF Adds

LEMMA AddsNothing ==
  ASSUME NEW s, Canon(s), NEW c, \A x : x \notin c
  PROVE  Adds(s, c, s)
<1>1. Members(s) = Members(s) \cup c
  OBVIOUS
<1> QED
  BY <1>1, Zenon DEF Adds

\* The chosen characters of a range are added.
LEMMA AddRangeRight ==
  ASSUME NEW s, Canon(s), NEW p \in Ranges, 0 <= p.from, p.from <= p.to, p.to <= MaxChar,
         NEW chosen, chosen \subseteq Chars
  PROVE  Adds(s, (p.from..p.to) \cap chosen, AddRange(s, p, chosen))
<1> DEFINE a == p.from - 1
           b == p.to
           Loop(f) == f = [i \in a..b |-> IF i < p.from THEN s
                                          ELSE IF i \in chosen THEN Set(f[i - 1], i)
                                          ELSE f[i - 1]]
           round == [z \in (a..b) \X Lists |->
                       IF z[1] \in chosen THEN Set(z[2], z[1]) ELSE z[2]]
<1>1. a \in Int /\ b \in Int /\ a <= b /\ p.from = a + 1
  BY DEF Ranges
<1>2. s \in Lists /\ \A t \in Lists : Canon(t)
  BY DEF Lists, Canon
<1>3. \A t \in Lists, i \in Chars : Adds(t, {i}, Set(t, i)) /\ Set(t, i) \in Lists
  <2>1. TAKE t \in Lists, i \in Chars
  <2>2. Adds(t, {i}, Set(t, i))
    BY <1>2, SetRight
  <2>3. Canon(Set(t, i))
    BY <2>2, Zenon DEF Adds
  <2> QED
    BY <2>2, <2>3 DEF Lists, Canon
<1>4. round \in [(a..b) \X Lists -> Lists]
  <2>1. ASSUME NEW i \in a..b, NEW t \in Lists
        PROVE  (IF i \in chosen THEN Set(t, i) ELSE t) \in Lists
    BY <1>3
  <2> QED
    BY <2>1
<1>5. PICK f : IsLoop(f, Lists, s, a, b, round)
  <2> HIDE DEF a, b, round
  <2> QED
    BY <1>1, <1>2, <1>4, LoopExists
<1>6. \A i \in a..b, t \in Lists :
        round[<<i, t>>] = IF i \in chosen THEN Set(t, i) ELSE t
  OBVIOUS
<1> HIDE DEF a, b, round
<1>7. Loop(f)
  <2>1. f \in [a..b -> Lists] /\ f[a] = s
    BY <1>5 DEF IsLoop
  <2>2. ASSUME NEW i \in a..b
        PROVE  f[i] = IF i < p.from THEN s
                      ELSE IF i \in chosen THEN Set(f[i - 1], i) ELSE f[i - 1]
    <3>1. CASE i = a
      BY <1>1, <2>1, <3>1
    <3>2. CASE i # a
      <4>1. i \in (a + 1)..b /\ i - 1 \in a..b /\ ~(i < p.from)
        BY <1>1, <3>2
      <4>2. f[i] = round[<<i, f[i - 1]>>] /\ f[i - 1] \in Lists
        BY <1>5, <2>1, <4>1 DEF IsLoop
      <4>3. round[<<i, f[i - 1]>>] = IF i \in chosen THEN Set(f[i - 1], i) ELSE f[i - 1]
        BY <1>6, <4>2, Zenon
      <4> QED
        BY <4>1, <4>2, <4>3
    <3> QED
      BY <3>1, <3>2
  <2> QED
    BY <2>1, <2>2
<1>8. PICK g : Loop(g) /\ AddRange(s, p, chosen) = g[b]
  <2> DEFINE h == CHOOSE g : Loop(g)
  <2>1. Loop(h)
    BY <1>7, Zenon
  <2>2. AddRange(s, p, chosen) = h[b]
    BY DEF AddRange, a, b
  <2> QED
    BY <2>1, <2>2
<1>9. \A i \in a..b : g[i] = IF i < p.from THEN s
                            ELSE IF i \in chosen THEN Set(g[i - 1], i) ELSE g[i - 1]
  BY <1>8
<1> HIDE DEF Loop
<1> DEFINE Right == {i \in a..b : Adds(s, (p.from..i) \cap chosen, g[i])}
<1>10. a \in Right
  <2>1. g[a] = s
    BY <1>1, <1>9
  <2>2. \A x : x \notin (p.from..a) \cap chosen
    BY <1>1
  <2>3. Adds(s, (p.from..a) \cap chosen, s)
    BY <2>2, AddsNothing
  <2> QED
    BY <1>1, <2>1, <2>3
<1>11. ASSUME NEW i \in (a + 1)..b, i - 1 \in Right PROVE i \in Right
  <2>1. i \in a..b /\ ~(i < p.from) /\ i - 1 \in a..b
    BY <1>1
  <2>2. Adds(s, (p.from..(i - 1)) \cap chosen, g[i - 1])
    BY <1>11
  <2>3. g[i - 1] \in Lists
    BY <2>2, Zenon DEF Adds, Lists, Canon
  <2>4. CASE i \in chosen
    <3>1. g[i] = Set(g[i - 1], i)
      BY <1>9, <2>1, <2>4
    <3>2. Adds(g[i - 1], {i}, g[i])
      BY <1>3, <2>3, <2>4, <3>1
    <3>3. ((p.from..(i - 1)) \cap chosen) \cup {i} = (p.from..i) \cap chosen
      BY <1>1, <2>1, <2>4
    <3>4. Adds(s, ((p.from..(i - 1)) \cap chosen) \cup {i}, g[i])
      BY <2>2, <3>2, AddsThen
    <3>5. Adds(s, (p.from..i) \cap chosen, g[i])
      BY <3>3, <3>4
    <3> QED
      BY <2>1, <3>5
  <2>5. CASE i \notin chosen
    <3>1. g[i] = g[i - 1]
      BY <1>9, <2>1, <2>5
    <3>2. (p.from..i) \cap chosen = (p.from..(i - 1)) \cap chosen
      BY <1>1, <2>1, <2>5
    <3> QED
      BY <2>1, <2>2, <3>1, <3>2
  <2> QED
    BY <2>4, <2>5
<1>12. b \in Right
  <2> HIDE DEF Right
  <2> QED
    BY <1>1, <1>10, <1>11, LoopKeeps
<1> QED
  BY <1>8, <1>12 DEF b

\* The characters of the list's first ranges.
FirstOnes(r, k) == UNION {r[j].from..r[j].to : j \in 1..k}

\* The chosen characters of a list are added.
LEMMA AddRangesRight ==
  ASSUME NEW s, Canon(s), NEW r, Canon(r), NEW chosen, chosen \subseteq Chars
  PROVE  Adds(s, Members(r) \cap chosen, AddRanges(s, r, chosen))
<1> DEFINE n == Len(r)
           Loop(f) == f = [k \in 0..n |-> IF k = 0 THEN s
                                          ELSE AddRange(f[k - 1], r[k], chosen)]
           round == [z \in (0..n) \X Lists |->
                       IF z[1] = 0 THEN z[2] ELSE AddRange(z[2], r[z[1]], chosen)]
<1>1. n \in Int /\ 0 <= n /\ r \in Seq(Ranges)
  BY DEF Canon
<1>2. s \in Lists /\ \A t \in Lists : Canon(t)
  BY DEF Lists, Canon
<1>3. \A t \in Lists, k \in 1..n :
        /\ Adds(t, (r[k].from..r[k].to) \cap chosen, AddRange(t, r[k], chosen))
        /\ AddRange(t, r[k], chosen) \in Lists
  <2>1. TAKE t \in Lists, k \in 1..n
  <2>2. /\ r[k] \in Ranges /\ 0 <= r[k].from /\ r[k].from <= r[k].to /\ r[k].to <= MaxChar
    <3>1. r[k] \in Ranges
      BY <1>1, ElementOfSeq
    <3> QED
      BY <3>1 DEF Canon
  <2>3. Adds(t, (r[k].from..r[k].to) \cap chosen, AddRange(t, r[k], chosen))
    BY <1>2, <2>2, AddRangeRight
  <2>4. Canon(AddRange(t, r[k], chosen))
    BY <2>3, Zenon DEF Adds
  <2> QED
    BY <2>3, <2>4 DEF Lists, Canon
<1> HIDE DEF n
<1>4. round \in [(0..n) \X Lists -> Lists]
  <2>1. ASSUME NEW k \in 0..n, NEW t \in Lists
        PROVE  (IF k = 0 THEN t ELSE AddRange(t, r[k], chosen)) \in Lists
    <3>1. k = 0 \/ k \in 1..n
      BY <1>1
    <3> QED
      BY <1>3, <3>1, Zenon
  <2> QED
    BY <2>1
<1>5. PICK f : IsLoop(f, Lists, s, 0, n, round)
  <2> HIDE DEF round
  <2>1. 0 \in Int
    OBVIOUS
  <2> QED
    BY <1>1, <1>2, <1>4, <2>1, LoopExists, Zenon
<1>6. \A k \in 0..n, t \in Lists :
        round[<<k, t>>] = IF k = 0 THEN t ELSE AddRange(t, r[k], chosen)
  OBVIOUS
<1> HIDE DEF round
<1>7. Loop(f)
  <2>1. f \in [0..n -> Lists] /\ f[0] = s
    BY <1>5 DEF IsLoop
  <2>2. ASSUME NEW k \in 0..n
        PROVE  f[k] = IF k = 0 THEN s ELSE AddRange(f[k - 1], r[k], chosen)
    <3>1. CASE k = 0
      BY <2>1, <3>1
    <3>2. CASE k # 0
      <4>1. k \in (0 + 1)..n /\ k - 1 \in 0..n
        BY <1>1, <3>2
      <4>2. f[k] = round[<<k, f[k - 1]>>] /\ f[k - 1] \in Lists
        BY <1>5, <2>1, <4>1 DEF IsLoop
      <4>3. round[<<k, f[k - 1]>>] = AddRange(f[k - 1], r[k], chosen)
        BY <1>6, <3>2, <4>2, Zenon
      <4> QED
        BY <3>2, <4>2, <4>3
    <3> QED
      BY <3>1, <3>2
  <2> QED
    BY <2>1, <2>2
<1>8. PICK g : Loop(g) /\ AddRanges(s, r, chosen) = g[n]
  <2> DEFINE h == CHOOSE g : Loop(g)
  <2>1. Loop(h)
    BY <1>7, Zenon
  <2>2. AddRanges(s, r, chosen) = h[n]
    BY DEF AddRanges, n
  <2> QED
    BY <2>1, <2>2
<1>9. \A k \in 0..n : g[k] = IF k = 0 THEN s ELSE AddRange(g[k - 1], r[k], chosen)
  BY <1>8
<1> HIDE DEF Loop
<1> DEFINE Right == {k \in 0..n : Adds(s, FirstOnes(r, k) \cap chosen, g[k])}
<1>10. 0 \in Right
  <2>1. g[0] = s
    BY <1>1, <1>9
  <2>2. \A x : x \notin FirstOnes(r, 0) \cap chosen
    BY DEF FirstOnes
  <2>3. Adds(s, FirstOnes(r, 0) \cap chosen, s)
    BY <2>2, AddsNothing
  <2> QED
    BY <1>1, <2>1, <2>3
<1>11. ASSUME NEW k \in (0 + 1)..n, k - 1 \in Right PROVE k \in Right
  <2>1. k \in 1..n /\ k \in 0..n /\ k # 0 /\ k - 1 \in 0..n
    BY <1>1
  <2>2. Adds(s, FirstOnes(r, k - 1) \cap chosen, g[k - 1])
    BY <1>11
  <2>3. g[k - 1] \in Lists
    BY <2>2, Zenon DEF Adds, Lists, Canon
  <2>4. Adds(g[k - 1], (r[k].from..r[k].to) \cap chosen, g[k])
    BY <1>3, <1>9, <2>1, <2>3
  <2>5. (FirstOnes(r, k - 1) \cap chosen) \cup ((r[k].from..r[k].to) \cap chosen)
          = FirstOnes(r, k) \cap chosen
    <3>1. \A j : j \in 1..k <=> j \in 1..(k - 1) \/ j = k
      BY <2>1
    <3> QED
      BY <3>1, Zenon DEF FirstOnes
  <2>6. Adds(s, FirstOnes(r, k) \cap chosen, g[k])
    <3>1. Adds(s, (FirstOnes(r, k - 1) \cap chosen) \cup ((r[k].from..r[k].to) \cap chosen), g[k])
      BY <2>2, <2>4, AddsThen
    <3> QED
      BY <2>5, <3>1
  <2> QED
    BY <2>1, <2>6
<1>12. n \in Right
  <2> HIDE DEF Right
  <2> QED
    BY <1>1, <1>10, <1>11, LoopKeeps
<1>13. FirstOnes(r, n) = Members(r)
  <2>1. DOMAIN r = 1..n
    BY <1>1 DEF n
  <2> QED
    BY <2>1, Zenon DEF FirstOnes, Members
<1> QED
  BY <1>8, <1>12, <1>13

----------------------------------------------------------------------------
(* What is asked, and what is done with two sets.                          *)

LEMMA GetRight ==
  ASSUME NEW s, Canon(s), NEW i \in Int
  PROVE  Get(s, i) <=> i \in Members(s)
<1>1. s \in Seq(Ranges) /\ DOMAIN s = 1..Len(s)
  BY DEF Canon
<1>2. \A k \in 1..Len(s) : s[k].from \in Nat /\ s[k].to \in Nat /\ s[k].from <= s[k].to
  BY Bounds
<1>3. ASSUME Get(s, i) PROVE i \in Members(s)
  <2>1. PICK k \in 1..Len(s) : s[k].from <= i /\ i <= s[k].to
    BY <1>1, <1>3 DEF Get
  <2>2. i \in s[k].from..s[k].to
    BY <1>2, <2>1
  <2> QED
    BY <1>1, <2>2, InMembers
<1>4. ASSUME i \in Members(s) PROVE Get(s, i)
  <2>1. PICK k \in 1..Len(s) : i \in s[k].from..s[k].to
    BY <1>1, <1>4, InMembers
  <2>2. ASSUME NEW j \in 1..(k - 1) PROVE i >= s[j].from
    <3>1. j \in 1..Len(s) /\ j < k
      BY <1>1
    <3>2. s[j].to + 1 < s[k].from
      BY <3>1 DEF Canon
    <3> QED
      BY <1>2, <2>1, <3>1, <3>2
  <2>3. s[k].from <= i /\ i <= s[k].to
    BY <1>2, <2>1
  <2> QED
    BY <1>1, <2>2, <2>3 DEF Get
<1> QED
  BY <1>3, <1>4

\* The members of a list are characters.
LEMMA MembersChars ==
  ASSUME NEW s, Canon(s)
  PROVE  Members(s) \subseteq Chars
<1>1. ASSUME NEW x \in Members(s) PROVE x \in Chars
  <2>1. PICK k \in 1..Len(s) : x \in s[k].from..s[k].to
    BY InMembers DEF Canon
  <2> QED
    BY <2>1, Bounds, CharsAssumption DEF Chars
<1> QED
  BY <1>1

LEMMA EmptyList == Canon(<<>>) /\ Members(<<>>) = {}
<1>1. <<>> \in Seq(Ranges) /\ Len(<<>>) = 0
  OBVIOUS
<1>2. Members(<<>>) = {}
  BY DEF Members
<1> QED
  BY <1>1, <1>2 DEF Canon

\* Or, And and Subtract do with lists what they mean for sets.
LEMMA OrRight ==
  ASSUME NEW s, Canon(s), NEW b, Canon(b)
  PROVE  Canon(Or(s, b)) /\ Members(Or(s, b)) = Members(s) \cup Members(b)
<1>1. Adds(s, Members(b) \cap Chars, Or(s, b))
  BY AddRangesRight DEF Or
<1>2. Members(b) \cap Chars = Members(b)
  BY MembersChars
<1> QED
  BY <1>1, <1>2, Zenon DEF Adds

LEMMA AndRight ==
  ASSUME NEW s, Canon(s), NEW b, Canon(b)
  PROVE  Canon(And(s, b)) /\ Members(And(s, b)) = Members(s) \cap Members(b)
<1> DEFINE chosen == {i \in Chars : Get(b, i)}
<1>1. chosen \subseteq Chars /\ Canon(<<>>)
  BY EmptyList
<1>2. Adds(<<>>, Members(s) \cap chosen, AddRanges(<<>>, s, chosen))
  <2> HIDE DEF chosen
  <2> QED
    BY <1>1, AddRangesRight
<1>3. Adds(<<>>, Members(s) \cap chosen, And(s, b))
  BY <1>2 DEF And
<1>4. \A i \in Chars : i \in Int
  BY DEF Chars
<1>5. Members(s) \cap chosen = Members(s) \cap Members(b)
  <2>1. \A i \in Chars : Get(b, i) <=> i \in Members(b)
    BY <1>4, GetRight
  <2>2. Members(s) \subseteq Chars
    BY MembersChars
  <2> QED
    BY <2>1, <2>2
<1>6. Canon(And(s, b)) /\ Members(And(s, b)) = Members(<<>>) \cup (Members(s) \cap Members(b))
  BY <1>3, <1>5, Zenon DEF Adds
<1> QED
  BY <1>6, EmptyList

LEMMA SubtractRight ==
  ASSUME NEW s, Canon(s), NEW b, Canon(b)
  PROVE  Canon(Subtract(s, b)) /\ Members(Subtract(s, b)) = Members(s) \ Members(b)
<1> DEFINE chosen == {i \in Chars : ~Get(b, i)}
<1>1. chosen \subseteq Chars /\ Canon(<<>>)
  BY EmptyList
<1>2. Adds(<<>>, Members(s) \cap chosen, AddRanges(<<>>, s, chosen))
  <2> HIDE DEF chosen
  <2> QED
    BY <1>1, AddRangesRight
<1>3. Adds(<<>>, Members(s) \cap chosen, Subtract(s, b))
  BY <1>2 DEF Subtract
<1>4. \A i \in Chars : i \in Int
  BY DEF Chars
<1>5. Members(s) \cap chosen = Members(s) \ Members(b)
  <2>1. \A i \in Chars : Get(b, i) <=> i \in Members(b)
    BY <1>4, GetRight
  <2>2. Members(s) \subseteq Chars
    BY MembersChars
  <2> QED
    BY <2>1, <2>2
<1>6. Canon(Subtract(s, b)) /\ Members(Subtract(s, b)) = Members(<<>>) \cup (Members(s) \ Members(b))
  BY <1>3, <1>5, Zenon DEF Adds
<1> QED
  BY <1>6, EmptyList

\* Two lists that agree up to k: what the first has, the other has no later.
LEMMA NotLater ==
  ASSUME NEW s, Canon(s), NEW b, Canon(b), NEW k \in 1..Len(s),
         \A j \in 1..(k - 1) : j \in 1..Len(b) /\ s[j] = b[j],
         Members(s) \subseteq Members(b)
  PROVE  k \in 1..Len(b) /\ b[k].from <= s[k].from
<1>1. s \in Seq(Ranges) /\ b \in Seq(Ranges) /\ Len(s) \in Nat /\ Len(b) \in Nat
  BY DEF Canon
<1>2. s[k].from \in Nat /\ s[k].from <= s[k].to /\ s[k].to \in Nat
  BY Bounds
<1>3. s[k].from \in Members(s)
  <2>1. s[k].from \in s[k].from..s[k].to
    BY <1>2
  <2> QED
    BY <1>1, <2>1, InMembers
<1>4. PICK m \in 1..Len(b) : s[k].from \in b[m].from..b[m].to
  BY <1>1, <1>3, InMembers
<1>5. b[m].from \in Nat /\ b[m].to \in Nat
  BY Bounds
<1>6. m >= k
  <2> SUFFICES ASSUME m < k PROVE FALSE
    BY <1>1
  <2>1. m \in 1..(k - 1) /\ m \in 1..Len(s) /\ s[m] = b[m]
    BY <1>1
  <2>2. s[m].to + 1 < s[k].from
    BY <2>1 DEF Canon
  <2> QED
    BY <1>2, <1>4, <1>5, <2>1, <2>2
<1>7. k \in 1..Len(b)
  BY <1>1, <1>6
<1>8. b[k].from <= b[m].from
  <2>1. b[k].from \in Nat /\ b[k].to \in Nat /\ b[k].from <= b[k].to
    BY <1>7, Bounds
  <2>2. CASE k = m
    BY <1>5, <2>2
  <2>3. CASE k < m
    <3>1. b[k].to + 1 < b[m].from
      BY <1>7, <2>3 DEF Canon
    <3> QED
      BY <1>5, <2>1, <3>1
  <2> QED
    BY <1>6, <2>2, <2>3
<1>9. b[k].from \in Nat
  BY <1>7, Bounds
<1> QED
  BY <1>2, <1>4, <1>5, <1>7, <1>8, <1>9

\* A range that starts where the other list's does ends no later, if all of it is there.
LEMMA NotLonger ==
  ASSUME NEW s, Canon(s), NEW b, Canon(b), NEW k \in 1..Len(s), k \in 1..Len(b),
         s[k].from = b[k].from, Members(b) \subseteq Members(s)
  PROVE  b[k].to <= s[k].to
<1>1. s \in Seq(Ranges) /\ b \in Seq(Ranges)
  BY DEF Canon
<1>2. \A j \in 1..Len(s) : s[j].from \in Nat /\ s[j].to \in Nat /\ s[j].from <= s[j].to
  BY Bounds
<1>3. b[k].from \in Nat /\ b[k].to \in Nat
  BY Bounds
<1>4. SUFFICES ASSUME s[k].to < b[k].to PROVE FALSE
  BY <1>2, <1>3
<1> DEFINE y == s[k].to + 1
<1>5. y \in b[k].from..b[k].to
  BY <1>2, <1>3, <1>4
<1>6. y \in Members(s)
  <2> HIDE DEF y
  <2> QED
    BY <1>1, <1>5, InMembers
<1>7. PICK m \in 1..Len(s) : y \in s[m].from..s[m].to
  <2> HIDE DEF y
  <2> QED
    BY <1>1, <1>6, InMembers
<1>8. m > k
  <2> SUFFICES ASSUME m <= k PROVE FALSE
    OBVIOUS
  <2>1. m = k \/ s[m].to + 1 < s[k].from
    BY DEF Canon
  <2> QED
    BY <1>2, <1>7, <2>1
<1>9. s[k].to + 1 < s[m].from
  BY <1>8 DEF Canon
<1> QED
  BY <1>2, <1>7, <1>9

\* Equals compares the ranges; as the lists are the shortest ones, it compares the sets.
THEOREM EqualsRight ==
  ASSUME NEW s, Canon(s), NEW b, Canon(b)
  PROVE  Equals(s, b) <=> Members(s) = Members(b)
<1>1. /\ s \in Seq(Ranges) /\ b \in Seq(Ranges) /\ Len(s) \in Nat /\ Len(b) \in Nat
      /\ DOMAIN s = 1..Len(s) /\ DOMAIN b = 1..Len(b)
  BY DEF Canon
<1>2. ASSUME Equals(s, b) PROVE Members(s) = Members(b)
  <2>1. DOMAIN s = DOMAIN b /\ \A k \in DOMAIN s : s[k] = b[k]
    BY <1>1, <1>2 DEF Equals
  <2> QED
    BY <2>1, Zenon DEF Members
<1>3. ASSUME Members(s) = Members(b) PROVE Equals(s, b)
  <2>1. Members(s) \subseteq Members(b) /\ Members(b) \subseteq Members(s)
    BY <1>3, Zenon
  <2> DEFINE G == {k \in 0..Len(s) : \A j \in 1..k : j \in 1..Len(b) /\ s[j] = b[j]}
  <2>2. 0 \in G
    BY <1>1
  <2>3. ASSUME NEW k \in (0 + 1)..Len(s), k - 1 \in G PROVE k \in G
    <3>1. k \in 1..Len(s) /\ \A j \in 1..(k - 1) : j \in 1..Len(b) /\ s[j] = b[j]
      BY <1>1, <2>3
    <3>2. k \in 1..Len(b) /\ b[k].from <= s[k].from
      BY <2>1, <3>1, NotLater
    <3>3. s[k].from <= b[k].from
      <4>1. \A j \in 1..(k - 1) : j \in 1..Len(s) /\ b[j] = s[j]
        BY <1>1, <3>1
      <4> QED
        BY <2>1, <3>2, <4>1, NotLater
    <3>4. /\ s[k].from \in Nat /\ b[k].from \in Nat /\ s[k].to \in Nat /\ b[k].to \in Nat
          /\ s[k] = NewRange(s[k].from, s[k].to) /\ b[k] = NewRange(b[k].from, b[k].to)
      BY <3>1, <3>2, Bounds
    <3>5. s[k].from = b[k].from
      BY <3>2, <3>3, <3>4
    <3>6. b[k].to <= s[k].to /\ s[k].to <= b[k].to
      <4>1. b[k].to <= s[k].to
        BY <2>1, <3>1, <3>2, <3>5, NotLonger
      <4>2. s[k].to <= b[k].to
        BY <2>1, <3>1, <3>2, <3>5, NotLonger
      <4> QED
        BY <4>1, <4>2
    <3>7. s[k].to = b[k].to
      BY <3>4, <3>6
    <3>8. s[k] = b[k]
      BY <3>4, <3>5, <3>7, Zenon
    <3>9. \A j \in 1..k : j \in 1..(k - 1) \/ j = k
      BY <3>1
    <3> QED
      BY <1>1, <3>1, <3>2, <3>8, <3>9
  <2>4. Len(s) \in G
    <3> HIDE DEF G
    <3> QED
      BY <1>1, <2>2, <2>3, LoopKeeps
  <2>5. \A j \in 1..Len(s) : j \in 1..Len(b) /\ s[j] = b[j]
    BY <2>4
  <2>6. Len(s) = Len(b)
    <3>1. Len(s) <= Len(b)
      BY <1>1, <2>5
    <3>2. ~(Len(s) < Len(b))
      <4>1. SUFFICES ASSUME Len(s) < Len(b) PROVE FALSE
        OBVIOUS
      <4>2. PICK k : k = Len(s) + 1
        OBVIOUS
      <4>3. k \in 1..Len(b) /\ \A j \in 1..(k - 1) : j \in 1..Len(s) /\ b[j] = s[j]
        BY <1>1, <2>5, <4>1, <4>2
      <4>4. k \in 1..Len(s)
        BY <2>1, <4>3, NotLater
      <4> QED
        BY <1>1, <4>2, <4>4
    <3>3. \A m, n \in Nat : m <= n /\ ~(m < n) => m = n
      OBVIOUS
    <3> QED
      BY <1>1, <3>1, <3>2, <3>3, Zenon
  <2> QED
    BY <1>1, <2>5, <2>6 DEF Equals
<1> QED
  BY <1>2, <1>3

\* The first ranges of a list and one more, which has no character with them.
LEMMA OneMore ==
  ASSUME NEW s, Canon(s), NEW k \in 1..Len(s), IsFiniteSet(FirstOnes(s, k - 1))
  PROVE  /\ IsFiniteSet(FirstOnes(s, k))
         /\ Cardinality(FirstOnes(s, k))
              = Cardinality(FirstOnes(s, k - 1)) + (s[k].to - s[k].from + 1)
<1>1. /\ k \in Nat /\ Len(s) \in Nat /\ s[k].from \in Int /\ s[k].to \in Int
      /\ s[k].from <= s[k].to
  BY Bounds DEF Canon
<1> DEFINE before == FirstOnes(s, k - 1)
           range == s[k].from..s[k].to
<1>2. FirstOnes(s, k) = before \cup range
  <2>1. \A j : j \in 1..k <=> j \in 1..(k - 1) \/ j = k
    BY <1>1
  <2> QED
    BY <2>1, Zenon DEF FirstOnes
<1>3. before \cap range = {}
  <2>1. SUFFICES ASSUME NEW x \in before, x \in range PROVE FALSE
    OBVIOUS
  <2>2. PICK j \in 1..(k - 1) : x \in s[j].from..s[j].to
    BY <2>1, Zenon DEF FirstOnes
  <2>3. j \in 1..Len(s) /\ j < k
    BY <1>1
  <2>4. s[j].to + 1 < s[k].from /\ s[j].from \in Int /\ s[j].to \in Int
    BY <2>3, Bounds DEF Canon
  <2> QED
    BY <1>1, <2>1, <2>2, <2>4
<1>4. IsFiniteSet(range) /\ Cardinality(range) = s[k].to - s[k].from + 1
  <2>1. PICK a \in Int : a = s[k].from
    BY <1>1
  <2>2. PICK b \in Int : b = s[k].to
    BY <1>1
  <2>3. /\ IsFiniteSet(a..b)
        /\ Cardinality(a..b) = IF a > b THEN 0 ELSE b - a + 1
    BY FS_Interval, Zenon
  <2>4. ~(a > b)
    BY <1>1, <2>1, <2>2
  <2>5. IsFiniteSet(a..b) /\ Cardinality(a..b) = b - a + 1
    BY <2>3, <2>4, Zenon
  <2> QED
    BY <2>1, <2>2, <2>5, Zenon
<1> HIDE DEF before, range
<1>5. /\ IsFiniteSet(before \cup range)
      /\ Cardinality(before \cup range)
           = Cardinality(before) + Cardinality(range) - Cardinality(before \cap range)
  <2>1. IsFiniteSet(before)
    BY DEF before
  <2> QED
    BY <1>4, <2>1, FS_Union, Zenon
<1>6. Cardinality(before \cap range) = 0 /\ Cardinality(before) \in Nat
  <2>1. Cardinality(before \cap range) = 0
    BY <1>3, FS_EmptySet, Zenon
  <2>2. IsFiniteSet(before)
    BY DEF before
  <2> QED
    BY <2>1, <2>2, FS_CardinalityType
<1>7. Cardinality(before \cup range) = Cardinality(before) + Cardinality(range)
  <2>1. Cardinality(range) \in Int
    BY <1>1, <1>4
  <2> QED
    BY <1>5, <1>6, <2>1
<1> QED
  BY <1>2, <1>4, <1>5, <1>7 DEF before

\* Elements counts the characters of the set: no range has one of another.
LEMMA ElementsRight ==
  ASSUME NEW s, Canon(s)
  PROVE  IsFiniteSet(Members(s)) /\ Elements(s) = Cardinality(Members(s))
<1> DEFINE n == Len(s)
           size(k) == s[k].to - s[k].from + 1
           Loop(f) == f = [k \in 0..n |-> IF k = 0 THEN 0
                                          ELSE f[k - 1] + (s[k].to - s[k].from + 1)]
           round == [z \in (0..n) \X Int |-> IF z[1] = 0 THEN z[2] ELSE z[2] + size(z[1])]
<1>1. n \in Int /\ 0 <= n /\ s \in Seq(Ranges)
  BY DEF Canon
<1>2. \A k \in 1..n : size(k) \in Int
  BY Bounds
<1> HIDE DEF n, size
<1>3. round \in [(0..n) \X Int -> Int]
  <2>1. ASSUME NEW k \in 0..n, NEW m \in Int
        PROVE  (IF k = 0 THEN m ELSE m + size(k)) \in Int
    <3>1. k = 0 \/ k \in 1..n
      BY <1>1
    <3> QED
      BY <1>2, <3>1
  <2> QED
    BY <2>1
<1>4. PICK f : IsLoop(f, Int, 0, 0, n, round)
  <2> HIDE DEF round
  <2>1. 0 \in Int
    OBVIOUS
  <2> QED
    BY <1>1, <1>3, <2>1, LoopExists, Zenon
<1>5. \A k \in 0..n, m \in Int : round[<<k, m>>] = IF k = 0 THEN m ELSE m + size(k)
  OBVIOUS
<1> HIDE DEF round
<1>6. Loop(f)
  <2>1. f \in [0..n -> Int] /\ f[0] = 0
    BY <1>4 DEF IsLoop
  <2>2. ASSUME NEW k \in 0..n PROVE f[k] = IF k = 0 THEN 0 ELSE f[k - 1] + size(k)
    <3>1. CASE k = 0
      BY <2>1, <3>1
    <3>2. CASE k # 0
      <4>1. k \in (0 + 1)..n /\ k - 1 \in 0..n
        BY <1>1, <3>2
      <4>2. f[k] = round[<<k, f[k - 1]>>] /\ f[k - 1] \in Int
        BY <1>4, <2>1, <4>1 DEF IsLoop
      <4>3. round[<<k, f[k - 1]>>] = f[k - 1] + size(k)
        BY <1>5, <3>2, <4>2, Zenon
      <4> QED
        BY <3>2, <4>2, <4>3, Zenon
    <3> QED
      BY <3>1, <3>2
  <2>3. f = [k \in 0..n |-> IF k = 0 THEN 0 ELSE f[k - 1] + size(k)]
    BY <2>1, <2>2
  <2> QED
    BY <2>3 DEF size
<1>7. PICK g : Loop(g) /\ Elements(s) = g[n]
  <2> DEFINE h == CHOOSE g : Loop(g)
  <2>1. Loop(h)
    BY <1>6, Zenon
  <2>2. Elements(s) = h[n]
    BY DEF Elements, n
  <2> QED
    BY <2>1, <2>2
<1>8. \A k \in 0..n : g[k] = IF k = 0 THEN 0 ELSE g[k - 1] + size(k)
  BY <1>7 DEF size
<1> HIDE DEF Loop
<1> DEFINE Right == {k \in 0..n : IsFiniteSet(FirstOnes(s, k)) /\ g[k] = Cardinality(FirstOnes(s, k))}
<1>9. 0 \in Right
  <2>1. g[0] = 0
    BY <1>1, <1>8
  <2>2. FirstOnes(s, 0) = {}
    BY DEF FirstOnes
  <2> QED
    <3>1. IsFiniteSet(FirstOnes(s, 0)) /\ Cardinality(FirstOnes(s, 0)) = 0
      BY <2>2, FS_EmptySet, Zenon
    <3>2. 0 \in 0..n
      BY <1>1
    <3> QED
      BY <2>1, <3>1, <3>2, Zenon
<1>10. ASSUME NEW k \in (0 + 1)..n, k - 1 \in Right PROVE k \in Right
  <2>1. k \in 1..n /\ k \in 0..n /\ k # 0 /\ k - 1 \in 0..n
    BY <1>1
  <2>2. IsFiniteSet(FirstOnes(s, k - 1)) /\ g[k - 1] = Cardinality(FirstOnes(s, k - 1))
    BY <1>10
  <2>3. /\ IsFiniteSet(FirstOnes(s, k))
        /\ Cardinality(FirstOnes(s, k)) = Cardinality(FirstOnes(s, k - 1)) + size(k)
    BY <2>1, <2>2, OneMore DEF n, size
  <2>4. g[k] = g[k - 1] + size(k)
    BY <1>8, <2>1, Zenon
  <2> QED
    BY <2>1, <2>2, <2>3, <2>4, Zenon
<1>11. n \in Right
  <2> HIDE DEF Right
  <2> QED
    BY <1>1, <1>9, <1>10, LoopKeeps
<1>12. FirstOnes(s, n) = Members(s)
  <2>1. DOMAIN s = 1..n
    BY <1>1 DEF n
  <2> QED
    BY <2>1, Zenon DEF FirstOnes, Members
<1> QED
  BY <1>7, <1>11, <1>12

\* Includes and Intersects ask for the characters of the other set one by one.
LEMMA CompareRight ==
  ASSUME NEW s, Canon(s), NEW b, Canon(b)
  PROVE  /\ Includes(s, b) <=> Members(b) \subseteq Members(s)
         /\ Intersects(s, b) <=> Members(b) \cap Members(s) # {}
<1>1. b \in Seq(Ranges) /\ DOMAIN b = 1..Len(b)
  BY DEF Canon
<1>2. \A x : x \in Members(b) <=> \E k \in DOMAIN b : x \in b[k].from..b[k].to
  BY <1>1, InMembers
<1>3. \A k \in DOMAIN b : \A i \in b[k].from..b[k].to : Get(s, i) <=> i \in Members(s)
  BY <1>1, Bounds, GetRight
<1>4. Includes(s, b) <=> Members(b) \subseteq Members(s)
  BY <1>2, <1>3, Zenon DEF Includes
<1>5. Intersects(s, b) <=> \E x : x \in Members(b) /\ x \in Members(s)
  BY <1>2, <1>3, Zenon DEF Intersects
<1> QED
  BY <1>4, <1>5

\* First is the least character, or -1.
LEMMA FirstRight ==
  ASSUME NEW s, Canon(s)
  PROVE  LET m == Members(s)
         IN First(s) = IF m = {} THEN -1 ELSE CHOOSE i \in m : \A j \in m : i <= j
<1> DEFINE m == Members(s)
<1>1. s \in Seq(Ranges) /\ Len(s) \in Nat
  BY DEF Canon
<1>2. CASE s = <<>>
  BY <1>2, EmptyList DEF First
<1>3. CASE s # <<>>
  <2>1. 1 \in 1..Len(s)
    BY <1>1, <1>3
  <2>2. s[1].from \in Nat /\ s[1].to \in Nat /\ s[1].from <= s[1].to
    BY <2>1, Bounds
  <2>3. s[1].from \in m
    <3>1. s[1].from \in s[1].from..s[1].to
      BY <2>2
    <3> QED
      BY <1>1, <2>1, <3>1, InMembers
  <2>4. ASSUME NEW j \in m PROVE j \in Nat /\ s[1].from <= j
    <3>1. PICK k \in 1..Len(s) : j \in s[k].from..s[k].to
      BY <1>1, InMembers
    <3>2. s[k].from \in Nat /\ s[k].to \in Nat
      BY Bounds
    <3>3. k = 1 \/ (1 < k /\ s[1].to + 1 < s[k].from)
      BY <1>1, <2>1 DEF Canon
    <3> QED
      BY <2>2, <3>1, <3>2, <3>3
  <2> HIDE DEF m
  <2>5. \A i \in m : (\A j \in m : i <= j) => i = s[1].from
    <3>1. ASSUME NEW i \in m, \A j \in m : i <= j PROVE i = s[1].from
      <4>1. i <= s[1].from
        BY <2>3, <3>1
      <4> QED
        BY <2>2, <2>4, <4>1
    <3> QED
      BY <3>1
  <2>6. s[1].from = CHOOSE i \in m : \A j \in m : i <= j
    BY <2>3, <2>4, <2>5, Zenon
  <2> QED
    BY <1>3, <2>3, <2>6 DEF First, m
<1> QED
  BY <1>2, <1>3

----------------------------------------------------------------------------
(* The specification.                                                      *)

IInv ==
  /\ list \in [Objects -> Lists]
  /\ \A o \in Objects : Canon(list[o])

LEMMA IInvInit == Init => IInv
  BY EmptyList DEF Init, IInv, Lists, Canon

\* An assignment of a canonical list keeps all lists canonical.
LEMMA AssignKeeps ==
  ASSUME NEW o \in Objects, NEW s, Canon(s), IInv, Assign(o, s)
  PROVE  IInv'
<1>1. s \in Lists
  BY DEF Lists, Canon
<1>2. list' \in [Objects -> Lists]
  BY <1>1 DEF Assign, IInv
<1>3. \A p \in Objects : Canon(list'[p])
  BY <1>2, Zenon DEF Lists
<1> QED
  BY <1>2, <1>3 DEF IInv

LEMMA IInvNext == IInv /\ [Next]_list => IInv'
<1> SUFFICES ASSUME IInv, [Next]_list PROVE IInv'
  OBVIOUS
<1>1. CASE UNCHANGED list
  BY <1>1 DEF IInv
<1>2. CASE Next
  <2>1. PICK o \in Objects :
          \/ \E i \in Chars : SetChar(o, i)
          \/ Clear(o) \/ Fill(o)
          \/ \E b \in Objects : AndWith(o, b) \/ OrWith(o, b) \/ SubtractFrom(o, b) \/ Copy(o, b)
    BY <1>2, Zenon DEF Next
  <2>2. Canon(list[o])
    BY DEF IInv
  <2>3. CASE \E i \in Chars : SetChar(o, i)
    <3>1. PICK i \in Chars : Assign(o, Set(list[o], i))
      BY <2>3 DEF SetChar
    <3>2. Adds(list[o], {i}, Set(list[o], i))
      BY <2>2, SetRight
    <3>3. Canon(Set(list[o], i))
      BY <3>2, Zenon DEF Adds
    <3> QED
      BY <3>1, <3>3, AssignKeeps, Zenon
  <2>4. CASE Clear(o)
    BY <2>4, EmptyList, AssignKeeps, Zenon DEF Clear
  <2>5. CASE Fill(o)
    <3> DEFINE r == NewRange(0, MaxChar)
    <3>1. r \in Ranges /\ r.from = 0 /\ r.to = MaxChar
      BY RangeFields, CharsAssumption
    <3>2. <<r>> \in Seq(Ranges) /\ Len(<<r>>) = 1 /\ <<r>>[1] = r
      BY <3>1
    <3> HIDE DEF r
    <3>3. Canon(<<r>>)
      BY <3>1, <3>2, CharsAssumption DEF Canon
    <3> QED
      BY <2>5, <3>3, AssignKeeps, Zenon DEF Fill, r
  <2>6. CASE \E b \in Objects : AndWith(o, b) \/ OrWith(o, b) \/ SubtractFrom(o, b) \/ Copy(o, b)
    <3>1. PICK b \in Objects : AndWith(o, b) \/ OrWith(o, b) \/ SubtractFrom(o, b) \/ Copy(o, b)
      BY <2>6
    <3>2. Canon(list[b])
      BY DEF IInv
    <3>3. CASE AndWith(o, b)
      BY <2>2, <3>2, <3>3, AndRight, AssignKeeps, Zenon DEF AndWith
    <3>4. CASE OrWith(o, b)
      BY <2>2, <3>2, <3>4, OrRight, AssignKeeps, Zenon DEF OrWith
    <3>5. CASE SubtractFrom(o, b)
      BY <2>2, <3>2, <3>5, SubtractRight, AssignKeeps, Zenon DEF SubtractFrom
    <3>6. CASE Copy(o, b)
      BY <3>2, <3>6, AssignKeeps, Zenon DEF Copy
    <3> QED
      BY <3>1, <3>3, <3>4, <3>5, <3>6
  <2> QED
    BY <2>1, <2>3, <2>4, <2>5, <2>6
<1> QED
  BY <1>1, <1>2

\* The list of every set is the shortest there is, whatever is done with the sets.
THEOREM AlwaysCanonical == Spec => []Canonical
<1>1. IInv => Canonical
  <2> SUFFICES ASSUME IInv, NEW o \in Objects
               PROVE  LET s == list[o] IN
                      /\ \A k \in DOMAIN s :
                           0 <= s[k].from /\ s[k].from <= s[k].to /\ s[k].to <= MaxChar
                      /\ \A k \in 1..(Len(s) - 1) : s[k].to + 1 < s[k + 1].from
    BY DEF Canonical
  <2>1. PICK s : s = list[o]
    OBVIOUS
  <2>2. Canon(s) /\ s \in Seq(Ranges) /\ DOMAIN s = 1..Len(s)
    BY <2>1 DEF IInv, Canon
  <2>3. \A k \in 1..(Len(s) - 1) : k \in 1..Len(s) /\ k + 1 \in 1..Len(s) /\ k < k + 1
    BY <2>2
  <2>4. \A k \in 1..(Len(s) - 1) : s[k].to + 1 < s[k + 1].from
    BY <2>2, <2>3, Zenon DEF Canon
  <2> QED
    BY <2>1, <2>2, <2>4, Zenon DEF Canon
<1> QED
  BY <1>1, IInvInit, IInvNext, PTL DEF Spec

\* What Set, And, Or and Subtract do to the ranges is done to the sets they stand for.
THEOREM AlwaysOnSets == Spec => []OperatesOnSets
<1>1. IInv => OperatesOnSets
  <2> SUFFICES ASSUME IInv, NEW o \in Objects, NEW b \in Objects
               PROVE  /\ \A i \in Chars : Members(Set(list[o], i)) = Members(list[o]) \cup {i}
                      /\ Members(And(list[o], list[b])) = Members(list[o]) \cap Members(list[b])
                      /\ Members(Or(list[o], list[b])) = Members(list[o]) \cup Members(list[b])
                      /\ Members(Subtract(list[o], list[b])) = Members(list[o]) \ Members(list[b])
    BY Zenon DEF OperatesOnSets
  <2>1. Canon(list[o]) /\ Canon(list[b])
    BY DEF IInv
  <2>2. ASSUME NEW i \in Chars PROVE Members(Set(list[o], i)) = Members(list[o]) \cup {i}
    <3>1. Adds(list[o], {i}, Set(list[o], i))
      BY <2>1, SetRight
    <3> QED
      BY <3>1, Zenon DEF Adds
  <2>3. Members(And(list[o], list[b])) = Members(list[o]) \cap Members(list[b])
    BY <2>1, AndRight, Zenon
  <2>4. Members(Or(list[o], list[b])) = Members(list[o]) \cup Members(list[b])
    BY <2>1, OrRight, Zenon
  <2>5. Members(Subtract(list[o], list[b])) = Members(list[o]) \ Members(list[b])
    BY <2>1, SubtractRight, Zenon
  <2> QED
    BY <2>2, <2>3, <2>4, <2>5
<1> QED
  BY <1>1, IInvInit, IInvNext, PTL DEF Spec
\* What is asked of the ranges, Equals and the number of elements included, is answered
\* as it is of the sets they stand for.
THEOREM AlwaysAboutSets == Spec => []AnswersAboutSets
<1>1. IInv => AnswersAboutSets
  <2>1. SUFFICES ASSUME IInv, NEW o \in Objects, NEW b \in Objects, NEW s, s = list[o],
                        NEW other, other = list[b]
               PROVE  /\ \A i \in 0..(MaxChar + 1) : Get(s, i) <=> i \in Members(s)
                      /\ Equals(s, other) <=> Members(s) = Members(other)
                      /\ Includes(s, other) <=> Members(other) \subseteq Members(s)
                      /\ Intersects(s, other) <=> Members(other) \cap Members(s) # {}
                      /\ Elements(s) = Cardinality(Members(s))
                      /\ First(s) = IF Members(s) = {} THEN -1
                                    ELSE CHOOSE i \in Members(s) : \A j \in Members(s) : i <= j
    BY Zenon DEF AnswersAboutSets
  <2>2. Canon(s) /\ Canon(other)
    BY <2>1 DEF IInv
  <2>3. \A i \in 0..(MaxChar + 1) : Get(s, i) <=> i \in Members(s)
    BY <2>2, GetRight
  <2>4. Equals(s, other) <=> Members(s) = Members(other)
    BY <2>2, EqualsRight
  <2> QED
    BY <2>2, <2>3, <2>4, CompareRight, ElementsRight, FirstRight, Zenon
<1> QED
  BY <1>1, IInvInit, IInvNext, PTL DEF Spec
=============================================================================
