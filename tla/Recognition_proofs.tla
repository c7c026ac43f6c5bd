------------------------ MODULE Recognition_proofs ------------------------
(***************************************************************************)
(* Proofs about what the scanner automaton recognises: the words of the    *)
(* declared tokens, of any length, from the declarations through both      *)
(* rounds of MakeDeterministic to the automaton that is written.           *)
(*                                                                         *)
(* First paths of words through any set of edges, then the walk of         *)
(* MatchLiteral, then one lemma per action that RecognitionInv is kept.    *)
(***************************************************************************)
EXTENDS Recognition, SubsetConstruction_proofs

----------------------------------------------------------------------------
(* Paths, for any edges.                                                   *)

\* The states the first k characters of w lead to.
IsPath(E, w, k, p) ==
  p \in [0..k -> Nat] /\ p[0] = first /\ \A i \in 1..k : <<p[i - 1], w[i], p[i]>> \in E

After(E, w, k) == {q \in Nat : \E p : IsPath(E, w, k, p) /\ p[k] = q}

\* One character further.
LEMMA AfterStep ==
  ASSUME NEW E, NEW w
  PROVE  /\ After(E, w, 0) = {first}
         /\ \A k \in Nat : \A q : q \in After(E, w, k + 1) <=>
              q \in Nat /\ \E p \in After(E, w, k) : <<p, w[k + 1], q>> \in E
<1>1. After(E, w, 0) = {first}
  <2>1. first \in Nat
    BY DEF first
  <2>2. IsPath(E, w, 0, [i \in 0..0 |-> first])
    BY <2>1 DEF IsPath
  <2>3. \A p : IsPath(E, w, 0, p) => p[0] = first
    BY DEF IsPath
  <2> QED BY <2>1, <2>2, <2>3 DEF After
<1>2. ASSUME NEW k \in Nat, NEW q, q \in After(E, w, k + 1)
      PROVE  q \in Nat /\ \E p \in After(E, w, k) : <<p, w[k + 1], q>> \in E
  <2>1. PICK p : IsPath(E, w, k + 1, p) /\ p[k + 1] = q
    BY <1>2 DEF After
  <2> DEFINE r == [i \in 0..k |-> p[i]]
  <2>2. IsPath(E, w, k, r) /\ r[k] = p[k] /\ p[k] \in Nat
    BY <2>1 DEF IsPath
  <2>3. p[k] \in After(E, w, k)
    BY <2>2 DEF After
  <2>4. <<p[k], w[k + 1], q>> \in E
    <3>1. k + 1 \in 1..(k + 1) /\ (k + 1) - 1 = k
      OBVIOUS
    <3>2. <<p[(k + 1) - 1], w[k + 1], p[k + 1]>> \in E
      BY <2>1, <3>1 DEF IsPath
    <3> QED BY <2>1, <3>1, <3>2
  <2> QED BY <1>2, <2>3, <2>4 DEF After
<1>3. ASSUME NEW k \in Nat, NEW q \in Nat, NEW p \in After(E, w, k), <<p, w[k + 1], q>> \in E
      PROVE  q \in After(E, w, k + 1)
  <2>1. PICK r : IsPath(E, w, k, r) /\ r[k] = p
    BY <1>3 DEF After
  <2> DEFINE f == [i \in 0..(k + 1) |-> IF i = k + 1 THEN q ELSE r[i]]
  <2>2. f \in [0..(k + 1) -> Nat] /\ f[0] = first /\ f[k + 1] = q /\ \A i \in 0..k : f[i] = r[i]
    BY <2>1 DEF IsPath
  <2>3. ASSUME NEW i \in 1..(k + 1) PROVE <<f[i - 1], w[i], f[i]>> \in E
    <3> HIDE DEF f
    <3>1. CASE i = k + 1
      <4>1. i - 1 = k /\ k \in 0..k
        BY <3>1
      <4> QED BY <1>3, <2>1, <2>2, <3>1, <4>1
    <3>2. CASE i # k + 1
      <4>1. i \in 1..k /\ i - 1 \in 0..k /\ i \in 0..k
        BY <3>2
      <4>2. <<r[i - 1], w[i], r[i]>> \in E
        BY <2>1, <4>1 DEF IsPath
      <4> QED BY <2>2, <4>1, <4>2
    <3> QED BY <3>1, <3>2
  <2>4. IsPath(E, w, k + 1, f)
    <3> HIDE DEF f
    <3> QED BY <2>2, <2>3 DEF IsPath
  <2> HIDE DEF f
  <2> QED BY <2>2, <2>4 DEF After
<1> QED BY <1>1, <1>2, <1>3

\* What is ended behind a word.
LEMMA EndedIs ==
  ASSUME NEW E, NEW ends, NEW w \in Seq(Chars)
  PROVE  Ended(E, ends, w) = {ends[q] : q \in After(E, w, Len(w))} \ {NoSym}
<1>1. \A p : p \in Paths(E, w) <=> IsPath(E, w, Len(w), p)
  BY DEF Paths, IsPath
<1>2. ASSUME NEW p \in Paths(E, w) PROVE p[Len(w)] \in After(E, w, Len(w))
  <2>1. IsPath(E, w, Len(w), p) /\ p[Len(w)] \in Nat
    BY <1>1 DEF IsPath
  <2> QED BY <2>1 DEF After
<1>3. ASSUME NEW q \in After(E, w, Len(w)) PROVE \E p \in Paths(E, w) : p[Len(w)] = q
  BY <1>1 DEF After
<1> QED BY <1>2, <1>3 DEF Ended

\* The same, by members.
LEMMA EndedHas ==
  ASSUME NEW E, NEW ends, NEW w \in Seq(Chars), NEW x
  PROVE  x \in Ended(E, ends, w) <=> x # NoSym /\ \E q \in After(E, w, Len(w)) : ends[q] = x
<1> DEFINE A == After(E, w, Len(w))
<1>1. Ended(E, ends, w) = {ends[q] : q \in A} \ {NoSym}
  BY EndedIs
<1> HIDE DEF A
<1>2. x \in Ended(E, ends, w) <=> x # NoSym /\ \E q \in A : ends[q] = x
  BY <1>1
<1> QED BY <1>2 DEF A

\* What leads only to Q leaves Q only at the start.
LEMMA AfterInto ==
  ASSUME NEW E, NEW w, NEW Q, \A e \in E : e[3] \in Q, NEW k \in Nat, k > 0
  PROVE  After(E, w, k) \subseteq Q
<1>1. k - 1 \in Nat /\ k = (k - 1) + 1
  OBVIOUS
<1> SUFFICES ASSUME NEW q \in After(E, w, k) PROVE q \in Q
  OBVIOUS
<1>2. PICK p \in After(E, w, k - 1) : <<p, w[k], q>> \in E
  <2>1. \A q1 : q1 \in After(E, w, (k - 1) + 1) =>
          \E p \in After(E, w, k - 1) : <<p, w[(k - 1) + 1], q1>> \in E
    BY <1>1, AfterStep
  <2> QED BY <1>1, <2>1
<1> QED BY <1>2

\* Two automata that share only the start: a word leads through one of them.
LEMMA TwoParts ==
  ASSUME NEW A, NEW B, first \in A, A \cap B = {},
         NEW E, \A e \in E : e[1] \in A /\ e[3] \in A \ {first},
         NEW N, \A e \in N : e[1] \in B \cup {first} /\ e[3] \in B,
         NEW ends, NEW w \in AnyWord
  PROVE  Ended(E \cup N, ends, w) = Ended(E, ends, w) \cup Ended(N, ends, w)
<1>1. w \in Seq(Chars) /\ Len(w) \in Nat /\ Len(w) > 0
  BY DEF AnyWord
<1>2. PICK n \in Nat : n = Len(w)
  BY <1>1
<1> DEFINE G == {k \in 0..n : After(E \cup N, w, k) = After(E, w, k) \cup After(N, w, k)}
<1>3. 0 \in G
  BY AfterStep
<1>4. ASSUME NEW k \in 1..n, k - 1 \in G PROVE k \in G
  <2>1. PICK m \in Nat : m = k - 1 /\ k = m + 1
    BY <1>2
  <2>2. After(E \cup N, w, m) = After(E, w, m) \cup After(N, w, m)
    BY <1>4, <2>1
  <2>3. m > 0 => After(E, w, m) \subseteq A \ {first} /\ After(N, w, m) \subseteq B
    BY <2>1, AfterInto
  <2>4. m = 0 => After(E, w, m) = {first} /\ After(N, w, m) = {first}
    BY AfterStep
  <2>5. \A F : \A q : q \in After(F, w, k) <=>
          q \in Nat /\ \E p \in After(F, w, m) : <<p, w[k], q>> \in F
    BY <2>1, AfterStep
  <2>6. ASSUME NEW q \in After(E \cup N, w, k) PROVE q \in After(E, w, k) \cup After(N, w, k)
    <3>1. PICK p \in After(E \cup N, w, m) : <<p, w[k], q>> \in E \cup N
      BY <2>5
    <3>2. q \in Nat
      BY <2>5
    <3>3. CASE <<p, w[k], q>> \in E
      <4>1. p \in A
        BY <3>3
      <4>2. p \in After(E, w, m)
          <5>1. CASE m = 0
          BY <2>2, <2>4, <5>1
        <5>2. CASE m > 0
          BY <2>2, <2>3, <4>1, <5>2
        <5> QED BY <5>1, <5>2
      <4> QED BY <2>5, <3>2, <3>3, <4>2
    <3>4. CASE <<p, w[k], q>> \in N
      <4>1. p \in B \cup {first}
        BY <3>4
      <4>2. p \in After(N, w, m)
          <5>1. CASE m = 0
          BY <2>2, <2>4, <5>1
        <5>2. CASE m > 0
          BY <2>2, <2>3, <4>1, <5>2
        <5> QED BY <5>1, <5>2
      <4> QED BY <2>5, <3>2, <3>4, <4>2
    <3> QED BY <3>1, <3>3, <3>4
  <2>7. ASSUME NEW q, q \in After(E, w, k) \cup After(N, w, k) PROVE q \in After(E \cup N, w, k)
    BY <2>2, <2>5, <2>7
  <2> QED BY SMTT(30), <2>6, <2>7
<1>5. n \in G
  <2>1. 0..n \subseteq G
    <3> HIDE DEF G
    <3> QED BY <1>3, <1>4, Upwards
  <2> QED BY <2>1
<1>6. After(E \cup N, w, Len(w)) = After(E, w, Len(w)) \cup After(N, w, Len(w))
  BY <1>2, <1>5
<1> HIDE DEF G
<1>7. \A F : \A x : x \in Ended(F, ends, w) <=>
        x # NoSym /\ \E q \in After(F, w, Len(w)) : ends[q] = x
  BY <1>1, EndedHas
<1>8. \A x : x \in Ended(E \cup N, ends, w) <=> x \in Ended(E, ends, w) \/ x \in Ended(N, ends, w)
  <2> DEFINE D(F) == Ended(F, ends, w)
  <2> HIDE DEF D
  <2>1. \A F : \A x : x \in D(F) <=> x # NoSym /\ \E q \in After(F, w, Len(w)) : ends[q] = x
    BY <1>7 DEF D
  <2>2. PICK X, Y, Z : /\ X = After(E \cup N, w, Len(w)) /\ Y = After(E, w, Len(w))
                       /\ Z = After(N, w, Len(w)) /\ X = Y \cup Z
    BY <1>6
  <2>3. \A x : /\ x \in D(E \cup N) <=> x # NoSym /\ \E q \in X : ends[q] = x
               /\ x \in D(E) <=> x # NoSym /\ \E q \in Y : ends[q] = x
               /\ x \in D(N) <=> x # NoSym /\ \E q \in Z : ends[q] = x
    BY <2>1, <2>2
  <2>4. \A q : q \in X <=> q \in Y \/ q \in Z
    BY <2>2
  <2>5. \A x : x \in D(E \cup N) <=> x \in D(E) \/ x \in D(N)
    BY <2>3, <2>4, Zenon
  <2> QED BY <2>5 DEF D
<1> QED BY <1>8

\* Only the states that are led to matter.
LEMMA SameEnds ==
  ASSUME NEW A, NEW E, \A e \in E : e[3] \in A, NEW f, NEW g, \A q \in A : f[q] = g[q],
         NEW w \in AnyWord
  PROVE  Ended(E, f, w) = Ended(E, g, w)
<1>1. w \in Seq(Chars) /\ Len(w) \in Nat /\ Len(w) > 0
  BY DEF AnyWord
<1>2. After(E, w, Len(w)) \subseteq A
  BY <1>1, AfterInto
<1>3. \A q \in After(E, w, Len(w)) : f[q] = g[q]
  BY <1>2
<1>4. Ended(E, f, w) = {f[q] : q \in After(E, w, Len(w))} \ {NoSym}
  BY <1>1, EndedIs
<1>5. Ended(E, g, w) = {g[q] : q \in After(E, w, Len(w))} \ {NoSym}
  BY <1>1, EndedIs
<1>6. PICK X : X = After(E, w, Len(w))
  OBVIOUS
<1>7. {f[q] : q \in X} = {g[q] : q \in X}
  BY <1>3, <1>6
<1> QED BY <1>4, <1>5, <1>6, <1>7

----------------------------------------------------------------------------
(* What a declaration adds.                                                *)

\* The edges of the graph g behind a states, and the text t as a graph.
Place(a, q) == IF q = 0 THEN first ELSE a + q
ArcEdges(g, a) ==
  {e \in Nat \X Chars \X Nat :
     \E j \in DOMAIN g.arcs : /\ Place(a, g.arcs[j].from) = e[1] /\ e[2] \in g.arcs[j].syms
                              /\ Place(a, g.arcs[j].to) = e[3]}
TextGraph(t) ==
  [size |-> Len(t), ends |-> {Len(t)},
   arcs |-> [k \in 1..Len(t) |-> [from |-> k - 1, to |-> k, typ |-> "chr", syms |-> {t[k]},
                                  tc |-> "normalTrans"]]]

\* The renamed graph has the words of the graph.
LEMMA GraphWords ==
  ASSUME NEW a \in Nat \ {0}, NEW g, g.size \in Nat, g.arcs \in Seq(Arcs),
         \A j \in DOMAIN g.arcs : g.arcs[j].from <= g.size /\ g.arcs[j].to <= g.size,
         NEW s, s # NoSym, NEW ends,
         \A k \in 1..g.size : ends[a + k] = IF k \in g.ends THEN s ELSE NoSym,
         NEW w \in AnyWord
  PROVE  Ended(ArcEdges(g, a), ends, w) = IF WordOf(g, w) THEN {s} ELSE {}
<1> DEFINE N == ArcEdges(g, a)
<1>1. w \in Seq(Chars) /\ Len(w) \in Nat /\ Len(w) > 0 /\ \A k \in 1..Len(w) : w[k] \in Chars
  BY DEF AnyWord
<1>2. PICK n \in Nat : n = Len(w) /\ n > 0
  BY <1>1
<1>3. PICK z \in Nat : z = g.size
  OBVIOUS
<1>4. \A j \in DOMAIN g.arcs : /\ g.arcs[j].from \in 0..z /\ g.arcs[j].to \in 1..z
                               /\ g.arcs[j].syms \subseteq Chars
  <2> SUFFICES ASSUME NEW j \in DOMAIN g.arcs
               PROVE  /\ g.arcs[j].from \in 0..z /\ g.arcs[j].to \in 1..z
                      /\ g.arcs[j].syms \subseteq Chars
    OBVIOUS
  <2>1. g.arcs[j] \in Arcs
    <3>1. DOMAIN g.arcs = 1..Len(g.arcs)
      OBVIOUS
    <3> QED BY <3>1, ElementOfSeq
  <2>2. /\ g.arcs[j].from \in Nat /\ g.arcs[j].to \in Nat \ {0}
        /\ g.arcs[j].syms \in SUBSET Chars
    BY <2>1 DEF Arcs
  <2>3. PICK x \in Nat, y \in Nat : x = g.arcs[j].from /\ y = g.arcs[j].to /\ y # 0
    BY <2>2
  <2>4. x <= z /\ y <= z
    BY <1>3, <2>3
  <2> QED BY <2>2, <2>3, <2>4
<1>5. first = 1
  BY DEF first
<1>6. \A k \in 1..z : Place(a, k) = a + k
  BY DEF Place
<1>7. ASSUME NEW p, IsPath(N, w, n, p)
      PROVE  \E k \in 1..z : p[n] = a + k /\ (k \in g.ends => WordOf(g, w))
  <2> DEFINE r == [i \in 0..n |-> IF i = 0 THEN 0 ELSE p[i] - a]
  <2>1. ASSUME NEW i \in 1..n
        PROVE  /\ r[i] \in 1..z /\ p[i] = a + r[i]
               /\ \E j \in DOMAIN g.arcs : g.arcs[j].from = r[i - 1] /\ w[i] \in g.arcs[j].syms
                                           /\ g.arcs[j].to = r[i]
    <3>1. <<p[i - 1], w[i], p[i]>> \in N
      BY <1>7 DEF IsPath
    <3>2. PICK j \in DOMAIN g.arcs : /\ Place(a, g.arcs[j].from) = p[i - 1]
                                     /\ w[i] \in g.arcs[j].syms
                                     /\ Place(a, g.arcs[j].to) = p[i]
      BY <3>1 DEF ArcEdges
    <3>3. PICK t \in 1..z : t = g.arcs[j].to
      BY <1>4
    <3>4. PICK f \in 0..z : f = g.arcs[j].from
      BY <1>4
    <3>5. p[i] = a + t
      BY <1>6, <3>2, <3>3
    <3>6. r[i] = t
      BY <3>5
    <3>7. r[i - 1] = f
      <4>1. CASE i = 1
        <5>1. p[0] = 1 /\ r[i - 1] = 0
          BY <1>5, <1>7, <4>1 DEF IsPath
        <5>2. f # 0 => p[i - 1] = a + f
          BY <3>2, <3>4 DEF Place
        <5> QED BY <4>1, <5>1, <5>2
      <4>2. CASE i # 1
        <5>1. i - 1 \in 1..n
          BY <4>2
        <5>2. <<p[i - 1 - 1], w[i - 1], p[i - 1]>> \in N
          BY <1>7, <5>1 DEF IsPath
        <5>3. PICK j2 \in DOMAIN g.arcs : Place(a, g.arcs[j2].to) = p[i - 1]
          BY <5>2 DEF ArcEdges
        <5>4. PICK t2 \in 1..z : t2 = g.arcs[j2].to
          BY <1>4
        <5>5. p[i - 1] = a + t2
          BY <1>6, <5>3, <5>4
        <5>6. f # 0
          <6>1. f = 0 => p[i - 1] = 1
            BY <1>5, <3>2, <3>4 DEF Place
          <6> QED BY <5>5, <6>1
        <5>7. p[i - 1] = a + f
          BY <3>2, <3>4, <5>6 DEF Place
        <5>8. r[i - 1] = p[i - 1] - a
          BY <5>1
        <5> QED BY <5>7, <5>8
      <4> QED BY <4>1, <4>2
    <3> QED BY <3>2, <3>3, <3>4, <3>5, <3>6, <3>7
  <2>2. n \in 1..n /\ r[0] = 0 /\ r \in [0..n -> 0..z]
    <3>1. ASSUME NEW i \in 0..n PROVE r[i] \in 0..z
      <4>1. CASE i = 0
        BY <4>1
      <4>2. CASE i # 0
        <5>1. i \in 1..n
          BY <4>2
        <5>2. r[i] \in 1..z
          BY <2>1, <5>1
        <5> QED BY <5>2
      <4> QED BY <4>1, <4>2
    <3> QED BY <1>2, <3>1
  <2> HIDE DEF r
  <2>3. r[n] \in 1..z /\ p[n] = a + r[n]
    BY <2>1, <2>2
  <2>4. ASSUME r[n] \in g.ends PROVE WordOf(g, w)
    <3>1. r[n] \in g.ends \ {0}
      BY <2>3, <2>4
    <3>2. \A k \in 1..Len(w) : \E j \in DOMAIN g.arcs :
            g.arcs[j].from = r[k - 1] /\ w[k] \in g.arcs[j].syms /\ g.arcs[j].to = r[k]
      BY <1>2, <2>1
    <3> QED BY <1>2, <1>3, <2>2, <3>1, <3>2 DEF WordOf
  <2> QED BY <2>3, <2>4
<1>8. ASSUME WordOf(g, w) PROVE \E p, k : k \in 1..z /\ k \in g.ends /\ IsPath(N, w, n, p) /\ p[n] = a + k
  <2>1. PICK r \in [0..n -> 0..z] :
          /\ r[0] = 0 /\ r[n] \in g.ends \ {0}
          /\ \A k \in 1..n : \E j \in DOMAIN g.arcs :
               g.arcs[j].from = r[k - 1] /\ w[k] \in g.arcs[j].syms /\ g.arcs[j].to = r[k]
    BY <1>2, <1>3, <1>8 DEF WordOf
  <2> DEFINE p == [i \in 0..n |-> Place(a, r[i])]
  <2>2. \A q \in 0..z : Place(a, q) \in Nat
    BY <1>5 DEF Place
  <2>3. p \in [0..n -> Nat] /\ p[0] = first
    <3>1. 0 \in 0..n /\ Place(a, 0) = first
      BY DEF Place
    <3>2. \A i \in 0..n : r[i] \in 0..z
      BY <2>1
    <3> QED BY <2>1, <2>2, <3>1, <3>2
  <2>4. ASSUME NEW i \in 1..n PROVE <<p[i - 1], w[i], p[i]>> \in N
    <3>1. PICK j \in DOMAIN g.arcs :
            g.arcs[j].from = r[i - 1] /\ w[i] \in g.arcs[j].syms /\ g.arcs[j].to = r[i]
      BY <2>1
    <3>2. i - 1 \in 0..n /\ i \in 0..n /\ w[i] \in Chars
      BY <1>1, <1>2
    <3>3. p[i - 1] = Place(a, g.arcs[j].from) /\ p[i] = Place(a, g.arcs[j].to)
      BY <3>1, <3>2
    <3>4. p[i - 1] \in Nat /\ p[i] \in Nat
      BY <2>3, <3>2
    <3> HIDE DEF p
    <3> QED BY <3>1, <3>2, <3>3, <3>4 DEF ArcEdges
  <2>5. r[n] \in 1..z /\ p[n] = a + r[n]
    <3>1. r[n] \in 1..z /\ n \in 0..n
      BY <2>1
    <3> QED BY <1>6, <3>1
  <2>6. IsPath(N, w, n, p)
    <3> HIDE DEF p
    <3> QED BY <2>3, <2>4 DEF IsPath
  <2> HIDE DEF p
  <2> QED BY <2>1, <2>5, <2>6
<1> HIDE DEF N
<1>9. Ended(N, ends, w) = {ends[q] : q \in After(N, w, n)} \ {NoSym}
  BY <1>1, <1>2, EndedIs
<1>10. ASSUME NEW q \in After(N, w, n), ends[q] # NoSym PROVE ends[q] = s /\ WordOf(g, w)
  <2>1. PICK p : IsPath(N, w, n, p) /\ p[n] = q
    BY DEF After
  <2>2. PICK k \in 1..z : q = a + k /\ (k \in g.ends => WordOf(g, w))
    BY <1>7, <2>1
  <2> QED BY <1>3, <1>10, <2>2
<1>11. ASSUME WordOf(g, w) PROVE s \in Ended(N, ends, w)
  <2>1. PICK p, k : k \in 1..z /\ k \in g.ends /\ IsPath(N, w, n, p) /\ p[n] = a + k
    BY <1>8, <1>11
  <2>2. a + k \in After(N, w, n)
    <3>1. a + k \in Nat
      BY <2>1
    <3> QED BY <2>1, <3>1 DEF After
  <2>3. ends[a + k] = s
    BY <1>3, <2>1
  <2> QED BY <1>9, <2>2, <2>3
<1> QED BY <1>9, <1>10, <1>11 DEF N

\* The graph of a text has the text as its word.
LEMMA TextGraphWords ==
  ASSUME NEW t \in AnyWord
  PROVE  /\ TextGraph(t).size \in Nat /\ TextGraph(t).arcs \in Seq(Arcs)
         /\ Len(TextGraph(t).arcs) = Len(t)
         /\ \A j \in DOMAIN TextGraph(t).arcs :
              TextGraph(t).arcs[j].from <= TextGraph(t).size
              /\ TextGraph(t).arcs[j].to <= TextGraph(t).size
         /\ \A w \in AnyWord : WordOf(TextGraph(t), w) <=> w = t
<1> DEFINE g == TextGraph(t)
           Arc(k) == [from |-> k - 1, to |-> k, typ |-> "chr", syms |-> {t[k]},
                      tc |-> "normalTrans"]
<1>1. t \in Seq(Chars) /\ \A k \in 1..Len(t) : t[k] \in Chars
  BY DEF AnyWord
<1>2. PICK n \in Nat : n = Len(t) /\ n > 0
  BY DEF AnyWord
<1>3. g.size = n /\ g.ends = {n} /\ g.arcs = [k \in 1..n |-> Arc(k)]
  BY <1>2 DEF TextGraph
<1> HIDE DEF g
<1>4. ASSUME NEW k \in 1..n
      PROVE  /\ Arc(k) \in Arcs /\ g.arcs[k] = Arc(k)
             /\ g.arcs[k].from = k - 1 /\ g.arcs[k].to = k /\ g.arcs[k].syms = {t[k]}
  <2>1. k - 1 \in Nat /\ k \in Nat \ {0} /\ t[k] \in Chars
    BY <1>1, <1>2
  <2> QED BY <1>3, <2>1 DEF Arcs, Typs, TransitionCodes
<1>5. g.arcs \in [1..n -> Arcs] /\ DOMAIN g.arcs = 1..n
  BY <1>3, <1>4
<1>6. g.arcs \in Seq(Arcs) /\ Len(g.arcs) = n
  <2>1. PICK f : f = g.arcs
    OBVIOUS
  <2>2. f \in Seq(Arcs) /\ Len(f) = n
    BY <1>5, <2>1, FunctionSeq
  <2> QED BY <2>1, <2>2
<1>7. ASSUME NEW w \in AnyWord, WordOf(g, w) PROVE w = t
  <2>1. PICK m \in Nat : m = Len(w) /\ m > 0
    BY DEF AnyWord
  <2>2. PICK p \in [0..m -> 0..n] :
          /\ p[0] = 0 /\ p[m] \in {n} \ {0}
          /\ \A k \in 1..m : \E j \in 1..n :
               g.arcs[j].from = p[k - 1] /\ w[k] \in g.arcs[j].syms /\ g.arcs[j].to = p[k]
    BY ZenonT(60), <1>3, <1>5, <1>7, <2>1 DEF WordOf
  <2> DEFINE G == {k \in 0..m : p[k] = k}
  <2>3. 0 \in G
    BY <2>2
  <2>4. ASSUME NEW k \in 1..m PROVE \E j \in 1..n : p[k - 1] = j - 1 /\ p[k] = j /\ w[k] = t[j]
    <3>1. PICK j \in 1..n :
            g.arcs[j].from = p[k - 1] /\ w[k] \in g.arcs[j].syms /\ g.arcs[j].to = p[k]
      BY <2>2
    <3>2. g.arcs[j].from = j - 1 /\ g.arcs[j].to = j /\ g.arcs[j].syms = {t[j]}
      BY <1>4
    <3>3. w[k] = t[j]
      BY <3>1, <3>2
    <3> QED BY <3>1, <3>2, <3>3
  <2>5. ASSUME NEW k \in 1..m, k - 1 \in G PROVE k \in G
    BY <2>4, <2>5
  <2>6. 0..m \subseteq G
    <3> HIDE DEF G
    <3> QED BY <2>1, <2>3, <2>5, Upwards
  <2>7. \A k \in 0..m : p[k] = k
    BY <2>6
  <2>8. m = n
    BY <2>1, <2>2, <2>7
  <2>9. \A k \in 1..n : w[k] = t[k]
    BY <2>4, <2>7, <2>8
  <2> QED BY <1>2, <2>1, <2>8, <2>9 DEF AnyWord
<1>8. WordOf(g, t)
  <2> DEFINE p == [k \in 0..n |-> k]
  <2>1. p \in [0..n -> 0..n] /\ p[0] = 0 /\ p[n] \in {n} \ {0}
    BY <1>2
  <2>2. ASSUME NEW k \in 1..n
        PROVE  g.arcs[k].from = p[k - 1] /\ t[k] \in g.arcs[k].syms /\ g.arcs[k].to = p[k]
    <3>1. p[k - 1] = k - 1 /\ p[k] = k
      OBVIOUS
    <3> QED BY <1>4, <3>1
  <2> HIDE DEF p
  <2>3. \A k \in 1..n : \E j \in DOMAIN g.arcs :
          g.arcs[j].from = p[k - 1] /\ t[k] \in g.arcs[j].syms /\ g.arcs[j].to = p[k]
    BY <1>5, <2>2
  <2>4. p \in [0..Len(t) -> 0..g.size] /\ p[0] = 0 /\ p[Len(t)] \in g.ends \ {0}
    BY <1>2, <1>3, <2>1
  <2> QED BY <1>2, <2>3, <2>4 DEF WordOf
<1>9. \A j \in DOMAIN g.arcs : g.arcs[j].from <= g.size /\ g.arcs[j].to <= g.size
  BY <1>3, <1>4, <1>5
<1> QED BY <1>2, <1>3, <1>6, <1>7, <1>8, <1>9 DEF g

----------------------------------------------------------------------------
(* The edges of action lists.                                              *)

\* An edge is a move of a list.
LEMMA EdgesMove ==
  ASSUME NEW a, a \in Seq(Seq(Action(DOMAIN a)))
  PROVE  /\ \A e \in EdgesOf(a) : e[1] \in DOMAIN a /\ e[3] \in DOMAIN a
         /\ \A p \in DOMAIN a, ch \in Chars : \A q :
              <<p, ch, q>> \in EdgesOf(a) <=> q \in Reached(a[p], ch)
<1>1. PICK D : D = DOMAIN a
  OBVIOUS
<1>2. D \subseteq Nat /\ \A p \in D : a[p] \in Seq(Action(D))
  BY <1>1, ElementOfSeq
<1>3. \A p \in D : \A ch, q : q \in Reached(a[p], ch) => q \in D
  BY <1>2, IntoList, ReachedMember
<1>4. \A e : e \in EdgesOf(a) <=> e \in D \X Chars \X Nat /\ e[3] \in Reached(a[e[1]], e[2])
  BY <1>1 DEF EdgesOf
<1>5. \A e \in EdgesOf(a) : e[1] \in D /\ e[3] \in D
  BY <1>3, <1>4
<1>6. ASSUME NEW p \in D, NEW ch \in Chars, NEW q
      PROVE  <<p, ch, q>> \in EdgesOf(a) <=> q \in Reached(a[p], ch)
  <2>1. q \in Reached(a[p], ch) => q \in Nat
    BY <1>2, <1>3
  <2>2. <<p, ch, q>>[1] = p /\ <<p, ch, q>>[2] = ch /\ <<p, ch, q>>[3] = q
    OBVIOUS
  <2> QED BY <1>4, <2>1, <2>2
<1> QED BY <1>1, <1>5, <1>6

\* A word stays among the states.
LEMMA AfterStates ==
  ASSUME NEW a, a \in Seq(Seq(Action(DOMAIN a))), first \in DOMAIN a, NEW w, NEW k \in Nat
  PROVE  After(EdgesOf(a), w, k) \subseteq DOMAIN a
<1>1. \A e \in EdgesOf(a) : e[3] \in DOMAIN a
  BY EdgesMove
<1>2. CASE k = 0
  BY <1>2, AfterStep
<1>3. CASE k > 0
  BY <1>1, <1>3, AfterInto
<1> QED BY <1>2, <1>3

\* A sequence that is not empty has a first element.
LEMMA FirstThere ==
  ASSUME NEW S, NEW s \in Seq(S), s # <<>>
  PROVE  first \in DOMAIN s
BY DEF first

----------------------------------------------------------------------------
(* What making the automaton deterministic keeps.                          *)

\* A result that simulates the automaton before ends what it ends.
LEMMA Determinized ==
  ASSUME TypeOK, BeforeTypes, before.acts # <<>>, ~failed, NEW R, Simulates(R), NEW w \in AnyWord
  PROVE  Ended(EdgesOf(acts), endOf, w) = Ended(EdgesOf(before.acts), before.endOf, w)
<1> DEFINE A == EdgesOf(acts)
           B == EdgesOf(before.acts)
<1>1. w \in Seq(Chars) /\ \A k \in 1..Len(w) : w[k] \in Chars
  BY DEF AnyWord
<1>2. PICK n \in Nat : n = Len(w)
  BY <1>1
<1>3. /\ acts \in Seq(Seq(Action(DOMAIN acts))) /\ first \in DOMAIN acts
      /\ 0 \notin Allocated /\ \A q \in Allocated : acts[q] \in Seq(Action(Allocated))
  BY ChainStates, SubsetBasics DEF TypeOK, HeapTypes, Allocated
<1>4. before.acts \in Seq(Seq(Action(DOMAIN before.acts))) /\ first \in DOMAIN before.acts
  <2>1. PICK b : b = before.acts
    OBVIOUS
  <2>2. b \in Seq(Seq(Action(DOMAIN b))) /\ b # <<>>
    BY <2>1 DEF BeforeTypes
  <2> QED BY <2>1, <2>2, FirstThere
<1>5. \A p \in R : /\ p[1] # 0 => p[1] \in Allocated /\ DeterministicList(acts[p[1]])
                   /\ Represents(p[1], p[2])
                   /\ \E e \in Syms \cup {NoSym} : EndsOf(p[2]) \subseteq {e}
                   /\ \A ch \in Chars : <<ResultStep(p[1], ch), SubsetStep(p[2], ch)>> \in R
  BY DEF Simulates
<1> DEFINE Pair(k, d) == /\ <<d, After(B, w, k)>> \in R
                         /\ After(A, w, k) = IF d = 0 THEN {} ELSE {d}
           G == {k \in 0..n : \E d : Pair(k, d)}
<1>6. 0 \in G
  <2>1. first # 0
    BY DEF first
  <2>2. <<first, {first}>> \in R
    BY DEF Simulates
  <2>3. Pair(0, first)
    BY <2>1, <2>2, AfterStep
  <2> HIDE DEF Pair
  <2> QED BY <2>3
<1>7. ASSUME NEW k \in 1..n, k - 1 \in G PROVE k \in G
  <2>1. PICK m \in Nat : m = k - 1 /\ k = m + 1
    OBVIOUS
  <2>2. PICK d : Pair(m, d)
    BY <1>7, <2>1
  <2>3. PICK ch \in Chars : ch = w[k]
    BY <1>1, <1>2
  <2>4. PICK S : S = After(B, w, m)
    OBVIOUS
  <2>5. <<d, S>> \in R
    BY <2>2, <2>4
  <2>6. /\ d # 0 => d \in Allocated /\ DeterministicList(acts[d])
        /\ <<ResultStep(d, ch), SubsetStep(S, ch)>> \in R
    <3>1. <<d, S>>[1] = d /\ <<d, S>>[2] = S
      OBVIOUS
    <3> QED BY <1>5, <2>5, <3>1
  <2>7. \A F : \A q : q \in After(F, w, k) <=>
          q \in Nat /\ \E p \in After(F, w, m) : <<p, ch, q>> \in F
    BY <2>1, <2>3, AfterStep
  <2>8. After(B, w, k) = SubsetStep(S, ch)
    <3>1. S \subseteq DOMAIN before.acts
      BY <1>4, <2>4, AfterStates
    <3>2. \A p \in S : \A q : <<p, ch, q>> \in B <=> q \in Reached(before.acts[p], ch)
      <4>1. PICK b : b = before.acts
        OBVIOUS
      <4>2. \A p \in DOMAIN b : \A q : <<p, ch, q>> \in EdgesOf(b) <=> q \in Reached(b[p], ch)
        BY <1>4, <4>1, EdgesMove
      <4> QED BY <3>1, <4>1, <4>2
    <3>3. After(B, w, k) \subseteq Nat
      BY DEF After
    <3>4. \A q : q \in SubsetStep(S, ch) <=> \E p \in S : q \in Reached(before.acts[p], ch)
      BY DEF SubsetStep
    <3>5. \A p \in S : \A q \in Reached(before.acts[p], ch) : q \in Nat
      <4>1. PICK b : b = before.acts
        OBVIOUS
      <4>2. \A e \in EdgesOf(b) : e[3] \in DOMAIN b
        BY <1>4, <4>1, EdgesMove
      <4>3. DOMAIN b \subseteq Nat
        BY <1>4, <4>1
      <4>4. ASSUME NEW p \in S, NEW q \in Reached(before.acts[p], ch) PROVE q \in Nat
        <5>1. <<p, ch, q>> \in EdgesOf(b)
          BY <3>2, <4>1, <4>4
        <5>2. <<p, ch, q>>[3] = q
          OBVIOUS
        <5> QED BY <4>2, <4>3, <5>1, <5>2
      <4> QED BY <4>4
    <3>6. \A q : q \in After(B, w, k) <=> q \in SubsetStep(S, ch)
      <4> HIDE DEF B
      <4> QED BY <2>4, <2>7, <3>2, <3>4, <3>5
    <3> QED BY <3>6
  <2>9. ResultStep(d, ch) = IF d = 0 THEN 0 ELSE StepIn(acts[d], ch)
    BY ResultStepIs
  <2>10. After(A, w, k) = IF ResultStep(d, ch) = 0 THEN {} ELSE {ResultStep(d, ch)}
    <3>1. CASE d = 0
      <4>1. After(A, w, m) = {}
        BY <2>2, <3>1
      <4> QED BY <2>7, <2>9, <3>1, <4>1
    <3>2. CASE d # 0
      <4>1. After(A, w, m) = {d} /\ d \in Allocated
        BY <2>2, <2>6, <3>2
      <4>2. \A q : <<d, ch, q>> \in A <=> q \in Reached(acts[d], ch)
        BY <1>3, <4>1, EdgesMove DEF Allocated
      <4>3. PICK x : x = StepIn(acts[d], ch)
        OBVIOUS
      <4>4. \/ x = 0 /\ Reached(acts[d], ch) = {}
            \/ x \in Allocated /\ Reached(acts[d], ch) = {x}
        BY <1>3, <2>6, <3>2, <4>3, DeterministicStep
      <4>5. Allocated \subseteq Nat
        BY ChainStates
      <4> HIDE DEF A
      <4>6. \A q : q \in After(A, w, k) <=> q \in Nat /\ q \in Reached(acts[d], ch)
        BY <2>7, <4>1, <4>2
      <4> QED BY <1>3, <2>9, <3>2, <4>3, <4>4, <4>5, <4>6
    <3> QED BY <3>1, <3>2
  <2>11. Pair(k, ResultStep(d, ch))
    BY <2>6, <2>8, <2>10
  <2> HIDE DEF Pair
  <2> QED BY <2>11
<1>8. n \in G
  <2>1. 0..n \subseteq G
    <3> HIDE DEF G
    <3> QED BY <1>6, <1>7, Upwards
  <2> HIDE DEF G
  <2> QED BY <2>1
<1>9. PICK d : Pair(n, d)
  <2> HIDE DEF Pair
  <2> QED BY <1>8
<1>10. PICK S : S = After(B, w, n)
  OBVIOUS
<1>11. Represents(d, S) /\ \E e \in Syms \cup {NoSym} : EndsOf(S) \subseteq {e}
  <2>1. <<d, S>> \in R /\ <<d, S>>[1] = d /\ <<d, S>>[2] = S
    BY <1>9, <1>10
  <2> QED BY <1>5, <2>1
<1>12. Ended(B, before.endOf, w) = EndsOf(S)
  <2>1. Ended(B, before.endOf, w) = {before.endOf[q] : q \in After(B, w, Len(w))} \ {NoSym}
    BY <1>1, EndedIs
  <2> QED BY <1>2, <1>10, <2>1 DEF EndsOf
<1>13. Ended(A, endOf, w) = {endOf[q] : q \in After(A, w, n)} \ {NoSym}
  BY <1>1, <1>2, EndedIs
<1>14. Ended(A, endOf, w) = EndsOf(S)
  <2>1. CASE d = 0
    <3>1. S = {} /\ After(A, w, n) = {}
      BY <1>9, <1>11, <2>1 DEF Represents
    <3> HIDE DEF A
    <3> QED BY <1>13, <3>1 DEF EndsOf
  <2>2. CASE d # 0
    <3>1. After(A, w, n) = {d}
      BY <1>9, <2>2
    <3>2. IF EndsOf(S) = {} THEN endOf[d] = NoSym ELSE endOf[d] \in EndsOf(S)
      BY <1>11, <2>2 DEF Represents, EndsOf
    <3>3. NoSym \notin EndsOf(S)
      BY DEF EndsOf
    <3> HIDE DEF A
    <3>4. Ended(A, endOf, w) = {endOf[d]} \ {NoSym}
      BY <1>13, <3>1
    <3>5. PICK X : X = EndsOf(S)
      OBVIOUS
    <3>6. PICK e : X \subseteq {e}
      BY <1>11, <3>5
    <3> QED BY <3>2, <3>3, <3>4, <3>5, <3>6
  <2> QED BY <2>1, <2>2
<1> QED BY <1>12, <1>14

----------------------------------------------------------------------------
(* The walk of MatchLiteral.                                               *)

Walks == [state : Allocated, from : Allocated, action : Nat, stuck : BOOLEAN]

WalkStep(w, ch) ==
  LET k == FindAction(acts[w.state], ch)
  IN  IF w.stuck \/ k = 0 THEN [w EXCEPT !.stuck = TRUE]
      ELSE [state |-> Target(acts[w.state][k]), from |-> w.state, action |-> k, stuck |-> FALSE]

WalkStart == [state |-> first, from |-> first, action |-> 0, stuck |-> FALSE]

IsWalk(t, g) ==
  /\ g \in [0..Len(t) -> Walks] /\ g[0] = WalkStart
  /\ \A n \in 1..Len(t) : g[n] = WalkStep(g[n - 1], t[n])

\* A step of the walk.
LEMMA WalkSteps ==
  ASSUME TypeOK, NEW w \in Walks, NEW ch
  PROVE  /\ WalkStep(w, ch) \in Walks
         /\ WalkStep(w, ch).stuck <=> w.stuck \/ FindAction(acts[w.state], ch) = 0
         /\ ~w.stuck /\ FindAction(acts[w.state], ch) # 0 =>
              WalkStep(w, ch).state = Target(acts[w.state][FindAction(acts[w.state], ch)])
<1>1. PICK q \in Allocated : q = w.state
  BY DEF Walks
<1>2. PICK l \in Seq(Action(Allocated)) : l = acts[q]
  BY ChainStates
<1>3. PICK k : k = FindAction(l, ch)
  OBVIOUS
<1>4. k # 0 => k \in DOMAIN l /\ k \in Nat
  BY <1>2, <1>3, FindActionFinds
<1>5. WalkStep(w, ch) = IF w.stuck \/ k = 0 THEN [w EXCEPT !.stuck = TRUE]
                        ELSE [state |-> Target(l[k]), from |-> q, action |-> k, stuck |-> FALSE]
  BY <1>1, <1>2, <1>3 DEF WalkStep
<1>6. CASE w.stuck \/ k = 0
  <2>1. [w EXCEPT !.stuck = TRUE] \in Walks /\ [w EXCEPT !.stuck = TRUE].stuck = TRUE
    BY DEF Walks
  <2> QED BY <1>1, <1>2, <1>3, <1>5, <1>6, <2>1
<1>7. CASE ~w.stuck /\ k # 0
  <2>1. Target(l[k]) \in Allocated
    BY <1>2, <1>4, <1>7, ElementOfSeq, TargetAllocated
  <2>2. PICK t \in Allocated : t = Target(l[k])
    BY <2>1
  <2>3. [state |-> t, from |-> q, action |-> k, stuck |-> FALSE] \in Walks
    BY <1>4, <1>7 DEF Walks
  <2> QED BY <1>1, <1>2, <1>3, <1>5, <1>7, <2>2, <2>3
<1> QED BY <1>6, <1>7

\* The function that Walk defines exists.
LEMMA Walked ==
  ASSUME TypeOK, NEW t, Len(t) \in Nat
  PROVE  \E g : IsWalk(t, g) /\ Walk(t) = g[Len(t)]
<1> DEFINE N == Len(t)
           S == (0..N) \X Walks
           step == [x \in S |-> IF x[1] = N THEN x ELSE <<x[1] + 1, WalkStep(x[2], t[x[1] + 1])>>]
           Run(g) == g = [n \in 0..N |-> IF n = 0 THEN WalkStart ELSE WalkStep(g[n - 1], t[n])]
<1>1. WalkStart \in Walks
  BY ChainStates DEF Walks, WalkStart
<1>2. \A w \in Walks : \A ch : WalkStep(w, ch) \in Walks
  BY WalkSteps
<1>3. step \in [S -> S]
  <2> SUFFICES ASSUME NEW x \in S PROVE (IF x[1] = N THEN x ELSE <<x[1] + 1, WalkStep(x[2], t[x[1] + 1])>>) \in S
    OBVIOUS
  <2>1. CASE x[1] = N
    BY <2>1
  <2>2. CASE x[1] # N
    <3>1. x[1] + 1 \in 0..N /\ x[2] \in Walks
      BY <2>2
    <3> QED BY <1>2, <2>2, <3>1
  <2> QED BY <2>1, <2>2
<1>4. <<0, WalkStart>> \in S
  BY <1>1
<1>5. PICK f \in [0..N -> S] : f[0] = <<0, WalkStart>> /\ \A n \in 1..N : f[n] = step[f[n - 1]]
  <2>1. PICK S1, x1, st, n1 : S1 = S /\ x1 = <<0, WalkStart>> /\ st = step /\ n1 = N
    OBVIOUS
  <2> HIDE DEF S, step
  <2>2. x1 \in S1 /\ st \in [S1 -> S1] /\ n1 \in Nat
    BY <1>3, <1>4, <2>1
  <2>3. \E f : IsRun(f, S1, x1, st, n1)
    BY ONLY <2>2, Repeated
  <2> HIDE DEF N
  <2>4. \E f : IsRun(f, S, <<0, WalkStart>>, step, N)
    BY <2>1, <2>3
  <2> QED BY <2>4 DEF IsRun
<1> DEFINE G == {n \in 0..N : f[n][1] = n}
<1>6. 0 \in G
  BY <1>5
<1>7. ASSUME NEW n \in 1..N, n - 1 \in G
      PROVE  n \in G /\ f[n][2] = WalkStep(f[n - 1][2], t[n])
  <2>1. f[n - 1] \in S /\ f[n - 1][1] = n - 1 /\ n - 1 # N /\ (n - 1) + 1 = n
    BY <1>5, <1>7
  <2>2. f[n] = <<(n - 1) + 1, WalkStep(f[n - 1][2], t[(n - 1) + 1])>>
    BY <1>5, <2>1
  <2> QED BY <2>1, <2>2
<1>8. 0..N \subseteq G
  <2> HIDE DEF G, N
  <2>1. N \in Nat
    BY DEF N
  <2> QED BY <1>6, <1>7, <2>1, Upwards
<1> DEFINE h == [n \in 0..N |-> f[n][2]]
<1>9. /\ h \in [0..N -> Walks] /\ h[0] = WalkStart
      /\ \A n \in 1..N : h[n] = WalkStep(h[n - 1], t[n])
  <2>1. \A n \in 0..N : f[n] \in S
    BY <1>5
  <2>2. h \in [0..N -> Walks] /\ h[0] = WalkStart
    BY <1>5, <2>1
  <2>3. ASSUME NEW n \in 1..N PROVE h[n] = WalkStep(h[n - 1], t[n])
    <3>1. n - 1 \in 0..N /\ n \in 0..N
      OBVIOUS
    <3>2. f[n][2] = WalkStep(f[n - 1][2], t[n])
      BY <1>7, <1>8, <3>1
    <3> QED BY <3>1, <3>2
  <2> QED BY <2>2, <2>3
<1> HIDE DEF h
<1>10. Run(h)
  <2>1. ASSUME NEW n \in 0..N PROVE h[n] = IF n = 0 THEN WalkStart ELSE WalkStep(h[n - 1], t[n])
    <3>1. n = 0 \/ n \in 1..N
      OBVIOUS
    <3> QED BY <1>9, <3>1
  <2> QED BY <1>9, <2>1
<1>11. PICK g : Run(g) /\ Walk(t) = g[N]
  <2> DEFINE c == CHOOSE g : Run(g)
  <2>1. Walk(t) = c[N]
    BY DEF Walk, WalkStep, WalkStart
  <2> HIDE DEF Run
  <2>2. Run(c)
    BY <1>10, Zenon
  <2> HIDE DEF c
  <2> QED BY <2>1, <2>2
<1>12. IsWalk(t, g)
  <2> DEFINE H == {n \in 0..N : g[n] = h[n]}
  <2>1. \A n \in 0..N : g[n] = IF n = 0 THEN WalkStart ELSE WalkStep(g[n - 1], t[n])
    BY <1>11
  <2>2. DOMAIN g = 0..N
    BY <1>11
  <2>3. 0 \in H
    BY <1>9, <2>1
  <2>4. ASSUME NEW n \in 1..N, n - 1 \in H PROVE n \in H
    BY <1>9, <2>1, <2>4
  <2>5. 0..N \subseteq H
    <3> HIDE DEF H, N
    <3>1. N \in Nat
      BY DEF N
    <3> QED BY <2>3, <2>4, <3>1, Upwards
  <2>6. \A n \in 0..N : g[n] = h[n] /\ g[n] \in Walks
    BY <1>9, <2>5
  <2>7. g = [n \in 0..N |-> g[n]]
    BY <1>11
  <2>8. g \in [0..N -> Walks]
    BY <2>6, <2>7
  <2> QED BY <1>9, <2>6, <2>8 DEF IsWalk
<1> QED BY <1>11, <1>12

\* A walk that does not get stuck ends where the word leads.
LEMMA WalkLeads ==
  ASSUME TypeOK, NEW t \in Seq(Chars), ~Walk(t).stuck
  PROVE  /\ Walk(t) \in Walks
         /\ Walk(t).state \in After(EdgesOf(acts), t, Len(t))
<1>1. PICK g : IsWalk(t, g) /\ Walk(t) = g[Len(t)]
  BY Walked
<1>2. PICK n \in Nat : n = Len(t)
  OBVIOUS
<1>3. \A k \in 0..n : g[k] \in Walks
  BY <1>1, <1>2 DEF IsWalk
<1> DEFINE A == EdgesOf(acts)
           G == {k \in 0..n : g[k].stuck \/ g[k].state \in After(A, t, k)}
<1>4. 0 \in G
  <2>1. g[0].state = first
    BY <1>1 DEF IsWalk, WalkStart
  <2> QED BY <2>1, AfterStep
<1>5. ASSUME NEW k \in 1..n, k - 1 \in G PROVE k \in G
  <2>1. PICK m \in Nat : m = k - 1 /\ k = m + 1 /\ m \in 0..n
    BY <1>2
  <2>2. PICK w \in Walks : w = g[m]
    BY <1>3, <2>1
  <2>3. PICK ch \in Chars : ch = t[k]
    BY <1>2
  <2>4. g[k] = WalkStep(w, ch)
    BY <1>1, <1>2, <2>1, <2>2, <2>3 DEF IsWalk
  <2>5. CASE WalkStep(w, ch).stuck
    BY <2>4, <2>5
  <2>6. CASE ~WalkStep(w, ch).stuck
    <3>1. ~w.stuck /\ FindAction(acts[w.state], ch) # 0
      BY <2>6, WalkSteps
    <3>2. PICK q \in Allocated : q = w.state
      BY <2>2 DEF Walks
    <3>3. PICK l \in Seq(Action(Allocated)) : l = acts[q]
      BY ChainStates
    <3>4. PICK j : j = FindAction(l, ch) /\ j \in DOMAIN l /\ ch \in l[j].syms
      BY <3>1, <3>2, <3>3, FindActionFinds
    <3>5. WalkStep(w, ch).state = Target(l[j])
      BY <3>1, <3>2, <3>3, <3>4, WalkSteps
    <3>6. Target(l[j]) \in l[j].targets /\ l[j].targets \subseteq Allocated
      <4>1. l[j] \in Action(Allocated)
        BY <3>4, ElementOfSeq
      <4>2. l[j].targets # {} /\ l[j].targets \subseteq Allocated
        BY <4>1 DEF Action
      <4>3. l[j] \in Action(l[j].targets)
        BY <4>1, <4>2 DEF Action
      <4>4. PICK Q : Q = l[j].targets
        OBVIOUS
      <4>5. Target(l[j]) \in Q
        BY <4>3, <4>4, TargetAllocated
      <4> QED BY <4>2, <4>4, <4>5
    <3>7. PICK x \in Allocated : x = Target(l[j]) /\ x \in l[j].targets
      BY <3>6
    <3>8. x \in Reached(l, ch)
      BY <3>4, <3>7, ReachedMember
    <3>9. <<q, ch, x>> \in A
      <4>1. acts \in Seq(Seq(Action(DOMAIN acts)))
        BY DEF TypeOK, HeapTypes, Allocated
      <4> QED BY <3>3, <3>8, <4>1, EdgesMove DEF Allocated
    <3>10. q \in After(A, t, m) /\ x \in Nat
      BY <1>5, <2>1, <2>2, <3>1, <3>2, ChainStates
    <3> HIDE DEF A
    <3>11. x \in After(A, t, k)
      BY <2>1, <2>3, <3>9, <3>10, AfterStep
    <3> QED BY <2>4, <3>5, <3>7, <3>11
  <2> QED BY <2>5, <2>6
<1>6. n \in G
  <2>1. 0..n \subseteq G
    <3> HIDE DEF G
    <3> QED BY <1>4, <1>5, Upwards
  <2> HIDE DEF G
  <2> QED BY <2>1
<1> QED BY <1>1, <1>2, <1>3, <1>6

\* Where every state reached is deterministic, the walk is all there is.
LEMMA WalkIsAll ==
  ASSUME TypeOK, NEW D, D \subseteq Allocated, first \in D, LeadInto(D, D),
         \A q \in D : DeterministicList(acts[q]), NEW t \in Seq(Chars)
  PROVE  /\ Walk(t) \in Walks
         /\ After(EdgesOf(acts), t, Len(t)) = IF Walk(t).stuck THEN {} ELSE {Walk(t).state}
<1>1. PICK g : IsWalk(t, g) /\ Walk(t) = g[Len(t)]
  BY Walked
<1>2. PICK n \in Nat : n = Len(t)
  OBVIOUS
<1>3. \A k \in 0..n : g[k] \in Walks
  BY <1>1, <1>2 DEF IsWalk
<1> DEFINE A == EdgesOf(acts)
           Good(k) == IF g[k].stuck THEN After(A, t, k) = {}
                      ELSE g[k].state \in D /\ After(A, t, k) = {g[k].state}
           G == {k \in 0..n : Good(k)}
<1>4. 0 \in G
  <2>1. g[0].state = first /\ ~g[0].stuck
    BY <1>1 DEF IsWalk, WalkStart
  <2> QED BY <2>1, AfterStep
<1>5. ASSUME NEW k \in 1..n, k - 1 \in G PROVE k \in G
  <2>1. PICK m \in Nat : m = k - 1 /\ k = m + 1 /\ m \in 0..n
    BY <1>2
  <2>2. PICK w \in Walks : w = g[m]
    BY <1>3, <2>1
  <2>3. PICK ch \in Chars : ch = t[k]
    BY <1>2
  <2>4. g[k] = WalkStep(w, ch)
    BY <1>1, <1>2, <2>1, <2>2, <2>3 DEF IsWalk
  <2>5. \A q : q \in After(A, t, k) <=> q \in Nat /\ \E p \in After(A, t, m) : <<p, ch, q>> \in A
    BY <2>1, <2>3, AfterStep
  <2>6. Good(m)
    BY <1>5, <2>1
  <2>7. CASE w.stuck
    <3>1. After(A, t, m) = {}
      BY <2>2, <2>6, <2>7
    <3>2. After(A, t, k) = {}
      <4> HIDE DEF A
      <4> QED BY <2>5, <3>1
    <3>3. g[k].stuck
      BY <2>4, <2>7, WalkSteps
    <3> QED BY <3>2, <3>3
  <2>8. CASE ~w.stuck
    <3>1. PICK q \in D : q = w.state /\ After(A, t, m) = {q}
      BY <2>2, <2>6, <2>8
    <3>2. PICK l \in Seq(Action(Allocated)) : l = acts[q] /\ DeterministicList(l)
      BY <3>1, ChainStates
    <3>3. l \in Seq(Action(D))
      BY <3>1, <3>2, LeadIntoLists
    <3>4. 0 \notin D /\ D \subseteq Nat
      BY SubsetBasics, ChainStates
    <3>5. PICK s : s = StepIn(l, ch)
      OBVIOUS
    <3>6. \/ s = 0 /\ Reached(l, ch) = {}
          \/ s \in D /\ Reached(l, ch) = {s}
      BY <3>2, <3>3, <3>4, <3>5, DeterministicStep
    <3>7. \A x : x \in After(A, t, k) <=> x \in Nat /\ x \in Reached(l, ch)
      <4>1. acts \in Seq(Seq(Action(DOMAIN acts)))
        BY DEF TypeOK, HeapTypes, Allocated
      <4>2. \A x : <<q, ch, x>> \in A <=> x \in Reached(l, ch)
        BY <3>1, <3>2, <4>1, EdgesMove DEF Allocated
      <4> HIDE DEF A
      <4> QED BY <2>5, <3>1, <4>2
    <3>8. PICK j : j = FindAction(l, ch)
      OBVIOUS
    <3>9. s = IF j = 0 THEN 0 ELSE Target(l[j])
      BY <3>5, <3>8 DEF StepIn
    <3>10. CASE j = 0
      <4>1. g[k].stuck
        BY <2>4, <3>1, <3>2, <3>8, <3>10, WalkSteps
      <4>2. After(A, t, k) = {}
        <5> HIDE DEF A
        <5> QED BY <3>4, <3>6, <3>7, <3>9, <3>10
      <4> QED BY <4>1, <4>2
    <3>11. CASE j # 0
      <4>1. j \in DOMAIN l
        BY <3>2, <3>8, <3>11, FindActionFinds
      <4>2. l[j] \in Action(D)
        BY <3>3, <4>1, ElementOfSeq
      <4>3. Target(l[j]) \in D
        BY <4>2, TargetAllocated
      <4>4. s \in D /\ s # 0
        BY <3>4, <3>9, <3>11, <4>3
      <4>5. ~g[k].stuck /\ g[k].state = s
        BY <2>4, <2>8, <3>1, <3>2, <3>8, <3>9, <3>11, WalkSteps
      <4>6. After(A, t, k) = {s}
        <5> HIDE DEF A
        <5> QED BY <3>4, <3>6, <3>7, <4>4
      <4> QED BY <4>4, <4>5, <4>6
    <3> QED BY <3>10, <3>11
  <2> QED BY <2>7, <2>8
<1>6. n \in G
  <2>1. 0..n \subseteq G
    <3> HIDE DEF G
    <3> QED BY <1>4, <1>5, Upwards
  <2> HIDE DEF G
  <2> QED BY <2>1
<1> QED BY <1>1, <1>2, <1>3, <1>6

----------------------------------------------------------------------------
(* The steps of a round.                                                   *)

\* No action of these lists leads to firstState.
LEMMA Avoiding ==
  ASSUME TypeOK, FirstNotEntered, ~stale
  PROVE  \A q \in Allocated : acts[q] \in Seq(Action(Allocated \ {first}))
<1> SUFFICES ASSUME NEW q \in Allocated PROVE acts[q] \in Seq(Action(Allocated \ {first}))
  OBVIOUS
<1>1. PICK l \in Seq(Action(Allocated)) : l = acts[q]
  BY ChainStates
<1>2. \A m \in DOMAIN l : l[m].targets \subseteq Allocated
  BY <1>1, IntoList
<1>3. \A m \in DOMAIN l : first \notin l[m].targets
  BY <1>1 DEF FirstNotEntered
<1>4. \A m \in DOMAIN l : l[m].targets \subseteq Allocated \ {first}
  BY <1>2, <1>3
<1> QED BY <1>1, <1>4, ListInto

\* And the other way round.
LEMMA StillAvoiding ==
  ASSUME NEW S, first \notin S, ~stale' => \A q \in Allocated' : (acts')[q] \in Seq(Action(S)),
         pending' = <<>>
  PROVE  FirstNotEntered'
<1>1. ASSUME ~stale', NEW q \in Allocated', NEW m \in DOMAIN (acts')[q]
      PROVE  first \notin (acts')[q][m].targets
  <2>1. (acts')[q] \in Seq(Action(S))
    BY <1>1
  <2>2. (acts')[q][m].targets \subseteq S
    BY <1>1, <2>1, IntoList
  <2> QED BY <2>2
<1>2. DOMAIN <<>> = {}
  OBVIOUS
<1> QED BY <1>1, <1>2 DEF FirstNotEntered

\* What every step of a round leaves alone.
InRound ==
  /\ pc \in Round /\ pc' \in Round
  /\ UNCHANGED <<before, declared, kind, pending>>
  /\ failed => failed'
  /\ stale => stale'

LEMMA RoundFrame ==
  ASSUME RecognitionInv, InRound, FirstNotEntered', EndsDeclared'
  PROVE  RecognitionInv'
<1>1. pc \in Round /\ pc' \in Round /\ pc # "convert" /\ pc' # "convert"
  BY DEF InRound, Round
<1>2. Edges' = Edges /\ Ends' = Ends
  BY <1>1 DEF InRound, Edges, Ends
<1>3. Keywords' = Keywords
  BY DEF InRound, Keywords
<1>4. KeywordsClassified'
  BY <1>3 DEF InRound, RecognitionInv, KeywordsClassified
<1>5. WordsKept'
  BY <1>2, <1>3 DEF InRound, RecognitionInv, WordsKept
<1> QED BY <1>1, <1>4, <1>5 DEF InRound, RecognitionInv

\* Nothing to do where the heap stays.
LEMMA QuietRound ==
  ASSUME RecognitionInv, InRound, UNCHANGED <<acts, endOf>>
  PROVE  RecognitionInv'
<1>1. FirstNotEntered'
  BY DEF RecognitionInv, FirstNotEntered, InRound, Allocated
<1>2. EndsDeclared'
  <2>1. Keywords' = Keywords
    BY DEF InRound, Keywords
  <2> QED BY <2>1 DEF RecognitionInv, EndsDeclared, InRound, Allocated
<1> QED BY <1>1, <1>2, RoundFrame

\* Where only lists change it is enough that they stay away from firstState.
LEMMA ListsRound ==
  ASSUME RecognitionInv, InRound, endOf' = endOf, DOMAIN acts' = Allocated,
         ~stale' => \A q \in Allocated : (acts')[q] \in Seq(Action(Allocated \ {first}))
  PROVE  RecognitionInv'
<1>1. Allocated' = Allocated
  BY DEF Allocated
<1>2. pending' = <<>>
  BY DEF RecognitionInv, InRound, Round
<1>3. FirstNotEntered'
  <2>1. PICK S : S = Allocated \ {first}
    OBVIOUS
  <2>2. first \notin S /\ (~stale' => \A q \in Allocated' : (acts')[q] \in Seq(Action(S)))
    BY <1>1, <2>1
  <2> QED BY <1>2, <2>2, StillAvoiding
<1>4. EndsDeclared'
  <2>1. Keywords' = Keywords
    BY DEF InRound, Keywords
  <2> QED BY <1>1, <2>1 DEF RecognitionInv, EndsDeclared, InRound
<1> QED BY <1>3, <1>4, RoundFrame

\* One list changes.
LEMMA ListRound ==
  ASSUME TypeOK, RecognitionInv, InRound, endOf' = endOf, NEW p \in Allocated, NEW list,
         acts' = [acts EXCEPT ![p] = list],
         ~stale' => list \in Seq(Action(Allocated \ {first}))
  PROVE  RecognitionInv'
<1>1. DOMAIN acts' = Allocated
  BY DEF Allocated
<1>2. ASSUME ~stale' PROVE \A q \in Allocated : (acts')[q] \in Seq(Action(Allocated \ {first}))
  <2>1. ~stale /\ FirstNotEntered
    BY <1>2 DEF InRound, RecognitionInv
  <2>2. PICK T : T = Seq(Action(Allocated \ {first}))
    OBVIOUS
  <2>3. \A q \in Allocated : acts[q] \in T
    BY <2>1, <2>2, Avoiding
  <2>4. list \in T
    BY <1>2, <2>2
  <2>5. \A q \in Allocated : (acts')[q] \in T
    BY <2>3, <2>4 DEF Allocated
  <2> QED BY <2>2, <2>5
<1> QED BY <1>1, <1>2, ListsRound

\* The steps that move a position, a mark or a number.
LEMMA PositionRound ==
  ASSUME RecognitionInv,
         \/ NextA \/ NextPass \/ NextUnique \/ MeltSkip \/ MeltedAll \/ MeltNext
         \/ FindUsed \/ DeleteState \/ DeletedAll \/ CombineNext
  PROVE  RecognitionInv'
<1>1. CASE NextA
  BY <1>1, QuietRound DEF NextA, InRound, Round, heap, symbols, history
<1>2. CASE NextPass
  BY <1>2, QuietRound DEF NextPass, InRound, Round, heap, symbols, history
<1>3. CASE NextUnique
  BY <1>3, QuietRound DEF NextUnique, InRound, Round, heap, symbols, history
<1>4. CASE MeltSkip
  BY <1>4, QuietRound DEF MeltSkip, InRound, Round, heap, symbols, history
<1>5. CASE MeltedAll
  BY <1>5, QuietRound DEF MeltedAll, InRound, Round, heap, symbols, history
<1>6. CASE MeltNext
  BY <1>6, QuietRound DEF MeltNext, InRound, Round, heap, symbols, history
<1>7. CASE FindUsed
  BY <1>7, QuietRound DEF FindUsed, InRound, Round, heap, symbols, history
<1>8. CASE DeleteState
  BY <1>8, QuietRound DEF DeleteState, InRound, Round, symbols, history
<1>9. CASE DeletedAll
  BY <1>9, QuietRound DEF DeletedAll, InRound, Round, heap, symbols, history
<1>10. CASE CombineNext
  BY <1>10, QuietRound DEF CombineNext, InRound, Round, heap, symbols, history
<1> QED BY <1>1, <1>2, <1>3, <1>4, <1>5, <1>6, <1>7, <1>8, <1>9, <1>10

\* MakeUnique.
LEMMA CompareRound ==
  ASSUME TypeOK, RecognitionInv, Compare
  PROVE  RecognitionInv'
<1>1. /\ pc \in {"unique", "meltUnique"} /\ ib <= Len(acts[Subject])
      /\ UNCHANGED <<endOf, stale>>
  BY DEF Compare
<1>2. InRound
  BY DEF Compare, InRound, Round, symbols, history
<1>3. CASE UNCHANGED acts
  BY <1>1, <1>2, <1>3, QuietRound
<1>4. CASE acts' = [acts EXCEPT ![Subject] = SplitActions(acts[Subject], ia, ib).acts]
  <2>1. PICK s \in Allocated : s = Subject
    BY <1>1, SubjectAllocated
  <2>2. PICK l \in Seq(Action(Allocated)) : l = acts[s]
    BY ChainStates
  <2>3. ia \in 1..Len(l) /\ ib \in 1..Len(l) /\ ia < ib
    <3>1. Len(l) \in Nat /\ ib <= Len(l)
      BY <1>1, <2>1, <2>2
    <3> QED BY <3>1 DEF TypeOK, PositionTypes
  <2>4. PICK r : r = SplitActions(l, ia, ib)
    OBVIOUS
  <2>5. \A Q : l \in Seq(Action(Q)) => SplitResult(Q, l, r)
    BY <2>3, <2>4, SplitKeepsMoves
  <2>6. ASSUME ~stale' PROVE r.acts \in Seq(Action(Allocated \ {first}))
    <3>1. l \in Seq(Action(Allocated \ {first}))
      BY <1>1, <2>2, <2>6, Avoiding DEF RecognitionInv
    <3> QED BY <2>5, <3>1 DEF SplitResult
  <2>7. acts' = [acts EXCEPT ![s] = r.acts]
    BY <1>4, <2>1, <2>2, <2>4
  <2> QED BY <1>1, <1>2, <2>6, <2>7, ListRound
<1> QED BY <1>3, <1>4 DEF Compare

\* CombineShifts.
LEMMA CombineRound ==
  ASSUME TypeOK, TypeOK', DeterministicSoFar, RecognitionInv, Combine
  PROVE  RecognitionInv'
<1>1. InRound /\ endOf' = endOf /\ stale' = stale
  BY DEF Combine, InRound, Round, symbols, history
<1>2. DOMAIN acts' = Allocated
  <2>1. DOMAIN acts' = DOMAIN acts
    BY DEF Combine
  <2> QED BY <2>1 DEF Allocated
<1>3. ASSUME ~stale' PROVE \A q \in Allocated : (acts')[q] \in Seq(Action(Allocated \ {first}))
  <2>1. \A q \in Allocated : acts[q] \in Seq(Action(Allocated \ {first}))
    BY <1>1, <1>3, Avoiding DEF RecognitionInv
  <2> QED BY <2>1, CombineElements
<1> QED BY <1>1, <1>2, <1>3, ListsRound

\* DeleteRedundantStates.
LEMMA CombineFinalsRound ==
  ASSUME TypeOK, RecognitionInv, CombineFinals
  PROVE  RecognitionInv'
<1>1. InRound /\ endOf' = endOf /\ stale' = stale
  BY DEF CombineFinals, InRound, Round, symbols, history
<1>2. DOMAIN acts' = Allocated
  BY DEF CombineFinals
<1>3. ASSUME ~stale' PROVE \A q \in Allocated : (acts')[q] \in Seq(Action(Allocated \ {first}))
  <2>1. PICK S : S = Allocated \ {first}
    OBVIOUS
  <2>2. \A q \in Allocated : acts[q] \in Seq(Action(S))
    BY <1>1, <1>3, <2>1, Avoiding DEF RecognitionInv
  <2>3. \A k \in 2..Len(chain) : chain[k] \in S
    <3> SUFFICES ASSUME NEW k \in 2..Len(chain) PROVE chain[k] \in Allocated /\ chain[k] # first
      BY <2>1
    <3>1. k \in DOMAIN chain /\ 1 \in DOMAIN chain /\ k # 1 /\ k \in 1..Len(chain)
      BY ChainStates
    <3>2. chain[1] = first /\ (chain[k] = chain[1] => k = 1)
      BY <3>1 DEF TypeOK, HeapTypes
    <3> QED BY <3>1, <3>2, ChainStates
  <2> QED BY <2>1, <2>2, <2>3, CombineFinalsInto
<1> QED BY <1>1, <1>2, <1>3, ListsRound

\* A retargeted list stays away from firstState.
LEMMA RetargetAvoids ==
  ASSUME TypeOK, FirstNotEntered, ~stale, at \in DOMAIN chain, NEW s \in Allocated, s # first
  PROVE  Retarget(Melter, s) \in Seq(Action(Allocated \ {first}))
<1>1. PICK S : S = Allocated \ {first}
  OBVIOUS
<1>2. Melter \in Seq(Action(S))
  BY <1>1, Avoiding, ChainStates DEF Melter
<1>3. PICK l : l = Retarget(Melter, s)
  OBVIOUS
<1>4. /\ l \in Seq(Action(Allocated \cup {s}))
      /\ DOMAIN l = DOMAIN Melter
      /\ \A m \in DOMAIN Melter : l[m].targets = IF m = ma THEN {s} ELSE Melter[m].targets
  BY <1>3, RetargetMoves
<1>5. \A m \in DOMAIN Melter : Melter[m].targets \subseteq S
  BY <1>2, IntoList
<1>6. \A m \in DOMAIN l : l[m].targets \subseteq S
  BY <1>1, <1>4, <1>5
<1> QED BY <1>1, <1>3, <1>4, <1>6, ListInto

\* The chain's later states are not its first.
LEMMA LaterStates ==
  ASSUME TypeOK, NEW k \in 1..Len(chain), k # 1
  PROVE  chain[k] \in Allocated /\ chain[k] # first
<1>1. k \in DOMAIN chain /\ 1 \in DOMAIN chain
  BY ChainStates
<1>2. chain[1] = first /\ (chain[k] = chain[1] => k = 1)
  BY <1>1 DEF TypeOK, HeapTypes
<1> QED BY <1>1, <1>2, ChainStates

\* MeltStates, where the melted state is known: it was made in this round.
LEMMA MeltKnownRound ==
  ASSUME TypeOK, SubsetInv, RecognitionInv, MeltKnown
  PROVE  RecognitionInv'
<1>1. PICK k \in Matches(TargetSet(Melter[ma])) :
        /\ acts' = [acts EXCEPT ![chain[at]] = Retarget(Melter, melted[k].state)]
        /\ stale' = (stale \/ ReadsStale(Melter[ma]) \/ melted[k].round < round)
  BY DEF MeltKnown, Melter
<1>2. pc = "melt" /\ endOf' = endOf
  BY DEF MeltKnown, Melts
<1>3. InRound
  BY <1>1 DEF MeltKnown, Melts, InRound, Round, history
<1>4. PICK s : s = melted[k].state
  OBVIOUS
<1>5. at \in DOMAIN chain /\ chain[at] \in Allocated
  <2>1. at \in DOMAIN chain
    BY <1>2, ChainStates DEF TypeOK, PositionTypes
  <2> QED BY <2>1, ChainStates
<1>6. ASSUME ~stale' PROVE Retarget(Melter, s) \in Seq(Action(Allocated \ {first}))
  <2>1. ~stale /\ ~(melted[k].round < round)
    BY <1>1, <1>6
  <2>2. k \in DOMAIN melted
    BY DEF Matches
  <2>3. PICK n \in Nat, l \in Nat : n = SettledLen /\ l = lastSim /\ n <= Len(chain) /\ l < n
    <3>1. lastSim \in Nat
      BY DEF TypeOK, RoundTypes
    <3>2. lastSim < SettledLen
      BY <1>2, <2>1 DEF SubsetInv, Entries, Melting
    <3> QED BY <3>1, <3>2, SettledLenIs
  <2>4. k <= n - 1 - l /\ s = chain[n + 1 - k]
    <3>1. IF k <= n - 1 - l THEN melted[k].state = chain[n + 1 - k] ELSE melted[k].round < round
      BY <1>2, <2>1, <2>2, <2>3 DEF SubsetInv, Entries, Melting
    <3> QED BY <1>4, <2>1, <3>1
  <2>5. k \in Nat \ {0}
    <3>1. melted \in Seq([set : SUBSET Nat, size : Nat, state : Allocated, round : Nat])
      BY SMTT(30) DEF TypeOK, RoundTypes
    <3> QED BY <2>2, <3>1
  <2>6. PICK c \in Nat : c = Len(chain)
    BY ChainStates
  <2>7. n + 1 - k \in 1..c /\ n + 1 - k # 1
    BY <2>3, <2>4, <2>5, <2>6
  <2>8. s \in Allocated /\ s # first
    BY <2>4, <2>6, <2>7, LaterStates
  <2> QED BY <1>5, <2>1, <2>8, RetargetAvoids DEF RecognitionInv
<1> QED BY <1>1, <1>2, <1>3, <1>4, <1>5, <1>6, ListRound

\* The melted state is new.
LEMMA NewMeltedRound ==
  ASSUME TypeOK, RecognitionInv, NewMelted
  PROVE  RecognitionInv'
<1>1. /\ pc = "meltUnique" /\ endOf' = endOf /\ stale' = stale
      /\ acts' = [acts EXCEPT ![chain[at]] = Retarget(Melter, LastState)]
  BY DEF NewMelted, Melter
<1>2. InRound
  BY DEF NewMelted, InRound, Round, symbols, history
<1>3. PICK c \in Nat \ {0} : c = Len(chain) /\ at \in 1..c /\ at < c
  BY <1>1, ChainStates DEF TypeOK, PositionTypes
<1>4. at \in DOMAIN chain /\ chain[at] \in Allocated
  BY <1>3, ChainStates
<1>5. LastState \in Allocated /\ LastState # first
  <2>1. c \in 1..c /\ c # 1
    BY <1>3
  <2> QED BY <1>3, <2>1, LaterStates DEF LastState
<1>6. ~stale' => Retarget(Melter, LastState) \in Seq(Action(Allocated \ {first}))
  BY <1>1, <1>4, <1>5, RetargetAvoids DEF RecognitionInv
<1> HIDE DEF LastState
<1> QED BY <1>1, <1>2, <1>4, <1>6, ListRound

\* MeltWith copies actions.
LEMMA MeltWithRound ==
  ASSUME TypeOK, RecognitionInv, MeltWith
  PROVE  RecognitionInv'
<1>1. pc = "meltWith" /\ source # {} /\ endOf' = endOf /\ stale' = stale
  BY DEF MeltWith
<1>2. InRound
  BY DEF MeltWith, InRound, Round, symbols, history
<1>3. CASE UNCHANGED acts
  BY <1>1, <1>2, <1>3, QuietRound
<1>4. CASE /\ mi <= Len(acts[NextSource])
           /\ acts' = [acts EXCEPT ![LastState] = AddAction(acts[LastState], acts[NextSource][mi])]
  <2>1. PICK t : t = NextSource /\ t \in Allocated
    <3>1. source \subseteq Allocated
      BY DEF TypeOK, PositionTypes
    <3>2. \A u \in source : nr[u] \in Nat
      BY <3>1, SubsetBasics
    <3> DEFINE N == {nr[u] : u \in source}
    <3>3. N \subseteq Nat /\ N # {}
      BY <1>1, <3>2
    <3> HIDE DEF N
    <3>4. PICK n \in N : \A m \in N : n <= m
      BY ONLY <3>3, LeastNat
    <3>5. \E u \in source : \A v \in source : nr[u] <= nr[v]
      BY <3>4 DEF N
    <3>6. NextSource \in source
      BY <3>5 DEF NextSource
    <3> QED BY <3>1, <3>6
  <2>2. PICK L \in Allocated : L = LastState
    BY ChainStates
  <2>3. mi \in DOMAIN acts[t]
    <3>1. PICK l \in Seq(Action(Allocated)) : l = acts[t]
      BY <2>1, ChainStates
    <3>2. Len(l) \in Nat /\ mi <= Len(l) /\ mi \in Nat \ {0} /\ DOMAIN l = 1..Len(l)
      BY <1>4, <2>1, <3>1 DEF TypeOK, PositionTypes
    <3> QED BY <3>1, <3>2
  <2>4. ASSUME ~stale' PROVE AddAction(acts[L], acts[t][mi]) \in Seq(Action(Allocated \ {first}))
    <3>1. PICK S : S = Allocated \ {first}
      OBVIOUS
    <3>2. acts[L] \in Seq(Action(S)) /\ acts[t] \in Seq(Action(S))
      BY <1>1, <2>1, <2>4, <3>1, Avoiding DEF RecognitionInv
    <3>3. acts[t][mi] \in Action(S)
      BY <2>3, <3>2, ElementOfSeq
    <3>4. AddAction(acts[L], acts[t][mi]) \in Seq(Action(S))
      BY <3>2, <3>3, AddActionElements
    <3> QED BY <3>1, <3>4
  <2>5. acts' = [acts EXCEPT ![L] = AddAction(acts[L], acts[t][mi])]
    BY <1>4, <2>1, <2>2
  <2> QED BY <1>1, <1>2, <2>2, <2>4, <2>5, ListRound
<1> QED BY <1>3, <1>4 DEF MeltWith

\* A new melted state ends what one of its states ends.
LEMMA MeltNewRound ==
  ASSUME TypeOK, RecognitionInv, MeltNew
  PROVE  RecognitionInv'
<1> DEFINE a == Melter[ma]
<1>1. /\ pc = "melt" /\ ma <= Len(Melter)
      /\ acts' = Append(acts, <<>>) /\ endOf' = Append(endOf, EndOfTargets(a))
      /\ stale' = (stale \/ ReadsStale(a))
  BY DEF MeltNew, Melts
<1>2. InRound
  BY DEF MeltNew, Melts, InRound, Round, history
<1>3. a.targets \subseteq Allocated
  <2>1. at \in 1..Len(chain) /\ ma \in Nat \ {0}
    BY <1>1, ChainStates DEF TypeOK, PositionTypes
  <2>2. PICK l \in Seq(Action(Allocated)) : l = Melter
    BY <2>1, ChainStates DEF Melter
  <2>3. ma \in DOMAIN l
    BY <1>1, <2>1, <2>2
  <2>4. l[ma].targets \subseteq Allocated
    BY <2>2, <2>3, IntoList
  <2> QED BY <2>2, <2>4
<1> HIDE DEF a
<1>4. PICK e : e = EndOfTargets(a)
  OBVIOUS
<1>5. PICK n \in Nat \ {0} : n = Len(acts) /\ Allocated = 1..n
  BY ChainStates
<1>6. /\ Allocated' = 1..(n + 1) /\ (endOf')[n + 1] = e
      /\ \A q \in 1..n : (endOf')[q] = endOf[q]
      /\ \A q \in 1..(n + 1) : (acts')[q] = IF q = n + 1 THEN <<>> ELSE acts[q]
  <2>1. endOf \in Seq(Syms \cup {NoSym}) /\ Len(endOf) = n /\ acts \in Seq(Seq(Action(Allocated)))
    BY <1>5 DEF TypeOK, HeapTypes
  <2>2. endOf' = Append(endOf, e)
    BY <1>1, <1>4
  <2>3. (endOf')[n + 1] = e /\ \A q \in 1..n : (endOf')[q] = endOf[q]
    BY <2>1, <2>2
  <2>4. /\ DOMAIN acts' = 1..(n + 1)
        /\ \A q \in 1..(n + 1) : (acts')[q] = IF q = n + 1 THEN <<>> ELSE acts[q]
    <3>1. PICK T, x : acts \in Seq(T) /\ x = <<>>
      BY <2>1
    <3>2. acts' = Append(acts, x) /\ n = Len(acts)
      BY <1>1, <1>5, <3>1
    <3>3. /\ DOMAIN acts' = 1..(n + 1)
          /\ \A q \in 1..(n + 1) : (acts')[q] = IF q = n + 1 THEN x ELSE acts[q]
      BY <3>1, <3>2
    <3> QED BY <3>1, <3>3
  <2> QED BY <2>3, <2>4 DEF Allocated
<1>7. FirstNotEntered'
  <2>1. PICK S : S = Allocated \ {first}
    OBVIOUS
  <2>2. ASSUME ~stale', NEW q \in Allocated' PROVE (acts')[q] \in Seq(Action(S))
    <3>1. ~stale
      BY <1>1, <2>2
    <3>2. CASE q = n + 1
      <4>1. (acts')[q] = <<>>
        BY <1>6, <3>2
      <4> QED BY <4>1
    <3>3. CASE q # n + 1
      <4>1. q \in 1..n /\ (acts')[q] = acts[q]
        BY <1>6, <2>2, <3>3
      <4> QED BY <1>5, <2>1, <3>1, <4>1, Avoiding DEF RecognitionInv
    <3> QED BY <3>2, <3>3
  <2>3. pending' = <<>>
    BY <1>2 DEF RecognitionInv, InRound, Round
  <2> QED BY <2>1, <2>2, <2>3, StillAvoiding
<1>8. e = NoSym \/ \E t \in Allocated : e = endOf[t]
  <2>1. CASE Ending(a) = {}
    BY <1>4, <2>1 DEF EndOfTargets
  <2>2. CASE Ending(a) # {}
    <3>1. \E t \in Ending(a) : e = endOf[t]
      BY <1>3, <1>4, <2>2, EndOfTargetsIs
    <3> QED BY <1>3, <3>1 DEF Ending
  <2> QED BY <2>1, <2>2
<1>9. EndsDeclared'
  <2>1. Keywords' = Keywords /\ kind' = kind /\ declared' = declared
    BY <1>2 DEF InRound, Keywords
  <2>2. EndsDeclared
    BY DEF RecognitionInv
  <2>3. ASSUME NEW q \in Allocated', (endOf')[q] # NoSym
        PROVE  (endOf')[q] \in declared /\ kind[(endOf')[q]] # "litToken"
    <3>1. \E t \in Allocated : (endOf')[q] = endOf[t]
      <4>1. CASE q = n + 1
        BY <1>6, <1>8, <2>3, <4>1
      <4>2. CASE q # n + 1
        <5>1. q \in 1..n
          BY <1>6, <2>3, <4>2
        <5> QED BY <1>5, <1>6, <5>1
      <4> QED BY <4>1, <4>2
    <3> QED BY <2>2, <2>3, <3>1 DEF EndsDeclared
  <2>4. (\A q \in Allocated : (endOf[q] # NoSym => endOf[q] \in declared /\ kind[endOf[q]] # "litToken"))'
    BY <2>1, <2>3
  <2> QED BY <2>1, <2>2, <2>4 DEF EndsDeclared
<1> QED BY <1>2, <1>7, <1>9, RoundFrame

----------------------------------------------------------------------------
(* The steps outside a round.                                              *)

LEMMA NoPending ==
  ASSUME pending = <<>>
  PROVE  PendingEdges = {}
<1>1. DOMAIN <<>> = {}
  OBVIOUS
<1>2. \A e : e \notin PendingEdges
  BY <1>1 DEF PendingEdges
<1> QED BY <1>2

\* Nothing is recognised at the beginning.
LEMMA InitRecognition ==
  ASSUME Init
  PROVE  RecognitionInv
<1>1. /\ acts = << <<>> >> /\ endOf = <<NoSym>> /\ declared = {} /\ pending = <<>>
      /\ kind = [s \in Syms |-> "fixedToken"] /\ pc = "tokens" /\ before.acts = acts
  BY DEF Init
<1>2. DOMAIN <<>> = {} /\ Allocated = {1} /\ acts[1] = <<>>
  BY <1>1 DEF Allocated
<1>3. before.acts # <<>>
  <2>1. \A x : x = <<>> => DOMAIN x = {}
    BY <1>2
  <2> QED BY <1>1, <1>2, <2>1 DEF Allocated
<1>4. FirstNotEntered
  BY <1>1, <1>2 DEF FirstNotEntered
<1>5. Keywords = {}
  BY <1>1 DEF Keywords
<1>6. EndsDeclared
  BY <1>1, <1>2 DEF EndsDeclared
<1>7. KeywordsClassified
  BY <1>5 DEF KeywordsClassified
<1>8. ASSUME NEW w \in AnyWord
      PROVE  Ended(Edges, Ends, w) = {s \in declared \ Keywords : Denotes(s, w)}
  <2>1. EdgesOf(acts) = {}
    <3>1. \A ch, q : q \notin Reached(acts[1], ch)
      BY <1>2, ReachedMember
    <3> QED BY <1>2, <3>1 DEF EdgesOf, Allocated
  <2>2. Edges = {}
    BY <1>1, <2>1, NoPending DEF Edges, Round
  <2>3. w \in Seq(Chars) /\ Len(w) \in Nat /\ Len(w) > 0
    BY DEF AnyWord
  <2>4. After(Edges, w, Len(w)) = {}
    <3>1. After(Edges, w, Len(w)) \subseteq {}
      BY <2>2, <2>3, AfterInto
    <3> QED BY <3>1
  <2>5. Ended(Edges, Ends, w) = {}
    <3>1. \A x : x \notin Ended(Edges, Ends, w)
      BY <2>3, <2>4, EndedHas
    <3> QED BY <3>1
  <2> QED BY <1>1, <2>5
<1>9. WordsKept
  BY <1>8 DEF WordsKept
<1> QED BY <1>1, <1>3, <1>4, <1>6, <1>7, <1>9 DEF RecognitionInv

\* A round starts with the automaton there is.
LEMMA StartRecognition ==
  ASSUME TypeOK, RecognitionInv, StartRound, pc \in {"tokens", "productions"}
  PROVE  RecognitionInv'
<1>1. /\ UNCHANGED <<acts, endOf, pending, stale, symbols>> /\ pc' = "unique"
      /\ before'.acts = acts /\ before'.endOf = endOf
  BY DEF StartRound
<1>2. UNCHANGED <<kind, declared, failed>>
  BY <1>1 DEF symbols
<1>3. pending = <<>> /\ pending' = <<>> /\ PendingEdges = {}
  BY <1>1, NoPending DEF RecognitionInv
<1>4. Edges' = Edges /\ Ends' = Ends
  <2>1. pc \notin Round /\ pc' \in Round
    BY <1>1 DEF Round
  <2> QED BY <1>1, <1>3, <2>1 DEF Edges, Ends
<1>5. Keywords' = Keywords /\ Allocated' = Allocated
  BY <1>1, <1>2 DEF Keywords, Allocated
<1>6. FirstNotEntered' /\ EndsDeclared'
  BY <1>1, <1>2, <1>5 DEF RecognitionInv, FirstNotEntered, EndsDeclared
<1>7. KeywordsClassified' /\ WordsKept'
  BY <1>1, <1>2, <1>4, <1>5 DEF RecognitionInv, KeywordsClassified, WordsKept
<1>8. before'.acts # <<>>
  BY <1>1 DEF TypeOK, HeapTypes
<1> QED BY <1>3, <1>6, <1>7, <1>8 DEF RecognitionInv

\* MakeDeterministic returns: its result has the words it began with.
LEMMA ReturnRecognition ==
  ASSUME TypeOK, SubsetInv, RecognitionInv, Return
  PROVE  RecognitionInv'
<1>1. /\ pc = "deterministic" /\ pc' \in {"productions", "written"}
      /\ UNCHANGED <<acts, endOf, pending, stale, kind, declared, failed, before>>
  BY DEF Return, heap, symbols, history
<1>2. pending = <<>> /\ pending' = <<>> /\ before.acts # <<>>
  BY <1>1 DEF RecognitionInv
<1>3. Edges = EdgesOf(before.acts) /\ Ends = before.endOf
  BY <1>1 DEF Edges, Ends, Round
<1>4. Edges' = EdgesOf(acts) /\ Ends' = endOf
  <2>1. PendingEdges' = {}
    BY <1>2, NoPending DEF PendingEdges
  <2> QED BY <1>1, <2>1 DEF Edges, Ends, Round
<1>5. Keywords' = Keywords /\ Allocated' = Allocated
  BY <1>1 DEF Keywords, Allocated
<1>6. FirstNotEntered' /\ EndsDeclared' /\ KeywordsClassified'
  BY <1>1, <1>5 DEF RecognitionInv, FirstNotEntered, EndsDeclared, KeywordsClassified
<1>7. WordsKept'
  <2> SUFFICES ASSUME ~stale, ~failed, NEW w \in AnyWord
               PROVE  Ended(EdgesOf(acts), endOf, w) = {s \in declared \ Keywords : Denotes(s, w)}
    BY <1>1, <1>4, <1>5 DEF WordsKept
  <2>1. PICK R : Simulates(R)
    BY <1>1 DEF SubsetInv, Simulated
  <2>2. Ended(EdgesOf(acts), endOf, w) = Ended(EdgesOf(before.acts), before.endOf, w)
    BY <1>2, <2>1, Determinized DEF SubsetInv
  <2> QED BY <1>3, <2>2 DEF RecognitionInv, WordsKept
<1> QED BY <1>1, <1>2, <1>6, <1>7 DEF RecognitionInv

\* Nothing changes at the end.
LEMMA EndRecognition ==
  ASSUME RecognitionInv, Abandon \/ (WriteScanner /\ pc' = "written" /\ pc = "productions")
                         \/ UNCHANGED vars,
         StartRound => pc' = "unique"
  PROVE  RecognitionInv'
<1>1. \/ pc = pc'
      \/ pc \notin Round \cup {"convert"} /\ pc' \notin Round \cup {"convert"}
  BY DEF Abandon, Round, vars
<1>2. UNCHANGED <<acts, endOf, pending, stale, kind, declared, failed, before>>
  <2>1. CASE Abandon
    BY <2>1 DEF Abandon, heap, symbols, history
  <2>2. CASE WriteScanner /\ pc' = "written"
    BY <2>2 DEF WriteScanner, heap, symbols, history
  <2>3. CASE UNCHANGED vars
    BY <2>3 DEF vars, heap, symbols, history
  <2> QED BY <2>1, <2>2, <2>3
<1>3. Edges' = Edges /\ Ends' = Ends /\ Keywords' = Keywords /\ Allocated' = Allocated
  BY <1>1, <1>2 DEF Edges, Ends, PendingEdges, Keywords, Allocated
<1>4. FirstNotEntered' /\ EndsDeclared' /\ KeywordsClassified' /\ WordsKept'
  BY <1>2, <1>3 DEF RecognitionInv, FirstNotEntered, EndsDeclared, KeywordsClassified, WordsKept
<1> QED BY <1>1, <1>2, <1>4 DEF RecognitionInv

\* A transition is made: it was one of the edges before.
LEMMA NewTransitionRecognition ==
  ASSUME TypeOK, RecognitionInv, NewTransition
  PROVE  RecognitionInv'
<1> DEFINE Arc == [from : Allocated, to : Allocated, typ : Typs, syms : SUBSET Chars,
                   tc : TransitionCodes]
<1>1. /\ pc = "convert" /\ pc' = IF Len(pending) = 1 THEN "tokens" ELSE "convert"
      /\ pending' = Tail(pending)
      /\ UNCHANGED <<endOf, stale, kind, declared, failed, before>>
  BY DEF NewTransition, symbols, history
<1>2. pending \in Seq(Arc) /\ pending # <<>>
  BY <1>1 DEF TypeOK, ControlTypes
<1>3. PICK x \in Arc : x = Head(pending)
  <2> HIDE DEF Arc
  <2> QED BY <1>2
<1>4. PICK n \in Nat : n = Len(pending) /\ n > 0
  <2> HIDE DEF Arc
  <2> QED BY <1>2
<1>5. /\ DOMAIN pending = 1..n /\ DOMAIN pending' = 1..(n - 1) /\ pending[1] = x
      /\ \A k \in 1..(n - 1) : (pending')[k] = pending[k + 1]
      /\ n = 1 => pending' = <<>>
  <2> HIDE DEF Arc
  <2> QED BY <1>1, <1>2, <1>3, <1>4
<1>6. PICK f \in Allocated, t \in Allocated, y \in SUBSET Chars :
        f = x.from /\ t = x.to /\ y = x.syms
  OBVIOUS
<1>7. PICK b : b = NewAction(x.typ, x.syms, x.tc, x.to)
  OBVIOUS
<1>8. b \in Action({t}) /\ b.syms = y /\ b.targets = {t}
  <2>1. x.typ \in Typs /\ x.tc \in TransitionCodes /\ x.syms \in SUBSET Chars
    OBVIOUS
  <2>2. b \in Action({t})
    BY <1>6, <1>7, <2>1, NewActionType
  <2> QED BY <1>6, <1>7, <2>2 DEF NewAction
<1>9. acts' = [acts EXCEPT ![f] = AddAction(acts[f], b)]
  BY <1>3, <1>6, <1>7 DEF NewTransition
<1> HIDE DEF Arc
<1>10. /\ (acts')[f] = AddAction(acts[f], b) /\ \A q \in Allocated : q # f => (acts')[q] = acts[q]
       /\ Allocated' = Allocated
  BY <1>6, <1>9 DEF Allocated
<1>11. t # first
  <2>1. 1 \in DOMAIN pending
    BY <1>4, <1>5
  <2> QED BY <1>5, <1>6, <2>1 DEF RecognitionInv, FirstNotEntered
<1>12. FirstNotEntered'
  <2>1. ASSUME ~stale, NEW q \in Allocated
        PROVE  (acts')[q] \in Seq(Action(Allocated \ {first}))
    <3>1. PICK S : S = Allocated \ {first}
      OBVIOUS
    <3>2. \A p \in Allocated : acts[p] \in Seq(Action(S))
      BY <2>1, <3>1, Avoiding DEF RecognitionInv
    <3>3. b \in Action(S)
      <4>1. {t} \subseteq S
        BY <1>11, <3>1
      <4> QED BY <1>8, <4>1, ActionGrows
    <3>4. AddAction(acts[f], b) \in Seq(Action(S))
      BY <3>2, <3>3, AddActionElements
    <3> QED BY <1>10, <3>1, <3>2, <3>4
  <2>2. ASSUME ~stale', NEW q \in Allocated', NEW m \in DOMAIN (acts')[q]
        PROVE  first \notin (acts')[q][m].targets
    <3>1. PICK S : S = Allocated \ {first}
      OBVIOUS
    <3>2. (acts')[q] \in Seq(Action(S))
      BY <1>1, <1>10, <2>1, <2>2, <3>1
    <3>3. (acts')[q][m].targets \subseteq S
      BY <2>2, <3>2, IntoList
    <3> QED BY <3>1, <3>3
  <2>3. \A k \in DOMAIN pending' : (pending')[k].to # first
    <3>1. \A k \in DOMAIN pending : pending[k].to # first
      BY DEF RecognitionInv, FirstNotEntered
    <3>2. \A k \in 1..(n - 1) : k + 1 \in 1..n
      OBVIOUS
    <3> QED BY <1>5, <3>1, <3>2
  <2> QED BY <2>2, <2>3 DEF FirstNotEntered
<1>13. EdgesOf(acts') \cup PendingEdges' = EdgesOf(acts) \cup PendingEdges
  <2>1. ASSUME NEW q \in Allocated, NEW ch \in Chars, NEW r
        PROVE  r \in Reached((acts')[q], ch) <=>
                 r \in Reached(acts[q], ch) \/ (q = f /\ ch \in y /\ r = t)
    <3>1. CASE q = f
      <4>1. acts[f] \in Seq(Action(Allocated)) /\ b \in Action(Allocated)
        <5>1. {t} \subseteq Allocated
          OBVIOUS
        <5> QED BY <1>8, <5>1, ActionGrows, ChainStates
      <4>2. r \in Reached(AddAction(acts[f], b), ch) <=>
              r \in Reached(acts[f], ch) \/ (ch \in b.syms /\ r \in b.targets)
        BY <4>1, AddActionMoves
      <4> QED BY <1>8, <1>10, <3>1, <4>2
    <3>2. CASE q # f
      BY <1>10, <3>2
    <3> QED BY <3>1, <3>2
  <2>2. Allocated \subseteq Nat
    BY ChainStates
  <2>3. PICK D : D = Allocated
    OBVIOUS
  <2>4. /\ EdgesOf(acts') = {e \in D \X Chars \X Nat : e[3] \in Reached((acts')[e[1]], e[2])}
        /\ EdgesOf(acts) = {e \in D \X Chars \X Nat : e[3] \in Reached(acts[e[1]], e[2])}
    <3>1. D = DOMAIN acts /\ D = DOMAIN acts'
      BY <1>10, <2>3 DEF Allocated
    <3> QED BY <3>1 DEF EdgesOf
  <2>5. \A e \in D \X Chars \X Nat : e[3] \in Reached((acts')[e[1]], e[2]) <=>
          e[3] \in Reached(acts[e[1]], e[2]) \/ (e[1] = f /\ e[2] \in y /\ e[3] = t)
    BY <2>1, <2>3
  <2>6. \A e : e \in EdgesOf(acts') <=>
          e \in EdgesOf(acts) \/ (e \in Nat \X Chars \X Nat /\ e[1] = f /\ e[2] \in y /\ e[3] = t)
    <3>1. D \subseteq Nat /\ f \in D
      BY <2>2, <2>3
    <3>2. \A e : e \in Nat \X Chars \X Nat /\ e[1] = f => e \in D \X Chars \X Nat
      BY <3>1
    <3>3. \A e : e \in D \X Chars \X Nat => e \in Nat \X Chars \X Nat
      BY <3>1
    <3>4. \A e : e \in EdgesOf(acts') <=> e \in D \X Chars \X Nat /\ e[3] \in Reached((acts')[e[1]], e[2])
      BY <2>4
    <3>5. \A e : e \in EdgesOf(acts) <=> e \in D \X Chars \X Nat /\ e[3] \in Reached(acts[e[1]], e[2])
      BY <2>4
    <3> QED BY <2>5, <3>2, <3>3, <3>4, <3>5, Zenon
  <2>7. ASSUME NEW e \in Nat \X Chars \X Nat
        PROVE  e \in PendingEdges <=>
                 e \in PendingEdges' \/ (e[1] = f /\ e[2] \in y /\ e[3] = t)
    <3> DEFINE Has(z) == z.from = e[1] /\ e[2] \in z.syms /\ z.to = e[3]
    <3>1. e \in PendingEdges <=> \E k \in 1..n : Has(pending[k])
      BY <1>5 DEF PendingEdges
    <3>2. e \in PendingEdges' <=> \E k \in 1..(n - 1) : Has((pending')[k])
      BY <1>5 DEF PendingEdges
    <3>3. Has(pending[1]) <=> e[1] = f /\ e[2] \in y /\ e[3] = t
      BY <1>5, <1>6
    <3> HIDE DEF Has
    <3>4. \A k \in 1..(n - 1) : k + 1 \in 1..n /\ (pending')[k] = pending[k + 1]
      BY <1>5
    <3>5. \A k \in 1..n : k = 1 \/ (k - 1 \in 1..(n - 1) /\ pending[k] = (pending')[k - 1])
      <4> TAKE k \in 1..n
      <4>1. k # 1 => k - 1 \in 1..(n - 1) /\ (k - 1) + 1 = k
        OBVIOUS
      <4> QED BY <3>4, <4>1
    <3>6. 1 \in 1..n
      BY <1>4
    <3>7. ASSUME NEW k \in 1..n, Has(pending[k]), k # 1 PROVE \E j \in 1..(n - 1) : Has((pending')[j])
      BY <3>5, <3>7
    <3>8. ASSUME NEW k \in 1..(n - 1), Has((pending')[k]) PROVE \E j \in 1..n : Has(pending[j])
      BY <3>4, <3>8
    <3> QED BY <3>1, <3>2, <3>3, <3>6, <3>7, <3>8
  <2>8. /\ \A e : e \in PendingEdges => e \in Nat \X Chars \X Nat
        /\ \A e : e \in PendingEdges' => e \in Nat \X Chars \X Nat
    BY DEF PendingEdges
  <2>9. \A e : e \in EdgesOf(acts') \/ e \in PendingEdges' <=> e \in EdgesOf(acts) \/ e \in PendingEdges
    BY <2>6, <2>7, <2>8
  <2> QED BY <2>9
<1>14. Edges' = Edges /\ Ends' = Ends
  <2>1. pc \notin Round /\ pc' \notin Round
    BY <1>1 DEF Round
  <2> QED BY <1>1, <1>13, <2>1 DEF Edges, Ends
<1>15. Keywords' = Keywords
  BY <1>1 DEF Keywords
<1>16. EndsDeclared' /\ KeywordsClassified' /\ WordsKept'
  BY <1>1, <1>10, <1>14, <1>15
     DEF RecognitionInv, EndsDeclared, KeywordsClassified, WordsKept
<1>17. pc' # "convert" => pending' = <<>>
  BY <1>1, <1>4, <1>5
<1> QED BY <1>1, <1>12, <1>16, <1>17 DEF RecognitionInv

----------------------------------------------------------------------------
(* Declarations and literals.                                              *)

\* A symbol is declared: states behind the allocated ones, and the edges of the graph g
\* between firstState and them.
LEMMA GraphDeclared ==
  ASSUME TypeOK, RecognitionInv, pc \in {"tokens", "productions"},
         pc' \in {"tokens", "convert", "productions"},
         NEW s \in Syms \ declared, declared' = declared \cup {s},
         UNCHANGED <<stale, failed, before>>,
         \A e \in Syms : e # s => (kind')[e] = kind[e], (kind')[s] # "litToken",
         NEW g, g.size \in Nat, g.arcs \in Seq(Arcs),
         \A j \in DOMAIN g.arcs : g.arcs[j].from <= g.size /\ g.arcs[j].to <= g.size,
         \A w \in AnyWord : Denotes(s, w) <=> WordOf(g, w),
         Allocated' = Allocated \cup {Len(acts) + k : k \in 1..g.size},
         \A q \in Allocated : (endOf')[q] = endOf[q],
         \A k \in 1..g.size : (endOf')[Len(acts) + k] = IF k \in g.ends THEN s ELSE NoSym,
         EdgesOf(acts') \cup PendingEdges' = EdgesOf(acts) \cup ArcEdges(g, Len(acts)),
         FirstNotEntered', pc' # "convert" => pending' = <<>>
  PROVE  RecognitionInv'
<1>1. PICK a \in Nat \ {0}, n \in Nat : a = Len(acts) /\ n = g.size
  BY ChainStates
<1>2. Allocated = 1..a /\ first = 1 /\ first \in Allocated
  BY <1>1, ChainStates DEF first
<1>3. /\ s # NoSym /\ s \in Syms /\ s \notin declared /\ declared \subseteq Syms
      /\ EndsDeclared /\ KeywordsClassified /\ WordsKept /\ FirstNotEntered
      /\ before.acts # <<>> /\ pending = <<>>
  BY SymsAssumption DEF RecognitionInv, TypeOK, SymbolTypes
<1>4. Keywords' = Keywords /\ s \notin Keywords /\ Keywords \subseteq declared
  <2>1. \A e \in declared : (kind')[e] = kind[e]
    BY <1>3
  <2> QED BY <1>3, <2>1 DEF Keywords
<1>5. EndsDeclared'
  <2>1. \A e \in Syms : (kind')[e] = "litToken" => e \in Keywords'
    BY <1>3, <1>4 DEF EndsDeclared
  <2>2. ASSUME NEW q \in Allocated', (endOf')[q] # NoSym
        PROVE  (endOf')[q] \in declared' /\ (kind')[(endOf')[q]] # "litToken"
    <3>1. CASE q \in Allocated
      <4>1. endOf[q] \in declared /\ kind[endOf[q]] # "litToken" /\ (endOf')[q] = endOf[q]
        BY <1>3, <2>2, <3>1 DEF EndsDeclared
      <4> QED BY <1>3, <4>1
    <3>2. CASE q \notin Allocated
      <4>1. (endOf')[q] = s
        BY <2>2, <3>2
      <4> QED BY <4>1
    <3> QED BY <3>1, <3>2
  <2> QED BY <2>1, <2>2 DEF EndsDeclared
<1>6. KeywordsClassified'
  <2> SUFFICES ASSUME ~stale, ~failed, NEW k \in Keywords
               PROVE  \E e \in declared' : (kind')[e] = "classLitToken" /\ Denotes(e, Text[k])
    BY <1>4 DEF KeywordsClassified
  <2>1. PICK e \in declared : kind[e] = "classLitToken" /\ Denotes(e, Text[k])
    BY <1>3 DEF KeywordsClassified
  <2> QED BY <1>3, <2>1
<1>7. Edges = EdgesOf(acts) /\ Ends = endOf
  BY <1>3, NoPending DEF Edges, Ends, Round
<1>8. Edges' = EdgesOf(acts) \cup ArcEdges(g, a) /\ Ends' = endOf'
  BY <1>1 DEF Edges, Ends, Round
<1> DEFINE E == EdgesOf(acts)
           N == ArcEdges(g, a)
           B == {a + k : k \in 1..n}
<1>9. ~stale => \A e \in E : e[1] \in Allocated /\ e[3] \in Allocated \ {first}
  <2> SUFFICES ASSUME ~stale, NEW e \in E PROVE e[1] \in Allocated /\ e[3] \in Allocated \ {first}
    OBVIOUS
  <2>1. acts \in Seq(Seq(Action(DOMAIN acts)))
    BY DEF TypeOK, HeapTypes, Allocated
  <2>2. e[1] \in Allocated /\ e[3] \in Allocated
    BY <2>1, EdgesMove DEF Allocated
  <2>3. e[3] \in Reached(acts[e[1]], e[2])
    BY DEF EdgesOf
  <2>4. PICK m \in DOMAIN acts[e[1]] : e[3] \in acts[e[1]][m].targets
    BY <2>3, ReachedMember
  <2>5. e[3] # first
    BY <1>3, <2>2, <2>4 DEF FirstNotEntered
  <2> QED BY <2>2, <2>5
<1>10. \A e \in N : e[1] \in B \cup {first} /\ e[3] \in B
  <2> SUFFICES ASSUME NEW e \in N PROVE e[1] \in B \cup {first} /\ e[3] \in B
    OBVIOUS
  <2>1. PICK j \in DOMAIN g.arcs : Place(a, g.arcs[j].from) = e[1] /\ Place(a, g.arcs[j].to) = e[3]
    BY DEF ArcEdges
  <2>2. g.arcs[j] \in Arcs
    <3>1. DOMAIN g.arcs = 1..Len(g.arcs)
      OBVIOUS
    <3> QED BY <3>1, ElementOfSeq
  <2>3. PICK x \in Nat, y \in Nat \ {0} : x = g.arcs[j].from /\ y = g.arcs[j].to
    BY <2>2 DEF Arcs
  <2>4. x <= n /\ y <= n
    BY <1>1, <2>3
  <2>5. y \in 1..n /\ (x = 0 \/ x \in 1..n)
    BY <2>3, <2>4
  <2>6. Place(a, x) = e[1] /\ Place(a, y) = e[3]
    BY <2>1, <2>3
  <2>7. e[3] = a + y /\ e[1] = IF x = 0 THEN first ELSE a + x
    BY <2>5, <2>6 DEF Place
  <2> QED BY <2>5, <2>7
<1>11. Allocated \cap B = {}
  BY <1>2
<1>12. WordsKept'
  <2> SUFFICES ASSUME ~stale, ~failed, NEW w \in AnyWord
               PROVE  Ended(E \cup N, endOf', w) = {e \in declared' \ Keywords : Denotes(e, w)}
    BY <1>4, <1>8 DEF WordsKept
  <2>1. Ended(E, endOf, w) = {e \in declared \ Keywords : Denotes(e, w)}
    BY <1>3, <1>7 DEF WordsKept
  <2> HIDE DEF E, N, B
  <2>2. PICK A, f, h : A = Allocated /\ f = endOf' /\ h = endOf
    OBVIOUS
  <2>3. /\ first \in A /\ A \cap B = {} /\ w \in AnyWord
        /\ \A e \in E : e[1] \in A /\ e[3] \in A \ {first}
    BY <1>2, <1>9, <1>11, <2>2
  <2>8. \A q \in A : f[q] = h[q]
    BY <2>2
  <2>6. Ended(E \cup N, f, w) = Ended(E, f, w) \cup Ended(N, f, w)
    BY ONLY <1>10, <2>3, TwoParts, SMTT(30)
  <2>7. Ended(E, f, w) = Ended(E, h, w)
    <3>1. \A e \in E : e[3] \in A
      BY <2>3
    <3> QED BY ONLY <2>3, <2>8, <3>1, SameEnds
  <2>4. Ended(N, endOf', w) = IF WordOf(g, w) THEN {s} ELSE {}
    <3>1. \A k \in 1..g.size : (endOf')[a + k] = IF k \in g.ends THEN s ELSE NoSym
      BY <1>1
    <3> QED BY <1>3, <3>1, GraphWords DEF N
  <2>5. Denotes(s, w) <=> WordOf(g, w)
    OBVIOUS
  <2> QED BY <1>3, <1>4, <2>1, <2>2, <2>4, <2>5, <2>6, <2>7
<1> QED BY <1>3, <1>5, <1>6, <1>12 DEF RecognitionInv

\* The arcs of a text, one by one.
LEMMA TextArcs ==
  ASSUME NEW t, Len(t) \in Nat
  PROVE  /\ TextGraph(t).size = Len(t) /\ TextGraph(t).ends = {Len(t)}
         /\ DOMAIN TextGraph(t).arcs = 1..Len(t)
         /\ \A j \in 1..Len(t) : /\ TextGraph(t).arcs[j].from = j - 1
                                 /\ TextGraph(t).arcs[j].to = j
                                 /\ TextGraph(t).arcs[j].syms = {t[j]}
BY DEF TextGraph

\* ConvertToStates: the arcs of the graph are pending.
LEMMA AddTokenRecognition ==
  ASSUME TypeOK, RecognitionInv, NEW s \in DOMAIN Graph, DeclareToken(s)
  PROVE  RecognitionInv'
<1> DEFINE g == Graph[s]
           n == g.size
           a == Len(acts)
           m == Len(g.arcs)
           ends == [k \in 1..n |-> IF k \in g.ends THEN s ELSE NoSym]
           new == [k \in 1..n |-> <<>>]
<1>1. /\ pc = "tokens" /\ s \notin declared /\ declared' = declared \cup {s} /\ AddToken(s)
      /\ UNCHANGED <<stale, before>>
  BY DEF DeclareToken, history
<1>2. /\ acts' = acts \o new /\ NewStates(n, ends) /\ pc' = "convert" /\ failed' = failed
      /\ pending' = [k \in 1..m |->
                       [from |-> Place(a, g.arcs[k].from), to |-> Place(a, g.arcs[k].to),
                        typ |-> g.arcs[k].typ, syms |-> g.arcs[k].syms, tc |-> g.arcs[k].tc]]
      /\ kind' = kind \/ kind' = [kind EXCEPT ![s] = "classToken"]
  BY <1>1 DEF AddToken, Place
<1>3. /\ s \in Syms /\ s \notin DOMAIN Text /\ n \in Nat /\ g.arcs \in Seq(Arcs)
      /\ \A k \in DOMAIN g.arcs : g.arcs[k].from <= n /\ g.arcs[k].to <= n
  BY SymsAssumption, GraphAssumption
<1>4. m \in Nat /\ DOMAIN g.arcs = 1..m /\ \A k \in 1..m : g.arcs[k] \in Arcs
  BY <1>3, ElementOfSeq
<1>5. a \in Nat \ {0} /\ Allocated = 1..a /\ first = 1
      /\ \A q \in Allocated : acts[q] \in Seq(Action(Allocated))
  BY ChainStates DEF first
<1>6. /\ EndsDeclared /\ FirstNotEntered /\ pending = <<>>
      /\ kind \in [Syms -> {"fixedToken", "classToken", "litToken", "classLitToken"}]
  BY <1>1 DEF RecognitionInv, TypeOK, SymbolTypes
<1>7. (\A e \in Syms : e # s => (kind')[e] = kind[e]) /\ (kind')[s] # "litToken"
  <2>1. kind[s] # "litToken"
    BY <1>3, <1>6 DEF EndsDeclared, Keywords
  <2> QED BY <1>2, <1>3, <1>6, <2>1
<1>8. ends \in Seq(Syms \cup {NoSym}) /\ Len(ends) = n /\ \A k \in 1..n : ends[k] = IF k \in g.ends THEN s ELSE NoSym
  BY <1>3
<1>9. \A k \in 1..n : new[k] = <<>>
  OBVIOUS
<1>10. new \in Seq(Seq(Action(1..(a + n)))) /\ Len(new) = n
  <2>1. \A S : <<>> \in Seq(S)
    OBVIOUS
  <2>2. new \in [1..n -> Seq(Action(1..(a + n)))]
    BY <2>1
  <2> HIDE DEF new, a
  <2> QED BY <1>3, <2>2, FunctionSeq
<1> HIDE DEF ends, new, g, n, m
<1>11. /\ Len(acts') = a + n /\ DOMAIN (acts') = 1..(a + n)
       /\ \A q \in 1..a : (acts')[q] = acts[q]
       /\ \A k \in 1..n : (acts')[a + k] = <<>>
  <2>1. PICK B : B = 1..(a + n)
    OBVIOUS
  <2>2. acts \in Seq(Seq(Action(B)))
    <3>1. Allocated \subseteq B /\ acts \in Seq(Seq(Action(Allocated)))
      BY <1>3, <1>5, <2>1 DEF TypeOK, HeapTypes
    <3> QED BY <3>1, ActionGrows
  <2>3. new \in Seq(Seq(Action(B)))
    BY <1>10, <2>1
  <2>4. /\ acts \o new \in Seq(Seq(Action(B))) /\ Len(acts \o new) = Len(acts) + Len(new)
        /\ \A k \in 1..Len(acts) : (acts \o new)[k] = acts[k]
        /\ \A k \in 1..Len(new) : (acts \o new)[Len(acts) + k] = new[k]
    BY ONLY <2>2, <2>3, ConcatSeq
  <2> QED BY <1>2, <1>9, <1>10, <2>4
<1>12. /\ \A q \in Allocated : (endOf')[q] = endOf[q]
       /\ \A k \in 1..n : (endOf')[a + k] = IF k \in g.ends THEN s ELSE NoSym
  <2>1. endOf \in Seq(Syms \cup {NoSym}) /\ Len(endOf) = a
    BY DEF TypeOK, HeapTypes
  <2>2. endOf' = endOf \o ends
    BY <1>2 DEF NewStates
  <2>3. /\ \A k \in 1..Len(endOf) : (endOf \o ends)[k] = endOf[k]
        /\ \A k \in 1..Len(ends) : (endOf \o ends)[Len(endOf) + k] = ends[k]
    <3>1. endOf \in Seq(Syms \cup {NoSym}) /\ ends \in Seq(Syms \cup {NoSym})
      BY <1>8, <2>1
    <3> QED BY ONLY <3>1, ConcatSeq
  <2> QED BY <1>5, <1>8, <2>1, <2>2, <2>3
<1>13. Allocated' = Allocated \cup {a + k : k \in 1..n}
  <2>1. PICK x \in Nat, y \in Nat : x = a /\ y = n
    BY <1>3, <1>5
  <2>2. ASSUME NEW q \in 1..(x + y) PROVE q \in 1..x \/ \E k \in 1..y : q = x + k
    <3>1. q \in 1..x \/ (q - x \in 1..y /\ q = x + (q - x))
      OBVIOUS
    <3> QED BY <3>1
  <2>3. \A k \in 1..x : k \in 1..(x + y)
    OBVIOUS
  <2>4. \A k \in 1..y : x + k \in 1..(x + y)
    OBVIOUS
  <2>5. Allocated' = 1..(x + y) /\ Allocated = 1..x
    BY <1>5, <1>11, <2>1 DEF Allocated
  <2>6. 1..(x + y) = (1..x) \cup {x + k : k \in 1..y}
    BY ONLY <2>2, <2>3, <2>4
  <2> QED BY <2>1, <2>5, <2>6
<1>14. EdgesOf(acts') = EdgesOf(acts)
  <2>1. \A ch, r : r \notin Reached(<<>>, ch)
    <3>1. DOMAIN <<>> = {}
      OBVIOUS
    <3> QED BY <3>1, ReachedMember
  <2>2. \A q \in Allocated : q \in DOMAIN (acts') /\ (acts')[q] = acts[q]
    BY <1>5, <1>11, <1>13 DEF Allocated
  <2>3. \A q \in DOMAIN (acts') : q \in Allocated \/ (acts')[q] = <<>>
    BY <1>11, <1>13 DEF Allocated
  <2>4. \A e : e \in EdgesOf(acts') <=>
          e \in (DOMAIN acts') \X Chars \X Nat /\ e[3] \in Reached((acts')[e[1]], e[2])
    BY DEF EdgesOf
  <2>5. \A e : e \in EdgesOf(acts) <=>
          e \in Allocated \X Chars \X Nat /\ e[3] \in Reached(acts[e[1]], e[2])
    BY DEF EdgesOf, Allocated
  <2>6. ASSUME NEW e, e \in EdgesOf(acts') PROVE e \in EdgesOf(acts)
    <3>1. e \in (DOMAIN acts') \X Chars \X Nat /\ e[3] \in Reached((acts')[e[1]], e[2])
      BY <2>4, <2>6
    <3>2. e[1] \in DOMAIN acts'
      BY <3>1
    <3>3. e[1] \in Allocated
      BY <2>1, <2>3, <3>1, <3>2
    <3>4. e \in Allocated \X Chars \X Nat
      BY <3>1, <3>3
    <3> QED BY <2>2, <2>5, <3>1, <3>3, <3>4
  <2>7. ASSUME NEW e, e \in EdgesOf(acts) PROVE e \in EdgesOf(acts')
    <3>1. e \in Allocated \X Chars \X Nat /\ e[3] \in Reached(acts[e[1]], e[2])
      BY <2>5, <2>7
    <3>2. e[1] \in Allocated
      BY <3>1
    <3>3. e \in (DOMAIN acts') \X Chars \X Nat
      BY <2>2, <3>1, <3>2
    <3> QED BY <2>2, <2>4, <3>1, <3>2, <3>3
  <2> QED BY <2>6, <2>7
<1>15. DOMAIN pending' = 1..m
       /\ \A k \in 1..m : /\ (pending')[k].from = Place(a, g.arcs[k].from)
                          /\ (pending')[k].to = Place(a, g.arcs[k].to)
                          /\ (pending')[k].syms = g.arcs[k].syms
  BY <1>2
<1>16. PendingEdges' = ArcEdges(g, a)
  BY <1>4, <1>15 DEF PendingEdges, ArcEdges
<1>17. FirstNotEntered'
  <2>1. ASSUME ~stale', NEW q \in Allocated', NEW k \in DOMAIN (acts')[q]
        PROVE  first \notin (acts')[q][k].targets
    <3>1. CASE q \in Allocated
      <4>1. (acts')[q] = acts[q]
        BY <1>5, <1>11, <3>1
      <4> QED BY <1>1, <1>6, <2>1, <3>1, <4>1 DEF FirstNotEntered
    <3>2. CASE q \notin Allocated
      <4>1. (acts')[q] = <<>>
        BY <1>11, <1>13, <3>2
      <4>2. DOMAIN <<>> = {}
        OBVIOUS
      <4> QED BY <2>1, <4>1, <4>2
    <3> QED BY <3>1, <3>2
  <2>2. ASSUME NEW k \in 1..m PROVE (pending')[k].to # first
    <3>1. PICK y \in Nat \ {0} : y = g.arcs[k].to
      BY <1>4 DEF Arcs
    <3>2. Place(a, y) = a + y
      BY DEF Place
    <3> QED BY <1>5, <1>15, <3>1, <3>2
  <2> QED BY <1>15, <2>1, <2>2 DEF FirstNotEntered
<1>18. \A w \in AnyWord : Denotes(s, w) <=> WordOf(g, w)
  BY <1>3 DEF Denotes, g
<1>19. s \in Syms \ declared /\ pc \in {"tokens", "productions"}
       /\ pc' \in {"tokens", "convert", "productions"} /\ UNCHANGED <<stale, failed, before>>
       /\ (pc' # "convert" => pending' = <<>>)
  BY <1>1, <1>2, <1>3
<1>20. EdgesOf(acts') \cup PendingEdges' = EdgesOf(acts) \cup ArcEdges(g, Len(acts))
  BY <1>14, <1>16
<1> QED BY <1>1, <1>3, <1>7, <1>12, <1>13, <1>17, <1>18, <1>19, <1>20, GraphDeclared DEF n

\* A path of new states: the edges of the text are added.
LEMMA AddPathEdges ==
  ASSUME TypeOK, NEW s \in DOMAIN Text, AddPath(s)
  PROVE  EdgesOf(acts') = EdgesOf(acts) \cup ArcEdges(TextGraph(Text[s]), Len(acts))
<1> DEFINE a == Len(acts)
           t == Text[s]
           n == Len(t)
           Chr(k) == NewAction("chr", {t[k]}, "normalTrans", a + k)
           A(q) == IF q = first THEN AddAction(acts[first], Chr(1))
                   ELSE IF q <= a THEN acts[q]
                   ELSE IF q = a + n THEN <<>>
                   ELSE <<Chr(q - a + 1)>>
           N == ArcEdges(TextGraph(t), a)
<1>1. n \in Nat \ {0} /\ \A k \in 1..n : t[k] \in Chars
  BY TextAssumption
<1>2. a \in Nat \ {0} /\ Allocated = 1..a /\ first = 1
      /\ \A q \in Allocated : acts[q] \in Seq(Action(Allocated))
  BY ChainStates DEF first
<1>3. acts' = [q \in 1..(a + n) |-> A(q)]
  BY DEF AddPath
<1>4. ASSUME NEW k \in 1..n
      PROVE  Chr(k) \in Action(1..(a + n)) /\ Chr(k).syms = {t[k]} /\ Chr(k).targets = {a + k}
  <2>1. a + k \in 1..(a + n) /\ {t[k]} \in SUBSET Chars
    BY <1>1, <1>2
  <2>2. Chr(k).syms = {t[k]} /\ Chr(k).targets = {a + k}
    BY DEF NewAction
  <2> HIDE DEF n, t, a
  <2>3. Chr(k) \in Action(1..(a + n))
    BY <2>1, NewActionType DEF Typs, TransitionCodes
  <2> QED BY <2>2, <2>3
<1> HIDE DEF Chr, n, t, a, A
<1>5. \A e : e \in N <=> e \in Nat \X Chars \X Nat
                         /\ \E j \in 1..n : /\ e[1] = Place(a, j - 1) /\ e[2] = t[j]
                                            /\ e[3] = a + j
  <2>1. n \in Nat /\ n = Len(t)
    BY <1>1 DEF n
  <2>2. /\ DOMAIN TextGraph(t).arcs = 1..n
        /\ \A j \in 1..n : /\ TextGraph(t).arcs[j].from = j - 1
                           /\ TextGraph(t).arcs[j].to = j
                           /\ TextGraph(t).arcs[j].syms = {t[j]}
    BY <2>1, TextArcs
  <2>3. \A j \in 1..n : Place(a, j) = a + j
    BY DEF Place
  <2> QED BY <2>2, <2>3 DEF ArcEdges
<1>6. ASSUME NEW q \in 1..a, q # first PROVE (acts')[q] = acts[q]
  BY <1>1, <1>2, <1>3, <1>6 DEF A
<1>7. ASSUME NEW ch, NEW r
      PROVE  r \in Reached((acts')[first], ch) <=>
               r \in Reached(acts[first], ch) \/ (ch = t[1] /\ r = a + 1)
  <2>1. (acts')[first] = AddAction(acts[first], Chr(1))
    BY <1>1, <1>2, <1>3 DEF A
  <2>2. PICK B : B = 1..(a + n)
    OBVIOUS
  <2>3. acts[first] \in Seq(Action(B)) /\ Chr(1) \in Action(B)
    <3>1. Allocated \subseteq B /\ first \in Allocated /\ 1 \in 1..n
      BY <1>1, <1>2, <2>2
    <3>2. acts[first] \in Seq(Action(Allocated))
      BY <1>2, <3>1
    <3>3. acts[first] \in Seq(Action(B))
      BY <3>1, <3>2, ActionGrows
    <3> QED BY <1>4, <2>2, <3>1, <3>3
  <2>4. PICK l, c : l = acts[first] /\ c = Chr(1) /\ l \in Seq(Action(B)) /\ c \in Action(B)
    BY <2>3
  <2>5. r \in Reached(AddAction(l, c), ch) <=>
          r \in Reached(l, ch) \/ (ch \in c.syms /\ r \in c.targets)
    BY ONLY <2>4, AddActionMoves
  <2>6. 1 \in 1..n
    BY <1>1
  <2> QED BY <1>4, <2>1, <2>4, <2>5, <2>6
<1>8. ASSUME NEW k \in 1..n, NEW ch, NEW r
      PROVE  r \in Reached((acts')[a + k], ch) <=>
               k + 1 \in 1..n /\ ch = t[k + 1] /\ r = a + k + 1
  <2>1. a + k \in 1..(a + n) /\ a + k > a /\ a + k # first /\ (a + k = a + n <=> k = n)
        /\ (a + k) - a + 1 = k + 1
    BY <1>1, <1>2
  <2>2. CASE k = n
    <3>1. (acts')[a + k] = <<>>
      BY <1>2, <1>3, <2>1, <2>2 DEF A
    <3>2. DOMAIN <<>> = {}
      OBVIOUS
    <3>3. k + 1 \notin 1..n
      BY <1>1, <2>2
    <3> QED BY <3>1, <3>2, <3>3, ReachedMember
  <2>3. CASE k # n
    <3>1. (acts')[a + k] = <<Chr(k + 1)>>
      BY <1>2, <1>3, <2>1, <2>3 DEF A
    <3>2. k + 1 \in 1..n /\ a + (k + 1) = a + k + 1
      BY <1>1, <1>2, <2>3
    <3>3. PICK c : c = Chr(k + 1)
      OBVIOUS
    <3>4. DOMAIN <<c>> = {1} /\ <<c>>[1] = c
      OBVIOUS
    <3>5. c.syms = {t[k + 1]} /\ c.targets = {a + k + 1}
      BY <1>4, <3>2, <3>3
    <3>6. r \in Reached(<<c>>, ch) <=> ch \in c.syms /\ r \in c.targets
      BY <3>4, ReachedMember
    <3> QED BY <3>1, <3>2, <3>3, <3>5, <3>6
  <2> QED BY <2>2, <2>3
<1>9. ASSUME NEW q \in 1..(a + n), NEW ch, NEW r
      PROVE  r \in Reached((acts')[q], ch) <=>
               \/ q \in 1..a /\ r \in Reached(acts[q], ch)
               \/ \E j \in 1..n : q = Place(a, j - 1) /\ ch = t[j] /\ r = a + j
  <2>1. CASE q = first
    <3>1. \A j \in 1..n : q = Place(a, j - 1) <=> j = 1
      BY <1>2, <2>1 DEF Place
    <3>2. 1 \in 1..n /\ q \in 1..a
      BY <1>1, <1>2, <2>1
    <3> QED BY <1>7, <2>1, <3>1, <3>2
  <2>2. CASE q \in 1..a /\ q # first
    <3>1. \A j \in 1..n : q # Place(a, j - 1)
      BY <1>2, <2>2 DEF Place
    <3> QED BY <1>6, <2>2, <3>1
  <2>3. CASE q \notin 1..a
    <3>1. PICK k \in 1..n : q = a + k
      <4>1. q - a \in 1..n /\ q = a + (q - a)
        BY <1>1, <1>2, <2>3
      <4> QED BY <4>1
    <3>2. \A j \in 1..n : q = Place(a, j - 1) <=> j = k + 1
      BY <1>2, <3>1 DEF Place
    <3>3. a + (k + 1) = a + k + 1
      BY <1>2
    <3>4. ASSUME NEW j \in 1..n, q = Place(a, j - 1), ch = t[j], r = a + j
          PROVE  k + 1 \in 1..n /\ ch = t[k + 1] /\ r = a + k + 1
      <4>1. j = k + 1
        BY <3>2, <3>4
      <4> QED BY <3>3, <3>4, <4>1
    <3>5. ASSUME k + 1 \in 1..n, ch = t[k + 1], r = a + k + 1
          PROVE  \E j \in 1..n : q = Place(a, j - 1) /\ ch = t[j] /\ r = a + j
      BY <3>2, <3>3, <3>5
    <3>6. r \in Reached((acts')[q], ch) <=> k + 1 \in 1..n /\ ch = t[k + 1] /\ r = a + k + 1
      BY <1>8, <3>1
    <3> QED BY <2>3, <3>4, <3>5, <3>6
  <2> QED BY <1>2, <2>1, <2>2, <2>3
<1>10. DOMAIN acts' = 1..(a + n) /\ DOMAIN acts = 1..a
  BY <1>2, <1>3 DEF Allocated
<1>11. \A e : e \in EdgesOf(acts') <=>
         e \in (1..(a + n)) \X Chars \X Nat /\ e[3] \in Reached((acts')[e[1]], e[2])
  BY <1>10 DEF EdgesOf
<1>12. \A e : e \in EdgesOf(acts) <=>
         e \in (1..a) \X Chars \X Nat /\ e[3] \in Reached(acts[e[1]], e[2])
  BY <1>10 DEF EdgesOf
<1>13. ASSUME NEW q \in Nat, NEW ch \in Chars, NEW r \in Nat
       PROVE  <<q, ch, r>> \in EdgesOf(acts') <=> <<q, ch, r>> \in EdgesOf(acts) \/ <<q, ch, r>> \in N
  <2>0. PICK e : e = <<q, ch, r>>
    OBVIOUS
  <2>1. e = <<q, ch, r>> /\ e[1] = q /\ e[2] = ch /\ e[3] = r
    BY <2>0
  <2>2. e \in EdgesOf(acts') <=> q \in 1..(a + n) /\ r \in Reached((acts')[q], ch)
    BY <1>11, <2>1
  <2>3. e \in EdgesOf(acts) <=> q \in 1..a /\ r \in Reached(acts[q], ch)
    BY <1>12, <2>1
  <2>4. e \in N <=> \E j \in 1..n : q = Place(a, j - 1) /\ ch = t[j] /\ r = a + j
    <3>1. e \in Nat \X Chars \X Nat
      BY <2>1
    <3> HIDE DEF N
    <3> QED BY <1>5, <2>1, <3>1
  <2>5. \A j \in 1..n : Place(a, j - 1) \in 1..(a + n)
    BY <1>1, <1>2 DEF Place
  <2>6. q \in 1..a => q \in 1..(a + n)
    BY <1>1, <1>2
  <2> HIDE DEF N
  <2>7. q \in 1..(a + n) => (r \in Reached((acts')[q], ch) <=>
                              \/ q \in 1..a /\ r \in Reached(acts[q], ch)
                              \/ \E j \in 1..n : q = Place(a, j - 1) /\ ch = t[j] /\ r = a + j)
    BY <1>9
  <2>8. e \in EdgesOf(acts') <=> e \in EdgesOf(acts) \/ e \in N
    BY <2>2, <2>3, <2>4, <2>5, <2>6, <2>7
  <2> QED BY <2>1, <2>8
<1>14. \A e : e \in EdgesOf(acts') \/ e \in EdgesOf(acts) \/ e \in N =>
         \E q \in Nat, ch \in Chars, r \in Nat : e = <<q, ch, r>>
  <2>1. 1..(a + n) \subseteq Nat /\ 1..a \subseteq Nat
    OBVIOUS
  <2>2. \A e : e \in EdgesOf(acts') \/ e \in EdgesOf(acts) \/ e \in N => e \in Nat \X Chars \X Nat
    <3> HIDE DEF N
    <3> QED BY <1>5, <1>11, <1>12, <2>1
  <2> QED BY <2>2
<1>15. EdgesOf(acts') = EdgesOf(acts) \cup N
  <2> HIDE DEF N
  <2> QED BY <1>13, <1>14
<1> QED BY <1>15 DEF a, t

\* A path is added: the text is a new word.
LEMMA AddPathRecognition ==
  ASSUME TypeOK, RecognitionInv, NEW s \in DOMAIN Text, s \notin declared, AddPath(s),
         pc \in {"tokens", "productions"}, declared' = declared \cup {s},
         UNCHANGED <<pc, pending, stale, before>>
  PROVE  RecognitionInv'
<1> DEFINE g == TextGraph(Text[s])
           n == g.size
           ends == [k \in 1..n |-> IF k \in g.ends THEN s ELSE NoSym]
<1>1. Text[s] \in AnyWord /\ Len(Text[s]) \in Nat /\ s \in Syms
  BY TextAssumption, SymsAssumption DEF AnyWord
<1>2. /\ n \in Nat /\ n = Len(Text[s]) /\ g.ends = {n} /\ g.arcs \in Seq(Arcs)
      /\ \A j \in DOMAIN g.arcs : g.arcs[j].from <= n /\ g.arcs[j].to <= n
  BY <1>1, TextArcs, TextGraphWords
<1>3. \A w \in AnyWord : WordOf(g, w) <=> w = Text[s]
  BY <1>1, TextGraphWords
<1> HIDE DEF g, n
<1>4. PICK a \in Nat \ {0} : a = Len(acts) /\ Allocated = 1..a
  BY ChainStates
<1>5. DOMAIN acts' = 1..(a + n) /\ UNCHANGED <<kind, failed>>
  BY <1>2, <1>4 DEF AddPath
<1>6. NewStates(n, ends)
  <2>1. NewStates(Len(Text[s]), [k \in 1..Len(Text[s]) |-> IF k = Len(Text[s]) THEN s ELSE NoSym])
    BY DEF AddPath
  <2>2. ends = [k \in 1..n |-> IF k = n THEN s ELSE NoSym]
    BY <1>2
  <2> QED BY <1>2, <2>1, <2>2
<1>7. ends \in Seq(Syms \cup {NoSym}) /\ Len(ends) = n /\ \A k \in 1..n : ends[k] = IF k \in g.ends THEN s ELSE NoSym
  BY <1>1, <1>2
<1> HIDE DEF ends
<1>8. /\ \A q \in Allocated : (endOf')[q] = endOf[q]
      /\ \A k \in 1..n : (endOf')[a + k] = IF k \in g.ends THEN s ELSE NoSym
  <2>1. endOf \in Seq(Syms \cup {NoSym}) /\ Len(endOf) = a
    BY <1>4 DEF TypeOK, HeapTypes
  <2>2. endOf' = endOf \o ends
    BY <1>6 DEF NewStates
  <2>3. /\ \A k \in 1..Len(endOf) : (endOf \o ends)[k] = endOf[k]
        /\ \A k \in 1..Len(ends) : (endOf \o ends)[Len(endOf) + k] = ends[k]
    <3>1. endOf \in Seq(Syms \cup {NoSym}) /\ ends \in Seq(Syms \cup {NoSym})
      BY <1>7, <2>1
    <3> QED BY ONLY <3>1, ConcatSeq
  <2> QED BY <1>4, <1>7, <2>1, <2>2, <2>3
<1>9. Allocated' = Allocated \cup {a + k : k \in 1..n}
  <2>1. ASSUME NEW q \in 1..(a + n) PROVE q \in 1..a \/ \E k \in 1..n : q = a + k
    <3>1. q \in 1..a \/ (q - a \in 1..n /\ q = a + (q - a))
      BY <1>2
    <3> QED BY <3>1
  <2>2. \A k \in 1..a : k \in 1..(a + n)
    BY <1>2
  <2>3. \A k \in 1..n : a + k \in 1..(a + n)
    BY <1>2
  <2>4. 1..(a + n) = (1..a) \cup {a + k : k \in 1..n}
    BY ONLY <2>1, <2>2, <2>3
  <2> QED BY <1>4, <1>5, <2>4 DEF Allocated
<1>10. pending = <<>> /\ pending' = <<>> /\ PendingEdges' = {}
  <2>1. pending = <<>>
    BY DEF RecognitionInv
  <2> QED BY <2>1, NoPending DEF PendingEdges
<1>11. EdgesOf(acts') \cup PendingEdges' = EdgesOf(acts) \cup ArcEdges(g, Len(acts))
  BY <1>10, AddPathEdges DEF g
<1>12. FirstNotEntered'
  <2>1. PICK S : S = Allocated' \ {first}
    OBVIOUS
  <2>2. ASSUME ~stale, NEW q \in Allocated' PROVE (acts')[q] \in Seq(Action(S))
    <3>1. Allocated \ {first} \subseteq S /\ first \in Allocated /\ first = 1
      BY <1>4, <1>9, <2>1, ChainStates DEF first
    <3>2. \A p \in Allocated : acts[p] \in Seq(Action(Allocated \ {first}))
      BY <2>2, Avoiding DEF RecognitionInv
    <3>3. \A p \in Allocated : acts[p] \in Seq(Action(S))
      BY <3>1, <3>2, ActionGrows
    <3>4. \A k \in 1..n : a + k \in S
      BY <1>2, <1>4, <1>9, <2>1, <3>1
    <3>5. \A k \in 1..Len(Text[s]) : Len(acts) + k \in S
      BY <1>2, <1>4, <3>4
    <3>6. /\ \A p \in Allocated : (acts')[p] \in Seq(Action(S))
          /\ \A k \in 1..Len(Text[s]) : (acts')[Len(acts) + k] \in Seq(Action(S))
      BY <3>1, <3>3, <3>5, AddPathElements
    <3> QED BY <1>2, <1>4, <1>9, <3>6
  <2>3. first \notin S
    BY <2>1
  <2> QED BY <1>10, <2>2, <2>3, StillAvoiding
<1>13. (kind')[s] # "litToken"
  <2>1. EndsDeclared
    BY DEF RecognitionInv
  <2>2. kind[s] # "litToken"
    BY <1>1, <2>1 DEF EndsDeclared, Keywords
  <2> QED BY <1>5, <2>2
<1>14. \A w \in AnyWord : Denotes(s, w) <=> WordOf(g, w)
  BY <1>3 DEF Denotes
<1>15. pc' \in {"tokens", "convert", "productions"} /\ s \in Syms \ declared
  BY <1>1
<1>16. Allocated' = Allocated \cup {Len(acts) + k : k \in 1..g.size}
       /\ \A k \in 1..g.size : (endOf')[Len(acts) + k] = IF k \in g.ends THEN s ELSE NoSym
  BY <1>4, <1>8, <1>9 DEF n
<1>17. \A e \in Syms : e # s => (kind')[e] = kind[e]
  BY <1>5
<1>18. g.size \in Nat /\ g.arcs \in Seq(Arcs)
       /\ \A j \in DOMAIN g.arcs : g.arcs[j].from <= g.size /\ g.arcs[j].to <= g.size
  BY <1>2 DEF n
<1> QED BY <1>5, <1>8, <1>10, <1>11, <1>12, <1>13, <1>14, <1>15, <1>16, <1>17, <1>18, GraphDeclared

\* The text is recognised already: it becomes a keyword, or an error is reported.
LEMMA MatchExistingRecognition ==
  ASSUME TypeOK, RecognitionInv, NEW s \in DOMAIN Text, s \notin declared,
         ~Walk(Text[s]).stuck, endOf[Walk(Text[s]).state] # NoSym,
         MatchExisting(s, Walk(Text[s])),
         pc \in {"tokens", "productions"}, declared' = declared \cup {s},
         UNCHANGED <<pc, pending, stale, before>>
  PROVE  RecognitionInv'
<1>1. Text[s] \in AnyWord /\ Text[s] \in Seq(Chars) /\ s \in Syms
  BY TextAssumption, SymsAssumption DEF AnyWord
<1>2. PICK w \in Walks : w = Walk(Text[s]) /\ w.state \in After(EdgesOf(acts), Text[s], Len(Text[s]))
  BY <1>1, WalkLeads
<1>3. PICK q, m : q \in Allocated /\ q = w.state /\ m = endOf[q] /\ m # NoSym
  BY <1>2 DEF Walks
<1>4. /\ EndsDeclared /\ FirstNotEntered /\ KeywordsClassified /\ WordsKept /\ before.acts # <<>>
      /\ pending = <<>> /\ declared \subseteq Syms
      /\ kind \in [Syms -> {"fixedToken", "classToken", "litToken", "classLitToken"}]
  BY DEF RecognitionInv, TypeOK, SymbolTypes
<1>5. m \in declared /\ kind[m] # "litToken" /\ m # s
  BY <1>3, <1>4 DEF EndsDeclared
<1>6. kind[s] # "litToken"
  BY <1>1, <1>4 DEF EndsDeclared, Keywords
<1>7. UNCHANGED <<acts, endOf>> /\ Allocated' = Allocated
  <2>1. UNCHANGED heap
    BY Zenon DEF MatchExisting
  <2> QED BY <2>1 DEF heap, Allocated
<1>8. \/ failed' = TRUE /\ kind' = kind
      \/ failed' = failed /\ kind' = [kind EXCEPT ![m] = "classLitToken", ![s] = "litToken"]
  BY <1>2, <1>3 DEF MatchExisting
<1>9. FirstNotEntered'
  BY <1>4, <1>7 DEF FirstNotEntered
<1>10. Edges = EdgesOf(acts) /\ Ends = endOf /\ Edges' = Edges /\ Ends' = Ends
  BY <1>4, <1>7, NoPending DEF Edges, Ends, PendingEdges, Round
<1>11. CASE failed' = TRUE /\ kind' = kind
  <2>1. Keywords' = Keywords
    BY <1>6, <1>11 DEF Keywords
  <2>2. EndsDeclared'
    BY <1>4, <1>7, <1>11, <2>1 DEF EndsDeclared
  <2>3. KeywordsClassified' /\ WordsKept'
    BY <1>11 DEF KeywordsClassified, WordsKept
  <2> QED BY <1>4, <1>9, <2>2, <2>3 DEF RecognitionInv
<1>12. CASE failed' = failed /\ kind' = [kind EXCEPT ![m] = "classLitToken", ![s] = "litToken"]
  <2>1. /\ (kind')[m] = "classLitToken" /\ (kind')[s] = "litToken"
        /\ \A e \in Syms : e # m /\ e # s => (kind')[e] = kind[e]
    BY <1>1, <1>4, <1>5, <1>12
  <2>2. Keywords' = Keywords \cup {s}
    <3>1. \A e \in declared : (kind')[e] = "litToken" <=> kind[e] = "litToken"
      BY <1>4, <1>5, <2>1
    <3> QED BY <2>1, <3>1 DEF Keywords
  <2>3. EndsDeclared'
    <3>1. \A p \in Allocated : endOf[p] # NoSym => endOf[p] \in declared' /\ (kind')[endOf[p]] # "litToken"
      BY <1>4, <1>5, <2>1 DEF EndsDeclared
    <3>2. \A e \in Syms : (kind')[e] = "litToken" => e \in Keywords'
      BY <1>4, <2>1, <2>2 DEF EndsDeclared
    <3> QED BY <1>7, <3>1, <3>2 DEF EndsDeclared
  <2>4. KeywordsClassified'
    <3> SUFFICES ASSUME ~stale, ~failed, NEW k \in Keywords \cup {s}
                 PROVE  \E e \in declared' : (kind')[e] = "classLitToken" /\ Denotes(e, Text[k])
      BY <1>12, <2>2 DEF KeywordsClassified
    <3>1. CASE k \in Keywords
      <4>1. PICK e \in declared : kind[e] = "classLitToken" /\ Denotes(e, Text[k])
        BY <1>4, <3>1 DEF KeywordsClassified
      <4> QED BY <1>4, <2>1, <4>1
    <3>2. CASE k = s
      <4>1. m \in Ended(EdgesOf(acts), endOf, Text[s])
        BY <1>1, <1>2, <1>3, EndedHas
      <4>2. Denotes(m, Text[s])
        BY <1>1, <1>4, <1>10, <4>1 DEF WordsKept
      <4> QED BY <1>5, <2>1, <3>2, <4>2
    <3> QED BY <3>1, <3>2
  <2>5. WordsKept'
    <3>1. declared' \ Keywords' = declared \ Keywords
      BY <2>2
    <3> QED BY <1>4, <1>10, <1>12, <3>1 DEF WordsKept
  <2> QED BY <1>4, <1>9, <2>3, <2>4, <2>5 DEF RecognitionInv
<1> QED BY <1>8, <1>11, <1>12

\* A declared token, or a literal of the productions.
LEMMA DeclareRecognition ==
  ASSUME TypeOK, RecognitionInv, NEW s \in Syms, DeclareToken(s) \/ UseLiteral(s)
  PROVE  RecognitionInv'
<1>1. CASE DeclareToken(s) /\ s \in DOMAIN Graph
  BY <1>1, AddTokenRecognition
<1>2. CASE UseLiteral(s) \/ (DeclareToken(s) /\ s \notin DOMAIN Graph)
  <2>1. /\ s \in DOMAIN Text /\ s \notin declared /\ MatchLiteral(s)
        /\ pc \in {"tokens", "productions"} /\ declared' = declared \cup {s}
        /\ UNCHANGED <<pc, pending, stale, before>>
    BY <1>2, SymsAssumption DEF UseLiteral, DeclareToken, history
  <2>2. CASE Walk(Text[s]).stuck \/ endOf[Walk(Text[s]).state] = NoSym
    <3>1. AddPath(s)
      BY <2>1, <2>2 DEF MatchLiteral
    <3> QED BY <2>1, <3>1, AddPathRecognition
  <2>3. CASE ~Walk(Text[s]).stuck /\ endOf[Walk(Text[s]).state] # NoSym
    <3>1. MatchExisting(s, Walk(Text[s]))
      BY <2>1, <2>3 DEF MatchLiteral
    <3> QED BY <2>1, <2>3, <3>1, MatchExistingRecognition
  <2> QED BY <2>2, <2>3
<1> QED BY <1>1, <1>2

\* From the first declaration to the last round of MakeDeterministic the automaton has
\* the words of the declared symbols that are no keywords, as long as no error is
\* reported and no stale entry used.
THEOREM RecognitionKept == Spec => []RecognitionInv
<1>1. Init => RecognitionInv
  BY InitRecognition
<1>2. /\ TypeOK /\ TypeOK' /\ DeterministicSoFar /\ SubsetInv /\ RecognitionInv /\ [Next]_vars
      => RecognitionInv'
  <2> SUFFICES ASSUME TypeOK, TypeOK', DeterministicSoFar, SubsetInv, RecognitionInv, [Next]_vars
               PROVE  RecognitionInv'
    OBVIOUS
  <2>1. CASE \E s \in Syms : DeclareToken(s) \/ UseLiteral(s)
    BY <2>1, DeclareRecognition
  <2>2. CASE NewTransition
    BY <2>2, NewTransitionRecognition
  <2>3. CASE Productions \/ (WriteScanner /\ pc' # "written")
    <3>1. StartRound /\ pc \in {"tokens", "productions"}
      BY <2>3 DEF Productions, WriteScanner
    <3> QED BY <3>1, StartRecognition
  <2>4. CASE Abandon \/ (WriteScanner /\ pc' = "written") \/ Finished \/ UNCHANGED vars
    <3>1. StartRound => pc' = "unique"
      BY DEF StartRound
    <3>2. Abandon \/ (WriteScanner /\ pc' = "written" /\ pc = "productions") \/ UNCHANGED vars
      BY <2>4 DEF WriteScanner, Finished
    <3> QED BY <3>1, <3>2, EndRecognition
  <2>5. CASE \/ NextA \/ NextPass \/ NextUnique \/ MeltSkip \/ MeltedAll \/ MeltNext
             \/ FindUsed \/ DeleteState \/ DeletedAll \/ CombineNext
    BY <2>5, PositionRound
  <2>6. CASE Compare
    BY <2>6, CompareRound
  <2>7. CASE MeltKnown
    BY <2>7, MeltKnownRound
  <2>8. CASE MeltNew
    BY <2>8, MeltNewRound
  <2>9. CASE MeltWith
    BY <2>9, MeltWithRound
  <2>10. CASE NewMelted
    BY <2>10, NewMeltedRound
  <2>11. CASE CombineFinals
    BY <2>11, CombineFinalsRound
  <2>12. CASE Combine
    BY <2>12, CombineRound
  <2>13. CASE Return
    BY <2>13, ReturnRecognition
  <2> QED
    BY <2>1, <2>2, <2>3, <2>4, <2>5, <2>6, <2>7, <2>8, <2>9, <2>10, <2>11, <2>12, <2>13
       DEF Next, Determinizing, MakeUnique, MeltStates, DeleteRedundantStates, CombineShifts
<1> QED BY TypeCorrect, DeterministicEver, SubsetConstructed, <1>1, <1>2, PTL DEF Spec

----------------------------------------------------------------------------
(* What it says of the scanner that is written.                            *)

\* The walk of a word ends at the symbol whose word it is.
LEMMA WrittenEnds ==
  ASSUME TypeOK, DeterministicSoFar, SubsetInv, RecognitionInv, pc = "written", ~stale, ~failed,
         NEW w \in AnyWord, NEW s
  PROVE  ~Walk(w).stuck /\ s # NoSym /\ endOf[Walk(w).state] = s <=>
           s \in declared \ Keywords /\ Denotes(s, w)
<1>1. w \in Seq(Chars)
  BY DEF AnyWord
<1>2. PICK D : D = Listed
  OBVIOUS
<1>3. D \subseteq Allocated /\ first \in D /\ LeadInto(D, D)
  BY <1>2, SubsetBasics DEF SubsetInv, TargetsListed
<1>4. \A q \in D : DeterministicList(acts[q])
  BY <1>2 DEF DeterministicSoFar, Listed
<1>5. PICK A : /\ A = After(EdgesOf(acts), w, Len(w))
               /\ A = IF Walk(w).stuck THEN {} ELSE {Walk(w).state}
  BY <1>1, <1>3, <1>4, WalkIsAll
<1>6. s \in Ended(EdgesOf(acts), endOf, w) <=> s # NoSym /\ \E q \in A : endOf[q] = s
  <2>1. \A x : x \in Ended(EdgesOf(acts), endOf, w) <=>
                x # NoSym /\ \E q \in After(EdgesOf(acts), w, Len(w)) : endOf[q] = x
    BY <1>1, EndedHas
  <2>2. A = After(EdgesOf(acts), w, Len(w))
    BY <1>5
  <2> QED BY <2>1, <2>2
<1>7. Edges = EdgesOf(acts) /\ Ends = endOf
  <2>1. pending = <<>>
    BY DEF RecognitionInv
  <2> QED BY <2>1, NoPending DEF Edges, Ends, Round
<1>8. Ended(EdgesOf(acts), endOf, w) = {e \in declared \ Keywords : Denotes(e, w)}
  BY <1>7 DEF RecognitionInv, WordsKept
<1>9. s \in Ended(EdgesOf(acts), endOf, w) <=> s \in declared \ Keywords /\ Denotes(s, w)
  BY <1>8
<1> QED BY <1>5, <1>6, <1>9

\* A keyword is a word of the symbol at the end of its walk, and that one is
\* classified by CheckLiteral.
LEMMA WrittenKeywords ==
  ASSUME TypeOK, DeterministicSoFar, SubsetInv, RecognitionInv, pc = "written", ~stale, ~failed,
         NEW k \in Keywords
  PROVE  /\ ~Walk(Text[k]).stuck /\ endOf[Walk(Text[k]).state] # NoSym
         /\ kind[endOf[Walk(Text[k]).state]] = "classLitToken"
<1>1. PICK e \in declared : kind[e] = "classLitToken" /\ Denotes(e, Text[k])
  BY DEF RecognitionInv, KeywordsClassified
<1>2. e \notin Keywords
  BY <1>1 DEF Keywords
<1>3. Text[k] \in AnyWord
  BY TextAssumption DEF Keywords, AnyWord
<1>4. ~Walk(Text[k]).stuck /\ e # NoSym /\ endOf[Walk(Text[k]).state] = e
  BY <1>1, <1>2, <1>3, WrittenEnds
<1> QED BY <1>1, <1>4

\* When no error is reported and no stale entry was used, the written scanner knows
\* every text that is a token, as the string it is or else as a token it belongs to,
\* and no other text.
THEOREM ScannerKnowsTokens == Spec => []ScannerRight
<1>1. TypeOK /\ DeterministicSoFar /\ SubsetInv /\ RecognitionInv => ScannerRight
  <2> SUFFICES ASSUME TypeOK, DeterministicSoFar, SubsetInv, RecognitionInv, pc = "written",
                      ~stale, ~failed, NEW w \in AnyWord
               PROVE  Recognised(w)
    BY DEF ScannerRight
  <2>1. PICK walk, m : walk = Walk(w) /\ m = endOf[walk.state]
    OBVIOUS
  <2>2. \A s : ~walk.stuck /\ s # NoSym /\ m = s <=> s \in declared \ Keywords /\ Denotes(s, w)
    BY <2>1, WrittenEnds
  <2>3. PICK keywords : keywords = {s \in Keywords : Text[s] = w}
    OBVIOUS
  <2>4. keywords # {} => ~walk.stuck /\ m # NoSym /\ kind[m] = "classLitToken"
    BY <2>1, <2>3, WrittenKeywords
  <2>5. SymbolOf(w) = IF walk.stuck \/ m = NoSym THEN NoSym
                      ELSE IF kind[m] = "classLitToken" /\ keywords # {}
                             THEN CHOOSE s \in keywords : TRUE ELSE m
    BY <2>1, <2>3 DEF SymbolOf
  <2>6. PICK owners, strings : owners = Owners(w) /\ strings = owners \cap DOMAIN Text
    OBVIOUS
  <2>7. /\ keywords \subseteq strings
        /\ \A s : s \in owners <=> s \in keywords \/ (s \in declared \ Keywords /\ Denotes(s, w))
    <3>1. Keywords \subseteq declared \cap DOMAIN Text
      BY DEF Keywords
    <3>2. \A s \in Keywords : Denotes(s, w) <=> Text[s] = w
      BY <3>1 DEF Denotes
    <3> QED BY <2>3, <2>6, <3>1, <3>2 DEF Owners
  <2>8. SymbolOf(w) \in IF owners = {} THEN {NoSym} ELSE IF strings # {} THEN strings ELSE owners
    <3>1. CASE keywords # {}
      <4>1. SymbolOf(w) = CHOOSE s \in keywords : TRUE
        BY <2>4, <2>5, <3>1
      <4>2. SymbolOf(w) \in keywords
        BY <3>1, <4>1
      <4> QED BY <2>6, <2>7, <4>2
    <3>2. CASE keywords = {} /\ (walk.stuck \/ m = NoSym)
      <4>1. SymbolOf(w) = NoSym
        BY <2>5, <3>2
      <4>2. owners = {}
        BY <2>2, <2>7, <3>2
      <4> QED BY <4>1, <4>2
    <3>3. CASE keywords = {} /\ ~walk.stuck /\ m # NoSym
      <4>1. SymbolOf(w) = m
        BY <2>5, <3>3
      <4>2. owners = {m}
        BY <2>2, <2>7, <3>3
      <4> QED BY <2>6, <4>1, <4>2
    <3> QED BY <3>1, <3>2, <3>3
  <2> QED BY <2>6, <2>8 DEF Recognised
<1> QED BY TypeCorrect, DeterministicEver, SubsetConstructed, RecognitionKept, <1>1, PTL

\* Under the same premises every string of the grammar is recognised, as itself or as
\* the keyword it is.
THEOREM LiteralsKnown == Spec => []LiteralsRecognised
<1>1. TypeOK /\ DeterministicSoFar /\ SubsetInv /\ RecognitionInv => LiteralsRecognised
  <2> SUFFICES ASSUME TypeOK, DeterministicSoFar, SubsetInv, RecognitionInv, pc = "written",
                      ~stale, ~failed, NEW s \in declared \cap DOMAIN Text
               PROVE  /\ ~Walk(Text[s]).stuck
                      /\ \/ endOf[Walk(Text[s]).state] = s
                         \/ /\ kind[s] = "litToken"
                            /\ kind[endOf[Walk(Text[s]).state]] = "classLitToken"
    BY DEF LiteralsRecognised
  <2>1. CASE s \in Keywords
    BY <2>1, WrittenKeywords DEF Keywords
  <2>2. CASE s \notin Keywords
    <3>1. Text[s] \in AnyWord /\ Denotes(s, Text[s])
      BY TextAssumption DEF AnyWord, Denotes
    <3> QED BY <2>2, <3>1, WrittenEnds
  <2> QED BY <2>1, <2>2
<1> QED BY TypeCorrect, DeterministicEver, SubsetConstructed, RecognitionKept, <1>1, PTL
=============================================================================
