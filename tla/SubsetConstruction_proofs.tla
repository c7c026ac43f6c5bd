----------------------- MODULE SubsetConstruction_proofs -----------------------
(***************************************************************************)
(* MakeDeterministic is the subset construction: SubsetInv is an invariant *)
(* of Determinize, for every grammar, and with it the written automaton    *)
(* keeps the tokens, is closed, and no ambiguity goes unreported.          *)
(***************************************************************************)
EXTENDS SubsetConstruction, Determinize_proofs

\* What SelectInSeq finds in ms: the first entry whose state has the number n.
FirstWith(ms, f, n) ==
  LET I == {j \in 1..Len(ms) : f[ms[j].state] = n} IN IF I # {} THEN Min(I) ELSE 0

IsFirst(ms, f, n, i) ==
  /\ Len(ms) \in Nat /\ i \in 1..Len(ms) /\ f[ms[i].state] = n
  /\ \A j \in 1..(i - 1) : f[ms[j].state] # n

\* The newest entry for a number is the first one with it.
LEMMA FirstEntry ==
  ASSUME NEW ms, NEW f, NEW n, NEW i, IsFirst(ms, f, n, i)
  PROVE  FirstWith(ms, f, n) = i
<1> USE DEF IsFirst
<1> DEFINE I == {j \in 1..Len(ms) : f[ms[j].state] = n}
<1>1. i \in I /\ \A j \in I : i <= j
  OBVIOUS
<1>2. I # {}
  BY <1>1
<1>3. Min(I) = i
  <2> HIDE DEF I
  <2>1. I \subseteq Nat
    BY DEF I
  <2>2. \E x \in I : \A y \in I : x <= y
    BY <1>1
  <2>3. Min(I) \in I /\ \A y \in I : Min(I) <= y
    BY <2>2 DEF Min
  <2> QED BY <1>1, <2>1, <2>3
<1> QED BY <1>2, <1>3 DEF FirstWith

\* Numbers, for any entries ms, numbers f and limit l.
NumbersIn(ms, f, l, q) ==
  IF f[q] <= l THEN {f[q]}
  ELSE IF FirstWith(ms, f, f[q]) = 0 THEN {} ELSE ms[FirstWith(ms, f, f[q])].set

\* What a state stands for depends on the entries, the numbers and the limit only.
LEMMA NumbersAre ==
  ASSUME NEW q
  PROVE  /\ Numbers(q) = NumbersIn(melted, nr, lastSim, q)
         /\ Numbers(q)' = NumbersIn(melted', nr', lastSim', q)
BY DEF Numbers, NumbersIn, MeltedSet, EntryFor, SelectInSeq, FirstWith

\* The states c[1..n] have their positions as their numbers, and those behind
\* c[l + 1] have the first entries of ms, the last one first.
LinedUp(ms, f, l, c, n) ==
  /\ l \in Nat /\ n \in Nat /\ Len(ms) \in Nat /\ DOMAIN ms = 1..Len(ms)
  /\ l < n /\ n - 1 - l <= Len(ms)
  /\ \A j \in 1..n : f[c[j]] = j - 1
  /\ \A i \in 1..(n - 1 - l) : ms[i].state = c[n + 1 - i]

\* So the numbers of an old state are its own, and those of a melted one its entry's.
LEMMA LinedUpNumbers ==
  ASSUME NEW ms, NEW f, NEW l, NEW c, NEW n, LinedUp(ms, f, l, c, n), NEW k \in 1..n
  PROVE  /\ f[c[k]] = k - 1
         /\ k - 1 <= l => NumbersIn(ms, f, l, c[k]) = {k - 1}
         /\ k - 1 > l =>
              /\ n + 1 - k \in DOMAIN ms /\ n + 1 - k \in 1..(n - 1 - l)
              /\ NumbersIn(ms, f, l, c[k]) = ms[n + 1 - k].set
<1>1. /\ l \in Nat /\ n \in Nat /\ Len(ms) \in Nat /\ DOMAIN ms = 1..Len(ms)
      /\ l < n /\ n - 1 - l <= Len(ms) /\ \A j \in 1..n : f[c[j]] = j - 1
  BY DEF LinedUp
<1>2. f[c[k]] = k - 1
  BY <1>1
<1>3. ASSUME k - 1 > l
      PROVE  /\ n + 1 - k \in DOMAIN ms /\ n + 1 - k \in 1..(n - 1 - l)
             /\ NumbersIn(ms, f, l, c[k]) = ms[n + 1 - k].set
  <2> DEFINE i == n + 1 - k
  <2>1. i \in 1..(n - 1 - l) /\ i \in DOMAIN ms /\ i # 0
    BY <1>1, <1>3
  <2>2. \A j \in 1..i : ms[j].state = c[n + 1 - j]
    BY <1>1, <2>1 DEF LinedUp
  <2>3. \A j \in 1..i : n + 1 - j \in 1..n
    BY <1>1, <2>1
  <2>4. \A j \in 1..i : f[ms[j].state] = (n + 1 - j) - 1
    BY <1>1, <2>2, <2>3
  <2>5. f[ms[i].state] = k - 1
    BY <1>1, <2>1, <2>4
  <2>6. \A j \in 1..(i - 1) : f[ms[j].state] # k - 1
    BY <1>1, <2>1, <2>4
  <2> HIDE DEF i
  <2>7. IsFirst(ms, f, k - 1, i)
    BY <1>1, <2>1, <2>5, <2>6 DEF IsFirst
  <2>8. FirstWith(ms, f, k - 1) = i
    BY <2>7, FirstEntry, Zenon
  <2>9. ~(k - 1 <= l)
    BY <1>1, <1>3
  <2>10. NumbersIn(ms, f, l, c[k]) = ms[i].set
    BY <1>2, <2>1, <2>8, <2>9 DEF NumbersIn
  <2> QED BY <2>1, <2>10 DEF i
<1>4. k - 1 <= l => NumbersIn(ms, f, l, c[k]) = {k - 1}
  BY <1>2 DEF NumbersIn
<1> QED BY <1>2, <1>3, <1>4

----------------------------------------------------------------------------
\* Positions, numbers and sets of states.
LEMMA SettledLenIs ==
  ASSUME TypeOK
  PROVE  /\ SettledLen \in Nat \ {0} /\ SettledLen <= Len(chain)
         /\ Building => SettledLen = Len(chain) - 1 /\ at \in 1..SettledLen
         /\ ~Building => SettledLen = Len(chain)
<1>1. PICK n \in Nat \ {0} : n = Len(chain)
  BY ChainStates
<1>2. Building => at < Len(chain) /\ at \in Nat \ {0}
  BY DEF TypeOK, PositionTypes, Building
<1>3. CASE Building
  <2>1. SettledLen = n - 1
    BY <1>1, <1>3 DEF SettledLen
  <2>2. at < n /\ at \in Nat \ {0}
    BY <1>1, <1>2, <1>3, Zenon
  <2>3. n - 1 \in Nat \ {0} /\ n - 1 <= n /\ at \in 1..(n - 1)
    BY <2>2
  <2> HIDE DEF SettledLen
  <2>4. at \in 1..SettledLen /\ SettledLen \in Nat \ {0} /\ SettledLen <= n
    BY <2>1, <2>3, Zenon
  <2> QED BY <1>1, <1>3, <2>1, <2>4, Zenon
<1>4. CASE ~Building
  <2>1. SettledLen = Len(chain)
    BY <1>4 DEF SettledLen
  <2> HIDE DEF SettledLen
  <2>2. SettledLen \in Nat \ {0} /\ SettledLen <= Len(chain)
    BY <1>1, <2>1
  <2> QED BY <1>4, <2>1, <2>2, Zenon
<1> QED BY <1>3, <1>4, Zenon

\* Which of the listed states are settled, and that all are allocated.
LEMMA SubsetBasics ==
  ASSUME TypeOK
  PROVE  /\ Settled \subseteq Listed /\ Listed \subseteq Allocated /\ first \in Settled
         /\ LastState \in Listed /\ Settled = {chain[k] : k \in 1..SettledLen}
         /\ \A k \in 1..SettledLen : k \in DOMAIN chain /\ chain[k] \in Settled
         /\ Building => LastState \notin Settled /\ Listed = Settled \cup {LastState}
         /\ ~Building => Settled = Listed
         /\ \A q \in Allocated : nr[q] \in Nat
         /\ \A k, m \in DOMAIN chain : chain[k] = chain[m] => k = m
         /\ 0 \notin Allocated
<1>1. DOMAIN chain = 1..Len(chain) /\ Len(chain) \in Nat \ {0}
  BY ChainStates
<1>2. SettledLen \in Nat \ {0} /\ SettledLen <= Len(chain)
  BY SettledLenIs, Zenon
<1> HIDE DEF SettledLen
<1>3. 1 \in 1..SettledLen /\ 1..SettledLen \subseteq 1..Len(chain)
  BY <1>1, <1>2
<1>4. Settled \subseteq Listed /\ Listed \subseteq Allocated /\ first \in Settled
  <2>1. \A k \in 1..Len(chain) : chain[k] \in Allocated
    BY ChainStates
  <2>2. chain[1] = first
    BY DEF TypeOK, HeapTypes
  <2> QED BY <1>1, <1>3, <2>1, <2>2 DEF Settled, Listed
<1>5. LastState \in Listed
  BY <1>1 DEF LastState, Listed
<1>6. ASSUME Building PROVE LastState \notin Settled /\ Listed = Settled \cup {LastState}
  <2>1. \A k, m \in DOMAIN chain : chain[k] = chain[m] => k = m
    BY DEF TypeOK, HeapTypes
  <2>2. PICK n \in Nat \ {0} : n = Len(chain) /\ DOMAIN chain = 1..n
    BY <1>1
  <2>3. SettledLen = n - 1
    BY <1>6, <2>2, SettledLenIs, Zenon
  <2>4. /\ \A k \in 1..(n - 1) : k \in 1..n /\ k # n
        /\ \A k \in 1..n : k \in 1..(n - 1) \/ k = n
        /\ n \in 1..n
    OBVIOUS
  <2>5. LastState \notin Settled
    <3> SUFFICES ASSUME NEW k \in 1..SettledLen, chain[k] = chain[n] PROVE FALSE
      BY <2>2 DEF LastState, Settled
    <3>1. k \in DOMAIN chain /\ n \in DOMAIN chain /\ k # n
      BY <2>2, <2>3, <2>4, Zenon
    <3> QED BY <2>1, <3>1, Zenon
  <2>6. ASSUME NEW q \in Listed PROVE q \in Settled \cup {LastState}
    <3>1. PICK k \in DOMAIN chain : q = chain[k]
      BY DEF Listed
    <3> QED BY <2>2, <2>3, <2>4, <3>1, Zenon DEF Settled, LastState
  <2> QED BY <1>4, <1>5, <2>5, <2>6
<1>7. ASSUME ~Building PROVE Settled = Listed
  <2>1. SettledLen = Len(chain)
    BY <1>7, SettledLenIs, Zenon
  <2> QED BY <1>1, <2>1 DEF Settled, Listed
<1>8. \A q \in Allocated : nr[q] \in Nat
  <2>1. nr \in Seq(Nat) /\ Len(nr) = Len(acts) /\ Allocated = 1..Len(acts)
    BY ChainStates DEF TypeOK, HeapTypes
  <2> QED BY <2>1, ElementOfSeq
<1>9. \A k, m \in DOMAIN chain : chain[k] = chain[m] => k = m
  BY DEF TypeOK, HeapTypes
<1>10. \A k \in 1..SettledLen : k \in DOMAIN chain /\ chain[k] \in Settled
  BY <1>1, <1>3 DEF Settled
<1>11. 0 \notin Allocated
  BY ChainStates
<1> QED BY <1>4, <1>5, <1>6, <1>7, <1>8, <1>9, <1>10, <1>11, Zenon DEF Settled

\* A settled state has its position as its number; a melted one has the set of its entry.
LEMMA SettledNumbers ==
  ASSUME TypeOK, Numbered, Entries, pc \in Melting
  PROVE  /\ LinedUp(melted, nr, lastSim, chain, SettledLen)
         /\ \A k \in 1..SettledLen :
              /\ nr[chain[k]] = k - 1
              /\ k - 1 <= lastSim => Numbers(chain[k]) = {k - 1}
              /\ k - 1 > lastSim =>
                   /\ SettledLen + 1 - k \in DOMAIN melted
                   /\ melted[SettledLen + 1 - k].state = chain[k]
                   /\ Numbers(chain[k]) = melted[SettledLen + 1 - k].set
<1>1. /\ Len(melted) \in Nat /\ DOMAIN melted = 1..Len(melted) /\ lastSim \in Nat
      /\ DOMAIN chain = 1..Len(chain) /\ Len(chain) \in Nat
  BY ChainStates DEF TypeOK, RoundTypes
<1>2. SettledLen \in Nat /\ SettledLen <= Len(chain)
  BY SettledLenIs
<1>3. \A k \in DOMAIN chain : nr[chain[k]] = k - 1
  <2>1. pc # "delete"
    BY DEF Melting
  <2> QED BY <2>1 DEF Numbered
<1>4. /\ lastSim < SettledLen /\ SettledLen - 1 - lastSim <= Len(melted)
      /\ \A i \in DOMAIN melted : i <= SettledLen - 1 - lastSim
           => melted[i].state = chain[SettledLen + 1 - i]
  BY DEF Entries
<1> HIDE DEF SettledLen
<1>5. \A j \in 1..SettledLen : nr[chain[j]] = j - 1
  BY <1>1, <1>2, <1>3
<1>6. \A i \in 1..(SettledLen - 1 - lastSim) : melted[i].state = chain[SettledLen + 1 - i]
  BY <1>1, <1>2, <1>4
<1>7. LinedUp(melted, nr, lastSim, chain, SettledLen)
  BY <1>1, <1>2, <1>4, <1>5, <1>6 DEF LinedUp
<1>8. ASSUME NEW k \in 1..SettledLen
      PROVE  /\ nr[chain[k]] = k - 1
             /\ k - 1 <= lastSim => Numbers(chain[k]) = {k - 1}
             /\ k - 1 > lastSim =>
                  /\ SettledLen + 1 - k \in DOMAIN melted
                  /\ melted[SettledLen + 1 - k].state = chain[k]
                  /\ Numbers(chain[k]) = melted[SettledLen + 1 - k].set
  <2>1. /\ k - 1 <= lastSim => NumbersIn(melted, nr, lastSim, chain[k]) = {k - 1}
        /\ k - 1 > lastSim =>
             /\ SettledLen + 1 - k \in DOMAIN melted
             /\ SettledLen + 1 - k \in 1..(SettledLen - 1 - lastSim)
             /\ NumbersIn(melted, nr, lastSim, chain[k]) = melted[SettledLen + 1 - k].set
    BY <1>7, LinedUpNumbers
  <2>2. Numbers(chain[k]) = NumbersIn(melted, nr, lastSim, chain[k])
    BY NumbersAre, Zenon
  <2>3. SettledLen + 1 - (SettledLen + 1 - k) = k
    BY <1>2
  <2>4. k - 1 > lastSim => melted[SettledLen + 1 - k].state = chain[k]
    BY <1>6, <2>1, <2>3
  <2> QED BY <1>5, <2>1, <2>2, <2>4
<1> QED BY <1>7, <1>8

\* What states stand for depends on numbers, entries and the chain only.
LEMMA StandsUnchanged ==
  ASSUME UNCHANGED <<nr, melted, lastSim, chain>>
  PROVE  /\ \A q : Numbers(q)' = Numbers(q) /\ StandsFor(q)' = StandsFor(q)
         /\ \A Q : StandFor(Q)' = StandFor(Q)
<1>1. \A q : Numbers(q)' = Numbers(q)
  BY NumbersAre
<1>2. \A q : StandsFor(q)' = StandsFor(q)
  BY <1>1 DEF StandsFor
<1>3. \A Q : StandFor(Q)' = StandFor(Q)
  BY <1>2 DEF StandFor
<1> QED BY <1>1, <1>2, <1>3

----------------------------------------------------------------------------
(* What does not change.                                                   *)

\* A step that leaves the chain and does not begin or end a state settles none.
LEMMA SameSettled ==
  ASSUME UNCHANGED chain, Building' <=> Building
  PROVE  SettledLen' = SettledLen /\ Settled' = Settled /\ Listed' = Listed
<1>1. SettledLen' = SettledLen
  BY DEF SettledLen
<1>2. Settled' = Settled /\ Listed' = Listed
  BY <1>1, Zenon DEF Settled, Listed
<1> QED BY <1>1, <1>2

\* What a state promises stays where nothing of the heap changes.
LEMMA SameStandsWell ==
  ASSUME UNCHANGED <<heap, melted, lastSim, before, failed>>, NEW q, StandsWell(q)
  PROVE  StandsWell(q)'
<1>1. /\ acts' = acts /\ endOf' = endOf /\ ctx' = ctx /\ lastSim' = lastSim
      /\ before' = before /\ failed' = failed
      /\ nr' = nr /\ melted' = melted /\ chain' = chain
  BY DEF heap
<1>2. /\ Numbers(q)' = Numbers(q) /\ StandsFor(q)' = StandsFor(q)
      /\ \A Q : StandFor(Q)' = StandFor(Q)
  BY <1>1, StandsUnchanged
<1> DEFINE S == StandsFor(q)
<1> HIDE DEF S
<1>3. EndsLike(q, S)' <=> EndsLike(q, S)
  <2>1. S' = S
    BY <1>2 DEF S
  <2>2. EndsOf(S)' = EndsOf(S)
    BY <1>1, <2>1 DEF EndsOf
  <2> QED BY <1>1, <2>1, <2>2 DEF EndsLike
<1>4. MovesLike(q, S)' <=> MovesLike(q, S)
  <2>1. S' = S
    BY <1>2 DEF S
  <2>2. \A ch : SubsetStep(S, ch)' = SubsetStep(S, ch)
    BY <1>1, <2>1 DEF SubsetStep
  <2> QED BY <1>1, <1>2, <2>1, <2>2 DEF MovesLike
<1> QED BY <1>1, <1>2, <1>3, <1>4 DEF StandsWell, S

\* So do the promises of all settled states.
LEMMA SameStandsRight ==
  ASSUME UNCHANGED <<heap, melted, lastSim, before, failed>>, Building' <=> Building,
         StandsRight, pc \in Melting
  PROVE  StandsRight'
<1>1. UNCHANGED chain
  BY DEF heap
<1>2. Settled' = Settled
  BY <1>1, SameSettled
<1>3. \A q \in Settled : StandsWell(q)'
  BY SameStandsWell DEF StandsRight
<1> QED BY <1>2, <1>3 DEF StandsRight

\* The entries stay lined up where neither they nor the chain change.
LEMMA SameEntries ==
  ASSUME UNCHANGED <<heap, melted, lastSim, round>>, Building' <=> Building, Entries,
         pc \in Melting \/ pc' \notin Melting
  PROVE  Entries'
<1>1. UNCHANGED chain /\ melted' = melted /\ lastSim' = lastSim /\ round' = round
  BY DEF heap
<1>2. SettledLen' = SettledLen
  BY <1>1, SameSettled
<1>3. MaxStates' = MaxStates
  BY <1>1 DEF MaxStates
<1> QED BY <1>1, <1>2, <1>3 DEF Entries

\* The automaton of the start of the round stays what it is.
LEMMA SameBefore ==
  ASSUME UNCHANGED <<heap, lastSim, before>>, BeforeTypes, pc \in Melting \/ pc' \notin Melting
  PROVE  BeforeTypes'
<1>1. /\ acts' = acts /\ endOf' = endOf /\ ctx' = ctx /\ chain' = chain
      /\ lastSim' = lastSim /\ before' = before
  BY DEF heap
<1> QED BY <1>1 DEF BeforeTypes

\* A relation that is respected stays so while actions and ends stay.
LEMMA SameSimulates ==
  ASSUME UNCHANGED <<acts, endOf, ctx, before, failed>>, NEW R, Simulates(R)
  PROVE  Simulates(R)'
<1>1. acts' = acts /\ endOf' = endOf /\ ctx' = ctx /\ before' = before /\ failed' = failed
  OBVIOUS
<1>2. \A S : EndsOf(S)' = EndsOf(S)
  BY <1>1 DEF EndsOf
<1>3. \A S, ch : SubsetStep(S, ch)' = SubsetStep(S, ch)
  BY <1>1 DEF SubsetStep
<1>4. \A d, ch : ResultStep(d, ch)' = ResultStep(d, ch)
  BY <1>1 DEF ResultStep
<1>5. \A d, S : Represents(d, S)' <=> Represents(d, S)
  BY <1>1 DEF Represents
<1>6. Allocated' = Allocated
  BY <1>1 DEF Allocated
<1> QED BY <1>1, <1>2, <1>3, <1>4, <1>5, <1>6 DEF Simulates

\* So its existence stays.
LEMMA SameSimulated ==
  ASSUME UNCHANGED <<acts, endOf, ctx, before, failed>>, Simulated,
         pc \in {"delete", "combine", "deterministic"}
         \/ pc' \notin {"delete", "combine", "deterministic"}
  PROVE  Simulated'
<1>1. CASE pc' \notin {"delete", "combine", "deterministic"}
  BY <1>1 DEF Simulated
<1>2. CASE pc \in {"delete", "combine", "deterministic"}
  <2>1. PICK R : Simulates(R)
    BY <1>2 DEF Simulated
  <2>2. Simulates(R)'
    BY <2>1, SameSimulates
  <2> QED BY <2>2 DEF Simulated
<1> QED BY <1>1, <1>2

----------------------------------------------------------------------------
(* Steps that only move on.                                                *)

\* The parts that are the same wherever nothing but the position changes.
QuietParts ==
  /\ UNCHANGED <<heap, melted, lastSim, history, failed, stale>>
  /\ ~Building /\ ~Building'
  /\ pc \in Melting \/ pc' \notin Melting
  /\ pc \in {"delete", "combine", "deterministic"}
     \/ pc' \notin {"delete", "combine", "deterministic"}

\* Of a step that only moves on, the numbers, targets and marks have to be looked at.
LEMMA Quiet ==
  ASSUME SubsetInv, QuietParts, Numbered',
         ~stale => TargetsListed' /\ Marked'
  PROVE  SubsetInv'
<1>1. /\ UNCHANGED <<heap, melted, lastSim, before, failed>> /\ UNCHANGED round
      /\ stale' = stale /\ (Building' <=> Building) /\ ~Building'
      /\ pc \in Melting \/ pc' \notin Melting
  BY DEF QuietParts, history
<1>2. BeforeTypes'
  BY <1>1, SameBefore DEF SubsetInv
<1>3. ASSUME ~stale PROVE Entries' /\ StandsRight' /\ Simulated'
  <2>1. Entries'
    BY <1>1, <1>3, SameEntries DEF SubsetInv
  <2>2. StandsRight'
    BY <1>1, <1>3, SameStandsRight, Zenon DEF SubsetInv, StandsRight
  <2>3. Simulated'
    BY <1>1, <1>3, SameSimulated DEF SubsetInv, QuietParts, heap
  <2> QED BY <2>1, <2>2, <2>3
<1>4. Copied' /\ Built'
  BY <1>1 DEF Copied, Built, Building
<1> QED BY <1>1, <1>2, <1>3, <1>4, Zenon DEF SubsetInv

\* A step that changes the cursor only changes nothing of the invariant.
LEMMA OnlyCursorMoves ==
  ASSUME SubsetInv,
         UNCHANGED <<heap, melted, lastSim, before, failed, round, stale, pc, at, ma, source, mi,
                     used, todo>>
  PROVE  SubsetInv'
<1>1. /\ UNCHANGED <<heap, melted, lastSim, before, failed>> /\ UNCHANGED round
      /\ stale' = stale /\ pc' = pc /\ at' = at /\ ma' = ma /\ source' = source /\ mi' = mi
      /\ used' = used /\ todo' = todo
  OBVIOUS
<1>2. acts' = acts /\ endOf' = endOf /\ ctx' = ctx /\ nr' = nr /\ chain' = chain
  BY <1>1 DEF heap
<1>3. Building' <=> Building
  BY <1>1 DEF Building
<1>4. Settled' = Settled /\ Listed' = Listed
  BY <1>2, <1>3, SameSettled
<1>5. Numbered'
  BY <1>1, <1>2 DEF SubsetInv, Numbered
<1>6. BeforeTypes'
  BY <1>1, SameBefore DEF SubsetInv
<1>7. ASSUME ~stale
      PROVE  TargetsListed' /\ Entries' /\ StandsRight' /\ Copied' /\ Built' /\ Marked'
             /\ Simulated'
  <2>1. TargetsListed /\ Entries /\ StandsRight /\ Copied /\ Built /\ Marked /\ Simulated
    BY <1>7 DEF SubsetInv
  <2>2. Entries'
    BY <1>1, <1>3, <2>1, SameEntries
  <2>3. StandsRight'
    BY <1>1, <1>3, <2>1, SameStandsRight, Zenon DEF StandsRight
  <2>4. Simulated'
    BY <1>1, <1>2, <2>1, SameSimulated
  <2>5. TargetsListed'
    <3>1. Kept' = Kept
      BY <1>1, <1>2 DEF Kept
    <3> QED BY <1>1, <1>2, <1>4, <2>1, <3>1 DEF TargetsListed, LeadInto, Allocated
  <2>6. Melter' = Melter /\ LastState' = LastState /\ Melted' = Melted
    BY <1>1, <1>2 DEF Melter, LastState, Melted
  <2>7. Copied'
    <3>1. NextSource' = NextSource
      BY <1>1, <1>2 DEF NextSource
    <3> QED BY <1>1, <1>2, <2>1, <2>6, <3>1 DEF Copied
  <2>8. Built'
    <3>1. Ending(Melter[ma])' = Ending(Melter[ma])
      BY <1>1, <1>2, <2>6 DEF Ending
    <3>2. Conflict(Melter[ma])' <=> Conflict(Melter[ma])
      BY <1>1, <1>2, <2>6, <3>1 DEF Conflict
    <3> QED BY <1>1, <1>2, <1>3, <1>4, <2>1, <2>6, <3>1, <3>2 DEF Built
  <2>9. Marked'
    BY <1>1, <1>2, <1>4, <2>1 DEF Marked
  <2> QED BY <2>2, <2>3, <2>4, <2>5, <2>7, <2>8, <2>9
<1> QED BY <1>1, <1>5, <1>6, <1>7 DEF SubsetInv

\* The cursor of MakeUnique and CombineShifts, and the end of the program.
LEMMA PassSubset ==
  ASSUME SubsetInv, NextA \/ NextPass \/ Finished \/ UNCHANGED vars
  PROVE  SubsetInv'
<1>1. UNCHANGED <<heap, melted, lastSim, before, failed, round, stale, pc, at, ma, source, mi,
                  used, todo>>
  <2>1. CASE NextA
    BY <2>1 DEF NextA, melting, history, symbols, marks
  <2>2. CASE NextPass
    BY <2>2 DEF NextPass, melting, history, symbols, marks
  <2>3. CASE Finished \/ UNCHANGED vars
    BY <2>3 DEF Finished, vars, melting, history, symbols, marks
  <2> QED BY <2>1, <2>2, <2>3
<1> QED BY <1>1, OnlyCursorMoves

\* A sequence whose elements are in a set is a sequence over it.
LEMMA SeqInto ==
  ASSUME NEW S, NEW T, NEW s \in Seq(S), \A k \in DOMAIN s : s[k] \in T
  PROVE  s \in Seq(T) /\ Len(s) \in Nat /\ DOMAIN s = 1..Len(s)
OBVIOUS

\* The steps that only move on, from phase to phase or from state to state.
LEMMA QuietSteps ==
  ASSUME TypeOK, SubsetInv,
         \/ NextUnique \/ MeltSkip \/ MeltNext \/ DeletedAll \/ CombineNext \/ Return \/ Abandon
         \/ WriteScanner /\ pc' = "written"
  PROVE  SubsetInv'
<1> DEFINE Same == UNCHANGED <<heap, melted, lastSim, history, failed, stale>>
<1>1. CASE NextUnique
  <2>1. Same /\ pc = "unique" /\ pc' \in {"unique", "melt"}
    BY <1>1 DEF NextUnique, symbols
  <2>2. QuietParts
    BY <2>1 DEF QuietParts, Building, Melting
  <2>3. acts' = acts /\ nr' = nr /\ chain' = chain
    BY <2>1 DEF heap
  <2>4. Numbered'
    BY <2>1, <2>3 DEF SubsetInv, Numbered
  <2>5. ~stale => TargetsListed' /\ Marked'
    <3>1. Settled' = Settled /\ Listed' = Listed
      BY <2>2, <2>3, SameSettled DEF QuietParts
    <3> QED BY <2>1, <2>3, <3>1 DEF SubsetInv, TargetsListed, LeadInto, Melting, Marked
  <2> QED BY <2>2, <2>4, <2>5, Quiet
<1>2. CASE MeltSkip
  <2>1. Same /\ pc = "melt" /\ pc' = "melt"
    BY <1>2 DEF MeltSkip, symbols
  <2>2. QuietParts
    BY <2>1 DEF QuietParts, Building, Melting
  <2>3. acts' = acts /\ nr' = nr /\ chain' = chain
    BY <2>1 DEF heap
  <2>4. Numbered'
    BY <2>1, <2>3 DEF SubsetInv, Numbered
  <2>5. ~stale => TargetsListed' /\ Marked'
    <3>1. Settled' = Settled /\ Listed' = Listed
      BY <2>2, <2>3, SameSettled DEF QuietParts
    <3> QED BY <2>1, <2>3, <3>1 DEF SubsetInv, TargetsListed, LeadInto, Melting, Marked
  <2> QED BY <2>2, <2>4, <2>5, Quiet
<1>3. CASE MeltNext
  <2>1. /\ Same /\ pc = "melt"
        /\ pc' = "melt" \/ (pc' = "mark" /\ used' = {} /\ todo' = <<first>>)
    BY <1>3 DEF MeltNext, symbols
  <2>2. QuietParts
    BY <2>1 DEF QuietParts, Building, Melting
  <2>3. acts' = acts /\ nr' = nr /\ chain' = chain
    BY <2>1 DEF heap
  <2>4. Numbered'
    BY <2>1, <2>3 DEF SubsetInv, Numbered
  <2>5. ASSUME ~stale PROVE TargetsListed' /\ Marked'
    <3>1. Settled' = Settled /\ Listed' = Listed
      BY <2>2, <2>3, SameSettled DEF QuietParts
    <3>2. TargetsListed'
      BY <2>1, <2>3, <2>5, <3>1 DEF SubsetInv, TargetsListed, LeadInto, Melting
    <3>3. Marked'
      <4>1. CASE pc' = "melt"
        BY <4>1 DEF Marked
      <4>2. CASE used' = {} /\ todo' = <<first>>
        <5>1. DOMAIN (todo') = {1} /\ (todo')[1] = first
          BY <4>2
        <5>2. first \in Listed'
          BY <3>1, SubsetBasics
        <5>3. {(todo')[k] : k \in DOMAIN (todo')} \subseteq Listed'
          BY <5>1, <5>2
        <5>4. \E k \in DOMAIN (todo') : (todo')[k] = first
          BY <5>1
        <5> QED BY <4>2, <5>3, <5>4 DEF Marked, first
      <4> QED BY <2>1, <4>1, <4>2
    <3> QED BY <3>2, <3>3
  <2> QED BY <2>2, <2>4, <2>5, Quiet
<1>4. CASE DeletedAll
  <2>1. /\ Same /\ pc = "delete" /\ pc' = "combine" /\ at > Len(chain)
    BY <1>4 DEF DeletedAll, symbols
  <2>2. QuietParts
    BY <2>1 DEF QuietParts, Building, Melting
  <2>3. acts' = acts /\ nr' = nr /\ chain' = chain
    BY <2>1 DEF heap
  <2>4. \A k \in DOMAIN chain : k < at
    BY <2>1, ChainStates DEF TypeOK, PositionTypes
  <2>5. Numbered'
    BY <2>1, <2>3, <2>4 DEF SubsetInv, Numbered
  <2>6. ASSUME ~stale PROVE TargetsListed'
    <3>1. Listed' = Listed
      BY <2>2, <2>3, SameSettled DEF QuietParts
    <3>2. Kept = Listed
      BY <2>4 DEF Kept, Listed
    <3>3. LeadInto(Listed, Listed)
      BY <2>1, <2>6, <3>2 DEF SubsetInv, TargetsListed
    <3> QED BY <2>1, <2>3, <3>1, <3>3 DEF TargetsListed, LeadInto, Melting
  <2>7. Marked'
    BY <2>1 DEF Marked
  <2> QED BY <2>2, <2>5, <2>6, <2>7, Quiet
<1>5. CASE CombineNext \/ Return \/ Abandon \/ (WriteScanner /\ pc' = "written")
  <2>1. /\ Same /\ pc \in {"combine", "deterministic", "productions"}
        /\ pc' \in {"combine", "deterministic", "productions", "written", "abandoned"}
        /\ pc' \in {"combine", "deterministic"} => pc \in {"combine", "deterministic"}
    <3>1. CASE CombineNext
      BY <3>1 DEF CombineNext, symbols
    <3>2. CASE Return
      BY <3>2 DEF Return, symbols
    <3>3. CASE Abandon
      BY <3>3 DEF Abandon, symbols
    <3>4. CASE WriteScanner /\ pc' = "written"
      BY <3>4 DEF WriteScanner, StartRound, symbols
    <3> QED BY <1>5, <3>1, <3>2, <3>3, <3>4
  <2>2. QuietParts
    BY <2>1 DEF QuietParts, Building, Melting
  <2>3. acts' = acts /\ nr' = nr /\ chain' = chain
    BY <2>1 DEF heap
  <2>4. Numbered'
    BY <2>1, <2>3 DEF SubsetInv, Numbered
  <2>5. ASSUME ~stale PROVE TargetsListed' /\ Marked'
    <3>1. Listed' = Listed
      BY <2>2, <2>3, SameSettled DEF QuietParts
    <3>2. LeadInto(Listed, Listed)
      BY <2>1, <2>5 DEF SubsetInv, TargetsListed
    <3> QED BY <2>1, <2>3, <3>1, <3>2 DEF TargetsListed, LeadInto, Melting, Marked
  <2> QED BY <2>2, <2>4, <2>5, Quiet
<1> QED BY <1>1, <1>2, <1>3, <1>4, <1>5

\* FindUsedStates: what a marked state leads to is marked, or a call for it is open.
LEMMA FindUsedSubset ==
  ASSUME TypeOK, SubsetInv, DeterministicSoFar, FindUsed
  PROVE  SubsetInv'
<1> DEFINE q == Head(todo)
           calls == [k \in DOMAIN acts[q] |-> Target(acts[q][k])]
<1>1. /\ pc = "mark" /\ todo # <<>> /\ pc' = "mark"
      /\ UNCHANGED <<heap, melted, lastSim, history, failed, stale>>
      /\ \/ nr[q] \in used /\ todo' = Tail(todo) /\ used' = used
         \/ used' = used \cup {nr[q]} /\ todo' = calls \o Tail(todo)
  BY DEF FindUsed, symbols
<1>2. QuietParts
  BY <1>1 DEF QuietParts, Building, Melting
<1>3. acts' = acts /\ nr' = nr /\ chain' = chain
  BY <1>1 DEF heap
<1>4. Numbered'
  BY <1>1, <1>3 DEF SubsetInv, Numbered
<1>5. ASSUME ~stale PROVE TargetsListed' /\ Marked'
  <2>1. Settled' = Settled /\ Listed' = Listed /\ Settled = Listed
    BY <1>2, <1>3, SameSettled, SubsetBasics DEF QuietParts
  <2>2. TargetsListed'
    BY <1>1, <1>3, <1>5, <2>1 DEF SubsetInv, TargetsListed, LeadInto, Melting
  <2>3. /\ {todo[k] : k \in DOMAIN todo} \subseteq Listed
        /\ nr[first] \in used \/ \E k \in DOMAIN todo : todo[k] = first
        /\ \A p \in Listed : nr[p] \in used =>
             \A m \in DOMAIN acts[p] : \A t \in acts[p][m].targets :
               nr[t] \in used \/ \E k \in DOMAIN todo : todo[k] = t
    BY <1>1, <1>5 DEF SubsetInv, Marked
  <2>4. LeadInto(Listed, Listed)
    BY <1>1, <1>5, <2>1 DEF SubsetInv, TargetsListed, Melting
  <2>5. todo \in Seq(Allocated) /\ Len(todo) \in Nat \ {0} /\ DOMAIN todo = 1..Len(todo)
    BY <1>1 DEF TypeOK, MarkTypes
  <2>6. q = todo[1] /\ 1 \in DOMAIN todo /\ q \in Listed /\ q \in Allocated
    BY <2>3, <2>5, SubsetBasics
  <2>7. /\ Tail(todo) \in Seq(Allocated)
        /\ \A k \in DOMAIN Tail(todo) : k + 1 \in DOMAIN todo /\ Tail(todo)[k] = todo[k + 1]
        /\ \A k \in DOMAIN todo : k # 1 => k - 1 \in DOMAIN Tail(todo)
                                           /\ Tail(todo)[k - 1] = todo[k]
    BY <2>5
  <2>8. \A k \in DOMAIN todo : \/ todo[k] = q
                               \/ \E j \in DOMAIN Tail(todo) : Tail(todo)[j] = todo[k]
    BY <2>6, <2>7
  <2>9. \A k \in DOMAIN Tail(todo) : Tail(todo)[k] \in Listed
    BY <2>3, <2>7
  <2> HIDE DEF q, calls
  <2>10. CASE nr[q] \in used /\ todo' = Tail(todo) /\ used' = used
    <3>1. {(todo')[k] : k \in DOMAIN (todo')} \subseteq Listed
      BY <2>9, <2>10
    <3>2. nr[first] \in used \/ \E k \in DOMAIN (todo') : (todo')[k] = first
      BY <2>3, <2>8, <2>10
    <3>3. ASSUME NEW p \in Listed, nr[p] \in used, NEW m \in DOMAIN acts[p],
                 NEW t \in acts[p][m].targets
          PROVE  nr[t] \in used \/ \E k \in DOMAIN (todo') : (todo')[k] = t
      BY <2>3, <2>8, <2>10, <3>3
    <3> QED BY <1>3, <2>1, <2>2, <2>10, <3>1, <3>2, <3>3 DEF Marked, first
  <2>11. CASE used' = used \cup {nr[q]} /\ todo' = calls \o Tail(todo)
    <3>1. acts[q] \in Seq(Action(Allocated)) /\ \A m \in DOMAIN acts[q] : IsSingle(acts[q][m].targets)
      <4>1. acts[q] \in Seq(Action(Allocated))
        BY <2>6, ChainStates
      <4>2. \A k \in DOMAIN chain : DeterministicList(acts[chain[k]])
        BY <1>1 DEF DeterministicSoFar
      <4> QED BY <2>6, <4>1, <4>2 DEF DeterministicList, Listed
    <3>2. \A m \in DOMAIN acts[q] : acts[q][m].targets = {Target(acts[q][m])}
      BY <3>1 DEF IsSingle, Target
    <3>3. \A m \in DOMAIN acts[q] : Target(acts[q][m]) \in Listed
      BY <2>4, <2>6, <3>2 DEF LeadInto
    <3>4. /\ Len(acts[q]) \in Nat /\ DOMAIN acts[q] = 1..Len(acts[q])
          /\ DOMAIN calls = DOMAIN acts[q]
          /\ \A m \in DOMAIN acts[q] : calls[m] = Target(acts[q][m])
      BY <3>1 DEF calls
    <3>5. calls \in Seq(Listed) /\ Len(calls) = Len(acts[q])
      <4>1. calls \in [1..Len(acts[q]) -> Listed]
        BY <3>3, <3>4 DEF calls
      <4> QED BY <3>4, <4>1, FunctionSeq
    <3>6. Tail(todo) \in Seq(Listed) /\ Len(Tail(todo)) \in Nat
          /\ DOMAIN Tail(todo) = 1..Len(Tail(todo))
      BY <2>7, <2>9, SeqInto, Zenon
    <3>7. /\ calls \o Tail(todo) \in Seq(Listed)
          /\ Len(calls \o Tail(todo)) = Len(calls) + Len(Tail(todo))
          /\ \A k \in 1..Len(calls) : (calls \o Tail(todo))[k] = calls[k]
          /\ \A k \in 1..Len(Tail(todo)) : (calls \o Tail(todo))[Len(calls) + k] = Tail(todo)[k]
      <4> DEFINE rest == Tail(todo)
      <4> HIDE DEF rest
      <4>1. calls \in Seq(Listed) /\ rest \in Seq(Listed)
        BY <3>5, <3>6 DEF rest
      <4>2. /\ calls \o rest \in Seq(Listed)
            /\ Len(calls \o rest) = Len(calls) + Len(rest)
            /\ \A k \in 1..Len(calls) : (calls \o rest)[k] = calls[k]
            /\ \A k \in 1..Len(rest) : (calls \o rest)[Len(calls) + k] = rest[k]
        BY <4>1, ConcatSeq
      <4> QED BY <4>2 DEF rest
    <3>8. /\ todo' \in Seq(Listed) /\ DOMAIN (todo') = 1..(Len(calls) + Len(Tail(todo)))
      BY <2>11, <3>7
    <3>9. \A m \in DOMAIN acts[q] : \E k \in DOMAIN (todo') : (todo')[k] = Target(acts[q][m])
      <4> SUFFICES ASSUME NEW m \in DOMAIN acts[q]
                   PROVE  m \in DOMAIN (todo') /\ (todo')[m] = Target(acts[q][m])
        OBVIOUS
      <4>1. m \in 1..Len(calls) /\ m \in DOMAIN (todo')
        BY <3>4, <3>5, <3>6, <3>8
      <4> QED BY <2>11, <3>4, <3>7, <4>1
    <3>10. \A j \in DOMAIN Tail(todo) : \E k \in DOMAIN (todo') : (todo')[k] = Tail(todo)[j]
      <4> SUFFICES ASSUME NEW j \in DOMAIN Tail(todo)
                   PROVE  /\ Len(calls) + j \in DOMAIN (todo')
                          /\ (todo')[Len(calls) + j] = Tail(todo)[j]
        OBVIOUS
      <4>1. Len(calls) + j \in DOMAIN (todo')
        BY <3>4, <3>5, <3>6, <3>8
      <4> QED BY <2>11, <3>6, <3>7, <4>1
    <3>11. {(todo')[k] : k \in DOMAIN (todo')} \subseteq Listed
      BY <3>8, ElementOfSeq
    <3>12. ASSUME NEW t, t = q \/ \E k \in DOMAIN todo : todo[k] = t
           PROVE  nr[t] \in used' \/ \E k \in DOMAIN (todo') : (todo')[k] = t
      <4>1. t = q \/ \E j \in DOMAIN Tail(todo) : Tail(todo)[j] = t
        BY <2>8, <3>12
      <4>2. nr[q] \in used'
        BY <2>11
      <4> QED BY <3>10, <4>1, <4>2
    <3>13. nr[first] \in used' \/ \E k \in DOMAIN (todo') : (todo')[k] = first
      BY <2>3, <2>11, <3>12
    <3>14. ASSUME NEW p \in Listed, nr[p] \in used', NEW m \in DOMAIN acts[p],
                  NEW t \in acts[p][m].targets
           PROVE  nr[t] \in used' \/ \E k \in DOMAIN (todo') : (todo')[k] = t
      <4>1. CASE nr[p] \in used
        BY <2>3, <2>11, <3>12, <4>1
      <4>2. CASE nr[p] = nr[q]
        <5>1. p = q
          <6>1. PICK i, j \in DOMAIN chain : p = chain[i] /\ q = chain[j]
            BY <2>6 DEF Listed
          <6>2. nr[p] = i - 1 /\ nr[q] = j - 1
            BY <1>1, <6>1 DEF SubsetInv, Numbered
          <6>3. i \in Nat /\ j \in Nat
            BY <6>1, ChainStates
          <6> QED BY <4>2, <6>1, <6>2, <6>3
        <5>2. t = Target(acts[q][m])
          BY <3>2, <5>1
        <5> QED BY <3>9, <5>1, <5>2
      <4> QED BY <2>11, <3>14, <4>1, <4>2
    <3> QED BY <1>3, <2>1, <2>2, <3>11, <3>13, <3>14 DEF Marked, first
  <2> QED BY <1>1, <2>10, <2>11 DEF q, calls
<1> QED BY <1>2, <1>4, <1>5, Quiet

----------------------------------------------------------------------------
(* Where action lists lead.                                                *)

\* A list whose targets are in S is a list of actions to S.
LEMMA ListInto ==
  ASSUME NEW Q, NEW list \in Seq(Action(Q)), NEW S,
         \A m \in DOMAIN list : list[m].targets \subseteq S
  PROVE  list \in Seq(Action(S))
<1>1. \A m \in DOMAIN list : list[m] \in Action(Q)
  OBVIOUS
<1>2. \A m \in DOMAIN list : list[m] \in Action(S)
  BY <1>1 DEF Action
<1> QED BY <1>2, SeqInto, Zenon

\* And the other way round.
LEMMA IntoList ==
  ASSUME NEW S, NEW list \in Seq(Action(S))
  PROVE  \A m \in DOMAIN list : list[m].targets \subseteq S
<1>1. \A m \in DOMAIN list : list[m] \in Action(S)
  OBVIOUS
<1> QED BY <1>1 DEF Action

\* The same for all states of a set.
LEMMA LeadIntoLists ==
  ASSUME TypeOK, NEW Q, Q \subseteq Allocated, NEW S, LeadInto(Q, S)
  PROVE  \A q \in Q : acts[q] \in Seq(Action(S))
<1> SUFFICES ASSUME NEW q \in Q PROVE acts[q] \in Seq(Action(S))
  OBVIOUS
<1>1. acts[q] \in Seq(Action(Allocated))
  BY ChainStates
<1>2. \A m \in DOMAIN acts[q] : acts[q][m].targets \subseteq S
  BY DEF LeadInto
<1> QED BY <1>1, <1>2, ListInto

\* And the other way round, after a step.
LEMMA ListsLeadInto ==
  ASSUME NEW Q, NEW S, \A q \in Q : (acts')[q] \in Seq(Action(S))
  PROVE  LeadInto(Q, S)'
<1>1. ASSUME NEW q \in Q PROVE \A m \in DOMAIN (acts')[q] : (acts')[q][m].targets \subseteq S
  BY IntoList
<1> QED BY <1>1 DEF LeadInto

----------------------------------------------------------------------------
(* Declarations and literals.                                              *)

\* Outside MakeDeterministic little is claimed.
LEMMA Outside ==
  ASSUME SubsetInv, pc' \in {"tokens", "convert", "productions"},
         UNCHANGED <<melted, history, stale>>, Numbered', BeforeTypes',
         ~stale => TargetsListed'
  PROVE  SubsetInv'
<1>1. /\ pc' \notin Melting /\ pc' \notin {"delete", "combine", "deterministic"}
      /\ stale' = stale /\ melted' = melted /\ round' = round
  BY DEF Melting, history
<1>2. StandsRight' /\ Copied' /\ Built' /\ Marked' /\ Simulated'
  BY <1>1 DEF StandsRight, Copied, Built, Building, Marked, Simulated, Melting
<1>3. ~stale => Entries'
  BY <1>1 DEF SubsetInv, Entries, Melting
<1> QED BY <1>1, <1>2, <1>3 DEF SubsetInv

\* NewState appends: the old states keep their fields, the new ones are numbered on.
LEMMA NewStatesElements ==
  ASSUME TypeOK, NEW n \in Nat, NEW ends \in Seq(Syms \cup {NoSym}), NewStates(n, ends)
  PROVE  /\ \A q \in 1..Len(acts) :
              (endOf')[q] = endOf[q] /\ (ctx')[q] = ctx[q] /\ (nr')[q] = nr[q]
         /\ \A k \in 1..n : (nr')[Len(acts) + k] = LastNr + k
         /\ \A k \in 1..Len(chain) : (chain')[k] = chain[k]
         /\ \A k \in 1..n : (chain')[Len(chain) + k] = Len(acts) + k
         /\ DOMAIN (chain') = 1..(Len(chain) + n)
<1>1. /\ endOf \in Seq(Syms \cup {NoSym}) /\ ctx \in Seq(BOOLEAN) /\ nr \in Seq(Nat)
      /\ Len(endOf) = Len(acts) /\ Len(ctx) = Len(acts) /\ Len(nr) = Len(acts)
      /\ chain \in Seq(Nat) /\ Len(chain) \in Nat /\ Len(acts) \in Nat /\ LastNr \in Nat
  <2>1. \A k \in 1..Len(chain) : chain[k] \in Nat
    BY ChainStates
  <2>2. chain \in Seq(Allocated)
    BY DEF TypeOK, HeapTypes
  <2>3. chain \in Seq(Nat)
    BY <2>1, <2>2, ChainStates, SeqInto, Zenon
  <2> QED BY <2>3, ChainStates DEF TypeOK, HeapTypes
<1>2. \A q \in 1..Len(acts) : (endOf')[q] = endOf[q]
  <2>1. endOf' = endOf \o ends
    BY DEF NewStates
  <2>2. \A k \in 1..Len(endOf) : (endOf \o ends)[k] = endOf[k]
    BY <1>1, ConcatSeq
  <2> QED BY <1>1, <2>1, <2>2
<1>3. \A q \in 1..Len(acts) : (ctx')[q] = ctx[q]
  <2> DEFINE t == [k \in 1..n |-> FALSE]
  <2>1. t \in [1..n -> BOOLEAN] /\ ctx' = ctx \o t
    BY Zenon DEF NewStates
  <2> HIDE DEF t
  <2>2. t \in Seq(BOOLEAN)
    BY <2>1, FunctionSeq, Zenon
  <2>3. \A k \in 1..Len(ctx) : (ctx \o t)[k] = ctx[k]
    BY <1>1, <2>2, ConcatSeq
  <2> QED BY <1>1, <2>1, <2>3
<1>4. /\ \A q \in 1..Len(acts) : (nr')[q] = nr[q]
      /\ \A k \in 1..n : (nr')[Len(acts) + k] = LastNr + k
  <2> DEFINE t == [k \in 1..n |-> LastNr + k]
  <2>1. t \in [1..n -> Nat] /\ nr' = nr \o t /\ \A k \in 1..n : t[k] = LastNr + k
    BY <1>1 DEF NewStates
  <2> HIDE DEF t
  <2>2. t \in Seq(Nat) /\ Len(t) = n
    BY <2>1, FunctionSeq, Zenon
  <2>3. /\ \A k \in 1..Len(nr) : (nr \o t)[k] = nr[k]
        /\ \A k \in 1..Len(t) : (nr \o t)[Len(nr) + k] = t[k]
    <3>1. nr \in Seq(Nat) /\ t \in Seq(Nat)
      BY <1>1, <2>2
    <3> QED BY ONLY <3>1, ConcatSeq
  <2> QED BY <1>1, <2>1, <2>2, <2>3
<1>5. /\ \A k \in 1..Len(chain) : (chain')[k] = chain[k]
      /\ \A k \in 1..n : (chain')[Len(chain) + k] = Len(acts) + k
      /\ DOMAIN (chain') = 1..(Len(chain) + n)
  <2> DEFINE t == [k \in 1..n |-> Len(acts) + k]
  <2>1. t \in [1..n -> Nat] /\ chain' = chain \o t /\ \A k \in 1..n : t[k] = Len(acts) + k
    BY <1>1 DEF NewStates
  <2> HIDE DEF t
  <2>2. t \in Seq(Nat) /\ Len(t) = n
    BY <2>1, FunctionSeq, Zenon
  <2>3. /\ \A k \in 1..Len(chain) : (chain \o t)[k] = chain[k]
        /\ \A k \in 1..Len(t) : (chain \o t)[Len(chain) + k] = t[k]
        /\ Len(chain \o t) = Len(chain) + Len(t) /\ chain \o t \in Seq(Nat)
    <3>1. chain \in Seq(Nat) /\ t \in Seq(Nat)
      BY <1>1, <2>2
    <3> QED BY ONLY <3>1, ConcatSeq
  <2>4. DOMAIN (chain') = 1..Len(chain')
    BY <2>1, <2>3
  <2> QED BY <1>1, <2>1, <2>2, <2>3, <2>4
<1> QED BY <1>2, <1>3, <1>4, <1>5

\* So numbers and the automaton before are as they should be after it.
LEMMA NewStatesSubset ==
  ASSUME TypeOK, SubsetInv, NEW n \in Nat, NEW ends \in Seq(Syms \cup {NoSym}),
         NewStates(n, ends), Len(acts') = Len(acts) + n, DOMAIN (acts') = 1..(Len(acts) + n),
         pc \notin {"delete"}, pc' \notin Melting \cup {"delete"}, before' = before
  PROVE  /\ Numbered' /\ BeforeTypes'
         /\ Listed' = Listed \cup {Len(acts) + k : k \in 1..n}
         /\ Allocated' = Allocated \cup {Len(acts) + k : k \in 1..n}
<1>1. PICK c \in Nat, a \in Nat : c = Len(chain) /\ a = Len(acts)
  BY ChainStates
<1>2. /\ DOMAIN chain = 1..c /\ DOMAIN acts = 1..a /\ LastNr = c - 1
      /\ \A k \in 1..c : chain[k] \in 1..a
  BY <1>1, ChainStates DEF LastNr, Allocated
<1>3. /\ \A q \in 1..a : (endOf')[q] = endOf[q] /\ (ctx')[q] = ctx[q] /\ (nr')[q] = nr[q]
      /\ \A k \in 1..n : (nr')[a + k] = c - 1 + k
      /\ \A k \in 1..c : (chain')[k] = chain[k]
      /\ \A k \in 1..n : (chain')[c + k] = a + k
      /\ DOMAIN (chain') = 1..(c + n)
  BY <1>1, <1>2, NewStatesElements
<1>4. \A k \in 1..(c + n) : k \in 1..c \/ (k - c \in 1..n /\ k = c + (k - c))
  OBVIOUS
<1>5. Numbered'
  <2>1. ASSUME NEW k \in 1..(c + n) PROVE (nr')[(chain')[k]] = k - 1
    <3>1. CASE k \in 1..c
      <4>1. nr[chain[k]] = k - 1
        BY <1>2, <3>1 DEF SubsetInv, Numbered
      <4> QED BY <1>2, <1>3, <3>1, <4>1
    <3>2. CASE k - c \in 1..n /\ k = c + (k - c)
      <4>1. PICK j \in 1..n : k = c + j
        BY <3>2
      <4>2. (chain')[k] = a + j
        BY <1>3, <4>1
      <4>3. (nr')[a + j] = c - 1 + j
        BY <1>3
      <4>4. c - 1 + j = k - 1
        BY <4>1
      <4> QED BY <4>2, <4>3, <4>4
    <3> QED BY <1>4, <3>1, <3>2
  <2> QED BY <1>3, <2>1 DEF Numbered
<1>6. BeforeTypes'
  <2>1. BeforeTypes
    BY DEF SubsetInv
  <2>2. DOMAIN before.acts = 1..Len(before.acts) /\ Len(before.acts) \in Nat
        /\ Len(before.acts) <= a
    BY <1>1, <2>1 DEF BeforeTypes
  <2>3. \A q \in DOMAIN before.acts : q \in 1..a
    BY <2>2
  <2>4. \A q \in DOMAIN before.acts : (endOf')[q] = before.endOf[q] /\ (ctx')[q] = before.ctx[q]
    BY <1>3, <2>1, <2>3 DEF BeforeTypes
  <2>5. Len(before.acts) <= Len(acts')
    BY <1>1, <2>2
  <2> QED BY <2>1, <2>4, <2>5 DEF BeforeTypes
<1>7. Listed' = Listed \cup {a + k : k \in 1..n}
  <2>1. \A k \in 1..(c + n) : (chain')[k] \in Listed \cup {a + j : j \in 1..n}
    <3> TAKE k \in 1..(c + n)
    <3>1. CASE k \in 1..c
      BY <1>2, <1>3, <3>1 DEF Listed
    <3>2. CASE k - c \in 1..n /\ k = c + (k - c)
      <4>1. PICK j \in 1..n : k = c + j
        BY <3>2
      <4> QED BY <1>3, <4>1
    <3> QED BY <1>4, <3>1, <3>2
  <2>2. \A k \in 1..c : k \in DOMAIN (chain')
    BY <1>3
  <2>3. \A k \in 1..n : c + k \in DOMAIN (chain')
    BY <1>3
  <2>4. Listed \subseteq Listed'
    BY <1>2, <1>3, <2>2 DEF Listed
  <2>5. \A k \in 1..n : a + k \in Listed'
    BY <1>3, <2>3 DEF Listed
  <2>6. Listed' \subseteq Listed \cup {a + k : k \in 1..n}
    BY <1>3, <2>1 DEF Listed
  <2> QED BY <2>4, <2>5, <2>6
<1>8. Allocated' = Allocated \cup {a + k : k \in 1..n}
  <2>1. \A k \in 1..(a + n) : k \in 1..a \/ \E j \in 1..n : k = a + j
    <3> TAKE k \in 1..(a + n)
    <3>1. k \in 1..a \/ (k - a \in 1..n /\ k = a + (k - a))
      OBVIOUS
    <3> QED BY <3>1
  <2>2. Allocated = 1..a /\ Allocated' = 1..(a + n)
    BY <1>1, <1>2 DEF Allocated
  <2>3. \A k \in 1..a : k \in 1..(a + n)
    OBVIOUS
  <2>4. \A k \in 1..n : a + k \in 1..(a + n)
    OBVIOUS
  <2> QED BY <2>1, <2>2, <2>3, <2>4
<1> QED BY <1>1, <1>5, <1>6, <1>7, <1>8

\* AddPath during the productions: the path's states are listed, and so are the others.
LEMMA AddPathTargets ==
  ASSUME TypeOK, NEW s \in DOMAIN Text, AddPath(s), LeadInto(Listed, Listed),
         Listed' = Listed \cup {Len(acts) + k : k \in 1..Len(Text[s])}
  PROVE  LeadInto(Listed, Listed)'
<1> DEFINE n == Len(Text[s])
<1>1. PICK L : L = Listed \cup {Len(acts) + k : k \in 1..n}
  OBVIOUS
<1>2. \A q \in Listed : acts[q] \in Seq(Action(L))
  <2>1. \A q \in Listed : acts[q] \in Seq(Action(Listed))
    BY SubsetBasics, LeadIntoLists
  <2>2. Listed \subseteq L
    BY <1>1
  <2> QED BY <2>1, <2>2, ActionGrows
<1>3. first \in Listed /\ Listed \subseteq Allocated /\ \A k \in 1..n : Len(acts) + k \in L
  BY <1>1, SubsetBasics
<1>4. /\ \A q \in Listed : (acts')[q] \in Seq(Action(L))
      /\ \A k \in 1..n : (acts')[Len(acts) + k] \in Seq(Action(L))
  BY <1>2, <1>3, AddPathElements
<1>5. \A q \in L : (acts')[q] \in Seq(Action(L))
  BY <1>1, <1>4
<1>6. LeadInto(L, L)'
  BY <1>5, ListsLeadInto
<1> QED BY <1>1, <1>6 DEF LeadInto

\* A declared token, or a literal: new states, and actions to them.
LEMMA DeclareSubset ==
  ASSUME TypeOK, SubsetInv, NEW s \in Syms, DeclareToken(s) \/ UseLiteral(s)
  PROVE  SubsetInv'
<1>1. CASE DeclareToken(s) /\ s \in DOMAIN Graph
  <2> DEFINE n == Graph[s].size
             ends == [k \in 1..n |-> IF k \in Graph[s].ends THEN s ELSE NoSym]
             new == [k \in 1..n |-> <<>>]
  <2>1. /\ pc = "tokens" /\ AddToken(s)
        /\ UNCHANGED <<melted, history, stale>>
    BY <1>1 DEF DeclareToken
  <2>2. /\ acts' = acts \o new /\ NewStates(n, ends) /\ pc' = "convert"
    BY <2>1 DEF AddToken
  <2>3. n \in Nat /\ s \in Syms
    BY <1>1, GraphAssumption
  <2>4. ends \in Seq(Syms \cup {NoSym})
    BY <2>3
  <2> HIDE DEF n, ends
  <2>5. Len(acts') = Len(acts) + n /\ DOMAIN (acts') = 1..(Len(acts) + n)
    <3> DEFINE B == 1..(Len(acts) + n)
    <3>1. \A S : <<>> \in Seq(S)
      OBVIOUS
    <3>2. new \in [1..n -> Seq(Action(B))]
      BY <3>1
    <3> HIDE DEF new
    <3>3. new \in Seq(Seq(Action(B))) /\ Len(new) = n
      BY <2>3, <3>2, FunctionSeq
    <3>4. acts' \in Seq(Seq(Action(B))) /\ Len(acts') = Len(acts) + n
      BY <2>2, <2>3, <3>3, HeapGrows
    <3> QED BY <3>4
  <2>6. /\ Numbered' /\ BeforeTypes'
        /\ Listed' = Listed \cup {Len(acts) + k : k \in 1..n}
        /\ Allocated' = Allocated \cup {Len(acts) + k : k \in 1..n}
    <3>1. pc \notin {"delete"} /\ pc' \notin Melting \cup {"delete"} /\ before' = before
      BY <2>1, <2>2 DEF Melting, history
    <3> QED BY <2>2, <2>3, <2>4, <2>5, <3>1, NewStatesSubset
  <2>7. ~stale => TargetsListed'
    BY <2>1, <2>2, <2>6 DEF SubsetInv, TargetsListed, Melting
  <2> QED BY <2>1, <2>2, <2>6, <2>7, Outside
<1>2. CASE UseLiteral(s) \/ (DeclareToken(s) /\ s \notin DOMAIN Graph)
  <2>1. /\ s \in DOMAIN Text /\ MatchLiteral(s)
        /\ pc \in {"tokens", "productions"} /\ pc' = pc
        /\ UNCHANGED <<melted, history, stale>>
    BY <1>2, SymsAssumption DEF UseLiteral, DeclareToken
  <2>2. CASE AddPath(s)
    <3> DEFINE n == Len(Text[s])
               ends == [k \in 1..n |-> IF k = n THEN s ELSE NoSym]
    <3>1. n \in Nat
      BY <2>1, TextAssumption
    <3>2. ends \in Seq(Syms \cup {NoSym})
      BY <3>1
    <3>3. NewStates(n, ends)
      BY <2>2 DEF AddPath
    <3> HIDE DEF ends
    <3>4. Len(acts) \in Nat
      BY ChainStates
    <3>5. DOMAIN (acts') = 1..(Len(acts) + n) /\ Len(acts') = Len(acts) + n
      <4>1. DOMAIN (acts') = 1..(Len(acts) + n)
        BY <2>2 DEF AddPath
      <4>2. HeapTypes'
        BY <2>1, <2>2, AddPathTypes
      <4>3. DOMAIN (acts') = 1..Len(acts') /\ Len(acts') \in Nat
        BY <4>2 DEF HeapTypes
      <4> QED BY <3>1, <3>4, <4>1, <4>3
    <3>6. /\ Numbered' /\ BeforeTypes'
          /\ Listed' = Listed \cup {Len(acts) + k : k \in 1..n}
          /\ Allocated' = Allocated \cup {Len(acts) + k : k \in 1..n}
      <4>1. pc \notin {"delete"} /\ pc' \notin Melting \cup {"delete"} /\ before' = before
        BY <2>1 DEF Melting, history
      <4> HIDE DEF n
      <4> QED BY <3>1, <3>2, <3>3, <3>5, <4>1, NewStatesSubset
    <3>7. ASSUME ~stale PROVE TargetsListed'
      <4>1. CASE pc = "tokens"
        BY <2>1, <3>6, <3>7, <4>1 DEF SubsetInv, TargetsListed, Melting
      <4>2. CASE pc = "productions"
        <5>1. LeadInto(Listed, Listed)
          BY <3>7, <4>2 DEF SubsetInv, TargetsListed
        <5>2. LeadInto(Listed, Listed)'
          BY <2>1, <2>2, <3>6, <5>1, AddPathTargets
        <5> QED BY <2>1, <4>2, <5>2 DEF TargetsListed, Melting
      <4> QED BY <2>1, <4>1, <4>2
    <3> QED BY <2>1, <3>6, <3>7, Outside
  <2>3. CASE UNCHANGED heap
    <3>1. acts' = acts /\ nr' = nr /\ chain' = chain /\ endOf' = endOf /\ ctx' = ctx
      BY <2>3 DEF heap
    <3>2. Numbered'
      BY <2>1, <3>1 DEF SubsetInv, Numbered
    <3>3. pc' \notin Melting /\ before' = before
      BY <2>1 DEF Melting, history
    <3>4. BeforeTypes'
      BY <3>1, <3>3 DEF SubsetInv, BeforeTypes
    <3>5. Listed' = Listed /\ Allocated' = Allocated
      BY <3>1 DEF Listed, Allocated
    <3>6. ~stale => TargetsListed'
      BY <2>1, <3>1, <3>3, <3>5 DEF SubsetInv, TargetsListed, LeadInto, Melting
    <3> QED BY <2>1, <3>2, <3>4, <3>6, Outside
  <2>4. AddPath(s) \/ UNCHANGED heap
    <3> DEFINE w == Walk(Text[s])
    <3> HIDE DEF w
    <3>1. AddPath(s) \/ MatchExisting(s, w)
      BY <2>1 DEF MatchLiteral, w
    <3>2. MatchExisting(s, w) => UNCHANGED heap
      BY Zenon DEF MatchExisting
    <3> QED BY <3>1, <3>2
  <2> QED BY <2>2, <2>3, <2>4
<1> QED BY <1>1, <1>2

\* A transition that is still to be made, between allocated states.
LEMMA NewTransitionSubset ==
  ASSUME TypeOK, SubsetInv, NewTransition
  PROVE  SubsetInv'
<1>1. /\ pc = "convert" /\ pc' \in {"tokens", "convert"}
      /\ UNCHANGED <<endOf, ctx, nr, chain, melted, history, stale>>
      /\ acts' = [acts EXCEPT ![Head(pending).from] =
                    AddAction(@, NewAction(Head(pending).typ, Head(pending).syms,
                                           Head(pending).tc, Head(pending).to))]
  BY DEF NewTransition
<1>2. DOMAIN (acts') = DOMAIN acts /\ Len(acts') = Len(acts)
  <2>1. acts \in Seq(Seq(Action(Allocated)))
    BY DEF TypeOK, HeapTypes
  <2> QED BY <1>1, <2>1
<1>3. Numbered'
  BY <1>1 DEF SubsetInv, Numbered
<1>4. pc' \notin Melting /\ before' = before
  BY <1>1 DEF Melting, history
<1>5. BeforeTypes'
  BY <1>1, <1>2, <1>4 DEF SubsetInv, BeforeTypes
<1>6. Listed' = Listed /\ Allocated' = Allocated
  BY <1>1, <1>2 DEF Listed, Allocated
<1>7. ~stale => TargetsListed'
  BY <1>1, <1>4, <1>6 DEF SubsetInv, TargetsListed
<1> QED BY <1>1, <1>3, <1>5, <1>7, Outside

\* A round starts with every state standing for itself.
LEMMA StartSubset ==
  ASSUME TypeOK, TypeOK', SubsetInv, StartRound, pc \in {"tokens", "productions"}
  PROVE  SubsetInv'
<1>1. /\ UNCHANGED <<acts, endOf, nr, chain, melted, stale, failed>>
      /\ lastSim' = LastNr /\ round' = round + 1 /\ pc' = "unique"
      /\ before' = [acts |-> acts, endOf |-> endOf, ctx |-> ctx']
  BY DEF StartRound, symbols
<1>2. PICK c \in Nat \ {0} : c = Len(chain) /\ DOMAIN chain = 1..c /\ LastNr = c - 1
  BY ChainStates DEF LastNr
<1>3. ~Building'
  BY <1>1 DEF Building
<1>4. /\ SettledLen' = c /\ Settled' = Listed /\ Listed' = Listed
  BY <1>1, <1>2, <1>3 DEF SettledLen, Settled, Listed
<1>5. \A k \in DOMAIN chain : nr[chain[k]] = k - 1
  BY DEF SubsetInv, Numbered
<1>6. Numbered'
  BY <1>1, <1>5 DEF Numbered
<1>7. \A k \in 1..c : chain[k] \in DOMAIN acts
  BY <1>2, ChainStates DEF Allocated
<1>8. BeforeTypes'
  <2>1. HeapTypes' /\ acts' = acts /\ endOf' = endOf
    BY <1>1 DEF TypeOK
  <2>2. /\ before'.acts = acts /\ before'.endOf = endOf /\ before'.ctx = ctx'
    BY <1>1
  <2>3. Len(acts) <= Len(acts')
    BY <2>1, ChainStates
  <2>4. lastSim' + 1 = c
    BY <1>1, <1>2
  <2>5. \A k \in 1..(lastSim' + 1) : (chain')[k] \in DOMAIN acts
    BY <1>1, <1>7, <2>4
  <2>7. lastSim' < Len(chain')
    BY <1>1, <1>2
  <2>6. /\ acts \in Seq(Seq(Action(DOMAIN acts)))
        /\ endOf \in Seq(Syms \cup {NoSym}) /\ ctx' \in Seq(BOOLEAN)
        /\ Len(endOf) = Len(acts) /\ Len(ctx') = Len(acts)
    BY <2>1 DEF HeapTypes, Allocated
  <2> QED BY <2>1, <2>2, <2>3, <2>5, <2>6, <2>7 DEF BeforeTypes
<1>9. ASSUME ~stale
      PROVE  TargetsListed' /\ Entries' /\ StandsRight'
  <2>1. LeadInto(Listed, Listed)
    <3>1. CASE pc = "tokens"
      <4>1. Listed = Allocated
        BY <1>9, <3>1 DEF SubsetInv, TargetsListed
      <4>2. \A q \in Allocated : \A m \in DOMAIN acts[q] : acts[q][m].targets \subseteq Allocated
        BY ChainStates, IntoList
      <4> QED BY <4>1, <4>2 DEF LeadInto
    <3>2. CASE pc = "productions"
      BY <1>9, <3>2 DEF SubsetInv, TargetsListed
    <3> QED BY <3>1, <3>2
  <2>2. TargetsListed'
    BY <1>1, <1>4, <2>1 DEF TargetsListed, LeadInto
  <2>3. Entries'
    <3>1. \A i \in DOMAIN melted : melted[i].round <= round
      BY <1>9 DEF SubsetInv, Entries
    <3>2. round \in Nat /\ \A i \in DOMAIN melted : melted[i].round \in Nat
      <4> DEFINE R == [set : SUBSET Nat, size : Nat, state : Allocated, round : Nat]
      <4>1. melted \in Seq(R) /\ round \in Nat /\ \A m \in R : m.round \in Nat
        BY DEF TypeOK, RoundTypes
      <4> HIDE DEF R
      <4>2. \A i \in DOMAIN melted : melted[i] \in R
        BY <4>1
      <4> QED BY <4>1, <4>2
    <3>3. \A i \in DOMAIN melted : melted[i].round < round'
      BY <1>1, <3>1, <3>2
    <3>4. /\ lastSim' < SettledLen' /\ SettledLen' - 1 - lastSim' = 0
          /\ lastSim' = 0 => Len(chain) = 1
      BY <1>1, <1>2, <1>4
    <3>5. Len(melted) \in Nat /\ DOMAIN melted = 1..Len(melted)
      BY DEF TypeOK, RoundTypes
    <3>6. \A i \in DOMAIN melted : ~(i <= 0)
      BY <3>5
    <3>7. \A i \in DOMAIN melted : melted[i].round <= round'
      BY <1>1, <3>1, <3>2
    <3> QED BY <1>1, <3>3, <3>4, <3>5, <3>6, <3>7 DEF Entries
  <2>4. \A q \in Listed : Numbers(q)' = {nr[q]} /\ StandsFor(q)' = {q} /\ Numbers(q)' \subseteq 0..(lastSim')
    <3> TAKE q \in Listed
    <3>1. PICK k \in 1..c : q = chain[k]
      BY <1>2 DEF Listed
    <3>2. nr[q] = k - 1 /\ k - 1 <= lastSim' /\ k - 1 \in 0..(lastSim')
      BY <1>1, <1>2, <1>5, <3>1
    <3>3. Numbers(q)' = {k - 1}
      BY <1>1, <3>2 DEF Numbers
    <3>4. StandsFor(q)' = {(chain')[n + 1] : n \in {k - 1}}
      BY <3>3 DEF StandsFor
    <3>5. (k - 1) + 1 = k
      OBVIOUS
    <3> QED BY <1>1, <3>1, <3>2, <3>3, <3>4, <3>5
  <2>5. ASSUME NEW q \in Listed PROVE StandsWell(q)'
    <3>1. /\ Numbers(q)' # {} /\ Numbers(q)' \subseteq 0..(lastSim') /\ StandsFor(q)' = {q}
      BY <2>4
    <3>2. EndsLike(q, {q})'
      <4>1. EndsOf({q})' = {endOf[q]} \ {NoSym}
        BY <1>1 DEF EndsOf
      <4>2. ((ctx')[q] <=> \E p \in {q} : (before').ctx[p])
        BY <1>1
      <4> QED BY <1>1, <4>1, <4>2 DEF EndsLike
    <3>3. MovesLike(q, {q})'
      <4> SUFFICES ASSUME NEW ch \in Chars
                   PROVE  /\ StandFor(Reached(acts[q], ch))' = SubsetStep({q}, ch)'
                          /\ IsContextMove((acts')[q], ch)
                               <=> \E p \in {q} : IsContextMove((before').acts[p], ch)
        BY DEF MovesLike
      <4>1. SubsetStep({q}, ch)' = Reached(acts[q], ch)
        BY <1>1 DEF SubsetStep
      <4>2. Reached(acts[q], ch) \subseteq Listed
        BY <2>1 DEF Reached, LeadInto
      <4>3. StandFor(Reached(acts[q], ch))' = UNION {StandsFor(p)' : p \in Reached(acts[q], ch)}
        BY <1>1 DEF StandFor
      <4>4. \A p \in Reached(acts[q], ch) : StandsFor(p)' = {p}
        BY <2>4, <4>2
      <4>5. StandFor(Reached(acts[q], ch))' = Reached(acts[q], ch)
        BY <4>3, <4>4
      <4>6. IsContextMove((acts')[q], ch) <=> \E p \in {q} : IsContextMove((before').acts[p], ch)
        BY <1>1
      <4> QED BY <4>1, <4>5, <4>6
    <3> QED BY <3>1, <3>2, <3>3 DEF StandsWell
  <2>6. StandsRight'
    BY <1>4, <2>5 DEF StandsRight
  <2> QED BY <2>2, <2>3, <2>6
<1>10. Copied' /\ Built' /\ Marked' /\ Simulated'
  BY <1>1, <1>3 DEF Copied, Built, Building, Marked, Simulated
<1> QED BY <1>1, <1>6, <1>8, <1>9, <1>10 DEF SubsetInv

----------------------------------------------------------------------------
(* Steps that rewrite action lists.                                        *)

\* What a settled state promises is kept by a step that keeps what it stands for,
\* what it ends, and the sets its moves stand for.
LEMMA StandsWellKept ==
  ASSUME NEW q, StandsWell(q), before' = before, lastSim' = lastSim, failed => failed',
         (endOf')[q] = endOf[q], (ctx')[q] = ctx[q],
         Numbers(q)' = Numbers(q), StandsFor(q)' = StandsFor(q),
         \A ch \in Chars :
           /\ StandFor(Reached(acts[q], ch))' = StandFor(Reached(acts[q], ch))
           /\ IsContextMove((acts')[q], ch) <=> IsContextMove(acts[q], ch)
  PROVE  StandsWell(q)'
<1>1. PICK S : S = StandsFor(q)
  OBVIOUS
<1>2. EndsLike(q, S) /\ MovesLike(q, S) /\ Numbers(q) # {} /\ Numbers(q) \subseteq 0..lastSim
  BY <1>1 DEF StandsWell
<1>3. EndsLike(q, S)'
  <2>1. EndsOf(S)' = EndsOf(S)
    BY DEF EndsOf
  <2>2. IF EndsOf(S) = {} THEN (endOf')[q] = NoSym ELSE (endOf')[q] \in EndsOf(S)
    BY <1>2 DEF EndsLike
  <2>3. ~failed' => EndsOf(S) \subseteq {(endOf')[q]}
    BY <1>2 DEF EndsLike
  <2>4. (ctx')[q] <=> \E p \in S : (before').ctx[p]
    BY <1>2 DEF EndsLike
  <2> QED BY <2>1, <2>2, <2>3, <2>4, Zenon DEF EndsLike
<1>4. MovesLike(q, S)'
  <2>1. \A ch : SubsetStep(S, ch)' = SubsetStep(S, ch)
    BY DEF SubsetStep
  <2> QED BY <1>2, <2>1 DEF MovesLike
<1> QED BY <1>1, <1>2, <1>3, <1>4 DEF StandsWell

\* Same numbers, same entries, same moves.
LEMMA SameMovesStand ==
  ASSUME UNCHANGED <<nr, melted, lastSim, chain, endOf, ctx, before, failed>>,
         NEW q, StandsWell(q), SameMoves((acts')[q], acts[q])
  PROVE  StandsWell(q)'
<1>1. /\ Numbers(q)' = Numbers(q) /\ StandsFor(q)' = StandsFor(q)
      /\ \A Q : StandFor(Q)' = StandFor(Q)
  BY StandsUnchanged
<1>2. ASSUME NEW ch \in Chars
      PROVE  /\ StandFor(Reached(acts[q], ch))' = StandFor(Reached(acts[q], ch))
             /\ IsContextMove((acts')[q], ch) <=> IsContextMove(acts[q], ch)
  <2>1. /\ Reached((acts')[q], ch) = Reached(acts[q], ch)
        /\ IsContextMove((acts')[q], ch) = IsContextMove(acts[q], ch)
    BY DEF SameMoves
  <2>2. PICK T : T = Reached(acts[q], ch)
    OBVIOUS
  <2>3. StandFor(T)' = StandFor(T)
    BY <1>1
  <2>4. StandFor(Reached(acts[q], ch))' = StandFor(T)'
    BY <2>1, <2>2 DEF StandFor
  <2> QED BY <2>1, <2>2, <2>3, <2>4
<1> QED BY <1>1, <1>2, StandsWellKept

\* MakeUnique splits two actions: the moves stay, so everything said of them does.
LEMMA CompareSubset ==
  ASSUME TypeOK, SubsetInv, Compare
  PROVE  SubsetInv'
<1>1. /\ pc \in {"unique", "meltUnique"} /\ pc' = pc /\ ib <= Len(acts[Subject])
      /\ UNCHANGED <<endOf, ctx, nr, chain, melted, lastSim, at, ma, source, mi, used, todo,
                     before, round, stale, failed>>
  BY DEF Compare, melting, marks, history, symbols
<1>2. CASE UNCHANGED acts
  <2>1. UNCHANGED <<heap, melted, lastSim, before, failed, round, stale, pc, at, ma, source, mi,
                    used, todo>>
    BY <1>1, <1>2 DEF heap
  <2> QED BY <2>1, OnlyCursorMoves
<1>3. ASSUME acts' = [acts EXCEPT ![Subject] = SplitActions(acts[Subject], ia, ib).acts]
      PROVE  SubsetInv'
  <2> DEFINE r == SplitActions(acts[Subject], ia, ib)
  <2>1. PICK s : s = Subject
    OBVIOUS
  <2>2. s \in Allocated /\ acts[s] \in Seq(Action(Allocated)) /\ s \in Listed
    <3>1. Subject \in Listed
      <4>1. at \in DOMAIN chain
        BY <1>1, ChainStates DEF TypeOK, PositionTypes
      <4> QED BY <4>1, SubsetBasics DEF Subject, Listed
    <3> QED BY <1>1, <2>1, <3>1, SubjectAllocated
  <2>3. ia \in 1..Len(acts[s]) /\ ib \in 1..Len(acts[s]) /\ ia < ib
    <3>1. Len(acts[s]) \in Nat
      BY <2>2
    <3> QED BY <1>1, <2>1, <3>1 DEF TypeOK, PositionTypes
  <2>4. \A Q : acts[s] \in Seq(Action(Q)) => SplitResult(Q, acts[s], r)
    BY <2>1, <2>3, SplitKeepsMoves
  <2> HIDE DEF r
  <2>5. (acts')[s] = r.acts /\ \A q : q # s => (acts')[q] = acts[q]
    BY <1>3, <2>1, <2>2 DEF r, Allocated
  <2>6. \A q : SameMoves((acts')[q], acts[q])
    BY <2>2, <2>4, <2>5 DEF SplitResult, SameMoves
  <2>7. Building' <=> Building
    BY <1>1 DEF Building
  <2>8. SettledLen' = SettledLen /\ Settled' = Settled /\ Listed' = Listed
    BY <1>1, <2>7, SameSettled
  <2>9. Numbered'
    BY <1>1 DEF SubsetInv, Numbered
  <2>10. Len(acts') = Len(acts)
    <3>1. acts \in Seq(Seq(Action(Allocated)))
      BY DEF TypeOK, HeapTypes
    <3> QED BY <1>3, <3>1
  <2>11. BeforeTypes'
    BY <1>1, <2>10 DEF SubsetInv, BeforeTypes
  <2>12. ASSUME ~stale
         PROVE  TargetsListed' /\ Entries' /\ StandsRight' /\ Copied' /\ Built' /\ Marked'
                /\ Simulated'
    <3>1. /\ LeadInto(Listed, Settled) /\ Entries /\ \A q \in Settled : StandsWell(q)
          /\ Built
      BY <1>1, <2>12 DEF SubsetInv, TargetsListed, StandsRight, Melting
    <3>2. LeadInto(Listed, Settled)'
      <4>1. PICK L, S : L = Listed /\ S = Settled
        OBVIOUS
      <4>2. \A q \in L : acts[q] \in Seq(Action(S))
        BY <3>1, <4>1, LeadIntoLists, SubsetBasics
      <4>3. \A q \in L : (acts')[q] \in Seq(Action(S))
        BY <2>2, <2>4, <2>5, <4>1, <4>2 DEF SplitResult
      <4>4. LeadInto(L, S)'
        BY <4>3, ListsLeadInto
      <4> QED BY <2>8, <4>1, <4>4 DEF LeadInto
    <3>3. TargetsListed'
      BY <1>1, <3>2 DEF TargetsListed
    <3>4. Entries'
      <4>1. MaxStates' = MaxStates
        BY <1>1 DEF MaxStates
      <4> QED BY <1>1, <2>8, <3>1, <4>1 DEF Entries
    <3>5. StandsRight'
      <4>1. \A q \in Settled : StandsWell(q)'
        BY <1>1, <2>6, <3>1, SameMovesStand
      <4> QED BY <2>8, <4>1 DEF StandsRight
    <3>6. Copied' /\ Marked' /\ Simulated'
      BY <1>1 DEF Copied, Marked, Simulated
    <3>7. Built'
      <4>1. CASE pc = "unique"
        BY <1>1, <4>1 DEF Built, Building
      <4>2. CASE pc = "meltUnique"
        <5>1. s # chain[at] /\ s = LastState
          BY <1>1, <2>1, <4>2, SubjectAllocated DEF Subject
        <5>2. Melter' = Melter /\ Melted' = Melted /\ LastState' = LastState
          BY <1>1, <2>5, <5>1 DEF Melter, Melted, LastState
        <5>3. Ending(Melter[ma])' = Ending(Melter[ma])
          BY <1>1, <5>2 DEF Ending
        <5>4. Conflict(Melter[ma])' <=> Conflict(Melter[ma])
          BY <1>1, <5>2, <5>3 DEF Conflict
        <5>5. \A q : \A ch \in Chars :
                /\ Reached((acts')[q], ch) = Reached(acts[q], ch)
                /\ IsContextMove((acts')[q], ch) <=> IsContextMove(acts[q], ch)
          BY <2>6 DEF SameMoves
        <5>6. ASSUME NEW ch \in Chars
              PROVE  /\ Reached((acts')[LastState], ch)
                          = UNION {Reached((acts')[t], ch) : t \in Melted}
                     /\ IsContextMove((acts')[LastState], ch)
                          <=> \E t \in Melted : IsContextMove((acts')[t], ch)
          <6>1. /\ Reached(acts[LastState], ch) = UNION {Reached(acts[t], ch) : t \in Melted}
                /\ IsContextMove(acts[LastState], ch)
                     <=> \E t \in Melted : IsContextMove(acts[t], ch)
            BY <3>1, <4>2 DEF Built
          <6>2. UNION {Reached((acts')[t], ch) : t \in Melted}
                  = UNION {Reached(acts[t], ch) : t \in Melted}
            BY <5>5
          <6> QED BY <5>5, <6>1, <6>2
        <5>7. /\ Melted \subseteq Settled /\ Cardinality(Melted) > 1
              /\ IF Ending(Melter[ma]) = {} THEN endOf[LastState] = NoSym
                 ELSE \E t \in Ending(Melter[ma]) : endOf[LastState] = endOf[t]
              /\ ~failed => ~Conflict(Melter[ma])
              /\ ctx[LastState] <=> \E t \in Melted : ctx[t]
          BY <3>1, <4>2 DEF Built, Building
        <5>8. (ctx')[LastState] <=> \E t \in Melted : (ctx')[t]
          BY <1>1, <5>7
        <5> QED BY <1>1, <2>8, <5>2, <5>3, <5>4, <5>6, <5>7, <5>8 DEF Built
      <4> QED BY <1>1, <4>1, <4>2
    <3> QED BY <3>3, <3>4, <3>5, <3>6, <3>7
  <2> QED BY <1>1, <2>9, <2>11, <2>12 DEF SubsetInv
<1> QED BY <1>2, <1>3 DEF Compare

----------------------------------------------------------------------------
(* Melting.                                                                *)

\* The bytes of a set hold all of its bits.
LEMMA RoundUp ==
  ASSUME NEW l \in Nat, l >= 1
  PROVE  Stored(2 * l) \in Nat /\ Stored(2 * l) > l
<1>1. PICK d : d = (2 * l + 7) \div 8
  OBVIOUS
<1>2. d \in Nat /\ 8 * d > 2 * l + 7 - 8
  BY <1>1
<1> QED BY <1>1, <1>2 DEF Stored

\* The action melted has targets that are settled, and not only the first state.
LEMMA SeveralTargets ==
  ASSUME TypeOK, SubsetInv, ~stale, pc \in Melting, NEW T, T \subseteq Settled,
         Cardinality(T) > 1
  PROVE  lastSim \in Nat /\ lastSim >= 1 /\ T # {}
<1>1. lastSim \in Nat
  BY DEF TypeOK, RoundTypes
<1>2. ASSUME lastSim = 0 PROVE FALSE
  <2>1. Len(chain) = 1 /\ DOMAIN chain = 1..Len(chain)
    BY <1>2, ChainStates DEF SubsetInv, Entries
  <2>2. Listed = {chain[1]}
    BY <2>1 DEF Listed
  <2>3. T \subseteq {chain[1]}
    BY <2>2, SubsetBasics
  <2>4. T = {} \/ T = {chain[1]}
    BY <2>3
  <2>5. Cardinality(T) = 0 \/ Cardinality(T) = 1
    BY <2>4, FS_EmptySet, FS_Singleton
  <2> QED BY <2>5
<1>3. T # {}
  <2>1. Cardinality({}) = 0
    BY FS_EmptySet
  <2> QED BY <2>1
<1> QED BY <1>1, <1>2, <1>3

\* TargetSet joins the sets its targets stand for.
LEMMA TargetSetIs ==
  ASSUME TypeOK, SubsetInv, ~stale, pc \in Melting, NEW a, a.targets \subseteq Settled,
         Cardinality(a.targets) > 1
  PROVE  /\ TargetSet(a) = UNION {Numbers(t) : t \in a.targets}
         /\ TargetSet(a) # {} /\ TargetSet(a) \subseteq 0..lastSim
         /\ {chain[n + 1] : n \in TargetSet(a)} = StandFor(a.targets)
<1>1. lastSim \in Nat /\ lastSim >= 1 /\ a.targets # {}
  BY SeveralTargets
<1>2. ASSUME NEW t \in a.targets
      PROVE  /\ Numbers(t) # {} /\ Numbers(t) \subseteq 0..lastSim
             /\ (IF nr[t] <= lastSim THEN {nr[t]}
                 ELSE MeltedSet(nr[t]) \cap (0..Stored(MaxStates) - 1)) = Numbers(t)
  <2>1. Numbers(t) # {} /\ Numbers(t) \subseteq 0..lastSim
    BY DEF SubsetInv, StandsRight, StandsWell
  <2>2. Stored(MaxStates) \in Nat /\ Stored(MaxStates) > lastSim
    BY <1>1, RoundUp DEF MaxStates
  <2>3. 0..lastSim \subseteq (0..Stored(MaxStates) - 1)
    BY <1>1, <2>2
  <2> QED BY <2>1, <2>3 DEF Numbers
<1>3. TargetSet(a) = UNION {Numbers(t) : t \in a.targets}
  BY <1>2 DEF TargetSet
<1>4. {chain[n + 1] : n \in TargetSet(a)} = StandFor(a.targets)
  BY <1>3 DEF StandFor, StandsFor
<1> QED BY <1>1, <1>2, <1>3, <1>4

\* The action that is melted leads to one state, the others lead where they did.
LEMMA RetargetMoves ==
  ASSUME TypeOK, NEW s, at \in DOMAIN chain
  PROVE  /\ Retarget(Melter, s) \in Seq(Action(Allocated \cup {s}))
         /\ DOMAIN Retarget(Melter, s) = DOMAIN Melter
         /\ \A m \in DOMAIN Melter :
              /\ Retarget(Melter, s)[m].syms = Melter[m].syms
              /\ Retarget(Melter, s)[m].tc = Melter[m].tc
              /\ Retarget(Melter, s)[m].targets = IF m = ma THEN {s} ELSE Melter[m].targets
<1>1. Melter \in Seq(Action(Allocated))
  BY ChainStates DEF Melter
<1>2. DOMAIN Melter = 1..Len(Melter) /\ Len(Melter) \in Nat
  BY <1>1
<1>3. Retarget(Melter, s) = [m \in DOMAIN Melter |->
         IF m = ma THEN [Melter[m] EXCEPT !.targets = {s}] ELSE Melter[m]]
  BY <1>1 DEF Retarget
<1>4. PICK B : B = Action(Allocated \cup {s})
  OBVIOUS
<1>5. ASSUME NEW m \in DOMAIN Melter
      PROVE  /\ Retarget(Melter, s)[m] \in B
             /\ Retarget(Melter, s)[m].syms = Melter[m].syms
             /\ Retarget(Melter, s)[m].tc = Melter[m].tc
             /\ Retarget(Melter, s)[m].targets = IF m = ma THEN {s} ELSE Melter[m].targets
  <2>1. Melter[m] \in Action(Allocated)
    BY <1>1, <1>2, ElementOfSeq
  <2>2. CASE m = ma
    <3>1. Retarget(Melter, s)[m] = [Melter[m] EXCEPT !.targets = {s}]
      BY <1>3, <2>2
    <3> QED BY <1>4, <2>1, <2>2, <3>1 DEF Action
  <2>3. CASE m # ma
    <3>1. Retarget(Melter, s)[m] = Melter[m]
      BY <1>3, <2>3
    <3>2. Melter[m] \in Action(Allocated \cup {s})
      BY <2>1, ActionGrows
    <3> QED BY <1>4, <2>3, <3>1, <3>2
  <2> QED BY <2>2, <2>3
<1>6. Retarget(Melter, s) \in [1..Len(Melter) -> B]
  BY <1>2, <1>3, <1>5
<1>7. Retarget(Melter, s) \in Seq(B)
  BY <1>2, <1>6, FunctionSeq, Zenon
<1> QED BY <1>3, <1>4, <1>5, <1>7

\* What the moves of a list stand for.
LEMMA StandReached ==
  ASSUME NEW list, NEW ch, NEW x
  PROVE  /\ x \in StandFor(Reached(list, ch)) <=>
              \E k \in DOMAIN list : ch \in list[k].syms /\ \E t \in list[k].targets : x \in StandsFor(t)
         /\ x \in StandFor(Reached(list, ch))' <=>
              \E k \in DOMAIN list : ch \in list[k].syms /\ \E t \in list[k].targets : x \in StandsFor(t)'
<1>1. PICK T : T = Reached(list, ch)
  OBVIOUS
<1>2. x \in StandFor(T) <=> \E t \in T : x \in StandsFor(t)
  BY DEF StandFor
<1>3. x \in StandFor(T)' <=> \E t \in T : x \in StandsFor(t)'
  BY DEF StandFor
<1>4. \A t : t \in T <=> \E k \in DOMAIN list : ch \in list[k].syms /\ t \in list[k].targets
  BY <1>1, ReachedMember
<1> QED BY <1>1, <1>2, <1>3, <1>4

\* The state melted goes on standing for its set when the several targets of an
\* action are replaced by a state that stands for theirs, and so do the others.
LEMMA RetargetStands ==
  ASSUME TypeOK, SubsetInv, ~stale, pc \in {"melt", "meltUnique"}, ma \in DOMAIN Melter, NEW s,
         acts' = [acts EXCEPT ![chain[at]] = Retarget(Melter, s)],
         before' = before, lastSim' = lastSim, failed => failed', endOf' = endOf, ctx' = ctx,
         \A t \in Settled : Numbers(t)' = Numbers(t) /\ StandsFor(t)' = StandsFor(t),
         StandsFor(s)' = StandFor(Melter[ma].targets)
  PROVE  \A q \in Settled : StandsWell(q)'
<1> TAKE q \in Settled
<1>1. /\ at \in DOMAIN chain /\ chain[at] \in Settled /\ q \in Allocated
      /\ Settled \subseteq Allocated
  <2>1. pc = "melt" => at \in 1..SettledLen
    <3> SUFFICES ASSUME pc = "melt" PROVE at \in 1..SettledLen
      OBVIOUS
    <3>1. SettledLen = Len(chain)
      BY SettledLenIs DEF Building
    <3>2. at \in 1..Len(chain)
      BY ChainStates DEF TypeOK, PositionTypes
    <3> QED BY <3>1, <3>2, Zenon
  <2>2. pc = "meltUnique" => at \in 1..SettledLen
    BY SettledLenIs DEF Building
  <2> QED BY <2>1, <2>2, SubsetBasics
<1>2. /\ LeadInto(Settled, Settled) /\ StandsWell(q)
  BY SubsetBasics DEF SubsetInv, TargetsListed, StandsRight, Melting, LeadInto
<1>3. ASSUME NEW ch \in Chars
      PROVE  /\ StandFor(Reached(acts[q], ch))' = StandFor(Reached(acts[q], ch))
             /\ IsContextMove((acts')[q], ch) <=> IsContextMove(acts[q], ch)
  <2>1. PICK l1, l2 : l1 = acts[q] /\ l2 = (acts')[q]
    OBVIOUS
  <2>2. StandFor(Reached(acts[q], ch))' = StandFor(Reached(l2, ch))'
    BY <2>1 DEF StandFor
  <2>3. \A k \in DOMAIN l1 : \A t \in l1[k].targets : t \in Settled
    BY <1>2, <2>1 DEF LeadInto
  <2>4. CASE q # chain[at]
    <3>1. l1 = l2
      BY <2>1, <2>4
    <3>2. \A x : x \in StandFor(Reached(l2, ch))' <=> x \in StandFor(Reached(l1, ch))
      BY <2>3, <3>1, StandReached
    <3> QED BY <2>1, <2>2, <3>1, <3>2
  <2>5. CASE q = chain[at]
    <3>1. l1 = Melter /\ l2 = Retarget(Melter, s)
      BY <1>1, <2>1, <2>5 DEF Melter, Allocated
    <3>2. /\ DOMAIN l2 = DOMAIN l1
          /\ \A m \in DOMAIN l1 :
               /\ l2[m].syms = l1[m].syms /\ l2[m].tc = l1[m].tc
               /\ l2[m].targets = IF m = ma THEN {s} ELSE l1[m].targets
      BY <1>1, <3>1, RetargetMoves
    <3>3. \A k \in DOMAIN l1 : \A x :
            (\E t \in l2[k].targets : x \in StandsFor(t)') <=> (\E t \in l1[k].targets : x \in StandsFor(t))
      <4> SUFFICES ASSUME NEW k \in DOMAIN l1, NEW x
                   PROVE  (\E t \in l2[k].targets : x \in StandsFor(t)')
                            <=> (\E t \in l1[k].targets : x \in StandsFor(t))
        OBVIOUS
      <4>1. CASE k = ma
        <5>1. l2[k].targets = {s}
          BY <3>2, <4>1
        <5>2. (\E t \in l2[k].targets : x \in StandsFor(t)') <=> x \in StandsFor(s)'
          BY <5>1
        <5>3. StandsFor(s)' = UNION {StandsFor(t) : t \in l1[k].targets}
          BY <3>1, <4>1 DEF StandFor
        <5> QED BY <5>2, <5>3
      <4>2. CASE k # ma
        <5>1. l2[k].targets = l1[k].targets
          BY <3>2, <4>2
        <5> QED BY <2>3, <5>1
      <4> QED BY <4>1, <4>2
    <3>4. \A x : x \in StandFor(Reached(l2, ch))' <=> x \in StandFor(Reached(l1, ch))
      BY <3>2, <3>3, StandReached
    <3>5. IsContextMove(l2, ch) <=> IsContextMove(l1, ch)
      BY <3>2 DEF IsContextMove
    <3> QED BY <2>1, <2>2, <3>4, <3>5
  <2> QED BY <2>4, <2>5
<1> QED BY <1>2, <1>3, StandsWellKept

\* An entry of this round with the set of targets belongs to a state that stands
\* for what the targets stand for.
LEMMA KnownState ==
  ASSUME TypeOK, SubsetInv, ~stale, pc = "melt", NEW a, a.targets \subseteq Settled,
         Cardinality(a.targets) > 1, NEW k \in Matches(TargetSet(a)), melted[k].round >= round
  PROVE  melted[k].state \in Settled /\ StandsFor(melted[k].state) = StandFor(a.targets)
<1>1. lastSim \in Nat /\ lastSim >= 1
  BY SeveralTargets DEF Melting
<1>2. /\ TargetSet(a) \subseteq 0..lastSim
      /\ {chain[n + 1] : n \in TargetSet(a)} = StandFor(a.targets)
  BY TargetSetIs DEF Melting
<1>3. k \in DOMAIN melted /\ MayEqual(TargetSet(a), melted[k])
  BY DEF Matches
<1>4. Len(melted) \in Nat /\ DOMAIN melted = 1..Len(melted) /\ round \in Nat
  BY DEF TypeOK, RoundTypes
<1>5. PICK n \in Nat \ {0} : n = SettledLen
  BY SettledLenIs
<1>6. /\ k <= n - 1 - lastSim /\ melted[k].state = chain[n + 1 - k]
      /\ melted[k].size = MaxStates
  <2>1. IF k <= SettledLen - 1 - lastSim
          THEN /\ melted[k].state = chain[SettledLen + 1 - k]
               /\ melted[k].round = round /\ melted[k].size = MaxStates
          ELSE melted[k].round < round
    BY <1>3 DEF SubsetInv, Entries, Melting
  <2>2. ~(melted[k].round < round)
    <3> DEFINE R == [set : SUBSET Nat, size : Nat, state : Allocated, round : Nat]
    <3>1. melted \in Seq(R) /\ \A m \in R : m.round \in Nat
      BY DEF TypeOK, RoundTypes
    <3> HIDE DEF R
    <3>2. melted[k] \in R
      BY <1>3, <3>1
    <3> QED BY <1>4, <3>1, <3>2
  <2> QED BY <1>5, <2>1, <2>2
<1>7. PICK p : p = n + 1 - k
  OBVIOUS
<1>8. k \in Nat \ {0} /\ p \in 1..n /\ p - 1 > lastSim /\ n + 1 - p = k
  BY <1>1, <1>3, <1>4, <1>6, <1>7
<1>9. Numbers(chain[p]) = melted[k].set
  <2>1. p \in 1..SettledLen /\ SettledLen + 1 - p = k
    BY <1>5, <1>8
  <2>2. Numbered /\ Entries /\ pc \in Melting
    BY DEF SubsetInv, Melting
  <2>3. Numbers(chain[p]) = melted[SettledLen + 1 - p].set
    BY <1>8, <2>1, <2>2, SettledNumbers
  <2> QED BY <2>1, <2>3
<1>10. chain[p] \in Settled
  BY <1>5, <1>8, SubsetBasics
<1>11. melted[k].set \subseteq 0..lastSim
  BY <1>9, <1>10 DEF SubsetInv, StandsRight, StandsWell, Melting
<1>12. TargetSet(a) = melted[k].set
  <2>1. Stored(MaxStates) \in Nat /\ Stored(MaxStates) > lastSim
    BY <1>1, RoundUp DEF MaxStates
  <2>2. \A i \in 0..lastSim : i \in 0..(MaxStates - 1) /\ i < Stored(melted[k].size)
    BY <1>1, <1>6, <2>1 DEF MaxStates
  <2>3. \A i \in 0..lastSim : i \in TargetSet(a) <=> i \in melted[k].set
    BY <1>3, <2>2 DEF MayEqual
  <2> QED BY <1>2, <1>11, <2>3
<1>13. StandsFor(chain[p]) = StandFor(a.targets)
  BY <1>2, <1>9, <1>12 DEF StandsFor
<1> QED BY <1>6, <1>7, <1>10, <1>13

\* The action melted leads to several settled states.
LEMMA MeltedTargets ==
  ASSUME TypeOK, SubsetInv, ~stale, pc \in {"melt", "meltWith", "meltUnique"}
  PROVE  /\ at \in DOMAIN chain /\ chain[at] \in Settled /\ Melter \in Seq(Action(Settled))
         /\ \A m \in DOMAIN Melter : Melter[m].targets \subseteq Settled
         /\ ma <= Len(Melter) => ma \in DOMAIN Melter
         /\ pc # "melt" => ma \in DOMAIN Melter
<1>1. at \in DOMAIN chain /\ chain[at] \in Settled
  <2>1. at \in 1..SettledLen
    <3>1. CASE pc = "melt"
      <4>1. SettledLen = Len(chain)
        BY <3>1, SettledLenIs DEF Building
      <4>2. at \in 1..Len(chain)
        BY <3>1, ChainStates DEF TypeOK, PositionTypes
      <4> QED BY <4>1, <4>2, Zenon
    <3>2. CASE pc # "melt"
      BY <3>2, SettledLenIs DEF Building
    <3> QED BY <3>1, <3>2
  <2> QED BY <2>1, SubsetBasics
<1>2. LeadInto(Settled, Settled)
  BY SubsetBasics DEF SubsetInv, TargetsListed, Melting, LeadInto
<1>3. Melter \in Seq(Action(Settled))
  <2>1. Settled \subseteq Allocated
    BY SubsetBasics
  <2> QED BY <1>1, <1>2, <2>1, LeadIntoLists DEF Melter
<1>4. \A m \in DOMAIN Melter : Melter[m].targets \subseteq Settled
  BY <1>3, IntoList
<1>5. ma \in Nat \ {0} /\ (pc # "melt" => ma <= Len(Melter))
  BY DEF TypeOK, PositionTypes
<1>6. Len(Melter) \in Nat /\ DOMAIN Melter = 1..Len(Melter)
  BY <1>3
<1> QED BY <1>1, <1>3, <1>4, <1>5, <1>6

\* The state for the set of targets exists: it stands for what they stand for together.
LEMMA MeltKnownSubset ==
  ASSUME TypeOK, SubsetInv, MeltKnown
  PROVE  SubsetInv'
<1>1. PICK k \in Matches(TargetSet(Melter[ma])) :
        /\ acts' = [acts EXCEPT ![chain[at]] = Retarget(Melter, melted[k].state)]
        /\ stale' = (stale \/ ReadsStale(Melter[ma]) \/ melted[k].round < round)
  BY DEF MeltKnown, Melter
<1>2. /\ pc = "melt" /\ pc' = "melt" /\ failed' = (failed \/ Conflict(Melter[ma]))
      /\ ma <= Len(Melter) /\ Cardinality(Melter[ma].targets) > 1
      /\ UNCHANGED <<endOf, ctx, nr, chain, melted, lastSim, at, round, before>>
  BY DEF MeltKnown, Melts, history
<1>3. Numbered'
  BY <1>2 DEF SubsetInv, Numbered
<1>4. Len(acts') = Len(acts)
  <2>1. acts \in Seq(Seq(Action(Allocated)))
    BY DEF TypeOK, HeapTypes
  <2> QED BY <1>1, <2>1
<1>5. BeforeTypes'
  BY <1>2, <1>4 DEF SubsetInv, BeforeTypes
<1>6. ~Building /\ ~Building'
  BY <1>2 DEF Building
<1>7. SettledLen' = SettledLen /\ Settled' = Settled /\ Listed' = Listed /\ Settled = Listed
  BY <1>2, <1>6, SameSettled, SubsetBasics
<1>8. ASSUME ~stale'
      PROVE  TargetsListed' /\ Entries' /\ StandsRight'
  <2>1. ~stale /\ ~(melted[k].round < round)
    BY <1>1, <1>8
  <2>2. PICK s : s = melted[k].state
    OBVIOUS
  <2>3. /\ at \in DOMAIN chain /\ chain[at] \in Settled /\ Melter \in Seq(Action(Settled))
        /\ ma \in DOMAIN Melter /\ Melter[ma].targets \subseteq Settled
    BY <1>2, <2>1, MeltedTargets
  <2>4. s \in Settled /\ StandsFor(s) = StandFor(Melter[ma].targets)
    <3>1. melted[k].round >= round
      <4> DEFINE R == [set : SUBSET Nat, size : Nat, state : Allocated, round : Nat]
      <4>1. melted \in Seq(R) /\ round \in Nat /\ \A m \in R : m.round \in Nat
        BY DEF TypeOK, RoundTypes
      <4>2. k \in DOMAIN melted
        BY DEF Matches
      <4> HIDE DEF R
      <4>3. melted[k] \in R
        BY <4>1, <4>2
      <4> QED BY <2>1, <4>1, <4>3
    <3> QED BY <1>2, <2>1, <2>2, <2>3, <3>1, KnownState
  <2>5. /\ \A t : Numbers(t)' = Numbers(t) /\ StandsFor(t)' = StandsFor(t)
    BY <1>2, StandsUnchanged
  <2>6. \A q \in Settled : StandsWell(q)'
    <3>1. acts' = [acts EXCEPT ![chain[at]] = Retarget(Melter, s)]
      BY <1>1, <2>2
    <3>2. failed => failed'
      BY <1>2
    <3>3. StandsFor(s)' = StandFor(Melter[ma].targets)
      BY <2>4, <2>5
    <3> QED BY <1>2, <2>1, <2>3, <2>5, <3>1, <3>2, <3>3, RetargetStands
  <2>7. StandsRight'
    BY <1>7, <2>6 DEF StandsRight
  <2>8. LeadInto(Listed, Settled)'
    <3>1. PICK S : S = Settled
      OBVIOUS
    <3>2. LeadInto(S, S)
      BY <1>2, <1>7, <2>1, <3>1 DEF SubsetInv, TargetsListed, Melting
    <3>3. \A q \in S : acts[q] \in Seq(Action(S))
      BY <3>1, <3>2, SubsetBasics, LeadIntoLists
    <3>4. \A q \in S : (acts')[q] \in Seq(Action(S))
      <4> TAKE q \in S
      <4>1. CASE q # chain[at]
        BY <1>1, <3>3, <4>1
      <4>2. CASE q = chain[at]
        <5>1. (acts')[q] = Retarget(Melter, s)
          BY <1>1, <2>2, <2>3, <4>2, SubsetBasics DEF Allocated
        <5>2. /\ Retarget(Melter, s) \in Seq(Action(Allocated \cup {s}))
              /\ DOMAIN Retarget(Melter, s) = DOMAIN Melter
              /\ \A m \in DOMAIN Melter :
                   Retarget(Melter, s)[m].targets = IF m = ma THEN {s} ELSE Melter[m].targets
          BY <2>3, RetargetMoves
        <5>3. \A m \in DOMAIN Melter : Melter[m].targets \subseteq S
          BY <2>3, <3>1, IntoList
        <5>4. \A m \in DOMAIN Retarget(Melter, s) : Retarget(Melter, s)[m].targets \subseteq S
          BY <2>4, <3>1, <5>2, <5>3
        <5> QED BY <5>1, <5>2, <5>4, ListInto
      <4> QED BY <4>1, <4>2
    <3>5. LeadInto(S, S)'
      BY <3>4, ListsLeadInto
    <3> QED BY <1>7, <3>1, <3>5 DEF LeadInto
  <2>9. TargetsListed'
    BY <1>2, <2>8 DEF TargetsListed
  <2>10. Entries'
    <3>1. MaxStates' = MaxStates
      BY <1>2 DEF MaxStates
    <3> QED BY <1>2, <1>7, <2>1, <3>1 DEF SubsetInv, Entries, Melting
  <2> QED BY <2>7, <2>9, <2>10
<1>9. Copied' /\ Built' /\ Marked' /\ Simulated'
  BY <1>2, <1>6 DEF Copied, Built, Marked, Simulated, Building
<1> QED BY <1>3, <1>5, <1>8, <1>9 DEF SubsetInv

\* EndOfTargets is what some ending target ends.
LEMMA EndOfTargetsIs ==
  ASSUME TypeOK, NEW a, a.targets \subseteq Allocated, Ending(a) # {}
  PROVE  \E t \in Ending(a) : EndOfTargets(a) = endOf[t]
<1>1. Ending(a) \subseteq Allocated
  BY DEF Ending
<1>2. PICK N : N = {nr[t] : t \in Ending(a)}
  OBVIOUS
<1>3. N \subseteq Nat /\ N # {}
  BY <1>1, <1>2, SubsetBasics
<1>4. PICK x \in N : \A y \in N : x <= y
  BY <1>3, LeastNat
<1>5. \E t \in Ending(a) : \A u \in Ending(a) : nr[t] <= nr[u]
  BY <1>2, <1>4
<1> QED BY <1>5 DEF EndOfTargets

\* Numbers depend on the numbers of the entries' states.
LEMMA SameNumbersIn ==
  ASSUME NEW ms, NEW f, NEW g, NEW l, NEW q, g[q] = f[q],
         \A j \in 1..Len(ms) : g[ms[j].state] = f[ms[j].state]
  PROVE  NumbersIn(ms, g, l, q) = NumbersIn(ms, f, l, q)
<1>1. \A n : {j \in 1..Len(ms) : g[ms[j].state] = n} = {j \in 1..Len(ms) : f[ms[j].state] = n}
  OBVIOUS
<1>2. \A n : FirstWith(ms, g, n) = FirstWith(ms, f, n)
  BY <1>1, Zenon DEF FirstWith
<1> QED BY <1>2 DEF NumbersIn

\* A new state is begun: it is listed and numbered, and not settled yet.
LEMMA MeltNewSubset ==
  ASSUME TypeOK, SubsetInv, MeltNew
  PROVE  SubsetInv'
<1> DEFINE a == Melter[ma]
<1>1. /\ pc = "melt" /\ ma <= Len(Melter) /\ Cardinality(a.targets) > 1 /\ pc' = "meltWith"
      /\ acts' = Append(acts, <<>>) /\ endOf' = Append(endOf, EndOfTargets(a))
      /\ ctx' = Append(ctx, \E t \in a.targets : ctx[t]) /\ nr' = Append(nr, LastNr + 1)
      /\ chain' = Append(chain, Len(acts) + 1)
      /\ source' = a.targets /\ mi' = 1 /\ failed' = (failed \/ Conflict(a))
      /\ stale' = (stale \/ ReadsStale(a))
      /\ UNCHANGED <<melted, lastSim, at, ma, round, before>>
  BY DEF MeltNew, Melts, history
<1> HIDE DEF a
<1>2. PICK c \in Nat \ {0}, n \in Nat \ {0} : c = Len(chain) /\ n = Len(acts)
  BY ChainStates
<1>3. /\ DOMAIN chain = 1..c /\ DOMAIN acts = 1..n /\ LastNr + 1 = c
      /\ \A k \in 1..c : chain[k] \in 1..n
  BY <1>2, ChainStates DEF LastNr, Allocated
<1>4. /\ \A q \in 1..n : /\ (acts')[q] = acts[q] /\ (endOf')[q] = endOf[q]
                         /\ (ctx')[q] = ctx[q] /\ (nr')[q] = nr[q]
      /\ \A k \in 1..c : (chain')[k] = chain[k]
      /\ (acts')[n + 1] = <<>> /\ (endOf')[n + 1] = EndOfTargets(a)
      /\ (nr')[n + 1] = c /\ (chain')[c + 1] = n + 1
      /\ DOMAIN (chain') = 1..(c + 1) /\ Len(chain') = c + 1 /\ Len(acts') = n + 1
  <2>1. /\ acts \in Seq(Seq(Action(Allocated))) /\ endOf \in Seq(Syms \cup {NoSym})
        /\ nr \in Seq(Nat) /\ chain \in Seq(Allocated) /\ ctx \in Seq(BOOLEAN)
        /\ Len(endOf) = n /\ Len(ctx) = n /\ Len(nr) = n
    BY <1>2 DEF TypeOK, HeapTypes
  <2> HIDE DEF Allocated
  <2>2. \A q \in 1..n : (acts')[q] = acts[q]
    BY <1>1, <1>2, <2>1
  <2>3. \A q \in 1..n : (endOf')[q] = endOf[q]
    <3>1. PICK e : e = EndOfTargets(a)
      OBVIOUS
    <3>2. endOf' = Append(endOf, e)
      BY <1>1, <3>1
    <3> QED BY <2>1, <3>2
  <2>4. \A q \in 1..n : (ctx')[q] = ctx[q]
    <3>1. PICK b \in BOOLEAN : b <=> \E t \in a.targets : ctx[t]
      OBVIOUS
    <3>2. ctx' = Append(ctx, b)
      BY <1>1, <3>1
    <3> QED BY <2>1, <3>2
  <2>5. \A q \in 1..n : (nr')[q] = nr[q]
    BY <1>1, <1>2, <2>1
  <2>6. \A k \in 1..c : (chain')[k] = chain[k]
    BY <1>1, <1>2, <2>1
  <2>7. (acts')[n + 1] = <<>> /\ Len(acts') = n + 1
    BY <1>1, <1>2, <2>1
  <2>8. (endOf')[n + 1] = EndOfTargets(a)
    <3>1. PICK e : e = EndOfTargets(a)
      OBVIOUS
    <3>2. endOf' = Append(endOf, e)
      BY <1>1, <3>1
    <3>3. (endOf')[n + 1] = e
      BY <2>1, <3>2
    <3> QED BY <3>1, <3>3
  <2>9. (nr')[n + 1] = c
    BY <1>1, <1>2, <1>3, <2>1
  <2>10. (chain')[c + 1] = n + 1 /\ DOMAIN (chain') = 1..(c + 1) /\ Len(chain') = c + 1
    BY <1>1, <1>2, <2>1
  <2> QED BY <2>2, <2>3, <2>4, <2>5, <2>6, <2>7, <2>8, <2>9, <2>10
<1>5. ((ctx')[n + 1] <=> \E t \in a.targets : ctx[t])
  <2>1. Len(ctx) = n /\ ctx \in Seq(BOOLEAN)
    BY <1>2 DEF TypeOK, HeapTypes
  <2>2. PICK b \in BOOLEAN : b <=> \E t \in a.targets : ctx[t]
    OBVIOUS
  <2>3. ctx' = Append(ctx, b)
    BY <1>1, <2>2
  <2>4. (ctx')[n + 1] = b
    BY <2>1, <2>3
  <2> QED BY <2>2, <2>4
<1>6. Numbered'
  <2>1. \A k \in 1..c : nr[chain[k]] = k - 1
    BY <1>1, <1>3 DEF SubsetInv, Numbered
  <2>2. \A k \in 1..c : (nr')[(chain')[k]] = k - 1
    <3> TAKE k \in 1..c
    <3>1. PICK q \in 1..n : q = chain[k]
      BY <1>3
    <3>2. (chain')[k] = q /\ (nr')[q] = nr[q] /\ nr[q] = k - 1
      BY <1>4, <2>1, <3>1
    <3> QED BY <3>2
  <2>3. (nr')[(chain')[c + 1]] = (c + 1) - 1
    BY <1>4
  <2>4. \A k \in 1..(c + 1) : k \in 1..c \/ k = c + 1
    OBVIOUS
  <2>5. \A k \in 1..(c + 1) : (nr')[(chain')[k]] = k - 1
    BY <2>2, <2>3, <2>4
  <2> QED BY <1>4, <2>5 DEF Numbered
<1>7. BeforeTypes'
  <2>1. BeforeTypes
    BY DEF SubsetInv
  <2>2. DOMAIN before.acts = 1..Len(before.acts) /\ Len(before.acts) \in Nat
        /\ Len(before.acts) <= n
    BY <1>2, <2>1 DEF BeforeTypes
  <2>3. \A q \in DOMAIN before.acts : q \in 1..n
    BY <2>2
  <2>4. \A q \in DOMAIN before.acts : (endOf')[q] = before.endOf[q] /\ (ctx')[q] = before.ctx[q]
    BY <1>4, <2>1, <2>3 DEF BeforeTypes
  <2>5. Len(before.acts) <= Len(acts')
    BY <1>4, <2>2
  <2>6. lastSim \in Nat /\ lastSim < c /\ lastSim < c + 1
    BY <1>1, <1>2, <2>1 DEF BeforeTypes, Melting, TypeOK, RoundTypes
  <2>7. \A k \in 1..(lastSim + 1) : (chain')[k] \in DOMAIN before.acts
    <3>1. \A k \in 1..(lastSim + 1) : chain[k] \in DOMAIN before.acts
      BY <1>1, <2>1 DEF BeforeTypes, Melting
    <3>2. \A k \in 1..(lastSim + 1) : k \in 1..c
      BY <2>6
    <3> QED BY <1>4, <3>1, <3>2
  <2> QED BY <1>1, <1>4, <2>1, <2>4, <2>5, <2>6, <2>7 DEF BeforeTypes
<1>8. ~Building /\ Building'
  BY <1>1 DEF Building
<1>9. PICK S : S = Settled
  OBVIOUS
<1>10. S = Listed /\ S = {chain[k] : k \in 1..c} /\ S \subseteq 1..n /\ SettledLen = c
  <2>1. SettledLen = c
    BY <1>2, <1>8, SettledLenIs
  <2>2. S = Listed /\ Listed \subseteq 1..n
    BY <1>3, <1>8, <1>9, SubsetBasics DEF Allocated
  <2>3. Listed = {chain[k] : k \in 1..c}
    BY <1>3 DEF Listed
  <2> QED BY <2>1, <2>2, <2>3
<1>11. SettledLen' = c /\ Settled' = S /\ Listed' = S \cup {n + 1}
  <2>1. SettledLen' = c
    BY <1>4, <1>8 DEF SettledLen
  <2>2. Settled' = {(chain')[k] : k \in 1..c}
    BY <2>1 DEF Settled
  <2>3. Listed' = {(chain')[k] : k \in 1..(c + 1)}
    BY <1>4 DEF Listed
  <2>4. \A k \in 1..(c + 1) : k \in 1..c \/ k = c + 1
    OBVIOUS
  <2>5. c + 1 \in 1..(c + 1) /\ \A k \in 1..c : k \in 1..(c + 1)
    OBVIOUS
  <2>6. Listed' = {(chain')[k] : k \in 1..c} \cup {n + 1}
    BY <1>4, <2>3, <2>4, <2>5
  <2> QED BY <1>4, <1>10, <2>1, <2>2, <2>6
<1>12. /\ Melter' = Melter /\ LastState' = n + 1 /\ (a.targets \subseteq 1..n => Ending(a)' = Ending(a))
  <2>1. at \in 1..c
    BY <1>1, <1>2, ChainStates DEF TypeOK, PositionTypes
  <2>2. Melter' = Melter
    BY <1>1, <1>3, <1>4, <2>1 DEF Melter
  <2>3. LastState' = n + 1
    BY <1>4 DEF LastState
  <2>4. a.targets \subseteq 1..n => {t \in a.targets : (endOf')[t] # NoSym} = {t \in a.targets : endOf[t] # NoSym}
    BY <1>4
  <2>5. a' = a
    BY <1>1, <2>2 DEF a
  <2> QED BY <2>2, <2>3, <2>4, <2>5 DEF Ending
<1>13. ASSUME ~stale'
       PROVE  TargetsListed' /\ Entries' /\ StandsRight' /\ Copied' /\ Built'
  <2>1. ~stale
    BY <1>1, <1>13
  <2>2. a.targets \subseteq S /\ lastSim \in Nat /\ lastSim >= 1 /\ a.targets # {}
    <3>1. ma \in DOMAIN Melter /\ a.targets \subseteq S
      BY <1>1, <1>9, <2>1, MeltedTargets DEF a
    <3> QED BY <1>1, <1>9, <2>1, <3>1, SeveralTargets DEF Melting
  <2>3. LeadInto(S, S)
    BY <1>1, <1>9, <1>10, <2>1 DEF SubsetInv, TargetsListed, Melting
  <2>4. TargetsListed'
    <3>1. \A q \in S \cup {n + 1} : \A m \in DOMAIN (acts')[q] : (acts')[q][m].targets \subseteq S
      <4>1. \A q \in S : (acts')[q] = acts[q]
        BY <1>4, <1>10
      <4>2. DOMAIN (acts')[n + 1] = {}
        BY <1>4
      <4> QED BY <2>3, <4>1, <4>2 DEF LeadInto
    <3>2. LeadInto(Listed, Settled)'
      BY <1>11, <3>1 DEF LeadInto
    <3> QED BY <1>1, <3>2 DEF TargetsListed
  <2>5. Entries /\ lastSim < c
    BY <1>1, <1>10, <2>1 DEF SubsetInv, Entries, Melting
  <2>6. Entries'
    <3>1. MaxStates' = MaxStates
      BY <1>1 DEF MaxStates
    <3>2. /\ c - 1 - lastSim <= Len(melted)
          /\ \A i \in DOMAIN melted :
               IF i <= c - 1 - lastSim
                 THEN /\ melted[i].state = chain[c + 1 - i]
                      /\ melted[i].round = round /\ melted[i].size = MaxStates
                 ELSE melted[i].round < round
      BY <1>1, <1>10, <2>5 DEF Entries, Melting
    <3>3. DOMAIN melted = 1..Len(melted) /\ Len(melted) \in Nat
      BY DEF TypeOK, RoundTypes
    <3>4. \A i \in DOMAIN melted : i <= c - 1 - lastSim => c + 1 - i \in 1..c
      BY <2>2, <3>3
    <3>5. \A i \in DOMAIN melted : i <= c - 1 - lastSim => (chain')[c + 1 - i] = chain[c + 1 - i]
      BY <1>4, <3>4
    <3>6. ~(lastSim' = 0)
      BY <1>1, <2>2
    <3>7. \A i \in DOMAIN (melted') : melted'[i].round <= round'
      BY <1>1, <2>5 DEF Entries
    <3>8. /\ lastSim' < SettledLen' /\ SettledLen' - 1 - lastSim' <= Len(melted')
          /\ \A i \in DOMAIN (melted') :
               IF i <= SettledLen' - 1 - lastSim'
                 THEN /\ (melted')[i].state = (chain')[SettledLen' + 1 - i]
                      /\ (melted')[i].round = round' /\ (melted')[i].size = MaxStates'
                 ELSE (melted')[i].round < round'
      BY <1>1, <1>11, <2>5, <3>1, <3>2, <3>5
    <3> QED BY <3>6, <3>7, <3>8 DEF Entries
  <2>7. ASSUME NEW q \in S PROVE Numbers(q)' = Numbers(q) /\ StandsFor(q)' = StandsFor(q)
    <3>1. \A j \in 1..Len(melted) : (nr')[melted[j].state] = nr[melted[j].state]
      <4> DEFINE R == [set : SUBSET Nat, size : Nat, state : Allocated, round : Nat]
      <4>1. melted \in Seq(R) /\ \A m \in R : m.state \in 1..n
        BY <1>3 DEF TypeOK, RoundTypes, Allocated
      <4> HIDE DEF R
      <4>2. \A j \in 1..Len(melted) : melted[j] \in R
        BY <4>1
      <4> QED BY <1>4, <4>1, <4>2
    <3>2. (nr')[q] = nr[q]
      BY <1>4, <1>10
    <3>3. NumbersIn(melted, nr', lastSim, q) = NumbersIn(melted, nr, lastSim, q)
      BY <3>1, <3>2, SameNumbersIn
    <3>4. Numbers(q)' = Numbers(q)
      BY <1>1, <3>3, NumbersAre
    <3>5. Numbers(q) \subseteq 0..lastSim
      BY <1>1, <1>9, <2>1 DEF SubsetInv, StandsRight, StandsWell, Melting
    <3>6. \A m \in Numbers(q) : m + 1 \in 1..c
      BY <2>2, <2>5, <3>5
    <3>7. \A m \in Numbers(q) : (chain')[m + 1] = chain[m + 1]
      BY <1>4, <3>6
    <3>8. PICK N : N = Numbers(q)
      OBVIOUS
    <3>9. StandsFor(q) = {chain[m + 1] : m \in N} /\ StandsFor(q)' = {(chain')[m + 1] : m \in N}
      BY <3>4, <3>8 DEF StandsFor
    <3> QED BY <3>4, <3>7, <3>8, <3>9
  <2>8. StandsRight'
    <3>1. ASSUME NEW q \in S PROVE StandsWell(q)'
      <4>1. StandsWell(q)
        BY <1>1, <1>9, <2>1 DEF SubsetInv, StandsRight, Melting
      <4>2. q \in 1..n
        BY <1>10
      <4>3. (endOf')[q] = endOf[q] /\ (ctx')[q] = ctx[q] /\ (acts')[q] = acts[q]
        BY <1>4, <4>2
      <4>4. ASSUME NEW ch \in Chars
            PROVE  StandFor(Reached(acts[q], ch))' = StandFor(Reached(acts[q], ch))
        <5>1. PICK T : T = Reached(acts[q], ch)
          OBVIOUS
        <5>2. T \subseteq S
          BY <2>3, <5>1 DEF LeadInto, Reached
        <5>3. StandFor(T)' = UNION {StandsFor(t)' : t \in T} /\ StandFor(T) = UNION {StandsFor(t) : t \in T}
          BY DEF StandFor
        <5>4. StandFor(T)' = StandFor(T)
          BY <2>7, <5>2, <5>3
        <5>5. StandFor(Reached(acts[q], ch))' = StandFor(T)'
          BY <4>3, <5>1 DEF StandFor
        <5> QED BY <5>1, <5>4, <5>5
      <4>5. \A ch \in Chars : IsContextMove((acts')[q], ch) <=> IsContextMove(acts[q], ch)
        BY <4>3
      <4>6. failed => failed'
        BY <1>1
      <4> QED BY <1>1, <2>7, <4>1, <4>3, <4>4, <4>5, <4>6, StandsWellKept
    <3> QED BY <1>11, <3>1 DEF StandsRight
  <2>9. Melted' = a.targets
    BY <1>1, <1>12 DEF Melted, a
  <2>10. Copied'
    <3>1. DOMAIN (acts')[LastState'] = {}
      BY <1>4, <1>12
    <3>2. \A t \in a.targets : t \in source' /\ \A m \in DOMAIN (acts')[t] : ~(m < mi')
      <4> TAKE t \in a.targets
      <4>1. t \in 1..n /\ (acts')[t] = acts[t] /\ acts[t] \in Seq(Action(Allocated))
        BY <1>3, <1>4, <1>10, <2>2, ChainStates
      <4>2. \A m \in DOMAIN (acts')[t] : m >= 1 /\ m \in Nat
        BY <4>1
      <4>3. \A m \in DOMAIN (acts')[t] : ~(m < 1)
        BY <4>2
      <4>4. t \in source' /\ mi' = 1
        BY <1>1
      <4> QED BY <4>3, <4>4
    <3> QED BY <1>1, <2>9, <3>1, <3>2 DEF Copied
  <2>11. Built'
    <3>1. Ending(a)' = Ending(a) /\ \A t \in a.targets : (endOf')[t] = endOf[t] /\ ((ctx')[t] <=> ctx[t])
      BY <1>4, <1>10, <1>12, <2>2
    <3>2. a' = a /\ (Melter[ma])' = a /\ a = Melter[ma]
      BY <1>1, <1>12 DEF a
    <3>3. Ending(Melter[ma])' = Ending(a)
      BY <3>1, <3>2 DEF Ending
    <3>4. IF Ending(a) = {} THEN (endOf')[n + 1] = NoSym
          ELSE \E t \in Ending(a) : (endOf')[n + 1] = (endOf')[t]
      <4>1. CASE Ending(a) = {}
        BY <1>4, <4>1 DEF EndOfTargets
      <4>2. CASE Ending(a) # {}
        <5>1. a.targets \subseteq Allocated
          BY <1>3, <1>10, <2>2 DEF Allocated
        <5>2. PICK t \in Ending(a) : EndOfTargets(a) = endOf[t]
          BY <4>2, <5>1, EndOfTargetsIs
        <5> QED BY <1>4, <3>1, <4>2, <5>2 DEF Ending
      <4> QED BY <4>1, <4>2
    <3>5. ~failed' => ~Conflict(Melter[ma])'
      <4>1. Conflict(Melter[ma])' <=> \E t, u \in Ending(a) : (endOf')[t] # (endOf')[u]
        BY <3>3 DEF Conflict
      <4>2. Conflict(a) <=> \E t, u \in Ending(a) : endOf[t] # endOf[u]
        BY DEF Conflict
      <4>3. Ending(a) \subseteq a.targets
        BY DEF Ending
      <4> QED BY <1>1, <3>1, <4>1, <4>2, <4>3
    <3>6. (ctx')[n + 1] <=> \E t \in a.targets : (ctx')[t]
      BY <1>5, <3>1
    <3>7. Melted' \subseteq Settled' /\ Cardinality(Melted') > 1
      BY <1>1, <1>11, <2>2, <2>9
    <3>8. pc' # "meltUnique"
      BY <1>1
    <3> QED BY <1>12, <2>9, <3>3, <3>4, <3>5, <3>6, <3>7, <3>8 DEF Built
  <2> QED BY <2>4, <2>6, <2>8, <2>10, <2>11
<1>14. Marked' /\ Simulated'
  BY <1>1 DEF Marked, Simulated
<1> QED BY <1>6, <1>7, <1>13, <1>14 DEF SubsetInv

\* AddAction keeps the actions there are, and adds x.
LEMMA AddActionHas ==
  ASSUME NEW Q, NEW list \in Seq(Action(Q)), NEW x \in Action(Q)
  PROVE  /\ \A k \in DOMAIN AddAction(list, x) :
              AddAction(list, x)[k] = x \/ \E m \in DOMAIN list : AddAction(list, x)[k] = list[m]
         /\ \E k \in DOMAIN AddAction(list, x) : AddAction(list, x)[k] = x
         /\ \A m \in DOMAIN list : \E k \in DOMAIN AddAction(list, x) : AddAction(list, x)[k] = list[m]
<1> DEFINE n == Len(list)
           p == AddPlace(list, x)
           new == AddAction(list, x)
<1>1. /\ new \in Seq(Action(Q)) /\ Len(new) = n + 1 /\ n \in Nat /\ DOMAIN list = 1..n
      /\ \A k \in 1..(n + 1) : new[k] = IF k < p THEN list[k] ELSE IF k = p THEN x ELSE list[k - 1]
      /\ p \in 1..(n + 1)
  <2>1. PICK A : A = Action(Q)
    OBVIOUS
  <2>2. list \in Seq(A)
    BY <2>1
  <2>3. n \in Nat /\ DOMAIN list = 1..n
    BY <2>2
  <2>4. p \in 1..(n + 1)
    BY AddPlaceRange
  <2>5. /\ new \in Seq(Action(Q)) /\ Len(new) = n + 1
        /\ \A k \in 1..(n + 1) : new[k] = IF k < p THEN list[k] ELSE IF k = p THEN x ELSE list[k - 1]
    BY AddActionElements
  <2> QED BY <2>3, <2>4, <2>5
<1> HIDE DEF n, p, new
<1>2. DOMAIN new = 1..(n + 1)
  BY <1>1
<1>3. ASSUME NEW k \in 1..(n + 1) PROVE new[k] = x \/ \E m \in 1..n : new[k] = list[m]
  <2>1. CASE k < p
    BY <1>1, <2>1
  <2>2. CASE k = p
    <3>1. ~(k < p)
      BY <1>1, <2>2
    <3> QED BY <1>1, <2>2, <3>1
  <2>3. CASE k > p
    <3>1. k - 1 \in 1..n /\ ~(k < p) /\ k # p
      BY <1>1, <2>3
    <3> QED BY <1>1, <3>1
  <2> QED BY <1>1, <2>1, <2>2, <2>3
<1>4. new[p] = x
  <2>1. ~(p < p)
    BY <1>1
  <2> QED BY <1>1, <2>1
<1>5. ASSUME NEW m \in 1..n PROVE \E k \in 1..(n + 1) : new[k] = list[m]
  <2>1. CASE m < p
    <3>1. m \in 1..(n + 1)
      BY <1>1
    <3> QED BY <1>1, <2>1, <3>1
  <2>2. CASE m >= p
    <3>1. m + 1 \in 1..(n + 1) /\ ~(m + 1 < p) /\ m + 1 # p /\ (m + 1) - 1 = m
      BY <1>1, <2>2
    <3>2. new[m + 1] = list[m]
      BY <1>1, <3>1
    <3> QED BY <3>1, <3>2
  <2> QED BY <1>1, <2>1, <2>2
<1> QED BY <1>1, <1>2, <1>3, <1>4, <1>5 DEF n, new

\* One more action of one of the targets is copied.
LEMMA MeltWithSubset ==
  ASSUME TypeOK, SubsetInv, MeltWith
  PROVE  SubsetInv'
<1>1. /\ pc = "meltWith" /\ pc' = pc /\ source # {}
      /\ UNCHANGED <<endOf, ctx, nr, chain, melted, lastSim, at, ma, before, round, stale, failed>>
  BY DEF MeltWith, history, symbols
<1>2. \/ /\ mi <= Len(acts[NextSource]) /\ mi' = mi + 1 /\ source' = source
         /\ acts' = [acts EXCEPT ![LastState] =
                       AddAction(acts[LastState], acts[NextSource][mi])]
      \/ /\ ~(mi <= Len(acts[NextSource]))
         /\ source' = source \ {NextSource} /\ mi' = 1 /\ acts' = acts
  BY DEF MeltWith
<1>3. /\ Len(acts') = Len(acts) /\ LastState \in Allocated
      /\ \A q \in Allocated : q # LastState => (acts')[q] = acts[q]
  <2>1. acts \in Seq(Seq(Action(Allocated))) /\ LastState \in Allocated
    BY ChainStates DEF TypeOK, HeapTypes
  <2>2. PICK l : acts' = acts \/ acts' = [acts EXCEPT ![LastState] = l]
    BY <1>2
  <2>3. Len(acts') = Len(acts)
    BY <2>1, <2>2
  <2>4. \A q \in Allocated : q # LastState => (acts')[q] = acts[q]
    BY <2>2 DEF Allocated
  <2> QED BY <2>1, <2>3, <2>4
<1>4. Building /\ Building'
  BY <1>1 DEF Building
<1>5. SettledLen' = SettledLen /\ Settled' = Settled /\ Listed' = Listed
  BY <1>1, <1>4, SameSettled
<1>6. Numbered'
  BY <1>1 DEF SubsetInv, Numbered
<1>7. BeforeTypes'
  BY <1>1, <1>3 DEF SubsetInv, BeforeTypes
<1>8. ASSUME ~stale
      PROVE  TargetsListed' /\ Entries' /\ StandsRight' /\ Copied' /\ Built'
  <2>1. PICK S, L : S = Settled /\ L = LastState
    OBVIOUS
  <2>2. /\ L \notin S /\ Listed = S \cup {L} /\ S \subseteq Allocated /\ L \in Allocated
    BY <1>3, <1>4, <2>1, SubsetBasics
  <2>3. /\ LeadInto(Listed, S) /\ Entries /\ \A q \in S : StandsWell(q)
    BY <1>1, <1>8, <2>1 DEF SubsetInv, TargetsListed, StandsRight, Melting
  <2>4. PICK T : T = Melted
    OBVIOUS
  <2>5. /\ source \subseteq T /\ T \subseteq S
        /\ \A k \in DOMAIN acts[L] :
             \E t \in T : \E m \in DOMAIN acts[t] : acts[L][k] = acts[t][m]
        /\ \A t \in T : \A m \in DOMAIN acts[t] :
             t \notin source \/ (t = NextSource /\ m < mi) =>
               \E k \in DOMAIN acts[L] : acts[L][k] = acts[t][m]
    BY <1>1, <1>4, <1>8, <2>1, <2>4 DEF SubsetInv, Copied, Built
  <2>6. PICK s : s = NextSource
    OBVIOUS
  <2>7. s \in source
    <3>1. PICK N : N = {nr[t] : t \in source}
      OBVIOUS
    <3>2. N \subseteq Nat /\ N # {}
      BY <1>1, <2>2, <2>5, <3>1, SubsetBasics
    <3>3. PICK x \in N : \A y \in N : x <= y
      BY <3>2, LeastNat
    <3>4. \E t \in source : \A u \in source : nr[t] <= nr[u]
      BY <3>1, <3>3
    <3> QED BY <2>6, <3>4 DEF NextSource
  <2>8. s \in S /\ s # L /\ \A q \in S : (acts')[q] = acts[q]
    BY <1>3, <2>1, <2>2, <2>5, <2>7
  <2>9. /\ \A q \in S \cup {L} : acts[q] \in Seq(Action(S))
        /\ \A q \in S \cup {L} : DOMAIN acts[q] = 1..Len(acts[q]) /\ Len(acts[q]) \in Nat
        /\ mi \in Nat \ {0}
    <3>1. \A q \in S \cup {L} : acts[q] \in Seq(Action(S))
      BY <2>2, <2>3, LeadIntoLists, SubsetBasics
    <3>2. mi \in Nat \ {0}
      BY DEF TypeOK, PositionTypes
    <3> QED BY <3>1, <3>2
  <2>10. ASSUME /\ mi <= Len(acts[s]) /\ mi' = mi + 1 /\ source' = source
                /\ acts' = [acts EXCEPT ![L] = AddAction(acts[L], acts[s][mi])]
         PROVE  /\ (acts')[L] \in Seq(Action(S))
                /\ source' \subseteq T
                /\ \A k \in DOMAIN (acts')[L] :
                     \E t \in T : \E m \in DOMAIN (acts')[t] : (acts')[L][k] = (acts')[t][m]
                /\ \A t \in T : \A m \in DOMAIN (acts')[t] :
                     t \notin source' \/ (t = NextSource' /\ m < mi') =>
                       \E k \in DOMAIN (acts')[L] : (acts')[L][k] = (acts')[t][m]
    <3>1. PICK x \in Action(S) : x = acts[s][mi] /\ mi \in DOMAIN acts[s]
      <4>1. mi \in 1..Len(acts[s]) /\ acts[s] \in Seq(Action(S))
        BY <2>8, <2>9, <2>10
      <4> QED BY <4>1
    <3>2. PICK list : list = acts[L] /\ list \in Seq(Action(S))
      BY <2>9
    <3>3. PICK new : new = AddAction(list, x)
      OBVIOUS
    <3>4. (acts')[L] = new
      BY <2>2, <2>10, <3>1, <3>2, <3>3 DEF Allocated
    <3>5. /\ new \in Seq(Action(S))
          /\ \A k \in DOMAIN new : new[k] = x \/ \E m \in DOMAIN list : new[k] = list[m]
          /\ \E k \in DOMAIN new : new[k] = x
          /\ \A m \in DOMAIN list : \E k \in DOMAIN new : new[k] = list[m]
      <4>1. new \in Seq(Action(S))
        BY <3>2, <3>3, AddActionElements
      <4> QED BY <3>2, <3>3, <4>1, AddActionHas
    <3>6. NextSource' = s
      BY <1>1, <2>6, <2>10 DEF NextSource
    <3>7. \A k \in DOMAIN new : \E t \in T : \E m \in DOMAIN acts[t] : new[k] = acts[t][m]
      <4> TAKE k \in DOMAIN new
      <4>1. CASE new[k] = x
        BY <2>5, <2>7, <3>1, <4>1
      <4>2. CASE \E m \in DOMAIN list : new[k] = list[m]
        BY <2>5, <3>2, <4>2
      <4> QED BY <3>5, <4>1, <4>2
    <3>8. ASSUME NEW t \in T, NEW m \in DOMAIN acts[t], t \notin source \/ (t = s /\ m < mi + 1)
          PROVE  \E k \in DOMAIN new : new[k] = acts[t][m]
      <4>1. CASE t \notin source \/ (t = s /\ m < mi)
        <5>1. \E k \in DOMAIN list : list[k] = acts[t][m]
          BY <2>5, <2>6, <3>2, <4>1
        <5> QED BY <3>5, <5>1
      <4>2. CASE t = s /\ ~(m < mi) /\ m < mi + 1
        <5>1. m \in Nat
          BY <2>8, <2>9, <4>2
        <5>2. m = mi
          BY <2>9, <4>2, <5>1
        <5> QED BY <3>1, <3>5, <4>2, <5>2
      <4> QED BY <3>8, <4>1, <4>2
    <3>9. /\ source' \subseteq T
          /\ \A k \in DOMAIN (acts')[L] :
               \E t \in T : \E m \in DOMAIN (acts')[t] : (acts')[L][k] = (acts')[t][m]
          /\ \A t \in T : \A m \in DOMAIN (acts')[t] :
               t \notin source' \/ (t = NextSource' /\ m < mi') =>
                 \E k \in DOMAIN (acts')[L] : (acts')[L][k] = (acts')[t][m]
      <4>1. \A t \in T : (acts')[t] = acts[t]
        BY <2>5, <2>8
      <4> QED BY <2>5, <2>10, <3>4, <3>6, <3>7, <3>8, <4>1
    <3>10. (acts')[L] \in Seq(Action(S))
      BY <3>4, <3>5
    <3> QED BY <3>9, <3>10
  <2>11. ASSUME ~(mi <= Len(acts[s])), source' = source \ {s}, mi' = 1, acts' = acts
         PROVE  /\ (acts')[L] \in Seq(Action(S))
                /\ source' \subseteq T
                /\ \A k \in DOMAIN (acts')[L] :
                     \E t \in T : \E m \in DOMAIN (acts')[t] : (acts')[L][k] = (acts')[t][m]
                /\ \A t \in T : \A m \in DOMAIN (acts')[t] :
                     t \notin source' \/ (t = NextSource' /\ m < mi') =>
                       \E k \in DOMAIN (acts')[L] : (acts')[L][k] = (acts')[t][m]
    <3>1. \A t \in T : \A m \in DOMAIN acts[t] :
               t \notin source' \/ (t = NextSource' /\ m < 1) =>
                 \E k \in DOMAIN acts[L] : acts[L][k] = acts[t][m]
      <4> SUFFICES ASSUME NEW t \in T, NEW m \in DOMAIN acts[t], t \notin source' \/ m < 1
                   PROVE  \E k \in DOMAIN acts[L] : acts[L][k] = acts[t][m]
        OBVIOUS
      <4>1. m \in Nat /\ m >= 1 /\ (t = s => m <= Len(acts[s])) /\ Len(acts[s]) \in Nat
        BY <2>5, <2>8, <2>9
      <4>2. t \notin source \/ t = s
        BY <2>11, <4>1
      <4>3. t = s => m < mi
        BY <2>9, <2>11, <4>1
      <4> QED BY <2>5, <2>6, <4>2, <4>3
    <3>2. (acts')[L] \in Seq(Action(S))
      BY <2>9, <2>11
    <3> QED BY <2>5, <2>11, <3>1, <3>2
  <2>12. /\ (acts')[L] \in Seq(Action(S))
         /\ source' \subseteq T
         /\ \A k \in DOMAIN (acts')[L] :
              \E t \in T : \E m \in DOMAIN (acts')[t] : (acts')[L][k] = (acts')[t][m]
         /\ \A t \in T : \A m \in DOMAIN (acts')[t] :
              t \notin source' \/ (t = NextSource' /\ m < mi') =>
                \E k \in DOMAIN (acts')[L] : (acts')[L][k] = (acts')[t][m]
    BY <1>2, <2>1, <2>6, <2>10, <2>11
  <2>13. chain[at] \in S /\ Melter' = Melter /\ LastState' = L /\ Melted' = T
    <3>1. chain[at] \in S
      BY <1>1, <1>8, <2>1, MeltedTargets
    <3>2. Melter' = Melter
      BY <1>1, <2>8, <3>1 DEF Melter
    <3>3. LastState' = L
      BY <1>1, <2>1 DEF LastState
    <3> QED BY <1>1, <2>4, <3>1, <3>2, <3>3 DEF Melted
  <2>14. Copied'
    BY <2>12, <2>13 DEF Copied
  <2>15. Built'
    <3>1. Ending(Melter[ma])' = Ending(Melter[ma])
      BY <1>1, <2>13 DEF Ending
    <3>2. Conflict(Melter[ma])' <=> Conflict(Melter[ma])
      BY <1>1, <3>1 DEF Conflict
    <3>3. /\ T \subseteq S /\ Cardinality(T) > 1
          /\ IF Ending(Melter[ma]) = {} THEN endOf[L] = NoSym
             ELSE \E t \in Ending(Melter[ma]) : endOf[L] = endOf[t]
          /\ ~failed => ~Conflict(Melter[ma])
          /\ ctx[L] <=> \E t \in T : ctx[t]
      BY <1>4, <1>8, <2>1, <2>4 DEF SubsetInv, Built
    <3>4. pc' # "meltUnique"
      BY <1>1
    <3>5. (ctx')[L] <=> \E t \in T : (ctx')[t]
      BY <1>1, <3>3
    <3> QED BY <1>1, <1>5, <2>1, <2>13, <3>1, <3>2, <3>3, <3>4, <3>5 DEF Built
  <2>16. Entries'
    <3>1. MaxStates' = MaxStates
      BY <1>1 DEF MaxStates
    <3> QED BY <1>1, <1>5, <2>3, <3>1 DEF Entries
  <2>17. StandsRight'
    <3>1. ASSUME NEW q \in S PROVE StandsWell(q)'
      <4>1. SameMoves((acts')[q], acts[q])
        BY <2>8 DEF SameMoves
      <4> QED BY <1>1, <2>3, <4>1, SameMovesStand
    <3> QED BY <1>5, <2>1, <3>1 DEF StandsRight
  <2>18. TargetsListed'
    <3>1. \A q \in S \cup {L} : (acts')[q] \in Seq(Action(S))
      BY <2>8, <2>9, <2>12
    <3>2. LeadInto(S \cup {L}, S)'
      BY <3>1, ListsLeadInto
    <3>3. LeadInto(Listed, Settled)'
      BY <1>5, <2>1, <2>2, <3>2 DEF LeadInto
    <3> QED BY <1>1, <3>3 DEF TargetsListed
  <2> QED BY <2>14, <2>15, <2>16, <2>17, <2>18
<1>9. Marked' /\ Simulated'
  BY <1>1 DEF Marked, Simulated
<1> QED BY <1>1, <1>6, <1>7, <1>8, <1>9 DEF SubsetInv

\* All are copied: the new state goes where any of the targets goes.
LEMMA MeltedAllSubset ==
  ASSUME TypeOK, SubsetInv, MeltedAll
  PROVE  SubsetInv'
<1>1. /\ pc = "meltWith" /\ pc' = "meltUnique" /\ source = {}
      /\ UNCHANGED <<acts, endOf, ctx, nr, chain, melted, lastSim, at, ma, before, round, stale,
                     failed>>
      /\ UNCHANGED heap
  BY DEF MeltedAll, history, symbols, melting, heap
<1>2. Building /\ Building'
  BY <1>1 DEF Building
<1>3. SettledLen' = SettledLen /\ Settled' = Settled /\ Listed' = Listed
  BY <1>1, <1>2, SameSettled
<1>4. Numbered'
  BY <1>1 DEF SubsetInv, Numbered
<1>5. BeforeTypes'
  BY <1>1, SameBefore DEF SubsetInv, Melting
<1>6. ASSUME ~stale
      PROVE  TargetsListed' /\ Entries' /\ StandsRight' /\ Built'
  <2>1. Entries'
    BY <1>1, <1>2, <1>6, SameEntries DEF SubsetInv, Melting
  <2>2. StandsRight'
    BY <1>1, <1>2, <1>6, SameStandsRight DEF SubsetInv, Melting
  <2>3. LeadInto(Listed, Settled)
    BY <1>1, <1>6 DEF SubsetInv, TargetsListed, Melting
  <2>4. TargetsListed'
    BY <1>1, <1>3, <2>3 DEF TargetsListed, LeadInto
  <2>5. Melter' = Melter /\ LastState' = LastState /\ Melted' = Melted
    BY <1>1 DEF Melter, LastState, Melted
  <2>6. PICK T : T = Melted
    OBVIOUS
  <2>7. /\ \A k \in DOMAIN acts[LastState] :
             \E t \in T : \E m \in DOMAIN acts[t] : acts[LastState][k] = acts[t][m]
        /\ \A t \in T : \A m \in DOMAIN acts[t] :
             \E k \in DOMAIN acts[LastState] : acts[LastState][k] = acts[t][m]
    BY <1>1, <1>6, <2>6 DEF SubsetInv, Copied
  <2>8. ASSUME NEW ch \in Chars
        PROVE  /\ Reached(acts[LastState], ch) = UNION {Reached(acts[t], ch) : t \in T}
               /\ IsContextMove(acts[LastState], ch)
                    <=> \E t \in T : IsContextMove(acts[t], ch)
    <3>1. ASSUME NEW q
          PROVE  q \in Reached(acts[LastState], ch) <=> \E t \in T : q \in Reached(acts[t], ch)
      <4>1. q \in Reached(acts[LastState], ch) <=>
              \E k \in DOMAIN acts[LastState] :
                ch \in acts[LastState][k].syms /\ q \in acts[LastState][k].targets
        BY ReachedMember
      <4>2. \A t \in T : q \in Reached(acts[t], ch) <=>
              \E m \in DOMAIN acts[t] : ch \in acts[t][m].syms /\ q \in acts[t][m].targets
        BY ReachedMember
      <4> QED BY <2>7, <4>1, <4>2
    <3>2. IsContextMove(acts[LastState], ch) <=> \E t \in T : IsContextMove(acts[t], ch)
      BY <2>7 DEF IsContextMove
    <3> QED BY <3>1, <3>2
  <2>9. Built'
    <3>1. Ending(Melter[ma])' = Ending(Melter[ma])
      BY <1>1, <2>5 DEF Ending
    <3>2. Conflict(Melter[ma])' <=> Conflict(Melter[ma])
      BY <1>1, <3>1 DEF Conflict
    <3>3. /\ T \subseteq Settled /\ Cardinality(T) > 1
          /\ IF Ending(Melter[ma]) = {} THEN endOf[LastState] = NoSym
             ELSE \E t \in Ending(Melter[ma]) : endOf[LastState] = endOf[t]
          /\ ~failed => ~Conflict(Melter[ma])
          /\ ctx[LastState] <=> \E t \in T : ctx[t]
      BY <1>2, <1>6, <2>6 DEF SubsetInv, Built
    <3>4. (ctx')[LastState'] <=> \E t \in T : (ctx')[t]
      BY <1>1, <2>5, <3>3
    <3>5. \A ch \in Chars :
            /\ Reached((acts')[LastState'], ch) = UNION {Reached((acts')[t], ch) : t \in T}
            /\ IsContextMove((acts')[LastState'], ch)
                 <=> \E t \in T : IsContextMove((acts')[t], ch)
      BY <1>1, <2>5, <2>8
    <3> QED BY <1>1, <1>3, <2>5, <2>6, <3>1, <3>2, <3>3, <3>4, <3>5 DEF Built
  <2> QED BY <2>1, <2>2, <2>4, <2>9
<1>7. Copied' /\ Marked' /\ Simulated'
  BY <1>1 DEF Copied, Marked, Simulated
<1> QED BY <1>1, <1>4, <1>5, <1>6, <1>7 DEF SubsetInv

\* A state built from the states T, all of them standing for sets, ends and goes
\* like the sets together.
LEMMA JoinEnds ==
  ASSUME NEW T, NEW L, \A t \in T : EndsLike(t, StandsFor(t)),
         LET ends == {t \in T : endOf[t] # NoSym}
         IN  /\ IF ends = {} THEN endOf[L] = NoSym ELSE \E t \in ends : endOf[L] = endOf[t]
             /\ ~failed => \A t, u \in ends : endOf[t] = endOf[u],
         ctx[L] <=> \E t \in T : ctx[t]
  PROVE  EndsLike(L, StandFor(T))
<1> DEFINE ends == {t \in T : endOf[t] # NoSym}
<1>1. \A e : e \in EndsOf(StandFor(T)) <=> \E t \in T : e \in EndsOf(StandsFor(t))
  BY DEF EndsOf, StandFor
<1>2. \A t \in T : /\ EndsOf(StandsFor(t)) = {} => endOf[t] = NoSym
                   /\ EndsOf(StandsFor(t)) # {} => endOf[t] \in EndsOf(StandsFor(t))
                   /\ ~failed => EndsOf(StandsFor(t)) \subseteq {endOf[t]}
                   /\ ctx[t] <=> \E p \in StandsFor(t) : before.ctx[p]
  BY DEF EndsLike
<1>3. \A t : NoSym \notin EndsOf(StandsFor(t))
  BY DEF EndsOf
<1>4. IF EndsOf(StandFor(T)) = {} THEN endOf[L] = NoSym ELSE endOf[L] \in EndsOf(StandFor(T))
  <2>1. CASE EndsOf(StandFor(T)) = {}
    <3>1. \A t \in T : EndsOf(StandsFor(t)) = {}
      BY <1>1, <2>1
    <3>2. ends = {}
      BY <1>2, <3>1
    <3> QED BY <2>1, <3>2
  <2>2. CASE EndsOf(StandFor(T)) # {}
    <3>1. PICK t \in T : EndsOf(StandsFor(t)) # {}
      BY <1>1, <2>2
    <3>2. t \in ends
      BY <1>2, <1>3, <3>1
    <3>3. PICK u \in ends : endOf[L] = endOf[u]
      BY <3>2
    <3>4. u \in T /\ endOf[u] \in EndsOf(StandsFor(u))
      BY <1>2
    <3> QED BY <1>1, <2>2, <3>3, <3>4
  <2> QED BY <2>1, <2>2
<1>5. ASSUME ~failed PROVE EndsOf(StandFor(T)) \subseteq {endOf[L]}
  <2> SUFFICES ASSUME NEW e \in EndsOf(StandFor(T)) PROVE e = endOf[L]
    OBVIOUS
  <2>1. PICK t \in T : e \in EndsOf(StandsFor(t))
    BY <1>1
  <2>2. e = endOf[t] /\ t \in ends
    BY <1>2, <1>3, <1>5, <2>1
  <2>3. PICK u \in ends : endOf[L] = endOf[u]
    BY <2>2
  <2> QED BY <1>5, <2>2, <2>3
<1>6. ctx[L] <=> \E p \in StandFor(T) : before.ctx[p]
  <2>1. (\E p \in StandFor(T) : before.ctx[p]) <=> \E t \in T : \E p \in StandsFor(t) : before.ctx[p]
    BY DEF StandFor
  <2> QED BY <1>2, <2>1
<1> QED BY <1>4, <1>5, <1>6 DEF EndsLike

\* A state that moves like a set of settled states together moves like what they stand for.
LEMMA JoinMoves ==
  ASSUME NEW T, NEW L, \A t \in T : MovesLike(t, StandsFor(t)),
         \A ch \in Chars :
           /\ Reached(acts[L], ch) = UNION {Reached(acts[t], ch) : t \in T}
           /\ IsContextMove(acts[L], ch) <=> \E t \in T : IsContextMove(acts[t], ch)
  PROVE  MovesLike(L, StandFor(T))
<1> SUFFICES ASSUME NEW ch \in Chars
             PROVE  /\ StandFor(Reached(acts[L], ch)) = SubsetStep(StandFor(T), ch)
                    /\ IsContextMove(acts[L], ch)
                         <=> \E p \in StandFor(T) : IsContextMove(before.acts[p], ch)
  BY DEF MovesLike
<1>1. \A t \in T : /\ StandFor(Reached(acts[t], ch)) = SubsetStep(StandsFor(t), ch)
                   /\ IsContextMove(acts[t], ch)
                        <=> \E p \in StandsFor(t) : IsContextMove(before.acts[p], ch)
  BY DEF MovesLike
<1>2. \A x : x \in StandFor(Reached(acts[L], ch)) <=>
               \E t \in T : x \in StandFor(Reached(acts[t], ch))
  <2> TAKE x
  <2>1. x \in StandFor(Reached(acts[L], ch)) <=>
          \E q \in Reached(acts[L], ch) : x \in StandsFor(q)
    BY DEF StandFor
  <2>2. \A t : x \in StandFor(Reached(acts[t], ch)) <=>
          \E q \in Reached(acts[t], ch) : x \in StandsFor(q)
    BY DEF StandFor
  <2>3. \A q : q \in Reached(acts[L], ch) <=> \E t \in T : q \in Reached(acts[t], ch)
    OBVIOUS
  <2> QED BY <2>1, <2>2, <2>3
<1>3. \A x : x \in SubsetStep(StandFor(T), ch) <=>
               \E t \in T : x \in SubsetStep(StandsFor(t), ch)
  BY DEF SubsetStep, StandFor
<1>4. (\E p \in StandFor(T) : IsContextMove(before.acts[p], ch)) <=>
        \E t \in T : \E p \in StandsFor(t) : IsContextMove(before.acts[p], ch)
  BY DEF StandFor
<1>5. StandFor(Reached(acts[L], ch)) = SubsetStep(StandFor(T), ch)
  BY <1>1, <1>2, <1>3
<1> QED BY <1>1, <1>4, <1>5

\* A new entry in front leaves the others' numbers alone.
LEMMA NewEntryNumbers ==
  ASSUME NEW ms, NEW new, NEW f, NEW l, NEW c, NEW n \in Nat, NEW x,
         LinedUp(ms, f, l, c, n), f[c[n + 1]] = n, x.state = c[n + 1],
         Len(new) = Len(ms) + 1, DOMAIN new = 1..(Len(ms) + 1), new[1] = x,
         \A i \in 1..Len(ms) : new[i + 1] = ms[i]
  PROVE  /\ \A k \in 1..n : NumbersIn(new, f, l, c[k]) = NumbersIn(ms, f, l, c[k])
         /\ NumbersIn(new, f, l, c[n + 1]) = x.set
<1>1. /\ l \in Nat /\ Len(ms) \in Nat /\ DOMAIN ms = 1..Len(ms) /\ l < n
      /\ n - 1 - l <= Len(ms) /\ \A j \in 1..n : f[c[j]] = j - 1
      /\ \A i \in 1..(n - 1 - l) : ms[i].state = c[n + 1 - i]
  BY DEF LinedUp
<1>2. LinedUp(new, f, l, c, n + 1)
  <2>1. \A j \in 1..(n + 1) : f[c[j]] = j - 1
    <3> TAKE j \in 1..(n + 1)
    <3>1. CASE j = n + 1
      BY <3>1
    <3>2. CASE j # n + 1
      <4>1. j \in 1..n
        BY <3>2
      <4> QED BY <1>1, <4>1
    <3> QED BY <3>1, <3>2
  <2>2. \A i \in 1..((n + 1) - 1 - l) : new[i].state = c[(n + 1) + 1 - i]
    <3> TAKE i \in 1..((n + 1) - 1 - l)
    <3>1. CASE i = 1
      BY <3>1
    <3>2. CASE i # 1
      <4>1. i - 1 \in 1..(n - 1 - l) /\ i - 1 \in 1..Len(ms) /\ (i - 1) + 1 = i
            /\ n + 1 - (i - 1) = (n + 1) + 1 - i
        BY <1>1, <3>2
      <4>2. new[i] = ms[i - 1]
        BY <4>1
      <4>3. ms[i - 1].state = c[n + 1 - (i - 1)]
        BY <1>1, <4>1
      <4> QED BY <4>1, <4>2, <4>3
    <3> QED BY <3>1, <3>2
  <2>3. Len(new) \in Nat /\ DOMAIN new = 1..Len(new) /\ l < n + 1 /\ (n + 1) - 1 - l <= Len(new)
    BY <1>1
  <2> QED BY <1>1, <2>1, <2>2, <2>3 DEF LinedUp
<1>3. ASSUME NEW k \in 1..n
      PROVE  NumbersIn(new, f, l, c[k]) = NumbersIn(ms, f, l, c[k])
  <2>0. k \in 1..n /\ LinedUp(ms, f, l, c, n)
    OBVIOUS
  <2>1. /\ k - 1 <= l => NumbersIn(ms, f, l, c[k]) = {k - 1}
        /\ k - 1 > l => /\ n + 1 - k \in 1..(n - 1 - l)
                        /\ NumbersIn(ms, f, l, c[k]) = ms[n + 1 - k].set
    BY ONLY <2>0, LinedUpNumbers
  <2>2. PICK m : m = n + 1 /\ k \in 1..m /\ m \in Nat
    OBVIOUS
  <2>3. /\ k - 1 <= l => NumbersIn(new, f, l, c[k]) = {k - 1}
        /\ k - 1 > l => NumbersIn(new, f, l, c[k]) = new[(n + 1) + 1 - k].set
    <3>1. LinedUp(new, f, l, c, m)
      BY <1>2, <2>2
    <3>2. /\ k - 1 <= l => NumbersIn(new, f, l, c[k]) = {k - 1}
          /\ k - 1 > l => NumbersIn(new, f, l, c[k]) = new[m + 1 - k].set
      BY ONLY <2>2, <3>1, LinedUpNumbers
    <3> QED BY ONLY <2>2, <3>2
  <2>4. CASE k - 1 <= l
    BY <2>1, <2>3, <2>4
  <2>5. CASE k - 1 > l
    <3>1. n + 1 - k \in 1..Len(ms) /\ (n + 1 - k) + 1 = (n + 1) + 1 - k
      BY ONLY <1>1, <2>1, <2>5, <2>0, n \in Nat
    <3>2. new[(n + 1) + 1 - k] = ms[n + 1 - k]
      BY <3>1
    <3> QED BY <2>1, <2>3, <2>5, <3>2
  <2>6. k - 1 <= l \/ k - 1 > l
    BY <1>1
  <2> QED BY <2>4, <2>5, <2>6
<1>4. NumbersIn(new, f, l, c[n + 1]) = x.set
  <2>1. n + 1 \in 1..(n + 1) /\ (n + 1) - 1 > l /\ (n + 1) + 1 - (n + 1) = 1
    BY <1>1
  <2>2. NumbersIn(new, f, l, c[n + 1]) = new[(n + 1) + 1 - (n + 1)].set
    BY <1>2, <2>1, LinedUpNumbers
  <2> QED BY <2>1, <2>2
<1> QED BY <1>3, <1>4

\* The new state is settled, with the set of numbers in its entry.
LEMMA NewMeltedSubset ==
  ASSUME TypeOK, SubsetInv, NewMelted
  PROVE  SubsetInv'
<1> DEFINE x == [set |-> TargetSet(Melter[ma]), size |-> MaxStates, state |-> LastState,
                 round |-> round]
<1>1. /\ pc = "meltUnique" /\ pc' = "melt" /\ melted' = <<x>> \o melted
      /\ acts' = [acts EXCEPT ![chain[at]] = Retarget(Melter, LastState)]
      /\ UNCHANGED <<endOf, ctx, nr, chain, lastSim, at, before, round, stale, failed>>
  BY DEF NewMelted, Melter, history, symbols
<1>2. Building /\ ~Building'
  BY <1>1 DEF Building
<1>3. Numbered'
  BY <1>1 DEF SubsetInv, Numbered
<1>4. BeforeTypes'
  <2>1. acts \in Seq(Seq(Action(Allocated)))
    BY DEF TypeOK, HeapTypes
  <2>2. Len(acts') = Len(acts)
    BY <1>1, <2>1
  <2> QED BY <1>1, <2>2 DEF SubsetInv, BeforeTypes, Melting
<1>5. ASSUME ~stale
      PROVE  TargetsListed' /\ Entries' /\ StandsRight'
  <2>1. PICK S, L, T : S = Settled /\ L = LastState /\ T = Melter[ma].targets
    OBVIOUS
  <2>2. /\ L \notin S /\ Listed = S \cup {L} /\ S \subseteq Allocated /\ L \in Allocated
    BY <1>2, <2>1, ChainStates, SubsetBasics
  <2>3. /\ LeadInto(Listed, S) /\ Entries /\ Numbered /\ pc \in Melting
        /\ \A q \in S : StandsWell(q)
    BY <1>1, <1>5, <2>1 DEF SubsetInv, TargetsListed, StandsRight, Melting
  <2>4. /\ at \in DOMAIN chain /\ chain[at] \in S /\ Melter \in Seq(Action(S))
        /\ ma \in DOMAIN Melter /\ T \subseteq S
        /\ \A m \in DOMAIN Melter : Melter[m].targets \subseteq S
    BY <1>1, <1>5, <2>1, MeltedTargets
  <2>5. /\ T = Melted /\ Cardinality(T) > 1
        /\ IF Ending(Melter[ma]) = {} THEN endOf[L] = NoSym
           ELSE \E t \in Ending(Melter[ma]) : endOf[L] = endOf[t]
        /\ ~failed => ~Conflict(Melter[ma])
        /\ ctx[L] <=> \E t \in T : ctx[t]
        /\ \A ch \in Chars :
             /\ Reached(acts[L], ch) = UNION {Reached(acts[t], ch) : t \in T}
             /\ IsContextMove(acts[L], ch) <=> \E t \in T : IsContextMove(acts[t], ch)
    <3>1. T = Melted
      BY <2>1 DEF Melted
    <3>2. Built
      BY <1>5 DEF SubsetInv
    <3> QED BY <1>1, <1>2, <2>1, <3>1, <3>2 DEF Built
  <2>6. PICK n \in Nat \ {0} : n = SettledLen /\ Len(chain) = n + 1 /\ chain[n + 1] = L
    <3>1. PICK n \in Nat \ {0} : n = SettledLen
      BY SettledLenIs
    <3>2. PICK c \in Nat : c = Len(chain)
      BY ChainStates
    <3>3. n = c - 1
      BY <1>2, <3>1, <3>2, SettledLenIs
    <3>4. Len(chain) = n + 1
      BY <3>2, <3>3
    <3> QED BY <2>1, <3>1, <3>4 DEF LastState
  <2>7. /\ SettledLen' = n + 1 /\ Settled' = S \cup {L} /\ Listed' = S \cup {L}
    <3>1. SettledLen' = n + 1
      BY <1>1, <1>2, <2>6 DEF SettledLen
    <3>2. Listed' = Listed
      BY <1>1 DEF Listed
    <3>3. DOMAIN chain = 1..(n + 1)
      BY <2>6, ChainStates
    <3>4. Settled' = Listed
      BY <1>1, <3>1, <3>3 DEF Settled, Listed
    <3> QED BY <2>2, <3>1, <3>2, <3>4
  <2>8. lastSim \in Nat /\ lastSim >= 1 /\ T # {} /\ lastSim < n
    <3>1. lastSim < n
      BY <2>3, <2>6 DEF Entries
    <3> QED BY <1>5, <2>1, <2>3, <2>4, <2>5, <3>1, SeveralTargets
  <2>9. PICK e : e = x
    OBVIOUS
  <2>10. /\ e.set = TargetSet(Melter[ma]) /\ e.size = MaxStates /\ e.state = L /\ e.round = round
    BY <2>1, <2>9
  <2>11. /\ Len(melted) \in Nat /\ DOMAIN melted = 1..Len(melted)
         /\ Len(melted') = Len(melted) + 1 /\ DOMAIN (melted') = 1..(Len(melted) + 1)
         /\ (melted')[1] = e /\ \A i \in 1..Len(melted) : (melted')[i + 1] = melted[i]
    <3>1. PICK R : melted \in Seq(R)
      BY DEF TypeOK, RoundTypes
    <3>2. melted \in Seq(R \cup {e}) /\ <<e>> \in Seq(R \cup {e})
      BY <3>1
    <3>3. melted' = <<e>> \o melted
      BY <1>1, <2>9
    <3> QED BY ONLY <3>2, <3>3
  <2> HIDE DEF x
  <2>12. /\ \A q \in S : Numbers(q)' = Numbers(q)
         /\ Numbers(L)' = TargetSet(Melter[ma])
    <3>1. LinedUp(melted, nr, lastSim, chain, n)
      BY <2>3, <2>6, SettledNumbers
    <3>2. nr[chain[n + 1]] = n
      <4>1. DOMAIN chain = 1..(n + 1)
        BY <2>6, ChainStates
      <4>2. nr[chain[n + 1]] = (n + 1) - 1
        <5>1. n + 1 \in DOMAIN chain /\ pc # "delete"
          BY <1>1, <4>1
        <5> QED BY <2>3, <5>1 DEF Numbered
      <4> QED BY <4>2
    <3>3. /\ \A k \in 1..n : NumbersIn(melted', nr, lastSim, chain[k]) = NumbersIn(melted, nr, lastSim, chain[k])
          /\ NumbersIn(melted', nr, lastSim, chain[n + 1]) = e.set
      <4>1. e.state = chain[n + 1] /\ n \in Nat
        BY <2>6, <2>10
      <4> QED BY ONLY <2>11, <3>1, <3>2, <4>1, NewEntryNumbers
    <3>4. \A q : /\ Numbers(q) = NumbersIn(melted, nr, lastSim, q)
                 /\ Numbers(q)' = NumbersIn(melted', nr, lastSim, q)
      BY <1>1, NumbersAre
    <3>5. Numbers(L)' = TargetSet(Melter[ma])
      BY <2>6, <2>10, <3>3, <3>4
    <3>6. \A q \in S : Numbers(q)' = Numbers(q)
      <4> TAKE q \in S
      <4>1. PICK k \in 1..n : q = chain[k]
        BY <2>1, <2>6 DEF Settled
      <4>2. NumbersIn(melted', nr, lastSim, q) = NumbersIn(melted, nr, lastSim, q)
        BY <3>3, <4>1
      <4> QED BY <3>4, <4>2
    <3> QED BY <3>5, <3>6
  <2>13. \A q \in S : Numbers(q)' = Numbers(q) /\ StandsFor(q)' = StandsFor(q)
    BY <1>1, <2>12 DEF StandsFor
  <2>14. /\ TargetSet(Melter[ma]) # {} /\ TargetSet(Melter[ma]) \subseteq 0..lastSim
         /\ {chain[m + 1] : m \in TargetSet(Melter[ma])} = StandFor(T)
    <3>1. Melter[ma].targets \subseteq Settled /\ Cardinality(Melter[ma].targets) > 1
      BY <2>1, <2>4, <2>5
    <3> QED BY <1>5, <2>1, <2>3, <3>1, TargetSetIs
  <2>15. StandsFor(L)' = StandFor(T)
    BY <1>1, <2>12, <2>14 DEF StandsFor
  <2>16. \A Q : Q \subseteq S => StandFor(Q)' = StandFor(Q)
    BY <2>13 DEF StandFor
  <2>17. \A q \in S : StandsWell(q)'
    <3>1. acts' = [acts EXCEPT ![chain[at]] = Retarget(Melter, L)]
      BY <1>1, <2>1
    <3>2. failed => failed'
      BY <1>1
    <3>3. StandsFor(L)' = StandFor(Melter[ma].targets)
      BY <2>1, <2>15
    <3>4. \A t \in Settled : Numbers(t)' = Numbers(t) /\ StandsFor(t)' = StandsFor(t)
      BY <2>1, <2>13
    <3> QED BY <1>1, <1>5, <2>1, <2>4, <3>1, <3>2, <3>3, <3>4, RetargetStands
  <2>18. StandsWell(L)'
    <3>1. PICK Q : Q = StandFor(T)
      OBVIOUS
    <3>2. EndsLike(L, Q)
      <4>1. \A t \in T : EndsLike(t, StandsFor(t))
        BY <2>3, <2>4 DEF StandsWell
      <4>2. PICK ends : ends = {t \in T : endOf[t] # NoSym} /\ ends = Ending(Melter[ma])
        BY <2>1 DEF Ending
      <4>3. /\ IF ends = {} THEN endOf[L] = NoSym ELSE \E t \in ends : endOf[L] = endOf[t]
            /\ ~failed => \A t, u \in ends : endOf[t] = endOf[u]
        BY <2>5, <4>2 DEF Conflict
      <4> QED BY <2>5, <3>1, <4>1, <4>2, <4>3, JoinEnds
    <3>3. EndsLike(L, Q)'
      <4>1. EndsOf(Q)' = EndsOf(Q)
        BY <1>1 DEF EndsOf
      <4> QED BY <1>1, <3>2, <4>1 DEF EndsLike
    <3>4. MovesLike(L, Q)
      <4>1. \A t \in T : MovesLike(t, StandsFor(t))
        BY <2>3, <2>4 DEF StandsWell
      <4> QED BY <2>5, <3>1, <4>1, JoinMoves
    <3>5. MovesLike(L, Q)'
      <4>1. (acts')[L] = acts[L]
        BY <1>1, <2>2, <2>4
      <4>2. ASSUME NEW ch \in Chars
            PROVE  /\ StandFor(Reached(acts[L], ch))' = SubsetStep(Q, ch)'
                   /\ IsContextMove((acts')[L], ch)
                        <=> \E p \in Q : IsContextMove((before').acts[p], ch)
        <5>1. PICK W : W = Reached(acts[L], ch)
          OBVIOUS
        <5>2. W \subseteq S
          BY <2>2, <2>3, <5>1 DEF LeadInto, Reached
        <5>3. StandFor(W)' = StandFor(W) /\ StandFor(W) = SubsetStep(Q, ch)
          BY <2>16, <3>4, <5>1, <5>2 DEF MovesLike
        <5>4. StandFor(Reached(acts[L], ch))' = StandFor(W)'
          BY <4>1, <5>1 DEF StandFor
        <5>5. SubsetStep(Q, ch)' = SubsetStep(Q, ch)
          BY <1>1 DEF SubsetStep
        <5>6. IsContextMove(acts[L], ch) <=> \E p \in Q : IsContextMove(before.acts[p], ch)
          BY <3>4 DEF MovesLike
        <5> QED BY <1>1, <4>1, <5>3, <5>4, <5>5, <5>6
      <4> QED BY <4>2 DEF MovesLike
    <3>6. StandsFor(L)' = Q /\ Numbers(L)' # {} /\ Numbers(L)' \subseteq 0..lastSim'
      BY <1>1, <2>12, <2>14, <2>15, <3>1
    <3>7. EndsLike(L, StandsFor(L))' /\ MovesLike(L, StandsFor(L))'
      BY <3>3, <3>5, <3>6 DEF EndsLike, MovesLike, EndsOf, SubsetStep
    <3> QED BY <3>6, <3>7 DEF StandsWell
  <2>19. StandsRight'
    BY <2>7, <2>17, <2>18 DEF StandsRight
  <2>20. TargetsListed'
    <3>1. PICK B : B = S \cup {L}
      OBVIOUS
    <3>2. \A q \in B : acts[q] \in Seq(Action(B))
      <4>1. \A q \in B : acts[q] \in Seq(Action(S))
        BY <2>2, <2>3, <3>1, LeadIntoLists, SubsetBasics
      <4> QED BY <3>1, <4>1, ActionGrows
    <3>3. (acts')[chain[at]] \in Seq(Action(B))
      <4>1. (acts')[chain[at]] = Retarget(Melter, L)
        BY <1>1, <2>1, <2>2, <2>4 DEF Allocated
      <4>2. /\ Retarget(Melter, L) \in Seq(Action(Allocated \cup {L}))
            /\ DOMAIN Retarget(Melter, L) = DOMAIN Melter
            /\ \A m \in DOMAIN Melter :
                 Retarget(Melter, L)[m].targets = IF m = ma THEN {L} ELSE Melter[m].targets
        BY <2>4, RetargetMoves
      <4>3. \A m \in DOMAIN Retarget(Melter, L) : Retarget(Melter, L)[m].targets \subseteq B
        BY <2>4, <3>1, <4>2
      <4> QED BY <4>1, <4>2, <4>3, ListInto
    <3>4. \A q \in B : (acts')[q] \in Seq(Action(B))
      <4> TAKE q \in B
      <4>1. CASE q # chain[at]
        BY <1>1, <3>2, <4>1
      <4>2. CASE q = chain[at]
        BY <3>3, <4>2
      <4> QED BY <4>1, <4>2
    <3>5. LeadInto(B, B)'
      BY <3>4, ListsLeadInto
    <3>6. LeadInto(Listed, Settled)'
      BY <2>7, <3>1, <3>5 DEF LeadInto
    <3> QED BY <1>1, <3>6 DEF TargetsListed
  <2>21. Entries'
    <3>1. MaxStates' = MaxStates
      BY <1>1 DEF MaxStates
    <3>2. /\ n - 1 - lastSim <= Len(melted)
          /\ \A i \in DOMAIN melted : melted[i].round <= round
          /\ \A i \in DOMAIN melted :
               IF i <= n - 1 - lastSim
                 THEN /\ melted[i].state = chain[n + 1 - i]
                      /\ melted[i].round = round /\ melted[i].size = MaxStates
                 ELSE melted[i].round < round
      BY <2>3, <2>6 DEF Entries
    <3>3. round \in Nat
      BY DEF TypeOK, RoundTypes
    <3>4. \A i \in DOMAIN (melted') : i = 1 \/ (i - 1 \in DOMAIN melted /\ (melted')[i] = melted[i - 1])
      <4> TAKE i \in DOMAIN (melted')
      <4>1. i \in 1..(Len(melted) + 1) /\ Len(melted) \in Nat
        BY <2>11
      <4>2. CASE i # 1
        <5>1. i - 1 \in 1..Len(melted) /\ (i - 1) + 1 = i
          BY <4>1, <4>2
        <5> QED BY <2>11, <5>1
      <4> QED BY <4>2
    <3>5. \A i \in DOMAIN (melted') : (melted')[i].round <= round
      <4> TAKE i \in DOMAIN (melted')
      <4>1. CASE i = 1
        BY <2>10, <2>11, <3>3, <4>1
      <4>2. CASE i # 1
        BY <3>2, <3>4, <4>2
      <4> QED BY <4>1, <4>2
    <3>6. \A i \in DOMAIN (melted') :
            IF i <= (n + 1) - 1 - lastSim
              THEN /\ (melted')[i].state = chain[(n + 1) + 1 - i]
                   /\ (melted')[i].round = round /\ (melted')[i].size = MaxStates
              ELSE (melted')[i].round < round
      <4> TAKE i \in DOMAIN (melted')
      <4>1. CASE i = 1
        <5>1. i <= (n + 1) - 1 - lastSim /\ (n + 1) + 1 - i = n + 1
          BY <2>8, <4>1
        <5> QED BY <2>6, <2>10, <2>11, <4>1, <5>1
      <4>2. CASE i # 1
        <5>1. i - 1 \in DOMAIN melted /\ (melted')[i] = melted[i - 1] /\ i \in Nat
          BY <2>11, <3>4, <4>2
        <5>2. /\ n + 1 - (i - 1) = (n + 1) + 1 - i
              /\ i <= (n + 1) - 1 - lastSim <=> i - 1 <= n - 1 - lastSim
          BY <2>8, <5>1
        <5> QED BY <3>2, <5>1, <5>2
      <4> QED BY <4>1, <4>2
    <3>7. lastSim < n + 1 /\ (n + 1) - 1 - lastSim <= Len(melted) + 1 /\ ~(lastSim = 0)
      BY <2>8, <2>11, <3>2
    <3>8. /\ lastSim' < SettledLen' /\ SettledLen' - 1 - lastSim' <= Len(melted')
          /\ ~(lastSim' = 0)
      BY <1>1, <2>7, <2>11, <3>7
    <3>9. \A i \in DOMAIN (melted') :
            IF i <= SettledLen' - 1 - lastSim'
              THEN /\ (melted')[i].state = (chain')[SettledLen' + 1 - i]
                   /\ (melted')[i].round = round' /\ (melted')[i].size = MaxStates'
              ELSE (melted')[i].round < round'
      BY <1>1, <2>7, <3>1, <3>6
    <3>10. \A i \in DOMAIN (melted') : (melted')[i].round <= round'
      BY <1>1, <3>5
    <3> QED BY <3>8, <3>9, <3>10 DEF Entries
  <2> QED BY <2>19, <2>20, <2>21
<1>6. Copied' /\ Built' /\ Marked' /\ Simulated'
  BY <1>1, <1>2 DEF Copied, Built, Marked, Simulated
<1> QED BY <1>1, <1>3, <1>4, <1>5, <1>6 DEF SubsetInv

----------------------------------------------------------------------------
(* Deterministic lists.                                                    *)

\* Where a list leads under ch; 0 is nowhere.
StepIn(list, ch) ==
  IF FindAction(list, ch) = 0 THEN 0 ELSE Target(list[FindAction(list, ch)])

\* ResultStep, by the action list alone.
LEMMA ResultStepIs ==
  ASSUME NEW d, NEW ch
  PROVE  /\ ResultStep(d, ch) = IF d = 0 THEN 0 ELSE StepIn(acts[d], ch)
         /\ ResultStep(d, ch)' = IF d = 0 THEN 0 ELSE StepIn((acts')[d], ch)
BY DEF ResultStep, StepIn

\* What FindAction finds.
FirstWithChar(list, ch) ==
  LET I == {k \in 1..Len(list) : ch \in list[k].syms} IN IF I # {} THEN Min(I) ELSE 0

\* FindAction, with its definition expanded.
LEMMA FindActionIs ==
  ASSUME NEW list, NEW ch
  PROVE  FindAction(list, ch) = FirstWithChar(list, ch)
BY DEF FindAction, SelectInSeq, FirstWithChar

\* An action is found exactly where the character leads somewhere.
LEMMA FindActionFinds ==
  ASSUME NEW Q, NEW list \in Seq(Action(Q)), NEW ch
  PROVE  /\ FindAction(list, ch) = 0 => Reached(list, ch) = {}
         /\ FindAction(list, ch) # 0 =>
              /\ FindAction(list, ch) \in DOMAIN list
              /\ ch \in list[FindAction(list, ch)].syms
<1> DEFINE I == {k \in 1..Len(list) : ch \in list[k].syms}
<1>1. PICK A : A = Action(Q)
  OBVIOUS
<1>2. list \in Seq(A)
  BY <1>1
<1>3. DOMAIN list = 1..Len(list) /\ Len(list) \in Nat
  BY <1>2
<1>4. CASE I = {}
  <2>1. FindAction(list, ch) = 0
    BY <1>4, FindActionIs DEF FirstWithChar
  <2>2. \A q : q \notin Reached(list, ch)
    BY <1>3, <1>4, ReachedMember
  <2> QED BY <2>1, <2>2
<1>5. CASE I # {}
  <2>1. I \subseteq Nat
    BY <1>3
  <2>2. \E x \in I : \A y \in I : x <= y
    BY <1>5, <2>1, LeastNat
  <2> HIDE DEF I
  <2>3. Min(I) \in I
    BY <2>2 DEF Min
  <2>4. FindAction(list, ch) = Min(I)
    BY <1>5, FindActionIs DEF FirstWithChar, I
  <2>5. Min(I) # 0 /\ Min(I) \in DOMAIN list /\ ch \in list[Min(I)].syms
    BY <1>3, <2>3 DEF I
  <2> QED BY <2>4, <2>5
<1> QED BY <1>4, <1>5

\* A deterministic list leads nowhere, or to one state.
LEMMA DeterministicStep ==
  ASSUME NEW Q, 0 \notin Q, NEW list \in Seq(Action(Q)), DeterministicList(list), NEW ch
  PROVE  \/ StepIn(list, ch) = 0 /\ Reached(list, ch) = {}
         \/ StepIn(list, ch) \in Q /\ Reached(list, ch) = {StepIn(list, ch)}
<1>1. CASE FindAction(list, ch) = 0
  BY <1>1, FindActionFinds DEF StepIn
<1>2. CASE FindAction(list, ch) # 0
  <2>1. PICK k \in DOMAIN list : k = FindAction(list, ch) /\ ch \in list[k].syms
    BY <1>2, FindActionFinds
  <2>2. list[k] \in Action(Q)
    <3>1. PICK A : A = Action(Q)
      OBVIOUS
    <3>2. list \in Seq(A)
      BY <3>1
    <3>3. list[k] \in A
      BY <3>2, <2>1
    <3> QED BY <3>1, <3>3
  <2>3. list[k].targets = {Target(list[k])} /\ Target(list[k]) \in Q
    <3>1. PICK t : list[k].targets = {t}
      BY DEF DeterministicList, IsSingle
    <3>2. Target(list[k]) = t
      BY <3>1 DEF Target
    <3> QED BY <2>2, <3>1, <3>2, TargetAllocated
  <2>4. \A m \in DOMAIN list : ch \in list[m].syms => m = k
    BY <2>1 DEF DeterministicList, Disjoint, Overlap
  <2>5. \A q : q \in Reached(list, ch) <=> q = Target(list[k])
    BY <2>1, <2>3, <2>4, ReachedMember
  <2>6. StepIn(list, ch) = Target(list[k])
    BY <1>2, <2>1 DEF StepIn
  <2> QED BY <2>3, <2>5, <2>6
<1> QED BY <1>1, <1>2

----------------------------------------------------------------------------
(* Equal final states are combined.                                        *)

\* f sends every used state to the one kept for it.
SharesFinals(f, U) ==
  /\ f[first] = first /\ Kept' \subseteq U
  /\ \A q \in U : /\ f[q] \in Kept' /\ endOf[f[q]] = endOf[q]
                  /\ ctx[f[q]] <=> ctx[q]
                  /\ acts[f[q]] = acts[q]
  /\ \A q \in Kept' :
       /\ DOMAIN (acts')[q] = DOMAIN acts[q]
       /\ \A m \in DOMAIN acts[q] :
            /\ (acts')[q][m].syms = acts[q][m].syms
            /\ (acts')[q][m].tc = acts[q][m].tc
            /\ (acts')[q][m].targets = {f[t] : t \in acts[q][m].targets}

\* CombineFinals renames the used states by such an f.
LEMMA CombineFinalsElements ==
  ASSUME TypeOK, Numbered, DeterministicSoFar, CombineFinals,
         NEW U, U = {q \in Listed : nr[q] \in used}, first \in U,
         \A q \in U : \A m \in DOMAIN acts[q] : acts[q][m].targets \subseteq U
  PROVE  \E f \in [U -> U] : SharesFinals(f, U)
<1> DEFINE pos == DOMAIN chain
           dropped == {m \in pos : \E k \in pos : UsedFinals(k, m)}
           droppedNrs == {nr[chain[m]] : m \in dropped}
           kept == used \ droppedNrs
           Into(m, k) == UsedFinals(k, m) /\ \A j \in 1..(k - 1) : ~UsedFinals(j, m)
           newState(n) == chain[CHOOSE k \in pos :
                                  \E m \in dropped : nr[chain[m]] = n /\ Into(m, k)]
           moved(a) == IF nr[Target(a)] \in droppedNrs
                         THEN [a EXCEPT !.targets = {newState(nr[Target(a)])}] ELSE a
           live == {chain[k] : k \in pos}
           A(q) == IF q \in live /\ nr[q] \in kept
                     THEN [k \in DOMAIN acts[q] |-> moved(acts[q][k])] ELSE acts[q]
<1>1. /\ pc = "mark" /\ acts' = [q \in Allocated |-> A(q)]
      /\ used' = kept /\ at' = 2 /\ nr' = nr /\ chain' = chain
  BY DEF CombineFinals
<1>2. PICK c \in Nat \ {0} : c = Len(chain) /\ pos = 1..c
  BY ChainStates
<1>3. /\ \A k \in pos : nr[chain[k]] = k - 1 /\ chain[k] \in Listed /\ k \in Nat \ {0}
      /\ 1 \in pos /\ chain[1] = first /\ \A q \in Listed : \E k \in pos : q = chain[k]
      /\ U \subseteq Listed /\ \A q \in U : nr[q] \in used
  <2>1. \A k \in pos : nr[chain[k]] = k - 1
    BY <1>1 DEF Numbered
  <2>2. chain[1] = first
    BY DEF TypeOK, HeapTypes
  <2> QED BY <1>2, <2>1, <2>2 DEF Listed
<1> HIDE DEF pos
<1>4. \A m \in pos : nr[chain[m]] \in droppedNrs => m \in dropped
  <2> SUFFICES ASSUME NEW m \in pos, NEW i \in dropped, nr[chain[m]] = nr[chain[i]]
               PROVE  m \in dropped
    OBVIOUS
  <2>1. i \in pos
    OBVIOUS
  <2>2. m - 1 = i - 1 /\ m \in Nat /\ i \in Nat
    BY <1>3, <2>1
  <2>3. m = i
    BY <2>2
  <2> QED BY <2>3
<1>5. ASSUME NEW m \in dropped
      PROVE  \E k \in pos : newState(nr[chain[m]]) = chain[k] /\ Into(m, k)
  <2>1. m \in pos /\ \E k \in pos : UsedFinals(k, m)
    OBVIOUS
  <2> DEFINE K == {k \in pos : UsedFinals(k, m)}
  <2>2. K \subseteq Nat /\ K # {}
    BY <1>3, <2>1
  <2> HIDE DEF K
  <2>3. PICK k \in K : \A j \in K : k <= j
    BY ONLY <2>2, LeastNat
  <2>4. k \in pos /\ UsedFinals(k, m)
    BY <2>3 DEF K
  <2>5. \A j \in 1..(k - 1) : ~UsedFinals(j, m)
    <3> SUFFICES ASSUME NEW j \in 1..(k - 1), UsedFinals(j, m) PROVE FALSE
      OBVIOUS
    <3>1. j \in pos /\ j < k /\ k \in Nat
      BY <1>2, <2>4
    <3>2. k <= j
      BY <2>3, <3>1 DEF K
    <3> QED BY <3>1, <3>2
  <2>6. \E kk \in pos : \E mm \in dropped : nr[chain[mm]] = nr[chain[m]] /\ Into(mm, kk)
    BY <2>4, <2>5
  <2>7. PICK n : n = nr[chain[m]]
    OBVIOUS
  <2>8. PICK kk : kk = CHOOSE j \in pos : \E mm \in dropped : nr[chain[mm]] = n /\ Into(mm, j)
    OBVIOUS
  <2> HIDE DEF dropped, Into
  <2>9. kk \in pos /\ \E mm \in dropped : nr[chain[mm]] = n /\ Into(mm, kk)
    BY <2>6, <2>7, <2>8
  <2>10. PICK mm \in dropped : nr[chain[mm]] = n /\ Into(mm, kk)
    BY <2>9
  <2>11. mm = m
    <3>1. mm \in pos
      BY DEF dropped
    <3>2. mm - 1 = m - 1 /\ mm \in Nat /\ m \in Nat
      BY <1>3, <2>1, <2>7, <2>10, <3>1
    <3> QED BY <3>2
  <2>12. newState(nr[chain[m]]) = chain[kk]
    BY <2>7, <2>8
  <2> QED BY <2>9, <2>10, <2>11, <2>12
<1>6. ASSUME NEW m \in dropped, NEW k \in pos, Into(m, k)
      PROVE  /\ k \notin dropped /\ nr[chain[k]] \in used
             /\ EqualFinals(chain[k], chain[m])
  <2>1. UsedFinals(k, m)
    BY <1>6
  <2>2. 1 < k /\ k < m /\ nr[chain[k]] \in used /\ nr[chain[m]] \in used
        /\ EqualFinals(chain[k], chain[m])
    BY <2>1 DEF UsedFinals
  <2>3. ASSUME NEW j \in pos, UsedFinals(j, k) PROVE FALSE
    <3>1. 1 < j /\ j < k /\ nr[chain[j]] \in used /\ EqualFinals(chain[j], chain[k])
      BY <2>3 DEF UsedFinals
    <3>2. j \in Nat /\ k \in Nat /\ m \in Nat
      BY <1>3
    <3>3. j < m /\ j \in 1..(k - 1)
      BY <2>2, <3>1, <3>2
    <3>4. EqualFinals(chain[j], chain[m])
      BY <2>2, <3>1 DEF EqualFinals
    <3>5. UsedFinals(j, m)
      BY <2>2, <3>1, <3>3, <3>4 DEF UsedFinals
    <3> QED BY <1>6, <3>3, <3>5
  <2> QED BY <2>2, <2>3
<1>7. 1 \notin dropped
  <2> SUFFICES ASSUME NEW k \in pos, UsedFinals(k, 1) PROVE FALSE
    OBVIOUS
  <2>1. 1 < k /\ k < 1 /\ k \in Nat
    BY <1>3 DEF UsedFinals
  <2> QED BY <2>1
<1> DEFINE f == [q \in U |-> IF nr[q] \in droppedNrs THEN newState(nr[q]) ELSE q]
<1> HIDE DEF dropped, newState, Into
<1>8. \A q \in U : nr[q] \in droppedNrs =>
        \E m \in dropped, k \in pos : q = chain[m] /\ m \in pos /\ newState(nr[q]) = chain[k] /\ Into(m, k)
  <2> SUFFICES ASSUME NEW q \in U, nr[q] \in droppedNrs
               PROVE  \E m \in dropped, k \in pos :
                        q = chain[m] /\ m \in pos /\ newState(nr[q]) = chain[k] /\ Into(m, k)
    OBVIOUS
  <2>1. PICK m \in pos : q = chain[m]
    BY <1>3
  <2>2. m \in dropped
    BY <1>4, <2>1
  <2> QED BY <1>5, <2>1, <2>2
<1>9. \A k \in pos : k \notin dropped => nr[chain[k]] \notin droppedNrs
  BY <1>4
<1> HIDE DEF droppedNrs
<1>10. Kept' = {q \in U : nr[q] \in kept}
  <2>1. Kept' = {chain[k] : k \in {k \in pos : k < 2 \/ nr[chain[k]] \in kept}}
    BY <1>1 DEF Kept, pos
  <2>2. nr[first] \in kept
    BY <1>3, <1>7, <1>9
  <2>3. \A k \in pos : k < 2 => k = 1
    BY <1>3
  <2>4. \A k \in pos : k < 2 \/ nr[chain[k]] \in kept => chain[k] \in U /\ nr[chain[k]] \in kept
    BY <1>3, <2>2, <2>3
  <2>5. \A q \in U : \E k \in pos : q = chain[k]
    BY <1>3
  <2>6. \A q : q \in Kept' <=> q \in U /\ nr[q] \in kept
    <3> HIDE DEF kept
    <3> QED BY <2>1, <2>4, <2>5
  <2> QED BY <2>6
<1>11. ASSUME NEW q \in U
       PROVE  /\ f[q] \in U /\ nr[f[q]] \in kept /\ endOf[f[q]] = endOf[q]
              /\ ctx[f[q]] <=> ctx[q]
              /\ acts[f[q]] = acts[q]
  <2>1. CASE nr[q] \in droppedNrs
    <3>1. PICK m \in dropped, k \in pos :
            q = chain[m] /\ newState(nr[q]) = chain[k] /\ Into(m, k)
      BY <1>8, <2>1
    <3>2. k \notin dropped /\ nr[chain[k]] \in used /\ EqualFinals(chain[k], q)
      BY <1>6, <3>1
    <3>3. f[q] = chain[k]
      BY <2>1, <3>1
    <3>4. chain[k] \in U /\ nr[chain[k]] \in kept
      BY <1>3, <1>9, <3>2
    <3> QED BY <3>2, <3>3, <3>4 DEF EqualFinals
  <2>2. CASE nr[q] \notin droppedNrs
    <3>1. f[q] = q
      BY <2>2
    <3> QED BY <1>3, <2>2, <3>1
  <2> QED BY <2>1, <2>2
<1>12. f[first] = first
  BY <1>3, <1>7, <1>9
<1>13. ASSUME NEW q \in U, nr[q] \in kept
       PROVE  /\ DOMAIN (acts')[q] = DOMAIN acts[q]
              /\ \A m \in DOMAIN acts[q] :
                   /\ (acts')[q][m].syms = acts[q][m].syms
                   /\ (acts')[q][m].tc = acts[q][m].tc
                   /\ (acts')[q][m].targets = {f[t] : t \in acts[q][m].targets}
  <2>1. q \in Allocated /\ q \in live /\ q \in Listed
    BY <1>3, SubsetBasics
  <2>2. (acts')[q] = A(q) /\ A(q) = [k \in DOMAIN acts[q] |-> moved(acts[q][k])]
    BY <1>1, <1>13, <2>1
  <2>3. acts[q] \in Seq(Action(Allocated)) /\ DeterministicList(acts[q])
    <3>1. \A k \in DOMAIN chain : DeterministicList(acts[chain[k]])
      BY <1>1 DEF DeterministicSoFar
    <3> QED BY <2>1, <3>1, ChainStates DEF Listed
  <2>4. PICK list : list = acts[q]
    OBVIOUS
  <2>5. ASSUME NEW m \in DOMAIN list
        PROVE  /\ moved(list[m]).syms = list[m].syms /\ moved(list[m]).tc = list[m].tc
               /\ moved(list[m]).targets = {f[t] : t \in list[m].targets}
    <3>1. PICK a \in Action(Allocated) : a = list[m]
      <4>1. PICK B : B = Action(Allocated)
        OBVIOUS
      <4>2. list \in Seq(B)
        BY <2>3, <2>4, <4>1
      <4> QED BY <4>1, <4>2
    <3>2. a.targets = {Target(a)} /\ Target(a) \in U
      <4>1. PICK t : a.targets = {t}
        BY <2>3, <2>4, <3>1 DEF DeterministicList, IsSingle
      <4>2. Target(a) = t
        BY <4>1 DEF Target
      <4>3. a.targets \subseteq U
        BY <2>4, <3>1
      <4> QED BY <4>1, <4>2, <4>3
    <3>3. PICK t \in U : t = Target(a)
      BY <3>2
    <3>4. a.targets = {t} /\ {f[u] : u \in a.targets} = {f[t]}
      BY <3>2, <3>3
    <3>5. CASE nr[t] \in droppedNrs
      <4>1. moved(a) = [a EXCEPT !.targets = {newState(nr[t])}] /\ f[t] = newState(nr[t])
        BY <3>3, <3>5
      <4>2. PICK g : g = f[t]
        OBVIOUS
      <4>3. moved(a) = [a EXCEPT !.targets = {g}]
        BY <4>1, <4>2
      <4> HIDE DEF moved, f
      <4>4. moved(a).syms = a.syms /\ moved(a).tc = a.tc /\ moved(a).targets = {g}
        BY <4>3 DEF Action
      <4> QED BY <3>1, <3>4, <4>2, <4>4
    <3>6. CASE nr[t] \notin droppedNrs
      <4>1. moved(a) = a /\ f[t] = t
        BY <3>3, <3>6
      <4> QED BY <3>1, <3>4, <4>1
    <3> QED BY <3>5, <3>6
  <2> HIDE DEF moved, f
  <2>6. DOMAIN (acts')[q] = DOMAIN list /\ \A m \in DOMAIN list : (acts')[q][m] = moved(list[m])
    <3>1. PICK new : new = (acts')[q]
      OBVIOUS
    <3>2. new = [k \in DOMAIN list |-> moved(list[k])]
      BY <2>2, <2>4, <3>1, Zenon
    <3>3. DOMAIN new = DOMAIN list /\ \A m \in DOMAIN list : new[m] = moved(list[m])
      BY <3>2, Zenon
    <3> QED BY <3>1, <3>3
  <2>7. \A m \in DOMAIN list :
          /\ (acts')[q][m].syms = list[m].syms /\ (acts')[q][m].tc = list[m].tc
          /\ (acts')[q][m].targets = {f[t] : t \in list[m].targets}
    BY <2>5, <2>6
  <2> QED BY <2>4, <2>6, <2>7, Zenon
<1> HIDE DEF kept
<1>14. f \in [U -> U]
  BY <1>11
<1>15. SharesFinals(f, U)
  BY <1>10, <1>11, <1>12, <1>13 DEF SharesFinals
<1> QED BY <1>14, <1>15

\* What Simulates asks of a pair, apart from the moves.
LEMMA PairRepresents ==
  ASSUME NEW q, NEW g, NEW S, EndsLike(q, S), MovesLike(q, S), S # {}, g # 0,
         endOf' = endOf, ctx' = ctx, before' = before, failed' = failed,
         endOf[g] = endOf[q], ctx[g] <=> ctx[q], endOf[q] \in Syms \cup {NoSym},
         \A ch \in Chars : IsContextMove((acts')[g], ch) <=> IsContextMove(acts[q], ch)
  PROVE  /\ Represents(g, S)'
         /\ ~failed' => \E e \in Syms \cup {NoSym} : EndsOf(S)' \subseteq {e}
<1>1. EndsOf(S)' = EndsOf(S) /\ EndsOf(S) = {before.endOf[p] : p \in S} \ {NoSym}
  BY DEF EndsOf
<1>2. IF EndsOf(S) = {} THEN endOf[q] = NoSym ELSE endOf[q] \in EndsOf(S)
  BY DEF EndsLike
<1>3. ~failed => EndsOf(S) \subseteq {endOf[q]}
  BY DEF EndsLike
<1>4. ctx[q] <=> \E p \in S : before.ctx[p]
  BY DEF EndsLike
<1>5. \A ch \in Chars : IsContextMove((acts')[g], ch)
                          <=> \E p \in S : IsContextMove((before').acts[p], ch)
  BY DEF MovesLike
<1>6. IF {(before').endOf[p] : p \in S} \ {NoSym} = {} THEN (endOf')[g] = NoSym
      ELSE (endOf')[g] \in {(before').endOf[p] : p \in S} \ {NoSym}
  BY <1>1, <1>2
<1>7. (ctx')[g] <=> \E p \in S : (before').ctx[p]
  BY <1>4
<1>8. Represents(g, S)'
  BY <1>5, <1>6, <1>7 DEF Represents
<1> QED BY <1>1, <1>3, <1>8

\* From here on the relation: what was melted stands for its set, renamed.
LEMMA CombineFinalsSubset ==
  ASSUME TypeOK, TypeOK', SubsetInv, DeterministicSoFar, DeterministicSoFar', CombineFinals
  PROVE  SubsetInv'
<1>1. /\ pc = "mark" /\ pc' = "delete" /\ todo = <<>> /\ at' = 2
      /\ UNCHANGED <<endOf, ctx, nr, chain, melted, lastSim, failed, before, round, stale>>
  BY DEF CombineFinals, history, symbols
<1>2. \A k \in DOMAIN chain : nr[chain[k]] = k - 1
  BY <1>1 DEF SubsetInv, Numbered
<1>3. Numbered'
  BY <1>1, <1>2 DEF Numbered
<1>4. Len(acts') = Len(acts) /\ Allocated' = Allocated
  <2>1. DOMAIN (acts') = DOMAIN acts
    BY DEF CombineFinals, Allocated
  <2>2. DOMAIN acts = 1..Len(acts) /\ Len(acts) \in Nat
    BY ChainStates DEF Allocated
  <2>3. DOMAIN (acts') = 1..Len(acts') /\ Len(acts') \in Nat
    <3>1. PICK A : acts' \in Seq(A)
      BY DEF TypeOK, HeapTypes
    <3> QED BY <3>1
  <2> QED BY <2>1, <2>2, <2>3 DEF Allocated
<1>5. BeforeTypes'
  BY <1>1, <1>4 DEF SubsetInv, BeforeTypes, Melting
<1>6. ~Building /\ ~Building' /\ Settled = Listed
  BY <1>1, SubsetBasics DEF Building
<1>7. ASSUME ~stale
      PROVE  TargetsListed' /\ Entries' /\ Simulated'
  <2>1. PICK U : U = {q \in Listed : nr[q] \in used}
    OBVIOUS
  <2>2. LeadInto(Listed, Listed) /\ \A q \in Listed : StandsWell(q)
    BY <1>1, <1>6, <1>7 DEF SubsetInv, TargetsListed, StandsRight, Melting
  <2>3. /\ first \in U
        /\ \A q \in U : \A m \in DOMAIN acts[q] : acts[q][m].targets \subseteq U
    <3>1. DOMAIN todo = {}
      BY <1>1
    <3>2. /\ nr[first] \in used
          /\ \A q \in Listed : nr[q] \in used =>
               \A m \in DOMAIN acts[q] : \A t \in acts[q][m].targets : nr[t] \in used
      BY <1>1, <1>7, <3>1 DEF SubsetInv, Marked
    <3>3. first \in Listed
      BY SubsetBasics
    <3> QED BY <2>1, <2>2, <3>2, <3>3 DEF LeadInto
  <2>4. PICK K : K = Kept'
    OBVIOUS
  <2>5. PICK f \in [U -> U] :
           /\ f[first] = first /\ K \subseteq U
           /\ \A q \in U : /\ f[q] \in K /\ endOf[f[q]] = endOf[q]
                           /\ ctx[f[q]] <=> ctx[q]
                           /\ acts[f[q]] = acts[q]
           /\ \A q \in K :
                /\ DOMAIN (acts')[q] = DOMAIN acts[q]
                /\ \A m \in DOMAIN acts[q] :
                     /\ (acts')[q][m].syms = acts[q][m].syms
                     /\ (acts')[q][m].tc = acts[q][m].tc
                     /\ (acts')[q][m].targets = {f[t] : t \in acts[q][m].targets}
    <3>1. Numbered
      BY DEF SubsetInv
    <3>2. PICK f \in [U -> U] : SharesFinals(f, U)
      <4>1. TypeOK /\ Numbered /\ DeterministicSoFar /\ CombineFinals
        BY <3>1
      <4>2. U = {q \in Listed : nr[q] \in used} /\ first \in U
        BY <2>1, <2>3
      <4>3. \A q \in U : \A m \in DOMAIN acts[q] : acts[q][m].targets \subseteq U
        BY <2>3
      <4> QED BY ONLY <4>1, <4>2, <4>3, CombineFinalsElements
    <3> QED BY <2>4, <3>2 DEF SharesFinals
  <2>6. U \subseteq Listed /\ Listed \subseteq Allocated /\ 0 \notin Allocated
    BY <2>1, SubsetBasics
  <2>7. TargetsListed'
    <3>1. ASSUME NEW q \in K, NEW m \in DOMAIN (acts')[q] PROVE (acts')[q][m].targets \subseteq K
      <4>1. m \in DOMAIN acts[q] /\ acts[q][m].targets \subseteq U
        BY <2>3, <2>5
      <4>2. (acts')[q][m].targets = {f[t] : t \in acts[q][m].targets}
        BY <2>5, <4>1
      <4> QED BY <2>5, <4>1, <4>2
    <3>2. LeadInto(Kept, Kept)'
      BY <2>4, <3>1 DEF LeadInto
    <3> QED BY <1>1, <3>2 DEF TargetsListed, Melting
  <2>8. Entries'
    BY <1>1, <1>7 DEF SubsetInv, Entries, Melting
  <2>9. \A q \in K : DeterministicList((acts')[q]) /\ (acts')[q] \in Seq(Action(Allocated))
    <3>1. \A k \in DOMAIN (chain') : DeterministicList((acts')[(chain')[k]])
      BY <1>1 DEF DeterministicSoFar
    <3>2. \A q \in Listed : DeterministicList((acts')[q])
      BY <1>1, <3>1 DEF Listed
    <3>3. acts' \in Seq(Seq(Action(Allocated)))
      BY <1>4 DEF TypeOK, HeapTypes
    <3>4. \A q \in Allocated : (acts')[q] \in Seq(Action(Allocated))
      <4>1. PICK B : B = Seq(Action(Allocated))
        OBVIOUS
      <4>2. acts' \in Seq(B) /\ Allocated = DOMAIN (acts')
        BY <1>4, <3>3, <4>1 DEF Allocated
      <4> QED BY <4>1, <4>2, ElementOfSeq
    <3> QED BY <2>5, <2>6, <3>2, <3>4
  <2>10. PICK R : R = {<<0, {}>>} \cup {<<f[q], StandsFor(q)>> : q \in U}
    OBVIOUS
  <2>11. \A S, ch : SubsetStep(S, ch)' = SubsetStep(S, ch)
    BY <1>1 DEF SubsetStep
  <2>12. <<first, {first}>> \in R
    <3>1. PICK c : c = chain[1] /\ c = first /\ 1 \in DOMAIN chain
      BY ChainStates DEF TypeOK, HeapTypes
    <3>2. nr[first] = 0
      <4>1. nr[chain[1]] = 1 - 1
        BY <1>2, <3>1
      <4> QED BY <3>1, <4>1
    <3>3. lastSim \in Nat
      BY DEF TypeOK, RoundTypes
    <3>4. Numbers(first) = {0}
      BY <3>2, <3>3 DEF Numbers
    <3>5. StandsFor(first) = {chain[n + 1] : n \in {0}}
      BY <3>4 DEF StandsFor
    <3>6. chain[0 + 1] = first
      <4>1. 0 + 1 = 1
        OBVIOUS
      <4> QED BY <3>1, <4>1
    <3>7. StandsFor(first) = {first}
      BY ONLY <3>5, <3>6
    <3> QED BY <2>3, <2>5, <2>10, <3>7
  <2>13. ASSUME NEW ch \in Chars
         PROVE  ResultStep(0, ch)' = 0 /\ SubsetStep({}, ch) = {}
    BY ResultStepIs DEF SubsetStep
  <2>14. /\ Represents(0, {})'
         /\ \E e \in Syms \cup {NoSym} : EndsOf({})' \subseteq {e}
    BY DEF Represents, EndsOf
  <2>15. ASSUME NEW q \in U, NEW S, NEW g, S = StandsFor(q), g = f[q]
         PROVE  /\ g \in K /\ g # 0 /\ g \in Allocated /\ Represents(g, S)'
                /\ ~failed' => \E e \in Syms \cup {NoSym} : EndsOf(S)' \subseteq {e}
                /\ \A ch \in Chars : <<ResultStep(g, ch)', SubsetStep(S, ch)>> \in R
    <3>1. S = StandsFor(q) /\ g = f[q]
      BY <2>15
    <3>2. /\ g \in K /\ g \in U /\ endOf[g] = endOf[q] /\ (ctx[g] <=> ctx[q]) /\ acts[g] = acts[q]
          /\ g # 0 /\ g \in Allocated /\ q \in Allocated
      BY <2>5, <2>6, <3>1
    <3>3. StandsWell(q)
      BY <2>2, <2>6
    <3>4. EndsLike(q, S) /\ MovesLike(q, S) /\ S # {}
      BY <3>1, <3>3 DEF StandsWell, StandsFor
    <3>5. /\ DOMAIN (acts')[g] = DOMAIN acts[q]
          /\ \A m \in DOMAIN acts[q] :
                     /\ (acts')[g][m].syms = acts[q][m].syms
                     /\ (acts')[g][m].tc = acts[q][m].tc
                     /\ (acts')[g][m].targets = {f[t] : t \in acts[q][m].targets}
      BY <2>5, <3>2
    <3>6. \A ch \in Chars : IsContextMove((acts')[g], ch) <=> IsContextMove(acts[q], ch)
      BY <3>5 DEF IsContextMove
    <3>7. endOf[q] \in Syms \cup {NoSym}
      <4>1. endOf \in Seq(Syms \cup {NoSym}) /\ Len(endOf) = Len(acts) /\ q \in 1..Len(acts)
        BY <3>2, ChainStates DEF TypeOK, HeapTypes
      <4> QED BY <4>1
    <3>8. /\ Represents(g, S)'
          /\ ~failed' => \E e \in Syms \cup {NoSym} : EndsOf(S)' \subseteq {e}
      BY <1>1, <3>2, <3>4, <3>6, <3>7, PairRepresents
    <3>9. ASSUME NEW ch \in Chars PROVE <<ResultStep(g, ch)', SubsetStep(S, ch)>> \in R
      <4>1. StandFor(Reached(acts[q], ch)) = SubsetStep(S, ch)
        BY <3>4 DEF MovesLike
      <4>2. acts[q] \in Seq(Action(Allocated)) /\ DeterministicList(acts[q])
        <5>1. \A k \in DOMAIN chain : DeterministicList(acts[chain[k]])
          BY <1>1 DEF DeterministicSoFar
        <5> QED BY <2>6, <3>2, <5>1, ChainStates DEF Listed
      <4>3. \A t : t \in Reached((acts')[g], ch) <=> \E u \in Reached(acts[q], ch) : t = f[u]
        <5> TAKE t
        <5>1. t \in Reached((acts')[g], ch) <=>
                \E m \in DOMAIN acts[q] : ch \in acts[q][m].syms
                  /\ t \in {f[u] : u \in acts[q][m].targets}
          BY <3>5, ReachedMember
        <5>2. \A u : u \in Reached(acts[q], ch) <=>
                \E m \in DOMAIN acts[q] : ch \in acts[q][m].syms /\ u \in acts[q][m].targets
          BY ReachedMember
        <5> QED BY <5>1, <5>2
      <4>4. \/ StepIn((acts')[g], ch) = 0 /\ Reached((acts')[g], ch) = {}
            \/ Reached((acts')[g], ch) = {StepIn((acts')[g], ch)}
        BY <2>6, <2>9, <3>2, DeterministicStep
      <4>5. Reached(acts[q], ch) = {} \/ \E u : Reached(acts[q], ch) = {u}
        BY <2>6, <4>2, DeterministicStep
      <4>6. ResultStep(g, ch)' = StepIn((acts')[g], ch)
        BY <3>2, ResultStepIs
      <4>7. CASE Reached(acts[q], ch) = {}
        <5>1. Reached((acts')[g], ch) = {}
          BY <4>3, <4>7
        <5>2. ResultStep(g, ch)' = 0
          BY <4>4, <4>6, <5>1
        <5>3. StandFor({}) = {}
          BY DEF StandFor
        <5> QED BY <2>10, <4>1, <4>7, <5>2, <5>3
      <4>8. ASSUME NEW u, Reached(acts[q], ch) = {u}
            PROVE  <<ResultStep(g, ch)', SubsetStep(S, ch)>> \in R
        <5>1. u \in U
          <6>1. PICK m \in DOMAIN acts[q] : u \in acts[q][m].targets
            BY <4>8, ReachedMember
          <6> QED BY <2>3, <6>1
        <5>2. Reached((acts')[g], ch) = {f[u]}
          BY <4>3, <4>8
        <5>3. ResultStep(g, ch)' = f[u]
          BY <4>4, <4>6, <5>2
        <5>4. SubsetStep(S, ch) = StandsFor(u)
          BY <4>1, <4>8 DEF StandFor
        <5> QED BY <2>10, <5>1, <5>3, <5>4
      <4> QED BY <4>5, <4>7, <4>8
    <3> QED BY <3>2, <3>8, <3>9
  <2>16. ASSUME NEW p \in R
         PROVE  /\ p[1] # 0 => p[1] \in Allocated /\ DeterministicList((acts')[p[1]])
                /\ Represents(p[1], p[2])'
                /\ ~failed' => \E e \in Syms \cup {NoSym} : EndsOf(p[2])' \subseteq {e}
                /\ \A ch \in Chars : <<ResultStep(p[1], ch)', SubsetStep(p[2], ch)'>> \in R
    <3>1. CASE p = <<0, {}>>
      <4>1. p[1] = 0 /\ p[2] = {}
        BY <3>1
      <4>2. \A ch \in Chars : <<ResultStep(0, ch)', SubsetStep({}, ch)'>> \in R
        BY <2>10, <2>11, <2>13
      <4> QED BY <2>14, <4>1, <4>2
    <3>2. ASSUME NEW q \in U, p = <<f[q], StandsFor(q)>>
          PROVE  /\ p[1] # 0 => p[1] \in Allocated /\ DeterministicList((acts')[p[1]])
                 /\ Represents(p[1], p[2])'
                 /\ ~failed' => \E e \in Syms \cup {NoSym} : EndsOf(p[2])' \subseteq {e}
                 /\ \A ch \in Chars : <<ResultStep(p[1], ch)', SubsetStep(p[2], ch)'>> \in R
      <4>1. PICK g, S : g = f[q] /\ S = StandsFor(q)
        OBVIOUS
      <4>2. p[1] = g /\ p[2] = S
        BY <3>2, <4>1
      <4>3. /\ g \in K /\ g \in Allocated /\ Represents(g, S)'
            /\ ~failed' => \E e \in Syms \cup {NoSym} : EndsOf(S)' \subseteq {e}
            /\ \A ch \in Chars : <<ResultStep(g, ch)', SubsetStep(S, ch)>> \in R
        BY <2>15, <4>1
      <4> QED BY <2>9, <2>11, <4>2, <4>3
    <3> QED BY <2>10, <3>1, <3>2
  <2>17. Simulates(R)'
    BY <1>4, <2>12, <2>16 DEF Simulates
  <2>18. Simulated'
    BY <2>17 DEF Simulated
  <2> QED BY <2>7, <2>8, <2>18
<1>8. StandsRight' /\ Copied' /\ Built' /\ Marked'
  BY <1>1, <1>6 DEF StandsRight, Copied, Built, Marked, Melting
<1> QED BY <1>1, <1>3, <1>5, <1>7, <1>8 DEF SubsetInv

----------------------------------------------------------------------------
(* Redundant states leave the list.                                        *)

\* A used state gets its position as its number, an unused one leaves the list.
LEMMA DeleteStateElements ==
  ASSUME TypeOK, DeleteState
  PROVE  \/ /\ at \in DOMAIN chain /\ nr[chain[at]] \in used /\ chain' = chain /\ at' = at + 1
            /\ (nr')[chain[at]] = at - 1
            /\ \A q \in Allocated : q # chain[at] => (nr')[q] = nr[q]
         \/ /\ at \in DOMAIN chain /\ nr[chain[at]] \notin used /\ nr' = nr /\ at' = at
            /\ DOMAIN (chain') = 1..(Len(chain) - 1)
            /\ \A k \in 1..(Len(chain) - 1) :
                 (chain')[k] = IF k < at THEN chain[k] ELSE chain[k + 1]
<1>1. /\ at \in 1..Len(chain) /\ at \in Nat /\ Len(chain) \in Nat
      /\ DOMAIN chain = 1..Len(chain) /\ chain \in Seq(Allocated) /\ chain[at] \in Allocated
  BY ChainStates DEF DeleteState, TypeOK, PositionTypes, HeapTypes
<1>2. CASE /\ nr[chain[at]] \in used
           /\ nr' = [nr EXCEPT ![chain[at]] = at - 1] /\ at' = at + 1 /\ UNCHANGED chain
  <2>1. DOMAIN nr = Allocated
    <3>1. nr \in Seq(Nat) /\ Len(nr) = Len(acts) /\ Allocated = 1..Len(acts)
      BY ChainStates DEF TypeOK, HeapTypes
    <3> QED BY <3>1
  <2>2. PICK s, n : s = chain[at] /\ n = at - 1
    OBVIOUS
  <2>3. nr' = [nr EXCEPT ![s] = n] /\ s \in DOMAIN nr
    BY <1>1, <1>2, <2>1, <2>2
  <2>4. (nr')[s] = n /\ \A q \in DOMAIN nr : q # s => (nr')[q] = nr[q]
    BY <2>3
  <2> QED BY <1>1, <1>2, <2>1, <2>2, <2>4
<1>3. CASE nr[chain[at]] \notin used /\ chain' = RemoveAt(chain, at) /\ UNCHANGED <<nr, at>>
  <2>1. PICK A : A = Allocated
    OBVIOUS
  <2>2. chain \in Seq(A) /\ at \in 1..Len(chain)
    BY <1>1, <2>1
  <2>3. /\ RemoveAt(chain, at) \in Seq(A) /\ Len(RemoveAt(chain, at)) = Len(chain) - 1
        /\ \A k \in 1..(Len(chain) - 1) :
             RemoveAt(chain, at)[k] = IF k < at THEN chain[k] ELSE chain[k + 1]
    BY ONLY <2>2, RemoveAtElements
  <2>4. DOMAIN (chain') = 1..(Len(chain) - 1)
    BY <1>3, <2>3
  <2> QED BY <1>1, <1>3, <2>3, <2>4
<1> QED BY <1>2, <1>3 DEF DeleteState

\* The states kept or still to be kept are the same before and after.
LEMMA DeleteStateSubset ==
  ASSUME TypeOK, SubsetInv, DeleteState
  PROVE  SubsetInv'
<1>1. /\ pc = "delete" /\ pc' = "delete"
      /\ UNCHANGED <<acts, endOf, ctx, melted, lastSim, failed, before, round, stale, used>>
  BY DEF DeleteState, history, symbols, marks
<1>2. /\ at \in Nat \ {0} /\ Len(chain) \in Nat /\ DOMAIN chain = 1..Len(chain)
      /\ \A k \in DOMAIN chain : chain[k] \in Allocated
      /\ \A k, m \in DOMAIN chain : chain[k] = chain[m] => k = m
  BY ChainStates DEF TypeOK, HeapTypes, PositionTypes
<1>3. \A k \in DOMAIN chain : k < at => nr[chain[k]] = k - 1
  BY <1>1 DEF SubsetInv, Numbered
<1>4. Numbered' /\ Kept' = Kept
  <2>1. CASE /\ at \in DOMAIN chain /\ nr[chain[at]] \in used /\ chain' = chain /\ at' = at + 1
             /\ (nr')[chain[at]] = at - 1
             /\ \A q \in Allocated : q # chain[at] => (nr')[q] = nr[q]
    <3>1. \A k \in DOMAIN chain : k # at => (nr')[chain[k]] = nr[chain[k]]
      BY <1>2, <2>1
    <3>2. \A k \in DOMAIN chain : k < at + 1 => (nr')[chain[k]] = k - 1
      <4> TAKE k \in DOMAIN chain
      <4>1. CASE k = at
        BY <2>1, <4>1
      <4>2. CASE k # at
        BY <1>2, <1>3, <3>1, <4>2
      <4> QED BY <4>1, <4>2
    <3>3. Numbered'
      BY <1>1, <2>1, <3>2 DEF Numbered
    <3>4. \A k \in DOMAIN chain : (k < at + 1 \/ (nr')[chain[k]] \in used)
                                    <=> (k < at \/ nr[chain[k]] \in used)
      <4> TAKE k \in DOMAIN chain
      <4>1. CASE k = at
        BY <1>2, <2>1, <4>1
      <4>2. CASE k # at
        BY <1>2, <3>1, <4>2
      <4> QED BY <4>1, <4>2
    <3>5. Kept' = {chain[k] : k \in {k \in DOMAIN chain : k < at + 1 \/ (nr')[chain[k]] \in used}}
      BY <1>1, <2>1 DEF Kept
    <3>6. Kept' = Kept
      BY <3>4, <3>5 DEF Kept
    <3> QED BY <3>3, <3>6
  <2>2. CASE /\ at \in DOMAIN chain /\ nr[chain[at]] \notin used /\ nr' = nr /\ at' = at
             /\ DOMAIN (chain') = 1..(Len(chain) - 1)
             /\ \A k \in 1..(Len(chain) - 1) :
                  (chain')[k] = IF k < at THEN chain[k] ELSE chain[k + 1]
    <3>1. Numbered'
      <4>1. \A k \in 1..(Len(chain) - 1) : k < at => nr[(chain')[k]] = k - 1
        BY <1>2, <1>3, <2>2
      <4> QED BY <1>1, <2>2, <4>1 DEF Numbered
    <3>2. ASSUME NEW q PROVE q \in Kept' <=> q \in Kept
      <4>1. q \in Kept <=> \E k \in DOMAIN chain : /\ q = chain[k]
                                                   /\ k < at \/ nr[chain[k]] \in used
        BY DEF Kept
      <4>2. q \in Kept' <=> \E k \in DOMAIN (chain') : /\ q = (chain')[k]
                                                       /\ k < at \/ nr[(chain')[k]] \in used
        BY <1>1, <2>2 DEF Kept
      <4>3. ASSUME NEW k \in DOMAIN chain, q = chain[k], k < at \/ nr[chain[k]] \in used
            PROVE  q \in Kept'
        <5>1. k # at
          BY <1>2, <2>2, <4>3
        <5>2. CASE k < at
          <6>1. k \in 1..(Len(chain) - 1) /\ (chain')[k] = chain[k]
            BY <1>2, <2>2, <5>2
          <6> QED BY <2>2, <4>2, <4>3, <5>2, <6>1
        <5>3. CASE at < k
          <6>1. k - 1 \in 1..(Len(chain) - 1) /\ (chain')[k - 1] = chain[k]
            BY <1>2, <2>2, <5>3
          <6>2. nr[chain[k]] \in used
            BY <1>2, <4>3, <5>3
          <6> QED BY <2>2, <4>2, <4>3, <6>1, <6>2
        <5> QED BY <1>2, <5>1, <5>2, <5>3
      <4>4. ASSUME NEW k \in DOMAIN (chain'), q = (chain')[k],
                   k < at \/ nr[(chain')[k]] \in used
            PROVE  q \in Kept
        <5>1. CASE k < at
          <6>1. k \in DOMAIN chain /\ (chain')[k] = chain[k]
            BY <1>2, <2>2, <5>1
          <6> QED BY <4>1, <4>4, <5>1, <6>1
        <5>2. CASE ~(k < at)
          <6>1. k + 1 \in DOMAIN chain /\ (chain')[k] = chain[k + 1]
            BY <1>2, <2>2, <5>2
          <6>2. nr[chain[k + 1]] \in used
            BY <4>4, <5>2, <6>1
          <6> QED BY <4>1, <4>4, <6>1, <6>2
        <5> QED BY <5>1, <5>2
      <4> QED BY <4>1, <4>2, <4>3, <4>4
    <3> QED BY <3>1, <3>2
  <2> QED BY <2>1, <2>2, DeleteStateElements
<1>5. BeforeTypes'
  BY <1>1 DEF SubsetInv, BeforeTypes, Melting
<1>6. ASSUME ~stale PROVE TargetsListed' /\ Entries' /\ Simulated'
  <2>1. LeadInto(Kept, Kept)
    BY <1>1, <1>6 DEF SubsetInv, TargetsListed
  <2>2. LeadInto(Kept, Kept)'
    BY <1>1, <1>4, <2>1 DEF LeadInto
  <2>3. TargetsListed'
    BY <1>1, <2>2 DEF TargetsListed, Melting
  <2>4. Entries'
    BY <1>1, <1>6 DEF SubsetInv, Entries, Melting
  <2>5. Simulated'
    BY <1>1, <1>6, SameSimulated DEF SubsetInv
  <2> QED BY <2>3, <2>4, <2>5
<1>7. StandsRight' /\ Copied' /\ Built' /\ Marked'
  BY <1>1 DEF StandsRight, Copied, Built, Marked, Melting, Building
<1> QED BY <1>1, <1>4, <1>5, <1>6, <1>7 DEF SubsetInv

----------------------------------------------------------------------------
(* Actions with the same target become one.                                *)

\* No state of the automaton goes another way than before.
LEMMA CombineElements ==
  ASSUME TypeOK, DeterministicSoFar, Combine
  PROVE  \A q \in Allocated :
           /\ SameMoves((acts')[q], acts[q])
           /\ \A S : acts[q] \in Seq(Action(S)) => (acts')[q] \in Seq(Action(S))
<1> DEFINE a == Melter[ia]
           b == Melter[ib]
           x == ShiftWith(a, a.syms \cup b.syms)
           mid == [Melter EXCEPT ![ia] = x]
           list == DetachAction(mid, ib)
<1>1. pc = "combine" /\ ib <= Len(Melter)
  BY DEF Combine
<1>2. at \in DOMAIN chain /\ Melter \in Seq(Action(Allocated)) /\ DeterministicList(Melter)
  <2>1. at \in DOMAIN chain
    BY <1>1, ChainStates DEF TypeOK, PositionTypes
  <2> QED BY <1>1, <2>1, ChainStates DEF Melter, DeterministicSoFar
<1>3. /\ ia \in 1..Len(Melter) /\ ib \in 1..Len(Melter) /\ ia # ib
      /\ DOMAIN Melter = 1..Len(Melter)
  <2>1. Len(Melter) \in Nat /\ DOMAIN Melter = 1..Len(Melter)
    BY <1>2
  <2> QED BY <1>1, <2>1 DEF TypeOK, PositionTypes
<1>4. CASE UNCHANGED acts
  BY <1>4 DEF SameMoves
<1>5. CASE acts' = [acts EXCEPT ![chain[at]] = list] /\ Target(a) = Target(b) /\ a.tc = b.tc
  <2>1. ASSUME NEW S, Melter \in Seq(Action(S))
        PROVE  /\ list \in Seq(Action(S))
               /\ x.syms = a.syms \cup b.syms /\ x.targets = a.targets /\ x.tc = a.tc
               /\ mid[ia] = x /\ \A m \in DOMAIN Melter : m # ia => mid[m] = Melter[m]
               /\ DOMAIN mid = DOMAIN Melter
               /\ \A k \in DOMAIN list : \E m \in DOMAIN mid : m # ib /\ list[k] = mid[m]
               /\ \A m \in DOMAIN mid : m # ib => \E k \in DOMAIN list : list[k] = mid[m]
    <3>1. a \in Action(S) /\ b \in Action(S)
      <4> HIDE DEF Melter
      <4> QED BY <1>3, <2>1, ElementOfSeq
    <3>2. x \in Action(S) /\ x.syms = a.syms \cup b.syms /\ x.targets = a.targets /\ x.tc = a.tc
      <4>1. a.syms \cup b.syms \in SUBSET Chars
        BY <3>1 DEF Action
      <4> HIDE DEF a, b
      <4> QED BY <3>1, <4>1, ShiftWithAction
    <3> HIDE DEF x
    <3>3. /\ mid \in Seq(Action(S)) /\ Len(mid) = Len(Melter)
          /\ DOMAIN mid = DOMAIN Melter /\ mid[ia] = x
          /\ \A m \in DOMAIN Melter : m # ia => mid[m] = Melter[m]
      <4> HIDE DEF Melter
      <4> QED BY <1>3, <2>1, <3>2
    <3> HIDE DEF mid
    <3>4. ib \in 1..Len(mid)
      BY <1>3, <3>3
    <3>5. /\ list \in Seq(Action(S))
          /\ \A k \in DOMAIN list : \E m \in DOMAIN mid : m # ib /\ list[k] = mid[m]
          /\ \A m \in DOMAIN mid : m # ib => \E k \in DOMAIN list : list[k] = mid[m]
      BY <3>3, <3>4, DetachElements
    <3> QED BY <3>2, <3>3, <3>5
  <2>2. /\ x.syms = a.syms \cup b.syms /\ x.targets = a.targets /\ x.tc = a.tc
        /\ mid[ia] = x /\ \A m \in DOMAIN Melter : m # ia => mid[m] = Melter[m]
        /\ DOMAIN mid = DOMAIN Melter
        /\ \A k \in DOMAIN list : \E m \in DOMAIN mid : m # ib /\ list[k] = mid[m]
        /\ \A m \in DOMAIN mid : m # ib => \E k \in DOMAIN list : list[k] = mid[m]
    BY <1>2, <2>1
  <2>3. a.targets = b.targets
    <3>1. IsSingle(a.targets) /\ IsSingle(b.targets)
      BY <1>2, <1>3 DEF DeterministicList
    <3>2. PICK s, t : a.targets = {s} /\ b.targets = {t}
      BY <3>1 DEF IsSingle
    <3>3. Target(a) = s /\ Target(b) = t
      BY <3>2 DEF Target
    <3> QED BY <1>5, <3>2, <3>3
  <2>4. PICK old, new : old = Melter /\ new = list
    OBVIOUS
  <2>5. /\ \A k \in DOMAIN new :
             \/ \E m \in DOMAIN old : new[k] = old[m]
             \/ /\ new[k].syms = old[ia].syms \cup old[ib].syms
                /\ new[k].targets = old[ia].targets /\ new[k].tc = old[ia].tc
        /\ \A m \in DOMAIN old : m # ia /\ m # ib => \E k \in DOMAIN new : new[k] = old[m]
        /\ \E k \in DOMAIN new :
             /\ new[k].syms = old[ia].syms \cup old[ib].syms
             /\ new[k].targets = old[ia].targets /\ new[k].tc = old[ia].tc
        /\ ia \in DOMAIN old /\ ib \in DOMAIN old
        /\ old[ia].targets = old[ib].targets /\ old[ia].tc = old[ib].tc
    <3> HIDE DEF x, mid, list
    <3>1. \A k \in DOMAIN list :
             \/ \E m \in DOMAIN Melter : list[k] = Melter[m]
             \/ list[k] = x
      BY <2>2
    <3>2. \A m \in DOMAIN Melter : m # ia /\ m # ib => \E k \in DOMAIN list : list[k] = Melter[m]
      BY <2>2
    <3>3. \E k \in DOMAIN list : list[k] = x
      BY <1>3, <2>2
    <3> QED BY <1>3, <1>5, <2>2, <2>3, <2>4, <3>1, <3>2, <3>3
  <2>6. SameMoves(new, old)
    <3>1. ASSUME NEW ch \in Chars, NEW k \in DOMAIN new, ch \in new[k].syms
          PROVE  /\ \A q \in new[k].targets :
                      \E m \in DOMAIN old : ch \in old[m].syms /\ q \in old[m].targets
                 /\ new[k].tc = "contextTrans" =>
                      \E m \in DOMAIN old : ch \in old[m].syms /\ old[m].tc = "contextTrans"
      <4>1. CASE \E m \in DOMAIN old : new[k] = old[m]
        BY <3>1, <4>1
      <4>2. CASE /\ new[k].syms = old[ia].syms \cup old[ib].syms
                 /\ new[k].targets = old[ia].targets /\ new[k].tc = old[ia].tc
        BY <2>5, <3>1, <4>2
      <4> QED BY <2>5, <4>1, <4>2
    <3>2. ASSUME NEW ch \in Chars, NEW m \in DOMAIN old, ch \in old[m].syms
          PROVE  /\ \A q \in old[m].targets :
                      \E k \in DOMAIN new : ch \in new[k].syms /\ q \in new[k].targets
                 /\ old[m].tc = "contextTrans" =>
                      \E k \in DOMAIN new : ch \in new[k].syms /\ new[k].tc = "contextTrans"
      <4>1. CASE m # ia /\ m # ib
        <5>1. PICK k \in DOMAIN new : new[k] = old[m]
          BY <2>5, <4>1
        <5> QED BY <3>2, <5>1
      <4>2. CASE m = ia \/ m = ib
        <5>1. PICK k \in DOMAIN new : /\ new[k].syms = old[ia].syms \cup old[ib].syms
                                      /\ new[k].targets = old[ia].targets
                                      /\ new[k].tc = old[ia].tc
          BY <2>5
        <5>2. ch \in new[k].syms /\ new[k].targets = old[m].targets /\ new[k].tc = old[m].tc
          BY <2>5, <3>2, <4>2, <5>1
        <5> QED BY <5>1, <5>2
      <4> QED BY <4>1, <4>2
    <3> QED BY <3>1, <3>2, SameMovesIntro
  <2>7. PICK s : s = chain[at]
    OBVIOUS
  <2>8. s \in Allocated /\ acts[s] = old
    BY <1>2, <2>4, <2>7, ChainStates DEF Melter
  <2>9. (acts')[s] = new /\ \A q \in Allocated : q # s => (acts')[q] = acts[q]
    <3>1. acts' = [acts EXCEPT ![s] = new] /\ s \in DOMAIN acts
      BY <1>5, <2>4, <2>7, <2>8 DEF Allocated
    <3> QED BY <3>1 DEF Allocated
  <2>10. \A q \in Allocated : SameMoves((acts')[q], acts[q])
    <3> TAKE q \in Allocated
    <3>1. CASE q = s
      BY <2>6, <2>8, <2>9, <3>1
    <3>2. CASE q # s
      <4>1. (acts')[q] = acts[q]
        BY <2>9, <3>2
      <4> QED BY <4>1 DEF SameMoves
    <3> QED BY <3>1, <3>2
  <2>11. \A q \in Allocated : \A S : acts[q] \in Seq(Action(S)) => (acts')[q] \in Seq(Action(S))
    <3> TAKE q \in Allocated
    <3> TAKE S
    <3>1. CASE q = s
      <4>1. Melter \in Seq(Action(S)) => list \in Seq(Action(S))
        BY <2>1
      <4> HIDE DEF list
      <4> QED BY <2>4, <2>8, <2>9, <3>1, <4>1
    <3>2. CASE q # s
      BY <2>9, <3>2
    <3> QED BY <3>1, <3>2
  <2> QED BY <2>10, <2>11
<1> QED BY <1>4, <1>5 DEF Combine, Melter

\* Lists with the same moves, deterministic both, go the same ways.
LEMMA SameStep ==
  ASSUME NEW Q, 0 \notin Q, NEW l1 \in Seq(Action(Q)), NEW l2 \in Seq(Action(Q)),
         DeterministicList(l1), DeterministicList(l2), SameMoves(l1, l2), NEW ch \in Chars
  PROVE  StepIn(l1, ch) = StepIn(l2, ch)
<1>1. Reached(l1, ch) = Reached(l2, ch)
  BY DEF SameMoves
<1>2. \/ StepIn(l1, ch) = 0 /\ Reached(l1, ch) = {}
      \/ StepIn(l1, ch) \in Q /\ Reached(l1, ch) = {StepIn(l1, ch)}
  BY DeterministicStep
<1>3. \/ StepIn(l2, ch) = 0 /\ Reached(l2, ch) = {}
      \/ StepIn(l2, ch) \in Q /\ Reached(l2, ch) = {StepIn(l2, ch)}
  BY DeterministicStep
<1>4. PICK R, a, b : R = Reached(l1, ch) /\ a = StepIn(l1, ch) /\ b = StepIn(l2, ch)
  OBVIOUS
<1>5. /\ (a = 0 /\ R = {}) \/ R = {a}
      /\ (b = 0 /\ R = {}) \/ R = {b}
  BY <1>1, <1>2, <1>3, <1>4
<1>6. a = b
  BY ONLY <1>5
<1> QED BY <1>4, <1>6

\* So the relation is still respected.
LEMMA CombineSubset ==
  ASSUME TypeOK, TypeOK', SubsetInv, DeterministicSoFar, DeterministicSoFar', Combine
  PROVE  SubsetInv'
<1>1. /\ pc = "combine" /\ pc' = "combine"
      /\ UNCHANGED <<endOf, ctx, nr, chain, melted, lastSim, failed, before, round, stale>>
  BY DEF Combine, history, symbols
<1>2. Len(acts') = Len(acts) /\ Allocated' = Allocated
  <2>1. Allocated' = Allocated
    BY DEF Combine, Allocated
  <2>2. Len(endOf) = Len(acts) /\ Len(endOf') = Len(acts')
    BY DEF TypeOK, HeapTypes
  <2> QED BY <1>1, <2>1, <2>2
<1>3. Numbered'
  BY <1>1 DEF SubsetInv, Numbered
<1>4. BeforeTypes'
  BY <1>1, <1>2 DEF SubsetInv, BeforeTypes, Melting
<1>5. \A q \in Allocated : q \in Listed \/ (acts')[q] = acts[q]
  <2>1. at \in DOMAIN chain
    BY <1>1, ChainStates DEF TypeOK, PositionTypes
  <2>2. PICK s : s = chain[at]
    OBVIOUS
  <2>3. \A q \in Allocated : q # s => (acts')[q] = acts[q]
    BY <2>2 DEF Combine, Allocated
  <2> QED BY <2>1, <2>2, <2>3 DEF Listed
<1>6. ASSUME NEW q \in Allocated
      PROVE  /\ acts[q] \in Seq(Action(Allocated)) /\ (acts')[q] \in Seq(Action(Allocated))
             /\ SameMoves((acts')[q], acts[q])
             /\ DeterministicList(acts[q]) => DeterministicList((acts')[q])
  <2>1. acts[q] \in Seq(Action(Allocated))
    BY ChainStates
  <2>2. (acts')[q] \in Seq(Action(Allocated)) /\ SameMoves((acts')[q], acts[q])
    BY <2>1, CombineElements
  <2>3. CASE q \in Listed
    <3>1. \A k \in DOMAIN (chain') : DeterministicList((acts')[(chain')[k]])
      BY <1>1 DEF DeterministicSoFar
    <3> QED BY <1>1, <2>1, <2>2, <2>3, <3>1 DEF Listed
  <2>4. CASE (acts')[q] = acts[q]
    BY <2>1, <2>2, <2>4
  <2> QED BY <1>5, <2>3, <2>4
<1>7. ASSUME ~stale PROVE TargetsListed' /\ Entries' /\ Simulated'
  <2>1. TargetsListed'
    <3>1. PICK L : L = Listed
      OBVIOUS
    <3>2. L \subseteq Allocated /\ LeadInto(L, L)
      BY <1>1, <1>7, <3>1, SubsetBasics DEF SubsetInv, TargetsListed
    <3>3. \A q \in L : acts[q] \in Seq(Action(L))
      BY <3>2, LeadIntoLists
    <3>4. \A q \in L : (acts')[q] \in Seq(Action(L))
      BY <3>2, <3>3, CombineElements
    <3>5. LeadInto(L, L)'
      BY <3>4, ListsLeadInto
    <3>6. Listed' = L
      BY <1>1, <3>1 DEF Listed
    <3>7. LeadInto(Listed, Listed)'
      BY <3>5, <3>6 DEF LeadInto
    <3> QED BY <1>1, <3>7 DEF TargetsListed, Melting
  <2>2. Entries'
    BY <1>1, <1>7 DEF SubsetInv, Entries, Melting
  <2>3. PICK R : Simulates(R)
    BY <1>1, <1>7 DEF SubsetInv, Simulated
  <2>4. /\ \A S : EndsOf(S)' = EndsOf(S)
        /\ \A S, ch : SubsetStep(S, ch)' = SubsetStep(S, ch)
    BY <1>1 DEF EndsOf, SubsetStep
  <2>5. ASSUME NEW d, NEW S, d # 0 => d \in Allocated /\ DeterministicList(acts[d]),
               Represents(d, S)
        PROVE  /\ Represents(d, S)'
               /\ \A ch \in Chars : ResultStep(d, ch)' = ResultStep(d, ch)
    <3>1. CASE d = 0
      BY <2>5, <3>1, ResultStepIs DEF Represents
    <3>2. CASE d # 0
      <4>1. d \in Allocated /\ DeterministicList(acts[d])
        BY <2>5, <3>2
      <4>2. /\ acts[d] \in Seq(Action(Allocated)) /\ (acts')[d] \in Seq(Action(Allocated))
            /\ SameMoves((acts')[d], acts[d]) /\ DeterministicList((acts')[d])
        BY <1>6, <4>1
      <4>3. \A ch \in Chars : IsContextMove((acts')[d], ch) <=> IsContextMove(acts[d], ch)
        BY <4>2 DEF SameMoves
      <4>4. Represents(d, S)'
        BY <1>1, <2>5, <3>2, <4>3 DEF Represents
      <4>5. \A ch \in Chars : StepIn((acts')[d], ch) = StepIn(acts[d], ch)
        BY <4>1, <4>2, SubsetBasics, SameStep
      <4> QED BY <3>2, <4>4, <4>5, ResultStepIs
    <3> QED BY <3>1, <3>2
  <2>6. ASSUME NEW p \in R
        PROVE  /\ p[1] # 0 => p[1] \in Allocated' /\ DeterministicList((acts')[p[1]])
               /\ Represents(p[1], p[2])'
               /\ ~failed' => \E e \in Syms \cup {NoSym} : EndsOf(p[2])' \subseteq {e}
               /\ \A ch \in Chars : <<ResultStep(p[1], ch)', SubsetStep(p[2], ch)'>> \in R
    <3>1. PICK d, S : d = p[1] /\ S = p[2]
      OBVIOUS
    <3>2. /\ d # 0 => d \in Allocated /\ DeterministicList(acts[d])
          /\ Represents(d, S)
          /\ ~failed => \E e \in Syms \cup {NoSym} : EndsOf(S) \subseteq {e}
          /\ \A ch \in Chars : <<ResultStep(d, ch), SubsetStep(S, ch)>> \in R
      BY <2>3, <3>1 DEF Simulates
    <3>3. Represents(d, S)' /\ \A ch \in Chars : ResultStep(d, ch)' = ResultStep(d, ch)
      BY <2>5, <3>2
    <3>4. d # 0 => d \in Allocated' /\ DeterministicList((acts')[d])
      BY <1>2, <1>6, <3>2
    <3>5. ~failed' => \E e \in Syms \cup {NoSym} : EndsOf(S)' \subseteq {e}
      BY <1>1, <2>4, <3>2
    <3>6. \A ch \in Chars : <<ResultStep(d, ch)', SubsetStep(S, ch)'>> \in R
      BY <2>4, <3>2, <3>3
    <3> QED BY <3>1, <3>3, <3>4, <3>5, <3>6
  <2>7. Simulates(R)'
    <3>1. <<first, {first}>> \in R
      BY <2>3 DEF Simulates
    <3> QED BY <2>6, <3>1 DEF Simulates, first
  <2> QED BY <2>1, <2>2, <2>7 DEF Simulated
<1>8. StandsRight' /\ Copied' /\ Built' /\ Marked'
  BY <1>1 DEF StandsRight, Copied, Built, Marked, Melting, Building
<1> QED BY <1>1, <1>3, <1>4, <1>7, <1>8 DEF SubsetInv

----------------------------------------------------------------------------
(* The invariant.                                                          *)

\* At first there is one state, and it leads nowhere.
LEMMA InitSubset == ASSUME TypeOK, Init PROVE SubsetInv
<1>1. /\ acts = << <<>> >> /\ endOf = <<NoSym>> /\ ctx = <<FALSE>> /\ nr = <<0>>
      /\ chain = <<first>> /\ melted = <<>> /\ lastSim = 0 /\ pc = "tokens" /\ round = 0
      /\ before = [acts |-> acts, endOf |-> endOf, ctx |-> ctx]
  BY DEF Init
<1>2. /\ before.acts = acts /\ before.endOf = endOf /\ before.ctx = ctx
  BY <1>1
<1>3. Numbered
  BY <1>1 DEF Numbered, first
<1>4. BeforeTypes
  <2>1. /\ acts \in Seq(Seq(Action(DOMAIN acts))) /\ endOf \in Seq(Syms \cup {NoSym})
        /\ ctx \in Seq(BOOLEAN) /\ Len(endOf) = Len(acts) /\ Len(ctx) = Len(acts)
        /\ Len(acts) \in Nat
    BY DEF TypeOK, HeapTypes, Allocated
  <2> QED BY <1>1, <1>2, <2>1 DEF BeforeTypes, Melting
<1>5. TargetsListed
  BY <1>1 DEF TargetsListed, Melting, Listed, Allocated, first
<1>6. Entries
  BY <1>1 DEF Entries, Melting
<1>7. StandsRight /\ Copied /\ Built /\ Marked /\ Simulated
  BY <1>1 DEF StandsRight, Copied, Built, Marked, Simulated, Melting, Building
<1> QED BY <1>3, <1>4, <1>5, <1>6, <1>7 DEF SubsetInv

\* What MakeDeterministic builds is what the states it started with stand for.
THEOREM SubsetConstructed == Spec => []SubsetInv
<1>1. TypeOK /\ Init => SubsetInv
  BY InitSubset
<1>2. /\ TypeOK /\ TypeOK' /\ DeterministicSoFar /\ DeterministicSoFar'
      /\ SubsetInv /\ [Next]_vars
      => SubsetInv'
  <2> SUFFICES ASSUME TypeOK, TypeOK', DeterministicSoFar, DeterministicSoFar', SubsetInv,
                      [Next]_vars
               PROVE  SubsetInv'
    OBVIOUS
  <2>1. CASE \E s \in Syms : DeclareToken(s) \/ UseLiteral(s)
    BY <2>1, DeclareSubset
  <2>2. CASE NewTransition
    BY <2>2, NewTransitionSubset
  <2>3. CASE Productions \/ (WriteScanner /\ pc' # "written")
    <3>1. StartRound /\ pc \in {"tokens", "productions"}
      BY <2>3 DEF Productions, WriteScanner
    <3> QED BY <3>1, StartSubset
  <2>4. CASE \/ NextUnique \/ MeltSkip \/ MeltNext \/ DeletedAll \/ CombineNext \/ Return
             \/ Abandon \/ (WriteScanner /\ pc' = "written")
    BY <2>4, QuietSteps
  <2>5. CASE NextA \/ NextPass \/ Finished \/ UNCHANGED vars
    BY <2>5, PassSubset
  <2>6. CASE Compare
    BY <2>6, CompareSubset
  <2>7. CASE MeltKnown
    BY <2>7, MeltKnownSubset
  <2>8. CASE MeltNew
    BY <2>8, MeltNewSubset
  <2>9. CASE MeltWith
    BY <2>9, MeltWithSubset
  <2>10. CASE MeltedAll
    BY <2>10, MeltedAllSubset
  <2>11. CASE NewMelted
    BY <2>11, NewMeltedSubset
  <2>12. CASE FindUsed
    BY <2>12, FindUsedSubset
  <2>13. CASE CombineFinals
    BY <2>13, CombineFinalsSubset
  <2>14. CASE DeleteState
    BY <2>14, DeleteStateSubset
  <2>15. CASE Combine
    BY <2>15, CombineSubset
  <2> QED
    BY <2>1, <2>2, <2>3, <2>4, <2>5, <2>6, <2>7, <2>8, <2>9, <2>10, <2>11, <2>12, <2>13, <2>14,
       <2>15
       DEF Next, Determinizing, MakeUnique, MeltStates, DeleteRedundantStates, CombineShifts
<1> QED BY TypeCorrect, DeterministicEver, <1>1, <1>2, PTL DEF Spec

----------------------------------------------------------------------------
(* What it says of the result.                                             *)

\* Induction up to a bound.
LEMMA Upwards ==
  ASSUME NEW N \in Nat, NEW G, 0 \in G, \A n \in 1..N : n - 1 \in G => n \in G
  PROVE  0..N \subseteq G
<1> DEFINE Out == {n \in 0..N : n \notin G}
<1>1. ASSUME Out # {} PROVE FALSE
  <2>1. PICK n \in Out : \A m \in Out : n <= m
    <3>1. Out \subseteq Nat /\ Out # {}
      BY <1>1
    <3> HIDE DEF Out
    <3> QED BY <3>1, LeastNat
  <2>2. n \in 1..N /\ n - 1 \in 0..N
    BY <2>1
  <2>3. n - 1 \in G
    BY <2>1, <2>2
  <2> QED BY <2>1, <2>2, <2>3
<1> QED BY <1>1

\* A step that stays in S can be repeated.
IsRun(f, S, x, step, N) ==
  f \in [0..N -> S] /\ f[0] = x /\ \A n \in 1..N : f[n] = step[f[n - 1]]

\* Such a run exists.
LEMMA Repeated ==
  ASSUME NEW S, NEW x \in S, NEW step \in [S -> S], NEW N \in Nat
  PROVE  \E f : IsRun(f, S, x, step, N)
<1> DEFINE Good(m, f) == f \in [0..m -> S] /\ f[0] = x /\ \A n \in 1..m : f[n] = step[f[n - 1]]
           G == {m \in Nat : \E f : Good(m, f)}
<1>1. 0 \in G
  <2>1. Good(0, [i \in 0..0 |-> x])
    OBVIOUS
  <2> QED BY <2>1
<1>2. ASSUME NEW m \in 1..N, m - 1 \in G PROVE m \in G
  <2>1. PICK f : Good(m - 1, f)
    BY <1>2
  <2> DEFINE g == [i \in 0..m |-> IF i = m THEN step[f[m - 1]] ELSE f[i]]
  <2>2. f[m - 1] \in S
    BY <2>1
  <2>3. \A i \in 0..m : i = m \/ i \in 0..(m - 1)
    OBVIOUS
  <2>4. g \in [0..m -> S] /\ g[0] = x
    BY <2>1, <2>2, <2>3
  <2>5. ASSUME NEW n \in 1..m PROVE g[n] = step[g[n - 1]]
    <3>1. g[n - 1] = f[n - 1]
      OBVIOUS
    <3>2. CASE n = m
      BY <3>1, <3>2
    <3>3. CASE n # m
      <4>1. n \in 1..(m - 1) /\ g[n] = f[n]
        BY <3>3
      <4> QED BY <2>1, <3>1, <4>1
    <3> QED BY <3>2, <3>3
  <2>6. Good(m, g)
    BY <2>4, <2>5
  <2> HIDE DEF Good, g
  <2> QED BY <2>6
<1> HIDE DEF Good
<1>3. 0..N \subseteq G
  <2> HIDE DEF G
  <2> QED BY <1>1, <1>2, Upwards
<1>4. PICK f : Good(N, f)
  BY <1>3
<1> QED BY <1>4 DEF Good, IsRun

\* Pairs computes pairs of every relation that the steps respect.
LEMMA PairsSimulated ==
  ASSUME Len(acts) \in Nat, NEW R, Simulates(R)
  PROVE  Pairs \subseteq R
<1> DEFINE N == Len(acts)
           More(T) == T \cup {<<ResultStep(p[1], ch), SubsetStep(p[2], ch)>> :
                               p \in T, ch \in Chars}
           Run(g) == g = [n \in 0..N |-> IF n = 0 THEN {<<first, {first}>>} ELSE More(g[n - 1])]
           step == [T \in SUBSET R |-> More(T)]
<1>1. <<first, {first}>> \in R
      /\ \A p \in R : \A ch \in Chars : <<ResultStep(p[1], ch), SubsetStep(p[2], ch)>> \in R
  BY DEF Simulates
<1>2. \A T \in SUBSET R : More(T) \in SUBSET R
  BY <1>1
<1>3. step \in [SUBSET R -> SUBSET R] /\ \A T \in SUBSET R : step[T] = More(T)
  BY <1>2
<1>4. {<<first, {first}>>} \in SUBSET R
  BY <1>1
<1> HIDE DEF step, N
<1>5. N \in Nat
  BY DEF N
<1>6. PICK f \in [0..N -> SUBSET R] : /\ f[0] = {<<first, {first}>>}
                                      /\ \A n \in 1..N : f[n] = step[f[n - 1]]
  <2>1. PICK S, x, st, n : S = SUBSET R /\ x = {<<first, {first}>>} /\ st = step /\ n = N
    OBVIOUS
  <2>2. x \in S /\ st \in [S -> S] /\ n \in Nat
    BY <1>3, <1>4, <1>5, <2>1
  <2>3. \E f : IsRun(f, S, x, st, n)
    BY ONLY <2>2, Repeated
  <2>4. \E f : IsRun(f, SUBSET R, {<<first, {first}>>}, step, N)
    BY <2>1, <2>3
  <2> QED BY <2>4 DEF IsRun
<1>7. Run(f)
  <2>1. ASSUME NEW n \in 0..N
        PROVE  f[n] = IF n = 0 THEN {<<first, {first}>>} ELSE More(f[n - 1])
    <3>1. CASE n = 0
      BY <1>6, <3>1
    <3>2. CASE n # 0
      <4>1. n \in 1..N /\ n - 1 \in 0..N
        BY <1>5, <3>2
      <4>2. f[n] = step[f[n - 1]] /\ f[n - 1] \in SUBSET R
        BY <1>6, <4>1
      <4> HIDE DEF More
      <4> QED BY <1>3, <3>2, <4>2
    <3> QED BY <3>1, <3>2
  <2> HIDE DEF More
  <2> QED BY <1>6, <2>1
<1>8. PICK g : Run(g) /\ Pairs = g[N]
  <2> DEFINE h == CHOOSE g : Run(g)
  <2>1. Pairs = h[N]
    BY DEF Pairs, N
  <2> HIDE DEF Run
  <2>2. Run(h)
    BY <1>7, Zenon
  <2> HIDE DEF h
  <2> QED BY <2>1, <2>2
<1> DEFINE G == {n \in 0..N : g[n] \subseteq R}
<1>9. 0 \in G
  <2>1. 0 \in 0..N
    BY <1>5
  <2>2. g[0] = {<<first, {first}>>}
    <3> HIDE DEF More
    <3> QED BY <1>8, <2>1
  <2> QED BY <1>4, <2>1, <2>2
<1>10. ASSUME NEW n \in 1..N, n - 1 \in G PROVE n \in G
  <2>1. n \in 0..N /\ n # 0 /\ g[n - 1] \in SUBSET R
    BY <1>5, <1>10
  <2>2. g[n] = More(g[n - 1])
    <3> HIDE DEF More
    <3> QED BY <1>8, <2>1
  <2> HIDE DEF More
  <2> QED BY <1>2, <2>1, <2>2
<1>11. N \in G
  <2>1. 0..N \subseteq G
    <3> HIDE DEF G
    <3> QED BY <1>5, <1>9, <1>10, Upwards
  <2> QED BY <1>5, <2>1
<1> QED BY <1>8, <1>11

\* MakeDeterministic keeps the tokens: after any word the result is in a state that
\* ends the same symbol, with the same context, as the automaton it started from, in
\* every round in which no melted entry of the round before was used.
THEOREM TokensKept == Spec => []SameTokensUnlessStale
<1>1. TypeOK /\ SubsetInv => SameTokensUnlessStale
  <2> SUFFICES ASSUME TypeOK, SubsetInv, pc = "deterministic", ~stale, NEW p \in Pairs
               PROVE  Represents(p[1], p[2])
    BY DEF SameTokensUnlessStale
  <2>1. PICK R : Simulates(R)
    BY DEF SubsetInv, Simulated
  <2>2. Len(acts) \in Nat
    BY DEF TypeOK, HeapTypes
  <2>3. p \in R
    BY <2>1, <2>2, PairsSimulated
  <2> QED BY <2>1, <2>3 DEF Simulates
<1> QED BY TypeCorrect, SubsetConstructed, <1>1, PTL

\* No silent ambiguity: if some word ends two different symbols, "Tokens ... cannot
\* be distinguished" was reported.
THEOREM AmbiguityReported == Spec => []ConflictsReported
<1>1. TypeOK /\ SubsetInv => ConflictsReported
  <2> SUFFICES ASSUME TypeOK, SubsetInv, pc = "deterministic", ~stale, ~failed, NEW p \in Pairs
               PROVE  Cardinality({before.endOf[q] : q \in p[2]} \ {NoSym}) <= 1
    BY DEF ConflictsReported
  <2>1. PICK R : Simulates(R)
    BY DEF SubsetInv, Simulated
  <2>2. Len(acts) \in Nat
    BY DEF TypeOK, HeapTypes
  <2>3. p \in R
    BY <2>1, <2>2, PairsSimulated
  <2>4. PICK e : EndsOf(p[2]) \subseteq {e}
    BY <2>1, <2>3 DEF Simulates
  <2>5. EndsOf(p[2]) = {} \/ EndsOf(p[2]) = {e}
    BY <2>4
  <2>6. Cardinality(EndsOf(p[2])) <= 1
    <3>1. CASE EndsOf(p[2]) = {}
      BY <3>1, FS_EmptySet
    <3>2. CASE EndsOf(p[2]) = {e}
      <4>1. Cardinality({e}) = 1
        BY FS_Singleton
      <4> QED BY <3>2, <4>1
    <3> QED BY <2>5, <3>1, <3>2
  <2> QED BY <2>6 DEF EndsOf
<1> QED BY TypeCorrect, SubsetConstructed, <1>1, PTL

\* The automaton that is written is closed: the listed states are numbered as they
\* are listed, and every "goto case_n" has its case.
THEOREM AutomatonClosed == Spec => []Closed
<1>1. TypeOK /\ SubsetInv => Closed
  <2> SUFFICES ASSUME TypeOK, SubsetInv, pc \in {"deterministic", "productions", "written"},
                      ~stale, NEW k \in DOMAIN chain
               PROVE  /\ pc # "productions" => nr[chain[k]] = k - 1
                      /\ \A m \in DOMAIN acts[chain[k]] :
                           acts[chain[k]][m].targets \subseteq ToSet(chain)
    BY DEF Closed
  <2>1. LeadInto(Listed, Listed) /\ nr[chain[k]] = k - 1
    BY DEF SubsetInv, TargetsListed, Numbered
  <2>2. Listed = ToSet(chain) /\ chain[k] \in Listed
    BY DEF Listed, ToSet
  <2> QED BY <2>1, <2>2 DEF LeadInto
<1> QED BY TypeCorrect, SubsetConstructed, <1>1, PTL

\* The entry found for a number is an entry.
LEMMA EntryForIs ==
  ASSUME NEW n, EntryFor(n) # 0, Len(melted) \in Nat, DOMAIN melted = 1..Len(melted)
  PROVE  EntryFor(n) \in DOMAIN melted
<1> DEFINE I == {j \in 1..Len(melted) : nr[melted[j].state] = n}
<1>1. EntryFor(n) = IF I # {} THEN Min(I) ELSE 0
  BY DEF EntryFor, SelectInSeq
<1>2. I # {} /\ EntryFor(n) = Min(I)
  BY <1>1
<1>3. Min(I) \in I
  <2>1. \E x \in I : \A y \in I : x <= y
    <3>1. I \subseteq Nat
      OBVIOUS
    <3> HIDE DEF I
    <3> QED BY <1>2, <3>1, LeastNat
  <2> HIDE DEF I
  <2> QED BY <2>1 DEF Min
<1> QED BY <1>2, <1>3

\* Entries are dated with the round they are made in, and rounds only go up.
LEMMA DatedKept ==
  ASSUME TypeOK, EntriesDated, [Next]_vars
  PROVE  EntriesDated'
<1>1. round \in Nat /\ Len(melted) \in Nat /\ DOMAIN melted = 1..Len(melted)
  BY DEF TypeOK, RoundTypes
<1>2. CASE UNCHANGED <<melted, round, stale>> /\ (pc \in Melting \/ pc' \notin Melting)
  BY <1>2 DEF EntriesDated
<1>3. CASE StartRound
  <2>1. melted' = melted /\ round' = round + 1 /\ stale' = stale
    BY <1>3 DEF StartRound
  <2> QED BY <1>1, <2>1 DEF EntriesDated
<1>4. CASE MeltKnown \/ MeltNew
  <2>1. /\ UNCHANGED <<melted, round>> /\ pc \in Melting /\ pc = "melt"
        /\ \/ stale' = (stale \/ ReadsStale(Melter[ma]))
           \/ \E k \in DOMAIN melted :
                stale' = (stale \/ ReadsStale(Melter[ma]) \/ melted[k].round < round)
    BY <1>4 DEF MeltKnown, MeltNew, Melts, Melting, history, Matches
  <2>2. ASSUME round <= 1 PROVE ~stale'
    <3>1. \A k \in DOMAIN melted : ~(melted[k].round < round)
      <4> TAKE k \in DOMAIN melted
      <4> DEFINE R == [set : SUBSET Nat, size : Nat, state : Allocated, round : Nat]
      <4>1. melted \in Seq(R) /\ \A m \in R : m.round \in Nat
        BY DEF TypeOK, RoundTypes
      <4> HIDE DEF R
      <4>2. melted[k].round \in Nat
        BY <4>1
      <4> QED BY <1>1, <2>2, <4>2 DEF EntriesDated
    <3>2. ~ReadsStale(Melter[ma])
      BY <1>1, <3>1, EntryForIs DEF ReadsStale
    <3> QED BY <2>1, <2>2, <3>1, <3>2 DEF EntriesDated
  <2> QED BY <2>1, <2>2 DEF EntriesDated
<1>5. CASE NewMelted
  <2> DEFINE x == [set |-> TargetSet(Melter[ma]), size |-> MaxStates, state |-> LastState,
                   round |-> round]
  <2>1. /\ melted' = <<x>> \o melted /\ UNCHANGED <<round, stale>> /\ pc = "meltUnique"
    BY <1>5 DEF NewMelted, history
  <2>2. 1 <= round /\ x.round = round
    BY <2>1 DEF EntriesDated, Melting
  <2> HIDE DEF x
  <2>3. \A i \in DOMAIN (melted') : (melted')[i] = x \/ \E j \in DOMAIN melted : (melted')[i] = melted[j]
    <3>1. PICK B : melted \in Seq(B)
      BY DEF TypeOK, RoundTypes
    <3>2. melted \in Seq(B \cup {x}) /\ <<x>> \in Seq(B \cup {x})
      BY <3>1
    <3>3. melted' = <<x>> \o melted
      BY <2>1
    <3> QED BY ONLY <3>2, <3>3
  <2>4. \A i \in DOMAIN (melted') : 1 <= (melted')[i].round
    BY <2>2, <2>3 DEF EntriesDated
  <2> QED BY <2>1, <2>2, <2>4 DEF EntriesDated
<1>6. CASE \E s \in Syms : DeclareToken(s) \/ UseLiteral(s)
  <2>1. UNCHANGED <<melted, round, stale>> /\ pc' \notin Melting
    BY <1>6 DEF DeclareToken, UseLiteral, AddToken, history, Melting
  <2> QED BY <1>2, <2>1
<1>7. CASE NewTransition \/ Abandon \/ (WriteScanner /\ ~Rerun) \/ Return \/ Finished
  <2>1. UNCHANGED <<melted, round, stale>> /\ (pc \in Melting \/ pc' \notin Melting)
    BY <1>7 DEF NewTransition, Abandon, WriteScanner, Return, Finished, history, Melting, vars
  <2> QED BY <1>2, <2>1
<1>8. CASE Compare \/ NextA \/ NextPass \/ NextUnique \/ UNCHANGED vars
  <2>1. UNCHANGED <<melted, round, stale>> /\ (pc \in Melting \/ pc' \notin Melting)
    BY <1>8 DEF Compare, NextA, NextPass, NextUnique, history, Melting, vars
  <2> QED BY <1>2, <2>1
<1>9. CASE MeltSkip \/ MeltWith \/ MeltedAll \/ MeltNext
  <2>1. UNCHANGED <<melted, round, stale>> /\ (pc \in Melting \/ pc' \notin Melting)
    BY <1>9 DEF MeltSkip, MeltWith, MeltedAll, MeltNext, history, Melting, Melts
  <2> QED BY <1>2, <2>1
<1>10. CASE FindUsed \/ CombineFinals \/ DeleteState \/ DeletedAll \/ Combine \/ CombineNext
  <2>1. UNCHANGED <<melted, round, stale>> /\ (pc \in Melting \/ pc' \notin Melting)
    BY <1>10 DEF FindUsed, CombineFinals, DeleteState, DeletedAll, Combine, CombineNext, history,
                Melting
  <2> QED BY <1>2, <2>1
<1>11. CASE Productions \/ (WriteScanner /\ Rerun)
  BY <1>3, <1>11 DEF Productions, WriteScanner
<1> QED
  BY <1>4, <1>5, <1>6, <1>7, <1>8, <1>9, <1>10, <1>11
     DEF Next, Determinizing, MakeUnique, MeltStates, DeleteRedundantStates, CombineShifts

\* Whatever is declared under TOKENS, the automaton made of it keeps the tokens: the
\* gap that SameTokensUnlessStale excludes opens in the second round at the earliest.
THEOREM TokensKeptAtFirst == Spec => []SameTokensAtFirst
<1>1. Init => EntriesDated
  BY DEF Init, EntriesDated, Melting
<1>2. TypeOK /\ EntriesDated /\ [Next]_vars => EntriesDated'
  BY DatedKept
<1>3. EntriesDated /\ SameTokensUnlessStale => SameTokensAtFirst
  BY DEF EntriesDated, SameTokensUnlessStale, SameTokensAtFirst
<1> QED BY TypeCorrect, TokensKept, <1>1, <1>2, <1>3, PTL DEF Spec
=============================================================================
