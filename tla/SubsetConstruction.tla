------------------------- MODULE SubsetConstruction -------------------------
(***************************************************************************)
(* Why MakeDeterministic is the subset construction: the inductive         *)
(* invariant under SameTokensUnlessStale, ConflictsReported and Closed.    *)
(*                                                                         *)
(* While states are melted, every listed state stands for a set of the     *)
(* states the round started with: an old state for itself, a melted one    *)
(* for the states whose numbers its entry in melted holds.  A state goes,  *)
(* ends and was reached like the set it stands for.  When final states are *)
(* combined and the numbers are given away, what remains of this is that a *)
(* relation between states and sets exists which every step respects.      *)
(*                                                                         *)
(* All of it holds as long as no entry of an earlier round was used: the   *)
(* numbers in such an entry belong to other states now.                    *)
(***************************************************************************)
EXTENDS Determinize

Listed == {chain[k] : k \in DOMAIN chain}

\* The phases in which states have the numbers and sets melting gives them.
Melting == {"unique", "melt", "meltWith", "meltUnique", "mark"}
Building == pc \in {"meltWith", "meltUnique"}

\* The listed states without the one being built.
SettledLen == IF Building THEN Len(chain) - 1 ELSE Len(chain)
Settled == {chain[k] : k \in 1..SettledLen}

----------------------------------------------------------------------------
(* Numbers, lists and entries.                                             *)

\* A listed state has its position as its number; DeleteRedundantStates restores
\* that from the front.
Numbered ==
  \A k \in DOMAIN chain : pc # "delete" \/ k < at => nr[chain[k]] = k - 1

\* The states DeleteRedundantStates has kept or will keep.
Kept == {chain[k] : k \in {k \in DOMAIN chain : k < at \/ nr[chain[k]] \in used}}

LeadInto(Q, S) == \A q \in Q : \A m \in DOMAIN acts[q] : acts[q][m].targets \subseteq S

\* Listed states lead to listed states.
TargetsListed ==
  /\ pc \in {"tokens", "convert"} => Listed = Allocated
  /\ pc \in Melting => LeadInto(Listed, Settled)
  /\ pc = "delete" => LeadInto(Kept, Kept)
  /\ pc \in {"combine", "deterministic", "productions", "written"} => LeadInto(Listed, Listed)

\* melted begins with the entries of this round, one for every melted state, the
\* last one first.
Entries ==
  /\ \A i \in DOMAIN melted : melted[i].round <= round
  /\ pc \in Melting =>
       /\ lastSim < SettledLen /\ SettledLen - 1 - lastSim <= Len(melted)
       /\ \A i \in DOMAIN melted :
            IF i <= SettledLen - 1 - lastSim
              THEN /\ melted[i].state = chain[SettledLen + 1 - i]
                   /\ melted[i].round = round /\ melted[i].size = MaxStates
              ELSE melted[i].round < round
       /\ lastSim = 0 => Len(chain) = 1

----------------------------------------------------------------------------
(* What a state stands for.                                                *)

\* The automaton at the start of the round, and the part of it that is unchanged.
BeforeTypes ==
  /\ before.acts \in Seq(Seq(Action(DOMAIN before.acts)))
  /\ before.endOf \in Seq(Syms \cup {NoSym}) /\ before.ctx \in Seq(BOOLEAN)
  /\ Len(before.endOf) = Len(before.acts) /\ Len(before.ctx) = Len(before.acts)
  /\ Len(before.acts) <= Len(acts)
  /\ \A q \in DOMAIN before.acts : endOf[q] = before.endOf[q] /\ ctx[q] = before.ctx[q]
  /\ pc \in Melting => /\ lastSim < Len(chain)
                       /\ \A k \in 1..(lastSim + 1) : chain[k] \in DOMAIN before.acts

Numbers(q) == IF nr[q] <= lastSim THEN {nr[q]} ELSE MeltedSet(nr[q])
StandsFor(q) == {chain[n + 1] : n \in Numbers(q)}
StandFor(Q) == UNION {StandsFor(q) : q \in Q}

EndsOf(S) == {before.endOf[p] : p \in S} \ {NoSym}

\* q ends what the set S ends, was reached as S was, and no conflict was passed over.
EndsLike(q, S) ==
  /\ IF EndsOf(S) = {} THEN endOf[q] = NoSym ELSE endOf[q] \in EndsOf(S)
  /\ ~failed => EndsOf(S) \subseteq {endOf[q]}
  /\ ctx[q] <=> \E p \in S : before.ctx[p]

MovesLike(q, S) ==
  \A ch \in Chars :
    /\ StandFor(Reached(acts[q], ch)) = SubsetStep(S, ch)
    /\ IsContextMove(acts[q], ch) <=> \E p \in S : IsContextMove(before.acts[p], ch)

StandsWell(q) ==
  /\ Numbers(q) # {} /\ Numbers(q) \subseteq 0..lastSim
  /\ EndsLike(q, StandsFor(q)) /\ MovesLike(q, StandsFor(q))

StandsRight == pc \in Melting => \A q \in Settled : StandsWell(q)

----------------------------------------------------------------------------
(* The state being built.                                                  *)

Melted == Melter[ma].targets         \* the states it is built from

\* MeltWith has copied the actions of some of them, and no other action.
Copied ==
  pc = "meltWith" =>
    /\ source \subseteq Melted
    /\ \A k \in DOMAIN acts[LastState] :
         \E t \in Melted : \E m \in DOMAIN acts[t] : acts[LastState][k] = acts[t][m]
    /\ \A t \in Melted : \A m \in DOMAIN acts[t] :
         t \notin source \/ (t = NextSource /\ m < mi) =>
           \E k \in DOMAIN acts[LastState] : acts[LastState][k] = acts[t][m]

\* MakeUnique keeps the moves it got.
Built ==
  /\ pc = "meltUnique" =>
       \A ch \in Chars :
         /\ Reached(acts[LastState], ch) = UNION {Reached(acts[t], ch) : t \in Melted}
         /\ IsContextMove(acts[LastState], ch) <=> \E t \in Melted : IsContextMove(acts[t], ch)
  /\ Building =>
       /\ Melted \subseteq Settled /\ Cardinality(Melted) > 1
       /\ IF Ending(Melter[ma]) = {} THEN endOf[LastState] = NoSym
          ELSE \E t \in Ending(Melter[ma]) : endOf[LastState] = endOf[t]
       /\ ~failed => ~Conflict(Melter[ma])
       /\ ctx[LastState] <=> \E t \in Melted : ctx[t]

----------------------------------------------------------------------------
(* Marking.                                                                *)

Marked ==
  pc = "mark" =>
    /\ {todo[k] : k \in DOMAIN todo} \subseteq Listed
    /\ nr[first] \in used \/ \E k \in DOMAIN todo : todo[k] = first
    /\ \A q \in Listed : nr[q] \in used =>
         \A m \in DOMAIN acts[q] : \A t \in acts[q][m].targets :
           nr[t] \in used \/ \E k \in DOMAIN todo : todo[k] = t

----------------------------------------------------------------------------
(* After melting.                                                          *)

\* A relation between states of the result and sets of states of the automaton
\* before, in which related ones end and go alike.
Simulates(R) ==
  /\ <<first, {first}>> \in R
  /\ \A p \in R :
       /\ p[1] # 0 => p[1] \in Allocated /\ DeterministicList(acts[p[1]])
       /\ Represents(p[1], p[2]) /\ (~failed => \E e \in Syms \cup {NoSym} : EndsOf(p[2]) \subseteq {e})
       /\ \A ch \in Chars : <<ResultStep(p[1], ch), SubsetStep(p[2], ch)>> \in R

Simulated == pc \in {"delete", "combine", "deterministic"} => \E R : Simulates(R)

SubsetInv ==
  /\ Numbered /\ BeforeTypes
  /\ ~stale => /\ TargetsListed /\ Entries
               /\ StandsRight /\ Copied /\ Built /\ Marked /\ Simulated

SimulatedPairs ==
  ~stale /\ pc \in {"delete", "combine", "deterministic"} => Simulates(Pairs)

\* Entries date from the first round on: nothing can be stale in it.
EntriesDated ==
  /\ \A i \in DOMAIN melted : 1 <= melted[i].round
  /\ pc \in Melting => 1 <= round
  /\ round <= 1 => ~stale

\* The first round, the one for the tokens declared under TOKENS, has no such gap.
SameTokensAtFirst ==
  pc = "deterministic" /\ round = 1 => \A p \in Pairs : Represents(p[1], p[2])
=============================================================================
