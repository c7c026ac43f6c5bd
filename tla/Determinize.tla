---------------------------- MODULE Determinize ----------------------------
(***************************************************************************)
(* The scanner automaton of class DFA while a grammar is processed.        *)
(*                                                                         *)
(* TOKENS declarations add states and transitions (ConvertToStates,        *)
(* MatchLiteral); at the keyword PRODUCTIONS the automaton is made         *)
(* deterministic; the literals found in the productions are matched        *)
(* against it and may make it nondeterministic again (dirtyDFA), in which  *)
(* case WriteScanner runs MakeDeterministic a second time before it writes *)
(* the automaton.                                                          *)
(*                                                                         *)
(* A state is an index into the heap acts/endOf/ctx/nr and never changes;  *)
(* its number nr does, when DeleteRedundantStates renumbers.  chain is the *)
(* linked list firstState .. lastState.                                    *)
(***************************************************************************)
EXTENDS ActionLists, FiniteSets

CONSTANTS
  Syms,        \* symbols with a token definition
  NoSym,       \* endOf of a state that ends no token
  Graph,       \* Graph[s]: what ConvertToStates adds for s (see AddToken)
  Text,        \* Text[s]: the characters of s when s is a plain string
  MaxTokens,   \* bound on the declarations in TOKENS
  Alone,       \* bound: tokens that are the only one declared there
  MaxLiterals  \* bound on the undeclared literals in PRODUCTIONS

Arcs == [from : Nat, to : Nat \ {0}, typ : Typs, syms : SUBSET Chars, tc : TransitionCodes]

ASSUME SymsAssumption ==
  /\ NoSym \notin Syms
  /\ Syms = DOMAIN Graph \cup DOMAIN Text /\ DOMAIN Graph \cap DOMAIN Text = {}

\* A string is not empty, and a token graph is not deletable.
ASSUME TextAssumption == \A s \in DOMAIN Text : Text[s] \in Seq(Chars) /\ Text[s] # <<>>

ASSUME GraphAssumption ==
  \A s \in DOMAIN Graph :
    /\ Graph[s].size \in Nat /\ Graph[s].arcs \in Seq(Arcs) /\ Graph[s].arcs # <<>>
    /\ \A k \in DOMAIN Graph[s].arcs :
         Graph[s].arcs[k].from <= Graph[s].size /\ Graph[s].arcs[k].to <= Graph[s].size

ASSUME BoundsAssumption == MaxTokens \in Nat /\ MaxLiterals \in Nat /\ Alone \subseteq Syms

VARIABLES
  acts,        \* State.firstAction: the action list of every allocated state
  endOf,       \* State.endOf: the symbol the state ends, or NoSym
  ctx,         \* State.ctx: reached by a context transition
  nr,          \* State.nr
  chain,       \* firstState .. lastState
  melted,      \* firstMelted: [set, size, state, round], newest first
  lastSim,     \* lastSimState
  dirtyDFA,
  kind,        \* Symbol.tokenKind of every symbol
  failed,      \* errors->count # 0
  declared,    \* the symbols declared so far
  literals,    \* how many of them came from the productions
  pc,          \* where the program stands
  pending,     \* ConvertToStates: calls of NewTransition still to be made
  at,          \* position in chain of the state being worked on
  ia, ib,      \* positions of a and b in its action list
  changed,     \* MakeUnique: an action was split in this pass
  ma,          \* MeltStates: position of the action being melted
  source, mi,  \* MeltWith: states still to be copied, position in the first of them
  used, todo,  \* FindUsedStates: numbers marked, calls still to be made
  round,       \* how often MakeDeterministic was started
  before,      \* the automaton when MakeDeterministic was last started
  stale        \* a melted entry of an earlier round was used in this one

heap == <<acts, endOf, ctx, nr, chain>>
symbols == <<kind, failed, declared, literals, dirtyDFA>>
cursor == <<ia, ib, changed>>
melting == <<ma, source, mi>>
marks == <<used, todo>>
history == <<round, before>>
vars == <<heap, melted, lastSim, symbols, pc, pending, at, cursor, melting, marks,
          history, stale>>

first == 1                                  \* DFA.firstState
Allocated == DOMAIN acts
LastNr == Len(chain) - 1                    \* DFA.lastStateNr
LastState == chain[Len(chain)]              \* DFA.lastState

----------------------------------------------------------------------------
Init ==
  /\ acts = << <<>> >> /\ endOf = <<NoSym>> /\ ctx = <<FALSE>> /\ nr = <<0>>
  /\ chain = <<first>>
  /\ melted = <<>> /\ lastSim = 0
  /\ kind = [s \in Syms |-> "fixedToken"]
  /\ failed = FALSE /\ declared = {} /\ literals = 0 /\ dirtyDFA = FALSE
  /\ pc = "tokens" /\ pending = <<>>
  /\ at = 1 /\ ia = 1 /\ ib = 2 /\ changed = FALSE
  /\ ma = 1 /\ source = {} /\ mi = 1
  /\ used = {} /\ todo = <<>>
  /\ round = 0
  /\ before = [acts |-> acts, endOf |-> endOf, ctx |-> ctx]
  /\ stale = FALSE

----------------------------------------------------------------------------
(* Token declarations.                                                     *)

\* Mutant: the transition goes to the state behind the one meant.
NewActionBehind(typ, syms, tc, to) ==
  [typ |-> typ, syms |-> syms, tc |-> tc, targets |-> {to + 1}]

NewAction(typ, syms, tc, to) ==
  [typ |-> typ, syms |-> syms, tc |-> tc, targets |-> {to}]

\* n calls of NewState: the new states follow lastState with consecutive numbers.
NewStates(n, ends) ==
  /\ endOf' = endOf \o ends
  /\ ctx' = ctx \o [k \in 1..n |-> FALSE]
  /\ nr' = nr \o [k \in 1..n |-> LastNr + k]
  /\ chain' = chain \o [k \in 1..n |-> Len(acts) + k]

\* ConvertToStates(s): Graph[s].size new states, the ones in Graph[s].ends with
\* endOf = s, and the calls of NewTransition in Graph[s].arcs, in their order.
\* There arc.from and arc.to count the new states, and from = 0 is firstState.
AddToken(s) ==
  LET g == Graph[s]
      Id(q) == IF q = 0 THEN first ELSE Len(acts) + q
  IN  /\ acts' = acts \o [k \in 1..g.size |-> <<>>]
      /\ NewStates(g.size, [k \in 1..g.size |-> IF k \in g.ends THEN s ELSE NoSym])
      /\ pending' = [k \in 1..Len(g.arcs) |->
                       [from |-> Id(g.arcs[k].from), to |-> Id(g.arcs[k].to),
                        typ |-> g.arcs[k].typ, syms |-> g.arcs[k].syms, tc |-> g.arcs[k].tc]]
      /\ kind' = IF \E k \in DOMAIN g.arcs : g.arcs[k].typ = "clas"
                   THEN [kind EXCEPT ![s] = "classToken"] ELSE kind
      /\ pc' = "convert"
      /\ UNCHANGED <<dirtyDFA, failed>>

NewTransition ==
  /\ pc = "convert"
  /\ LET arc == Head(pending)
     IN  acts' = [acts EXCEPT ![arc.from] =
                    AddAction(@, NewAction(arc.typ, arc.syms, arc.tc, arc.to))]
  /\ pending' = Tail(pending)
  /\ pc' = IF Len(pending) = 1 THEN "tokens" ELSE "convert"
  /\ UNCHANGED <<endOf, ctx, nr, chain, melted, lastSim, symbols, at, cursor, melting,
                 marks, history, stale>>

----------------------------------------------------------------------------
(* MatchLiteral.                                                           *)

\* FindAction: the first action with ch, 0 if there is none.
FindAction(list, ch) == SelectInSeq(list, LAMBDA a : ch \in a.syms)

\* During TOKENS and after MakeDeterministic alike, an action has one target.
Target(a) == CHOOSE q \in a.targets : TRUE

\* The walk of MatchLiteral over the automaton: the state reached, the last
\* action taken (0: none) with its state, and how many characters matched.
Walk(text) ==
  LET step(w, ch) ==
        LET k == FindAction(acts[w.state], ch)
        IN  IF w.stuck \/ k = 0 THEN [w EXCEPT !.stuck = TRUE]
            ELSE [state |-> Target(acts[w.state][k]), from |-> w.state,
                  action |-> k, stuck |-> FALSE]
      after[n \in 0..Len(text)] ==
        IF n = 0 THEN [state |-> first, from |-> first, action |-> 0, stuck |-> FALSE]
        ELSE step(after[n - 1], text[n])
  IN  after[Len(text)]

\* A path of new states from firstState, one for every character of the text.
AddPath(s) ==
  LET n == Len(Text[s])
      Chr(k) == NewAction("chr", {Text[s][k]}, "normalTrans", Len(acts) + k)
  IN  /\ acts' = [q \in 1..(Len(acts) + n) |->
                    IF q = first THEN AddAction(acts[first], Chr(1))
                    ELSE IF q <= Len(acts) THEN acts[q]
                    ELSE IF q = Len(acts) + n THEN <<>>
                    ELSE <<Chr(q - Len(acts) + 1)>>]
      /\ NewStates(n, [k \in 1..n |-> IF k = n THEN s ELSE NoSym])
      /\ dirtyDFA' = TRUE
      /\ UNCHANGED <<kind, failed>>

\* Mutant: the literal is not marked as a keyword.
MatchExistingUnmarked(s, w) == UNCHANGED <<heap, kind, failed, dirtyDFA>>

\* The text is already recognised, as a symbol defined otherwise: the literal
\* becomes a keyword of that symbol, or cannot be told from it.
MatchExisting(s, w) ==
  LET matched == endOf[w.state]
      cutOff == w.action # 0 /\ acts[w.from][w.action].tc = "contextTrans"
  IN  /\ IF kind[matched] = "fixedToken" \/ cutOff
           THEN failed' = TRUE /\ UNCHANGED kind
           ELSE /\ kind' = [kind EXCEPT ![matched] = "classLitToken",
                                        ![s] = "litToken"]
                /\ UNCHANGED failed
      /\ UNCHANGED <<heap, dirtyDFA>>

MatchLiteral(s) ==
  LET w == Walk(Text[s])
  IN  IF w.stuck \/ endOf[w.state] = NoSym THEN AddPath(s) ELSE MatchExisting(s, w)

----------------------------------------------------------------------------
(* The productions of Coco-cpp.atg that call into the automaton.           *)

DeclareToken(s) ==
  /\ pc = "tokens" /\ s \in Syms \ declared /\ Cardinality(declared) < MaxTokens
  /\ declared = {} \/ (declared \cup {s}) \cap Alone = {}
  /\ declared' = declared \cup {s}
  /\ IF s \in DOMAIN Graph THEN AddToken(s)
                           ELSE MatchLiteral(s) /\ UNCHANGED <<pc, pending>>
  /\ UNCHANGED <<melted, lastSim, literals, at, cursor, melting, marks, history, stale>>

UseLiteral(s) ==
  /\ pc = "productions" /\ s \in DOMAIN Text \ declared /\ literals < MaxLiterals
  /\ declared' = declared \cup {s} /\ literals' = literals + 1
  /\ MatchLiteral(s)
  /\ UNCHANGED <<melted, lastSim, pc, pending, at, cursor, melting, marks, history, stale>>

\* The start of MakeDeterministic, with FindCtxStates.
StartRound ==
  LET afterContext(q) ==
        \E k \in DOMAIN chain : \E m \in DOMAIN acts[chain[k]] :
          acts[chain[k]][m].tc = "contextTrans" /\ q \in acts[chain[k]][m].targets
  IN  /\ ctx' = [q \in Allocated |-> ctx[q] \/ afterContext(q)]
      /\ lastSim' = LastNr
      /\ round' = round + 1 /\ before' = [acts |-> acts, endOf |-> endOf, ctx |-> ctx']
      /\ pc' = "unique" /\ at' = 1 /\ ia' = 1 /\ ib' = 2 /\ changed' = FALSE
      /\ UNCHANGED <<acts, endOf, nr, chain, melted, symbols, pending, melting, marks, stale>>

Productions == pc = "tokens" /\ StartRound

\* Mutant: literals in the productions do not count.
RerunForTokens == dirtyDFA /\ literals = 0

Rerun == dirtyDFA

\* WriteScanner at the end of a grammar without errors.
WriteScanner ==
  /\ pc = "productions" /\ ~failed
  /\ IF Rerun THEN StartRound
     ELSE /\ pc' = "written"
          /\ UNCHANGED <<heap, melted, lastSim, symbols, pending, at, cursor, melting, marks,
                         history, stale>>

Abandon ==
  /\ pc = "productions" /\ failed
  /\ pc' = "abandoned"
  /\ UNCHANGED <<heap, melted, lastSim, symbols, pending, at, cursor, melting, marks,
                 history, stale>>

----------------------------------------------------------------------------
(* MakeUnique: the actions of a state are compared pairwise, and split     *)
(* where they overlap, until a pass finds no overlap.  It runs over every  *)
(* state of the chain, and over every state MeltStates makes.              *)

Subject == IF pc = "meltUnique" THEN LastState ELSE chain[at]

Compare ==
  /\ pc \in {"unique", "meltUnique"}
  /\ ib <= Len(acts[Subject])
  /\ LET list == acts[Subject]
     IN  IF Overlap(list[ia], list[ib])
           THEN LET r == SplitActions(list, ia, ib)
                IN  /\ acts' = [acts EXCEPT ![Subject] = r.acts]
                    /\ ia' = r.a /\ ib' = r.next /\ changed' = TRUE
           ELSE ib' = ib + 1 /\ UNCHANGED <<acts, ia, changed>>
  /\ UNCHANGED <<endOf, ctx, nr, chain, melted, lastSim, symbols, pc, pending, at, melting,
                 marks, history, stale>>

\* The outer loop, here and in CombineShifts: a = a->next, b = a->next.
NextA ==
  /\ pc \in {"unique", "meltUnique", "combine"}
  /\ ib > Len(acts[Subject]) /\ ia <= Len(acts[Subject])
  /\ ia' = ia + 1 /\ ib' = ia + 2
  /\ UNCHANGED <<heap, melted, lastSim, symbols, pc, pending, at, changed, melting, marks,
                 history, stale>>

PassEnded == ia > Len(acts[Subject])

\* while (changed): another pass.
NextPass ==
  /\ pc \in {"unique", "meltUnique"} /\ PassEnded /\ changed
  /\ ia' = 1 /\ ib' = 2 /\ changed' = FALSE
  /\ UNCHANGED <<heap, melted, lastSim, symbols, pc, pending, at, melting, marks, history,
                 stale>>

NextUnique ==
  /\ pc = "unique" /\ PassEnded /\ ~changed
  /\ ia' = 1 /\ ib' = 2 /\ ma' = 1
  /\ IF at < Len(chain) THEN at' = at + 1 /\ pc' = "unique"
                        ELSE at' = 1 /\ pc' = "melt"
  /\ UNCHANGED <<heap, melted, lastSim, symbols, changed, pending, source, mi, marks,
                 history, stale>>

----------------------------------------------------------------------------
(* MeltStates: an action with several targets gets a single one, a state   *)
(* that stands for their set.  Sets hold the numbers states had in the     *)
(* NFA, so numbers above lastSimState are resolved through melted.         *)

Melter == acts[chain[at]]
MaxStates == 2 * lastSim                        \* bits of a target set

\* Bytes are allocated whole: bits up to here can be read and written.
Stored(size) == 8 * ((size + 7) \div 8)

\* MeltedSet: the newest entry for number n counts; BitArray::null if there is none.
EntryFor(n) == SelectInSeq(melted, LAMBDA m : nr[m.state] = n)

MeltedSet(n) == IF EntryFor(n) = 0 THEN {} ELSE melted[EntryFor(n)].set

TargetSet(a) ==
  UNION {IF nr[t] <= lastSim THEN {nr[t]} ELSE MeltedSet(nr[t]) \cap (0..Stored(MaxStates) - 1) :
         t \in a.targets}

ReadsStale(a) ==
  \E t \in a.targets : /\ nr[t] > lastSim /\ EntryFor(nr[t]) # 0
                       /\ melted[EntryFor(nr[t])].round < round

\* GetTargetStates: targets are visited in the order of their numbers.
Ending(a) == {t \in a.targets : endOf[t] # NoSym}
EndOfTargets(a) ==
  IF Ending(a) = {} THEN NoSym
  ELSE endOf[CHOOSE t \in Ending(a) : \A u \in Ending(a) : nr[t] <= nr[u]]

\* Mutant: a token made of character classes gives way without a word.
ConflictOfFixedTokens(a) ==
  \E t, u \in Ending(a) : endOf[t] # endOf[u] /\ kind[endOf[t]] # "classToken"

Conflict(a) == \E t, u \in Ending(a) : endOf[t] # endOf[u]

\* Sets::Equals(s, m.set) looks at MaxStates bits, also at those past the end of
\* a shorter m.set: what they hold is not determined.
MayEqual(s, m) ==
  \A i \in 0..(MaxStates - 1) : i < Stored(m.size) => (i \in s <=> i \in m.set)
MustEqual(s, m) == MayEqual(s, m) /\ MaxStates <= Stored(m.size)

\* StateWithSet: the entries it may return, and whether it may return NULL.
Matches(s) ==
  {k \in DOMAIN melted : /\ MayEqual(s, melted[k])
                         /\ \A j \in 1..(k - 1) : ~MustEqual(s, melted[j])}
MayMiss(s) == \A k \in DOMAIN melted : ~MustEqual(s, melted[k])

Retarget(list, q) == [list EXCEPT ![ma].targets = {q}]

Melts == pc = "melt" /\ ma <= Len(Melter) /\ Cardinality(Melter[ma].targets) > 1

MeltSkip ==
  /\ pc = "melt" /\ ma <= Len(Melter) /\ Cardinality(Melter[ma].targets) <= 1
  /\ ma' = ma + 1
  /\ UNCHANGED <<heap, melted, lastSim, symbols, pc, pending, at, cursor, source, mi, marks,
                 history, stale>>

MeltKnown ==
  /\ Melts
  /\ \E k \in Matches(TargetSet(Melter[ma])) :
       /\ acts' = [acts EXCEPT ![chain[at]] = Retarget(@, melted[k].state)]
       /\ stale' = (stale \/ ReadsStale(Melter[ma]) \/ melted[k].round < round)
  /\ failed' = (failed \/ Conflict(Melter[ma]))
  /\ ma' = ma + 1
  /\ UNCHANGED <<endOf, ctx, nr, chain, melted, lastSim, kind, declared, literals, dirtyDFA,
                 pc, pending, at, cursor, source, mi, marks, history>>

MeltNew ==
  /\ Melts /\ MayMiss(TargetSet(Melter[ma]))
  /\ LET a == Melter[ma]
     IN  /\ acts' = Append(acts, <<>>)
         /\ endOf' = Append(endOf, EndOfTargets(a))
         /\ ctx' = Append(ctx, \E t \in a.targets : ctx[t])
         /\ nr' = Append(nr, LastNr + 1)
         /\ chain' = Append(chain, Len(acts) + 1)
         /\ source' = a.targets /\ mi' = 1
         /\ failed' = (failed \/ Conflict(a))
         /\ stale' = (stale \/ ReadsStale(a))
  /\ pc' = "meltWith"
  /\ UNCHANGED <<melted, lastSim, kind, declared, literals, dirtyDFA, pending, at, cursor, ma,
                 marks, history>>

\* State.MeltWith for every target, in the order of their numbers, action by action.
NextSource == CHOOSE t \in source : \A u \in source : nr[t] <= nr[u]

MeltWith ==
  /\ pc = "meltWith" /\ source # {}
  /\ IF mi <= Len(acts[NextSource])
       THEN /\ acts' = [acts EXCEPT ![LastState] = AddAction(@, acts[NextSource][mi])]
            /\ mi' = mi + 1 /\ UNCHANGED source
       ELSE source' = source \ {NextSource} /\ mi' = 1 /\ UNCHANGED acts
  /\ UNCHANGED <<endOf, ctx, nr, chain, melted, lastSim, symbols, pc, pending, at, cursor, ma,
                 marks, history, stale>>

MeltedAll ==
  /\ pc = "meltWith" /\ source = {}
  /\ pc' = "meltUnique" /\ ia' = 1 /\ ib' = 2 /\ changed' = FALSE
  /\ UNCHANGED <<heap, melted, lastSim, symbols, pending, at, melting, marks, history, stale>>

\* NewMelted, once the actions of the new state are unique.
NewMelted ==
  /\ pc = "meltUnique" /\ PassEnded /\ ~changed
  /\ melted' = << [set |-> TargetSet(Melter[ma]), size |-> MaxStates,
                   state |-> LastState, round |-> round] >> \o melted
  /\ acts' = [acts EXCEPT ![chain[at]] = Retarget(@, LastState)]
  /\ pc' = "melt" /\ ma' = ma + 1
  /\ UNCHANGED <<endOf, ctx, nr, chain, lastSim, symbols, pending, at, cursor, source, mi,
                 marks, history, stale>>

MeltNext ==
  /\ pc = "melt" /\ ma > Len(Melter)
  /\ ma' = 1
  /\ IF at < Len(chain) THEN at' = at + 1 /\ UNCHANGED <<pc, marks>>
     ELSE at' = 1 /\ pc' = "mark" /\ used' = {} /\ todo' = <<first>>
  /\ UNCHANGED <<heap, melted, lastSim, symbols, pending, cursor, source, mi, history, stale>>

----------------------------------------------------------------------------
(* DeleteRedundantStates.                                                  *)

\* FindUsedStates: marks are made by number; todo is its stack of calls.
FindUsed ==
  /\ pc = "mark" /\ todo # <<>>
  /\ LET q == Head(todo)
     IN  IF nr[q] \in used THEN todo' = Tail(todo) /\ UNCHANGED used
         ELSE /\ used' = used \cup {nr[q]}
              /\ todo' = [k \in DOMAIN acts[q] |-> Target(acts[q][k])] \o Tail(todo)
  /\ UNCHANGED <<heap, melted, lastSim, symbols, pc, pending, at, cursor, melting, history,
                 stale>>

\* Mutant: the context flag is not looked at.
EqualFinalsAnyContext(p, q) ==
  /\ endOf[p] = endOf[q] /\ endOf[p] # NoSym
  /\ acts[p] = <<>> /\ acts[q] = <<>>

\* Final states without actions and context that end the same symbol are equal.
EqualFinals(p, q) ==
  /\ endOf[p] = endOf[q] /\ endOf[p] # NoSym
  /\ acts[p] = <<>> /\ acts[q] = <<>> /\ ~ctx[p] /\ ~ctx[q]

\* Mutant: every other state is compared, not only the later ones.
UsedFinalsBothWays(k, m) ==
  /\ 1 < k /\ k # m /\ nr[chain[k]] \in used /\ nr[chain[m]] \in used
  /\ EqualFinals(chain[k], chain[m])

UsedFinals(k, m) ==
  /\ 1 < k /\ k < m /\ nr[chain[k]] \in used /\ nr[chain[m]] \in used
  /\ EqualFinals(chain[k], chain[m])

\* Every final state but the first of equal ones is dropped, and the actions to it
\* go to that first one (newState).
CombineFinals ==
  LET pos == DOMAIN chain
      dropped == {m \in pos : \E k \in pos : UsedFinals(k, m)}
      droppedNrs == {nr[chain[m]] : m \in dropped}
      kept == used \ droppedNrs
      Into(m, k) == UsedFinals(k, m) /\ \A j \in 1..(k - 1) : ~UsedFinals(j, m)
      newState(n) == chain[CHOOSE k \in pos : \E m \in dropped : nr[chain[m]] = n /\ Into(m, k)]
      moved(a) == IF nr[Target(a)] \in droppedNrs
                    THEN [a EXCEPT !.targets = {newState(nr[Target(a)])}] ELSE a
      live == {chain[k] : k \in pos}
  IN  /\ pc = "mark" /\ todo = <<>>
      /\ acts' = [q \in Allocated |->
                    IF q \in live /\ nr[q] \in kept
                      THEN [k \in DOMAIN acts[q] |-> moved(acts[q][k])] ELSE acts[q]]
      /\ used' = kept
      /\ pc' = "delete" /\ at' = 2
      /\ UNCHANGED <<endOf, ctx, nr, chain, todo, melted, lastSim, symbols, pending, cursor,
                     melting, history, stale>>

\* Unused states leave the chain, the others are numbered anew.
DeleteState ==
  /\ pc = "delete" /\ at <= Len(chain)
  /\ IF nr[chain[at]] \in used
       THEN nr' = [nr EXCEPT ![chain[at]] = at - 1] /\ at' = at + 1 /\ UNCHANGED chain
       ELSE chain' = RemoveAt(chain, at) /\ UNCHANGED <<nr, at>>
  /\ UNCHANGED <<acts, endOf, ctx, melted, lastSim, symbols, pc, pending, cursor, melting,
                 marks, history, stale>>

DeletedAll ==
  /\ pc = "delete" /\ at > Len(chain)
  /\ pc' = "combine" /\ at' = 1 /\ ia' = 1 /\ ib' = 2
  /\ UNCHANGED <<heap, melted, lastSim, symbols, pending, changed, melting, marks, history,
                 stale>>

----------------------------------------------------------------------------
(* CombineShifts: actions with the same target and transition code become  *)
(* one, at the place of the first.                                         *)

Combine ==
  /\ pc = "combine" /\ ib <= Len(Melter)
  /\ LET a == Melter[ia]
         b == Melter[ib]
     IN  IF Target(a) = Target(b) /\ a.tc = b.tc
           THEN /\ acts' = [acts EXCEPT ![chain[at]] =
                     DetachAction([@ EXCEPT ![ia] = ShiftWith(a, a.syms \cup b.syms)], ib)]
                /\ UNCHANGED ib
           ELSE ib' = ib + 1 /\ UNCHANGED acts
  /\ UNCHANGED <<endOf, ctx, nr, chain, melted, lastSim, symbols, pc, pending, at, ia, changed,
                 melting, marks, history, stale>>

CombineNext ==
  /\ pc = "combine" /\ PassEnded
  /\ ia' = 1 /\ ib' = 2
  /\ IF at < Len(chain) THEN at' = at + 1 /\ UNCHANGED pc
                        ELSE at' = 1 /\ pc' = "deterministic"
  /\ UNCHANGED <<heap, melted, lastSim, symbols, pending, changed, melting, marks, history,
                 stale>>

\* MakeDeterministic returns to the grammar, or to WriteScanner.
Return ==
  /\ pc = "deterministic"
  /\ pc' = IF round = 1 THEN "productions" ELSE "written"
  /\ UNCHANGED <<heap, melted, lastSim, symbols, pending, at, cursor, melting, marks, history,
                 stale>>

----------------------------------------------------------------------------
MakeUnique == Compare \/ NextA \/ NextPass \/ NextUnique
MeltStates == \/ MeltSkip \/ MeltKnown \/ MeltNew \/ MeltWith \/ MeltedAll
              \/ NewMelted \/ MeltNext
DeleteRedundantStates == FindUsed \/ CombineFinals \/ DeleteState \/ DeletedAll
CombineShifts == Combine \/ CombineNext

\* The steps of MakeDeterministic once it is started.
Determinizing == MakeUnique \/ MeltStates \/ DeleteRedundantStates \/ CombineShifts \/ Return

Finished == pc \in {"written", "abandoned"} /\ UNCHANGED vars

Next ==
  \/ \E s \in Syms : DeclareToken(s) \/ UseLiteral(s)
  \/ NewTransition \/ Productions \/ WriteScanner \/ Abandon
  \/ Determinizing
  \/ Finished

\* The generator is one sequential program: a step it can take is taken.
Spec == Init /\ [][Next]_vars /\ WF_vars(Determinizing)

----------------------------------------------------------------------------
(* Properties.                                                             *)

Phases == {"tokens", "convert", "unique", "melt", "meltWith", "meltUnique", "mark", "delete",
           "combine", "deterministic", "productions", "written", "abandoned"}

\* Every state has its fields, and the chain lists allocated states once each.
HeapTypes ==
  /\ acts \in Seq(Seq(Action(Allocated))) /\ acts # <<>>
  /\ endOf \in Seq(Syms \cup {NoSym}) /\ ctx \in Seq(BOOLEAN) /\ nr \in Seq(Nat)
  /\ Len(endOf) = Len(acts) /\ Len(ctx) = Len(acts) /\ Len(nr) = Len(acts)
  /\ chain \in Seq(Allocated) /\ chain # <<>> /\ chain[1] = first
  /\ \A k, m \in DOMAIN chain : chain[k] = chain[m] => k = m

SymbolTypes ==
  /\ kind \in [Syms -> {"fixedToken", "classToken", "litToken", "classLitToken"}]
  /\ declared \subseteq Syms /\ literals \in Nat
  /\ failed \in BOOLEAN /\ dirtyDFA \in BOOLEAN

RoundTypes ==
  /\ melted \in Seq([set : SUBSET Nat, size : Nat, state : Allocated, round : Nat])
  /\ lastSim \in Nat /\ round \in Nat /\ stale \in BOOLEAN

ControlTypes ==
  /\ pc \in Phases
  /\ pending \in Seq([from : Allocated, to : Allocated, typ : Typs, syms : SUBSET Chars,
                      tc : TransitionCodes])
  /\ pc = "convert" => pending # <<>>

PositionTypes ==
  /\ at \in Nat \ {0} /\ (pc = "delete" => 1 < at) /\ (pc # "delete" => at <= Len(chain))
  /\ ia \in Nat \ {0} /\ ib \in Nat /\ ia < ib /\ changed \in BOOLEAN
  /\ ma \in Nat \ {0} /\ source \subseteq Allocated /\ mi \in Nat \ {0}
  /\ pc \in {"meltWith", "meltUnique"} => at < Len(chain) /\ ma <= Len(Melter)

MarkTypes == used \subseteq Nat /\ todo \in Seq(Allocated)

\* Types, and the agreement of the heap's parts: the chain holds allocated states,
\* actions lead to allocated states, and the program's positions are positions of
\* what it walks, although the lists change while it walks them.
TypeOK ==
  /\ HeapTypes /\ SymbolTypes /\ RoundTypes
  /\ ControlTypes /\ PositionTypes /\ MarkTypes

\* A pass of MakeUnique never changes where a state goes under a character, nor
\* whether that move is a context move, although SplitActions rewrites, drops
\* and inserts actions of the very list MakeUnique is walking.
UniqueKeepsMoves ==
  [][(pc \in {"unique", "meltUnique"} /\ pc' = pc)
       => (\A q \in Allocated : SameMoves((acts')[q], acts[q]))]_vars

\* What WriteScanner writes, and what MatchLiteral walks in the productions, is a
\* deterministic automaton: no two actions of a state share a character and
\* every action has one target.  After literals were added this rests on dirtyDFA.
DeterministicList(list) ==
  Disjoint(list) /\ \A m \in DOMAIN list : IsSingle(list[m].targets)

WrittenDeterministic ==
  pc \in {"deterministic", "written"} =>
    \A k \in DOMAIN chain : DeterministicList(acts[chain[k]])

\* The part of a pass of MakeUnique that is over: the pairs it has compared, if it
\* has split none of them.
ComparedApart ==
  \A i, j \in DOMAIN acts[Subject] :
    i < j /\ (i < ia \/ (i = ia /\ j < ib)) => ~Overlap(acts[Subject][i], acts[Subject][j])

\* What makes WrittenDeterministic inductive: how far MakeUnique and MeltStates are,
\* and that only AddPath, which sets dirtyDFA, disturbs what they have reached.
DeterministicSoFar ==
  /\ pc \in {"unique", "meltUnique"} /\ ~changed => ComparedApart
  /\ pc = "unique" => \A k \in DOMAIN chain : k < at => Disjoint(acts[chain[k]])
  /\ pc \in {"melt", "meltWith", "meltUnique"} =>
       /\ \A k \in DOMAIN chain : pc = "melt" \/ k < Len(chain) => Disjoint(acts[chain[k]])
       /\ \A k \in DOMAIN chain : \A m \in DOMAIN acts[chain[k]] :
            k < at \/ (k = at /\ m < ma) => IsSingle(acts[chain[k]][m].targets)
  /\ pc \in {"mark", "delete", "combine", "deterministic", "written"}
       \/ (pc = "productions" /\ ~dirtyDFA) =>
         \A k \in DOMAIN chain : DeterministicList(acts[chain[k]])

\* Pairs of a state of the result and the set of states the automaton it was
\* made from is in after the same word; 0 is the result being stuck.
ResultStep(d, ch) ==
  IF d = 0 \/ FindAction(acts[d], ch) = 0 THEN 0
  ELSE Target(acts[d][FindAction(acts[d], ch)])
SubsetStep(S, ch) == UNION {Reached(before.acts[q], ch) : q \in S}

Pairs ==
  LET after[n \in 0..Len(acts)] ==
        IF n = 0 THEN {<<first, {first}>>}
        ELSE LET known == after[n - 1]
             IN  known \cup {<<ResultStep(p[1], ch), SubsetStep(p[2], ch)>> :
                              p \in known, ch \in Chars}
  IN  after[Len(acts)]

Represents(d, S) ==
  IF d = 0 THEN S = {}
  ELSE LET ends == {before.endOf[q] : q \in S} \ {NoSym}
       IN  /\ S # {}
           /\ IF ends = {} THEN endOf[d] = NoSym ELSE endOf[d] \in ends
           /\ ctx[d] <=> \E q \in S : before.ctx[q]
           /\ \A ch \in Chars : IsContextMove(acts[d], ch)
                                <=> \E q \in S : IsContextMove(before.acts[q], ch)

\* MakeDeterministic keeps the tokens: after any word the result is in a state
\* that ends the same symbol, with the same context, as the automaton it started
\* from.  This is what a melted state being "new state" for a "set of old states"
\* (Melted.h) promises.
SameTokens ==
  pc = "deterministic" => \A p \in Pairs : Represents(p[1], p[2])

\* The same, in every round in which no melted entry of the round before was used.
SameTokensUnlessStale ==
  pc = "deterministic" /\ ~stale => \A p \in Pairs : Represents(p[1], p[2])

\* No silent ambiguity: if some word ends two different symbols, "Tokens ... cannot
\* be distinguished" was reported.
ConflictsReported ==
  pc = "deterministic" /\ ~stale /\ ~failed =>
    \A p \in Pairs : Cardinality({before.endOf[q] : q \in p[2]} \ {NoSym}) <= 1

\* The written automaton is closed: states are numbered as they are listed, and
\* every "goto case_n" has its case: the target of a listed state is listed.
Closed ==
  pc \in {"deterministic", "productions", "written"} /\ ~stale =>
    \A k \in DOMAIN chain :
      /\ pc # "productions" => nr[chain[k]] = k - 1
      /\ \A m \in DOMAIN acts[chain[k]] : acts[chain[k]][m].targets \subseteq ToSet(chain)

\* Every string token and literal is recognised by the scanner that is written:
\* as itself, or as a keyword of a token that is classified by CheckLiteral.
LiteralsRecognised ==
  pc = "written" /\ ~stale /\ ~failed =>
    \A s \in declared \cap DOMAIN Text :
      LET w == Walk(Text[s])
      IN  /\ ~w.stuck
          /\ \/ endOf[w.state] = s
             \/ kind[s] = "litToken" /\ kind[endOf[w.state]] = "classLitToken"

\* MakeDeterministic ends: the do-while loops around MakeUnique do not go on
\* splitting, and melting does not go on inventing states.
Determinizes == pc = "unique" ~> pc = "deterministic"
============================================================================
