------------------------------ MODULE Analysis ------------------------------
(***************************************************************************)
(* From the productions to the checked grammar: Parser reads the           *)
(* productions and builds their graphs; at the end of the grammar it has   *)
(* Tab compute the symbol sets and check the grammar.                      *)
(*                                                                         *)
(* prod keeps the text of the productions, each leaf with its place: the   *)
(* reference (Grammars) reads it, Tab does not.  The sets are computed     *)
(* only if errors->count == 0, so text the parser has reported itself is   *)
(* left out: a second production for a nonterminal, and a grammar in whose *)
(* productions its own name does not occur.                                *)
(***************************************************************************)
EXTENDS Productions, Grammars

CONSTANTS
  Pools,    \* the pools a grammar's productions are taken from
  MaxSize,  \* MaxSize[p]: bound on the text of all productions together
  Bodies    \* Bodies[p][s][n], n <= MaxSize[p]: the expressions of that size a pool has for
            \* a nonterminal, without places

ASSUME BodiesAssumption ==
  \A p \in Pools :
    MaxSize[p] \in Nat /\ \A s \in Nonterminals : DOMAIN Bodies[p][s] = 0..MaxSize[p]

VARIABLES
  pool,    \* history: where the productions come from
  prod,    \* history: the productions read, as text
  size,    \* history: the size of that text
  tab,     \* the symbol table and the syntax graph
  report,  \* what GrammarOk reported
  phase    \* reading, checked

vars == <<pool, prod, size, tab, report, phase>>

Init ==
  /\ pool \in Pools
  /\ prod = [s \in {} |-> <<>>] /\ size = 0
  /\ tab = NewTab
  /\ report = [errors |-> {}, warnings |-> {}]
  /\ phase = "reading"

\* ident ... '=' Expression '.'
Production(sym, n, body) ==
  /\ phase = "reading" /\ tab.graph[sym] = Null
  /\ size' = size + n /\ size' <= MaxSize[pool]
  /\ LET e == Placed(body, <<sym>>)
     IN /\ prod' = [s \in DOMAIN prod \cup {sym} |-> IF s = sym THEN e ELSE prod[s]]
        /\ tab' = WithProduction(tab, sym, e)
  /\ UNCHANGED <<pool, report, phase>>

\* "END" ident
EndOfGrammar ==
  /\ phase = "reading" /\ phase' = "checked"
  /\ gramSy \in ToSet(tab.nonterminals)
  /\ tab' = Computed(tab) /\ report' = GrammarOk(tab')
  /\ UNCHANGED <<pool, prod, size>>

Next ==
  \/ \E sym \in Nonterminals : \E n \in 0..(MaxSize[pool] - size) :
       \E body \in Bodies[pool][sym][n] : Production(sym, n, body)
  \/ EndOfGrammar

Spec == Init /\ [][Next]_vars

----------------------------------------------------------------------------
Checked == phase = "checked"

\* Indices and references fit the graph, and sets hold what they may.
TypeOK ==
  LET nodes == tab.nodes
      refs == 0..Len(nodes)
  IN /\ phase \in {"reading", "checked"} /\ size \in 0..MaxSize[pool]
     /\ DOMAIN prod \subseteq ToSet(tab.nonterminals)
     /\ \A s \in Nonterminals : tab.graph[s] \in refs /\ (tab.graph[s] # Null <=> s \in DOMAIN prod)
     /\ \A i \in DOMAIN nodes :
          /\ {nodes[i].next, nodes[i].down, nodes[i].sub} \subseteq refs
          /\ nodes[i].sub # Null <=> nodes[i].typ \in {"alt", "opt", "iter"}
          /\ nodes[i].down # Null => nodes[i].typ = "alt"
          /\ nodes[i].typ = "any" => nodes[i].set \subseteq AllTerminals \ {eofSy}
          /\ nodes[i].typ = "sync" /\ Checked => eofSy \in nodes[i].set

\* The sets of the nodes of that type, by place.
Sets(typ) ==
  LET at == {i \in DOMAIN tab.nodes : tab.nodes[i].typ = typ}
  IN [p \in {tab.nodes[i].pos : i \in at} |->
        UNION {tab.nodes[i].set : i \in {j \in at : tab.nodes[j].pos = p}}]

\* The grammar with the ANY sets as they were set up, and as they are.
FullAnys == WithNullable(prod, [p \in DOMAIN Sets("any") |-> AllTerminals \ {eofSy}])
Reduced == WithNullable(prod, Sets("any"))
Analysed == WithFirst(Reduced, tab.first)

\* The deletable nonterminals are those the empty text can be derived from.
DeletableRight == Checked => tab.deletable = Reduced.null

\* First sets are the least solution of the equations of the productions, left
\* recursive ones included, in which order the nonterminals were met whatever.
FirstRight == Checked => tab.first = FirstSets(FullAnys)

\* Symbol.h: first is the terminal start symbols of the nonterminal; so it should be
\* with the ANY sets the parser is generated from, for a grammar nothing is
\* reported of.
FirstStays ==
  (Checked /\ report = [errors |-> {}, warnings |-> {}]) => tab.first = FirstSets(Reduced)

\* An ANY leaves to its rivals (another alternative, what comes behind its brackets,
\* what may be passed by before it) whatever they may start with, and it lost no
\* more than these: in whichever order FindAS reduced it and the ANYs its rivals
\* start with.  First of a deletable choice, or of brackets around something
\* deletable, runs on into the ANY behind it; what such an ANY loses is left open.
AnyRight ==
  (Checked /\ DOMAIN Analysed.anys # {}) =>
    LET all == WithFirst(FullAnys, tab.first)
        lost(p) == (AllTerminals \ {eofSy}) \ Analysed.anys[p]
        runsOn(f) == \/ f.typ = "paren"
                     \/ f.typ \in {"opt", "iter"} /\ Nullable(f.body, all.null)
    IN \A s \in DOMAIN prod :
         LET open == UNION {LeadingTerm(y.to, all) :
                              y \in {z \in Passed(prod[s], <<>>, all) : runsOn(z.f)}}
             places == {o.f.pos : o \in {x \in Occurrences(s, all) : x.f.typ = "any"}}
         IN /\ \A r \in Rivals(s, Analysed) : Analysed.anys[r.pos] \cap r.s = {}
            /\ \A p \in places \ open :
                 lost(p) \subseteq UNION {r.s : r \in {q \in Rivals(s, all) : q.pos = p}}

\* Follow sets are the least solution of theirs, for any cycle of nonterminals
\* that end one another's productions.
FollowRight == Checked => tab.follow = FollowSets(Analysed)

\* At SYNC the parser stops at what may come next there, or at the end of input.
SyncRight ==
  Checked => /\ Sets("sync") = SyncSets(Analysed, tab.follow)
             /\ tab.allSyncSets = {eofSy} \cup UNION {Sets("sync")[p] : p \in DOMAIN Sets("sync")}

\* An error is reported for exactly the nonterminals without a production, that
\* cannot be reached, or that derive no text, and for exactly the steps on a way from
\* a nonterminal that derives itself to one that does: the first of these checks
\* that finds something.
ChecksRight ==
  Checked =>
    LET g == Analysed
        reports(kind, S) == {<<kind, s>> : s \in S}
    IN IF Undefined(g) # {} THEN report.errors = reports("no production", Undefined(g))
       ELSE IF Unreached(g) # {} THEN report.errors = reports("not reached", Unreached(g))
       ELSE IF Circular(g) # {}
       THEN report.errors = reports("circular", CircularSteps(g))
       ELSE report.errors = reports("not to terminals", Unproductive(g))

\* The warnings are the LL(1) conflicts of the grammar, each for its symbol, and the
\* resolvers that resolve none.
WarningsRight ==
  (Checked /\ report.errors = {}) =>
    report.warnings = UNION {ConflictsOf(s, Analysed, tab.follow)
                               \cup Useless(s, Analysed, tab.follow) : s \in DOMAIN prod}
=============================================================================
