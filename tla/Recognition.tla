---------------------------- MODULE Recognition ----------------------------
(***************************************************************************)
(* What the scanner automaton recognises: the invariant that follows the   *)
(* declared tokens, as sets of words, from their declarations to the       *)
(* automaton that is written.                                              *)
(*                                                                         *)
(* An automaton is the set of its edges <<state, character, state>>; a     *)
(* word takes it from firstState to every state a path ends in.            *)
(***************************************************************************)
EXTENDS SubsetConstruction

AnyWord == Seq(Chars) \ {<<>>}

\* The paths a word takes.
Paths(E, w) ==
  {p \in [0..Len(w) -> Nat] :
     p[0] = first /\ \A k \in 1..Len(w) : <<p[k - 1], w[k], p[k]>> \in E}

\* The symbols ended behind it.
Ended(E, ends, w) == {ends[p[Len(w)]] : p \in Paths(E, w)} \ {NoSym}

EdgesOf(a) ==
  {e \in (DOMAIN a) \X Chars \X Nat : e[3] \in Reached(a[e[1]], e[2])}

\* The edges ConvertToStates has still to make.
PendingEdges ==
  {e \in Nat \X Chars \X Nat :
     \E k \in DOMAIN pending :
       pending[k].from = e[1] /\ e[2] \in pending[k].syms /\ pending[k].to = e[3]}

----------------------------------------------------------------------------
(* What is declared.                                                       *)

\* A word of the graph g, whose start is 0 and whose other states are 1..g.size.
WordOf(g, w) ==
  \E p \in [0..Len(w) -> 0..g.size] :
    /\ p[0] = 0 /\ p[Len(w)] \in g.ends \ {0}
    /\ \A k \in 1..Len(w) : \E j \in DOMAIN g.arcs :
         g.arcs[j].from = p[k - 1] /\ w[k] \in g.arcs[j].syms /\ g.arcs[j].to = p[k]

\* w is a token s.
Denotes(s, w) == IF s \in DOMAIN Text THEN w = Text[s] ELSE WordOf(Graph[s], w)

Keywords == {s \in declared \cap DOMAIN Text : kind[s] = "litToken"}
Owners(w) == {s \in declared : Denotes(s, w)}

\* The symbol the written scanner has for a text: NoSym if it is not one token.
SymbolOf(w) ==
  LET walk == Walk(w)
      keywords == {s \in Keywords : Text[s] = w}
      matched == endOf[walk.state]
  IN IF walk.stuck \/ matched = NoSym THEN NoSym
     ELSE IF kind[matched] = "classLitToken" /\ keywords # {} THEN CHOOSE s \in keywords : TRUE
     ELSE matched

\* If no error was reported, the written scanner knows the words of the declared
\* tokens, each as the token it belongs to or as the string it is, and no other word.
Recognised(w) ==
  LET strings == Owners(w) \cap DOMAIN Text
  IN SymbolOf(w) \in IF Owners(w) = {} THEN {NoSym}
                    ELSE IF strings # {} THEN strings ELSE Owners(w)

ScannerRight == pc = "written" /\ ~stale /\ ~failed => \A w \in AnyWord : Recognised(w)

----------------------------------------------------------------------------
(* The invariant.                                                          *)

Round == {"unique", "melt", "meltWith", "meltUnique", "mark", "delete", "combine",
          "deterministic"}

\* During a round the automaton it began with, and otherwise the one there is.
Edges == IF pc \in Round THEN EdgesOf(before.acts) ELSE EdgesOf(acts) \cup PendingEdges
Ends == IF pc \in Round THEN before.endOf ELSE endOf

\* No action leads back to firstState: a path added there is a word of its own.
FirstNotEntered ==
  /\ ~stale => \A q \in Allocated : \A m \in DOMAIN acts[q] : first \notin acts[q][m].targets
  /\ \A k \in DOMAIN pending : pending[k].to # first

\* States end declared symbols that are no keywords.
EndsDeclared ==
  /\ \A q \in Allocated : endOf[q] # NoSym => endOf[q] \in declared /\ kind[endOf[q]] # "litToken"
  /\ \A s \in Syms : kind[s] = "litToken" => s \in Keywords

\* A keyword is a word of a symbol that is classified by CheckLiteral.
KeywordsClassified ==
  ~stale /\ ~failed =>
    \A s \in Keywords : \E e \in declared : kind[e] = "classLitToken" /\ Denotes(e, Text[s])

\* The automaton has the words of the declared symbols that are no keywords.
WordsKept ==
  ~stale /\ ~failed =>
    \A w \in AnyWord : Ended(Edges, Ends, w) = {s \in declared \ Keywords : Denotes(s, w)}

RecognitionInv ==
  /\ before.acts # <<>> /\ (pc # "convert" => pending = <<>>)
  /\ FirstNotEntered /\ EndsDeclared /\ KeywordsClassified /\ WordsKept
=============================================================================
