------------------------------- MODULE Tokens -------------------------------
(***************************************************************************)
(* The tokens of a grammar from their declarations to the automaton that   *)
(* is written: Determinize over what TokenNFA makes of their expressions,  *)
(* compared with the words the expressions stand for.                      *)
(***************************************************************************)
EXTENDS Recognition, TokenNFA

CONSTANTS
  Expr,        \* the expression of every symbol
  MaxLength    \* bound on the words that are looked at

ASSUME ExprAssumption ==
  /\ DOMAIN Expr = Syms /\ MaxLength \in Nat
  /\ \A s \in Syms :
       IF IsString(Expr[s]) THEN s \in DOMAIN Text /\ Text[s] = TokenString(Expr[s])
       ELSE /\ s \in DOMAIN Graph /\ ~Converted(Expr[s]).failed
            /\ \A field \in {"size", "ends", "arcs"} :
                 Graph[s][field] = Converted(Expr[s])[field]

----------------------------------------------------------------------------
(* The words of an expression, as far as they are not longer than that.    *)

Within(words) == {w \in words : Len(w) <= MaxLength}
Concatenated(A, B) == Within({x \o y : x \in A, y \in B})

Repeated(A) ==
  LET upTo[n \in Nat] ==
        IF n = 0 THEN {<<>>} ELSE upTo[n - 1] \cup Concatenated(upTo[n - 1], A)
  IN upTo[MaxLength]

RECURSIVE Words(_)
Words(e) ==
  LET ofFactor(f) ==
        CASE f.typ = "str"  -> {f.sym}
          [] f.typ = "clas" -> {<<ch>> : ch \in f.sym.syms}
          [] f.typ = "opt"  -> {<<>>} \cup Words(f.body)
          [] f.typ = "iter" -> Repeated(Words(f.body))
          [] OTHER          -> Words(f.body)
      ofTerm(term) ==
        FoldLeft(LAMBDA words, f : Concatenated(words, ofFactor(f)), {<<>>}, term)
  IN UNION {ofTerm(e[i]) : i \in DOMAIN e}

AllWords == UNION {[1..n -> Chars] : n \in 1..MaxLength}

\* The words of each symbol.
Lexicon == UNION {{<<s, w>> : w \in Words(Expr[s])} : s \in Syms}

----------------------------------------------------------------------------
(* Properties.                                                             *)

\* Structures taken for the string in them, and tokens some node of which has no
\* transition in its state.
Faithful ==
  {s \in Syms : IF s \in DOMAIN Text THEN Words(Expr[s]) = {Text[s]}
                ELSE Linked(TokenGraph(Expr[s]).nodes, Converted(Expr[s]))}

\* If no error was reported the written scanner knows the words of the declared
\* tokens, each as the token it belongs to, and no other word: through states shared
\* by nodes, melted, deleted and renumbered, and with literals added twice.
WordsRecognised ==
  (pc = "written" /\ ~stale /\ ~failed /\ declared \subseteq Faithful) =>
    \A w \in AllWords :
      LET owners == {s \in declared : <<s, w>> \in Lexicon}
          strings == owners \cap DOMAIN Text
      IN SymbolOf(w) \in IF owners = {} THEN {NoSym}
                        ELSE IF strings # {} THEN strings ELSE owners

\* The comment at NumberNodes: "There will be a transition from n.state to
\* n.next.state triggered by n.val."
NodesLinked ==
  pc = "tokens" =>
    \A s \in declared \cap DOMAIN Graph :
      Linked(TokenGraph(Expr[s]).nodes, Converted(Expr[s]))
=============================================================================
