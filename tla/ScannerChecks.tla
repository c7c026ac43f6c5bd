--------------------------- MODULE ScannerChecks ---------------------------
(***************************************************************************)
(* The tokens a scanner delivers, compared with what the declarations of   *)
(* its grammar say.                                                        *)
(***************************************************************************)
EXTENDS ScannerLoop, Lexing

CONSTANT Declared    \* the tokens declared in each grammar

Expected ==
  [g \in DOMAIN Grammar |->
     [data \in Inputs[g] |-> Tokenized(Grammar[g], Declared[g], data)]]

\* The position of a buffer over an empty file is INT_MAX.
Positioned(token) == IF NoInput(in.b) THEN [token EXCEPT !.pos = 0] ELSE token

\* Kind, place and text of the tokens delivered are those of the input's tokens:
\* whatever had to be read behind a token to know its end, however lines end and
\* comments nest, and at each border of the buffer's window.
TokensRight ==
  (pc = "ended" /\ ~skewed /\ ~Lost(in.b) /\ ~Failed(in.b)) =>
     [i \in DOMAIN delivered |-> Positioned(delivered[i])] = Expected[grammar][in.b.data]
=============================================================================
