---------------------------- MODULE TokenStream ----------------------------
(***************************************************************************)
(* What a scanner promises its parser: the tokens of the input, numbered   *)
(* 1, 2, ..., each delivered once and in order, whatever is peeked at.     *)
(***************************************************************************)
EXTENDS Naturals

VARIABLES
  scanned,   \* the token Scan delivered last
  ahead,     \* the token that la is
  last,      \* the token that t is
  peekedAt   \* the token Peek looked at last

streamVars == <<scanned, ahead, last, peekedAt>>

StreamInit == scanned = 0 /\ ahead = 0 /\ last = 0 /\ peekedAt = 0

\* The lookahead is recognized, and the token behind it becomes the lookahead.
Deliver ==
  /\ last' = ahead
  /\ scanned' = scanned + 1 /\ ahead' = scanned' /\ peekedAt' = scanned'

\* The lookahead was a pragma: t is the lookahead again.
Drop == ahead' = last /\ UNCHANGED <<scanned, last, peekedAt>>

Look == peekedAt' = peekedAt + 1 /\ UNCHANGED <<scanned, ahead, last>>

LookAgain == peekedAt' = scanned /\ UNCHANGED <<scanned, ahead, last>>

StreamNext == Deliver \/ Drop \/ Look \/ LookAgain

StreamSpec == StreamInit /\ [][StreamNext]_streamVars
=============================================================================
