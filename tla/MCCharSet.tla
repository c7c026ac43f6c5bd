----------------------------- MODULE MCCharSet -----------------------------
(* Two objects over 7 characters: every set, up to 4 ranges, gaps of any   *)
(* width between them, both ends of the range of characters.               *)
EXTENDS CharSet
=============================================================================
