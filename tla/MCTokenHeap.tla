---------------------------- MODULE MCTokenHeap ----------------------------
(* Blocks of 5 bytes and tokens of 2: a text may fit beside a token, leave *)
(* room for one byte or none, need a block of its own, fill it to the last *)
(* byte, or be too long.                                                   *)
EXTENDS TokenHeap
=============================================================================
