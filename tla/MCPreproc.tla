----------------------------- MODULE MCPreproc -----------------------------
(* Two names, of which any may be defined, and conditionals nested up to 5 deep. *)
EXTENDS Preproc
=============================================================================
