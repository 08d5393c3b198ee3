----------------------------- MODULE MCSession -----------------------------
(* Instances of Session for TLC; the bounds are given in the configurations. *)
EXTENDS SessionRefinement
=============================================================================
