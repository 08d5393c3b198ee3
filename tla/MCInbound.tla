----------------------------- MODULE MCInbound -----------------------------
(* An instance of Inbound for TLC; the bounds are given in the configuration. *)
EXTENDS Inbound
=============================================================================
