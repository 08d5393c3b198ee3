----------------------------- MODULE MCQuicKeys ------------------------------
(***************************************************************************)
(* A key may seal three packets, so an update is due after the first, and  *)
(* each end sends four: both ends can update, at once or in turn, and an   *)
(* update can be answered by another.                                      *)
(***************************************************************************)
EXTENDS QuicKeys
=============================================================================
