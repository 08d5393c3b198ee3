----------------------------- MODULE MCServerMux -----------------------------
(* Small instances of ServerMux: one stream id, which the client reuses. *)
EXTENDS ServerMux

CONSTANT id1
OneId == {id1}
=============================================================================
