--------------------------- MODULE MCReplayJournal ---------------------------
(* Handshakes of which neighbours collide, A and B in the nonce, B and C in  *)
(* the transcript, and D, which collides with none.                          *)
EXTENDS ReplayJournal

A == [ts |-> 1, nonce |-> 1, transcript |-> 1]
B == [ts |-> 2, nonce |-> 1, transcript |-> 2]
C == [ts |-> 2, nonce |-> 2, transcript |-> 2]
D == [ts |-> 3, nonce |-> 3, transcript |-> 3]
MCEntry == {A, B, C, D}
MCLegacy == {<<A>>, <<A, C>>}

=============================================================================
