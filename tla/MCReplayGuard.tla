---------------------------- MODULE MCReplayGuard ----------------------------
(* Tickets of which neighbours collide, A and B in the nonce, B and C in the *)
(* transcript; A may also be presented a second time, later.                 *)
EXTENDS ReplayGuard

A == [ts |-> 0, nonce |-> 1, transcript |-> 1]
LaterA == [A EXCEPT !.ts = 1]
B == [ts |-> 1, nonce |-> 1, transcript |-> 2]
C == [ts |-> 1, nonce |-> 2, transcript |-> 2]
MCEntry == {A, LaterA, B, C}
MCLegacy == {}

=============================================================================
