---------------------------- MODULE MCQuicStreams ----------------------------
(* Two streams, of which the peer admits one at a time, and a window of one *)
(* unit.  Each plan stresses one thing, so that one loss, duplication,      *)
(* reordering or early timeout can be added to it.                          *)
EXTENDS QuicStreams

Transfer == [units |-> <<2, 0>>, used |-> {1, 2}, resets |-> {}, late |-> FALSE,
             drops |-> {}, searched |-> TRUE, path |-> BaseMtu, faults |-> 1]
Abort == [Transfer EXCEPT !.used = {1}, !.resets = {1}, !.drops = {1}]
Contend == [Transfer EXCEPT !.units = <<1, 1>>, !.resets = {1}, !.drops = {1}, !.faults = 0]
Search(mtu) == [Transfer EXCEPT !.units = <<1, 0>>, !.used = {1}, !.searched = FALSE,
                                !.path = mtu]

MCPlans == {Transfer, Abort, Contend, Search(BaseMtu), Search(MaxMtu)}
=============================================================================
