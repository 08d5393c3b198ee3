--------------------------- MODULE SessionPromise ---------------------------
(***************************************************************************)
(* What one session promises to its two users, the local application and    *)
(* the target, whatever the network does.  No record, no codec and no       *)
(* handshake appears here.                                                   *)
(*                                                                         *)
(*   - Nothing is carried before the handshake has been spent.              *)
(*   - The client picks the plane (tcp or quic), and the server, if it      *)
(*     relays at all, relays on the same one.                               *)
(*   - Each direction delivers a prefix of what was sent.                   *)
(*   - A side that ends "done" on the QUIC plane knows that both directions *)
(*     were delivered to the last unit.  On the TCP plane it knows this of  *)
(*     the direction it receives, unless its peer gave up first: there an   *)
(*     early close of the peer's socket reads as the end of its data.       *)
(***************************************************************************)
EXTENDS Naturals

VARIABLES spent,             \* the handshake is recorded as used
          planeC, planeS,    \* "none", "tcp" or "quic"
          up, dn,            \* [sent, got, fin] of each direction
          endC, endS         \* "open", "done", "idle" or "gone"

vars == <<spent, planeC, planeS, up, dn, endC, endS>>

Fresh == [sent |-> 0, got |-> 0, fin |-> FALSE]

Init == /\ spent = FALSE
        /\ planeC = "none" /\ planeS = "none"
        /\ up = Fresh /\ dn = Fresh
        /\ endC = "open" /\ endS = "open"

Spend == /\ ~spent
         /\ spent' = TRUE
         /\ UNCHANGED <<planeC, planeS, up, dn, endC, endS>>

ClientChooses == /\ spent /\ planeC = "none"
                 /\ planeC' \in {"tcp", "quic"}
                 /\ UNCHANGED <<spent, planeS, up, dn, endC, endS>>

ServerFollows == /\ planeC # "none" /\ planeS = "none"
                 /\ planeS' = planeC
                 /\ UNCHANGED <<spent, planeC, up, dn, endC, endS>>

(* A unit goes in, the input ends, or a unit comes out. *)
Moves(d, new) == \/ ~d.fin /\ new = [d EXCEPT !.sent = @ + 1]
                 \/ ~d.fin /\ new = [d EXCEPT !.fin = TRUE]
                 \/ d.got < d.sent /\ new = [d EXCEPT !.got = @ + 1]

Upload == /\ planeC # "none"
          /\ up'.got > up.got => planeS # "none" /\ endS = "open"
          /\ up'.got = up.got => endC = "open"
          /\ Moves(up, up')
          /\ UNCHANGED <<spent, planeC, planeS, dn, endC, endS>>

Download == /\ planeS # "none"
            /\ dn'.got > dn.got => endC = "open"
            /\ dn'.got = dn.got => endS = "open"
            /\ Moves(dn, dn')
            /\ UNCHANGED <<spent, planeC, planeS, up, endC, endS>>

Delivered(d) == d.fin /\ d.got = d.sent

MayBeDone(plane, incoming, peerEnd) ==
    \/ plane = "quic" /\ Delivered(up) /\ Delivered(dn)
    \/ plane = "tcp" /\ (Delivered(incoming) \/ peerEnd # "open")

ClientEnds == /\ endC = "open"
              /\ endC' \in {"done", "idle", "gone"}
              /\ endC' = "done" => MayBeDone(planeC, dn, endS)
              /\ endC' = "idle" => planeC # "none"
              /\ UNCHANGED <<spent, planeC, planeS, up, dn, endS>>

ServerEnds == /\ endS = "open"
              /\ endS' \in {"done", "idle", "gone"}
              /\ endS' = "done" => MayBeDone(planeS, up, endC)
              /\ endS' = "idle" => planeS # "none"
              /\ UNCHANGED <<spent, planeC, planeS, up, dn, endC>>

Next == Spend \/ ClientChooses \/ ServerFollows \/ Upload \/ Download
        \/ ClientEnds \/ ServerEnds

Spec == Init /\ [][Next]_vars
=============================================================================
