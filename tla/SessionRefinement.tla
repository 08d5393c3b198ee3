-------------------------- MODULE SessionRefinement ---------------------------
(* The session as an implementation of SessionPromise. *)
EXTENDS Session

(* The session implements SessionPromise: the handshake is spent before
   anything is carried, both ends relay on the plane the client chose, and an
   end reported as done means delivered. *)
EndOf(side) == IF side.end \in {"open", "done", "idle"} THEN side.end ELSE "gone"
Promise == INSTANCE SessionPromise WITH
    spent <- srv.spent,
    planeC <- cli.plane,
    planeS <- srv.plane,
    up <- [sent |-> up.sent, got |-> up.got, fin |-> cli.up],
    dn <- [sent |-> dn.sent, got |-> dn.got, fin |-> srv.dn],
    endC <- EndOf(cli),
    endS <- EndOf(srv)
KeepsPromise == Promise!Spec
=============================================================================
