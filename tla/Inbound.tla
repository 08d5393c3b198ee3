------------------------------ MODULE Inbound ------------------------------
(***************************************************************************)
(* One inbound TCP connection of the server before it has session keys     *)
(* (handshake/server.rs, handle_connection and cap_shed_fallback): the     *)
(* first record is read while an origin connection may be dialled ahead    *)
(* of time, then the connection is either accepted as a ParallaX client or *)
(* spliced to the camouflage origin, by a userspace loop or by two kernel  *)
(* splice threads (transport/tcp.rs), until both sockets are closed.       *)
(*                                                                         *)
(* The peer's bytes are pieces 1, 2, 3, ...; its first record is pieces 1  *)
(* (the header) and 2.  The bytes of the origin are numbered likewise.     *)
(* Peer and origin may stop reading, close or reset at any time.  Timers   *)
(* may fire whenever they are armed.                                       *)
(***************************************************************************)
EXTENDS Naturals, Sequences

CONSTANTS MaxUp, MaxDown   \* bounds: pieces a peer, an origin connection sends

ASSUME InboundAssumption == {MaxUp, MaxDown} \subseteq Nat

VARIABLES
    peer,   \* the other end of the connection
    org,    \* the connections dialled to the origin, in order
    task,   \* handle_connection or cap_shed_fallback
    dir,    \* the two directions of the relay, or of a teardown
    rel     \* the release of a pre-dialled connection nobody needs

vars == <<peer, org, task, dir, rel>>

Hello == 2
Prefix(n) == [i \in 1..n |-> i]

(* kind: a client's hello authenticates for an authorized SNI, a visitor's
   does not, garbage has no TLS record header.  path: admitted, or shed. *)
Init ==
    /\ \E kind \in {"client", "visitor", "garbage"} :
         peer = [kind |-> kind, sent |-> 0, end |-> "open", got |-> <<>>, fin |-> FALSE]
    /\ org = <<>>
    /\ \E path \in {"admitted", "shed"} :
         task = [pc |-> "first", path |-> path, relay |-> "none", read |-> 0,
                 mine |-> 0, spare |-> 0, rough |-> {}]
    /\ dir = [up |-> "over", dn |-> "over"]
    /\ rel = "none"

Dialled == [st |-> "dialing", end |-> "open", sent |-> 0, taken |-> 0,
            got |-> <<>>, fin |-> FALSE]

Mine == org[task.mine]
Other(d) == IF d = "up" THEN "dn" ELSE "up"

(* Direction up reads the peer's socket and writes the origin's, dn the
   reverse. *)
Queued(d) == IF d = "up" THEN peer.sent - task.read ELSE Mine.sent - Mine.taken
SourceEnd(d) == IF d = "up" THEN peer.end ELSE Mine.end
SinkEnd(d) == SourceEnd(Other(d))

-----------------------------------------------------------------------------
(* Peer and origin *)

PeerSends ==
    /\ task.pc \notin {"ended", "keys"} /\ peer.end = "open" /\ peer.sent < MaxUp
    /\ peer' = [peer EXCEPT !.sent = @ + 1]
    /\ UNCHANGED <<org, task, dir, rel>>

PeerEnds ==
    /\ task.pc \notin {"ended", "keys"} /\ peer.end # "reset"
    /\ \E how \in {"fin", "reset"} \ {peer.end} : peer' = [peer EXCEPT !.end = how]
    /\ UNCHANGED <<org, task, dir, rel>>

(* From the keys on, the accepted connection is the session's. *)
InUse(i) == org[i].st = "open" /\ ~(task.pc = "keys" /\ i = task.mine)

OriginSends(i) ==
    /\ InUse(i) /\ org[i].end = "open" /\ org[i].sent < MaxDown
    /\ org' = [org EXCEPT ![i].sent = @ + 1]
    /\ UNCHANGED <<peer, task, dir, rel>>

OriginEnds(i) ==
    /\ InUse(i) /\ org[i].end # "reset"
    /\ \E how \in {"fin", "reset"} \ {org[i].end} : org' = [org EXCEPT ![i].end = how]
    /\ UNCHANGED <<peer, task, dir, rel>>

(* connect_tcp_with_timeout returns, with a connection or without. *)
DialSettles(i) ==
    /\ org[i].st = "dialing"
    /\ \E st \in {"open", "failed"} : org' = [org EXCEPT ![i].st = st]
    /\ UNCHANGED <<peer, task, dir, rel>>

-----------------------------------------------------------------------------
(* FIN-first teardown of the sockets the task owns *)

(* Faulty: the socket is dropped as it is. *)
PeerDropped(t) ==
    /\ task' = [t EXCEPT !.pc = "ended", !.mine = 0]
    /\ UNCHANGED <<dir, peer>>

(* graceful_close_tcp_stream on the peer's socket alone *)
ClosePeer(t) ==
    /\ task' = [t EXCEPT !.pc = "close", !.mine = 0]
    /\ dir' = [up |-> "drain", dn |-> "over"]
    /\ peer' = [peer EXCEPT !.fin = TRUE]

(* both sockets: tokio::join! of two graceful closes *)
CloseBoth(pc) ==
    /\ task' = [task EXCEPT !.pc = pc]
    /\ dir' = [up |-> "drain", dn |-> "drain"]
    /\ peer' = [peer EXCEPT !.fin = TRUE]
    /\ org' = [org EXCEPT ![task.mine].fin = TRUE]

Closing == task.pc \in {"close", "relay"}

(* Bytes are discarded until the source ends or the drain's budget is used
   up; a socket left to the second case was not drained. *)
DrainDiscards(d) ==
    /\ Closing /\ dir[d] = "drain" /\ Queued(d) > 0
    /\ IF d = "up" THEN task' = [task EXCEPT !.read = @ + 1] /\ UNCHANGED org
                   ELSE org' = [org EXCEPT ![task.mine].taken = @ + 1] /\ UNCHANGED task
    /\ UNCHANGED <<peer, dir, rel>>

DrainEnds(d) ==
    /\ Closing /\ dir[d] = "drain"
    /\ dir' = [dir EXCEPT ![d] = "over"]
    /\ IF SourceEnd(d) = "reset" \/ (SourceEnd(d) = "fin" /\ Queued(d) = 0)
         THEN UNCHANGED task
         ELSE task' = [task EXCEPT !.rough = @ \cup {d}]
    /\ UNCHANGED <<peer, org, rel>>

Drops ==
    /\ Closing /\ dir.up = "over" /\ dir.dn = "over"
    /\ task' = [task EXCEPT !.pc = "ended"]
    /\ org' = IF task.mine = 0 THEN org ELSE [org EXCEPT ![task.mine].st = "closed"]
    /\ UNCHANGED <<peer, dir, rel>>

-----------------------------------------------------------------------------
(* The first record: read_first_client_record_predialing *)

(* FIRST_RECORD_PREDIAL_DELAY passed and the record is not complete. *)
Predial ==
    /\ task.pc = "first" /\ org = <<>>
    /\ org' = <<Dialled>>
    /\ task' = [task EXCEPT !.spare = 1]
    /\ UNCHANGED <<peer, dir, rel>>

Fallback(t) == task' = [t EXCEPT !.pc = "forward"] /\ UNCHANGED <<org, rel>>

(* ConnectionDecision::Authenticated: the spare is released by a task of its
   own, accept_authenticated dials its own connection. *)
Accept(t) ==
    /\ task' = [t EXCEPT !.pc = "accept", !.mine = Len(org) + 1, !.spare = 0]
    /\ org' = Append(org, Dialled)
    /\ rel' = IF task.spare = 0 THEN "none" ELSE "wait"

(* decide_connection_inbound; cap_shed_fallback never asks. *)
Decide(t) == IF peer.kind = "client" /\ task.path = "admitted"
               THEN Accept(t) ELSE Fallback(t)

FirstReads ==
    /\ task.pc = "first" /\ Queued("up") > 0
    /\ LET t == [task EXCEPT !.read = @ + 1]
       IN CASE peer.kind = "garbage" -> Fallback(t)
            [] peer.kind # "garbage" /\ t.read = Hello -> Decide(t)
            [] OTHER -> task' = t /\ UNCHANGED <<org, rel>>
    /\ UNCHANGED <<peer, dir>>

(* The deadline, or the end of the stream after at least one byte: what was
   read is a FallbackPrefix. *)
FirstGivesUp ==
    /\ task.pc = "first"
    /\ Fallback(task)
    /\ UNCHANGED <<peer, dir>>

(* The end of the stream before any byte, or an error: a spare is released
   first, within the admission of the connection. *)
FirstFails ==
    /\ task.pc = "first"
    /\ peer.end = "reset" \/ (peer.end = "fin" /\ peer.sent = 0)
    /\ task' = [task EXCEPT !.pc = "release", !.spare = 0]
    /\ rel' = IF task.spare = 0 THEN "done" ELSE "wait"
    /\ UNCHANGED <<peer, org, dir>>

(* handle_connection returns the error; cap_shed_fallback closes the peer. *)
FirstReleased ==
    /\ task.pc = "release" /\ rel = "done"
    /\ IF task.path = "shed"
         THEN ClosePeer(task)
         ELSE task' = [task EXCEPT !.pc = "ended"] /\ UNCHANGED <<dir, peer>>
    /\ UNCHANGED <<org, rel>>

(* release_predialed_origin, and the same steps awaited in line *)
ReleaseSettles ==
    /\ rel = "wait" /\ org[1].st # "dialing"
    /\ rel' = IF org[1].st = "open" THEN "drain" ELSE "done"
    /\ org' = [org EXCEPT ![1].fin = (org[1].st = "open")]
    /\ UNCHANGED <<peer, task, dir>>

ReleaseDiscards ==
    /\ rel = "drain" /\ org[1].taken < org[1].sent
    /\ org' = [org EXCEPT ![1].taken = @ + 1]
    /\ UNCHANGED <<peer, task, dir, rel>>

ReleaseEnds ==
    /\ rel = "drain"
    /\ rel' = "done"
    /\ org' = [org EXCEPT ![1].st = "closed"]
    /\ task' = IF org[1].end = "reset" \/ (org[1].end = "fin" /\ org[1].taken = org[1].sent)
                 THEN task ELSE [task EXCEPT !.rough = @ \cup {"spare"}]
    /\ UNCHANGED <<peer, dir>>
-----------------------------------------------------------------------------
(* The splice: forward_first_record_to_origin, then the relay *)

(* The kernel relay needs a slot and descriptors; a shed connection may not
   use it (relay_fallback_with_idle_timeout). *)
Relays == IF task.path = "shed" THEN {"user"} ELSE {"user", "kernel"}

(* What was read is written to connection i: a fresh socket takes a record
   without waiting.  A connection that is reset refuses it. *)
Splice(i) ==
    IF org[i].end = "reset"
      THEN ClosePeer([task EXCEPT !.spare = 0])
           /\ org' = [org EXCEPT ![i].st = "closed"]
      ELSE /\ \E r \in Relays :
                task' = [task EXCEPT !.pc = "relay", !.mine = i, !.spare = 0, !.relay = r]
           /\ org' = [org EXCEPT ![i].got = Prefix(task.read)]
           /\ dir' = [up |-> "read", dn |-> "read"]
           /\ UNCHANGED peer

(* PredialedOrigin::into_stream: a dial still in flight is awaited. *)
AdoptSpare ==
    /\ task.pc = "forward" /\ task.spare = 1 /\ org[1].st = "open"
    /\ Splice(1)
    /\ UNCHANGED rel

(* Faulty: a dial still in flight counts as none. *)
NoSpareYet == task.spare = 1 => org[1].st # "open"

NoSpare == task.spare = 1 => org[1].st = "failed"

DialFallback ==
    /\ task.pc = "forward" /\ NoSpare
    /\ task' = [task EXCEPT !.pc = "dial", !.mine = Len(org) + 1, !.spare = 0]
    /\ org' = Append(org, Dialled)
    /\ UNCHANGED <<peer, dir, rel>>

ConnectAndForward ==
    /\ task.pc = "dial" /\ Mine.st # "dialing"
    /\ IF Mine.st = "open" THEN Splice(task.mine)
                           ELSE ClosePeer(task) /\ UNCHANGED org
    /\ UNCHANGED rel

(* A read of one direction.  The userspace loop is one task: it reads nothing
   while it awaits a write. *)
Free(d) == task.relay = "user" => dir[Other(d)] # "write"

PumpReads(d) ==
    /\ task.pc = "relay" /\ dir[d] = "read" /\ Free(d) /\ Queued(d) > 0
    /\ IF d = "up" THEN task' = [task EXCEPT !.read = @ + 1] /\ UNCHANGED org
                   ELSE org' = [org EXCEPT ![task.mine].taken = @ + 1] /\ UNCHANGED task
    /\ dir' = [dir EXCEPT ![d] = "write"]
    /\ UNCHANGED <<peer, rel>>

(* The sink takes the bytes, if it cares to read. *)
PumpWrites(d) ==
    /\ task.pc = "relay" /\ dir[d] = "write" /\ SinkEnd(d) # "reset"
    /\ IF d = "up" THEN /\ org' = [org EXCEPT ![task.mine].got = Append(@, task.read)]
                        /\ UNCHANGED peer
                   ELSE /\ peer' = [peer EXCEPT !.got = Append(@, Mine.taken)]
                        /\ UNCHANGED org
    /\ dir' = [dir EXCEPT ![d] = "read"]
    /\ UNCHANGED <<task, rel>>

SinkFin(d) ==
    IF d = "up" THEN org' = [org EXCEPT ![task.mine].fin = TRUE] /\ UNCHANGED peer
                ELSE peer' = [peer EXCEPT !.fin = TRUE] /\ UNCHANGED org

(* A clean end of one direction is passed on as a FIN; the other goes on. *)
PumpEof(d) ==
    /\ task.pc = "relay" /\ dir[d] = "read" /\ Free(d)
    /\ Queued(d) = 0 /\ SourceEnd(d) = "fin"
    /\ dir' = [dir EXCEPT ![d] = IF task.relay = "user" THEN "eof" ELSE "drain"]
    /\ SinkFin(d)
    /\ UNCHANGED <<task, rel>>


(* Any other end: idle, a write that times out, an error.  The userspace loop
   tears both directions down, a kernel thread only its own.  A piece that was
   read and not written is lost. *)
PumpStops(d) ==
    /\ task.pc = "relay" /\ dir[d] \in {"read", "write"} /\ Free(d)
    /\ IF task.relay = "user"
         THEN CloseBoth("close")
         ELSE /\ dir' = [dir EXCEPT ![d] = "drain"]
              /\ SinkFin(d) /\ UNCHANGED task
    /\ UNCHANGED rel

PumpsOver ==
    /\ task.pc = "relay" /\ dir.up = "eof" /\ dir.dn = "eof"
    /\ CloseBoth("close")
    /\ UNCHANGED rel

(* splice_bidirectional_with_spawner: without the second thread the first
   tears both directions down; without the first the sockets are dropped. *)
SpawnFails ==
    /\ task.pc = "relay" /\ task.relay = "kernel" /\ dir = [up |-> "read", dn |-> "read"]
    /\ \/ CloseBoth("close")
       \/ /\ task' = [task EXCEPT !.pc = "ended", !.rough = {"up", "dn"}]
          /\ org' = [org EXCEPT ![task.mine].st = "closed"]
          /\ UNCHANGED <<peer, dir>>
    /\ UNCHANGED rel

-----------------------------------------------------------------------------
(* accept_authenticated *)

AcceptForwards ==
    /\ task.pc = "accept" /\ Mine.st # "dialing"
    /\ IF Mine.st = "failed"
         THEN ClosePeer(task) /\ UNCHANGED org
         ELSE /\ task' = [task EXCEPT !.pc = "hello"]
              /\ org' = [org EXCEPT ![task.mine].got = Prefix(task.read)]
              /\ UNCHANGED <<peer, dir>>
    /\ UNCHANGED rel

(* read_forwarded_server_hello; strict_tls13 rejects an origin that chose an
   older version after its hello has been mirrored. *)
AcceptReadsHello ==
    /\ task.pc = "hello" /\ Mine.taken < Mine.sent
    /\ \E pc \in {"mirror", "reject"} : task' = [task EXCEPT !.pc = pc]
    /\ org' = [org EXCEPT ![task.mine].taken = @ + 1]
    /\ UNCHANGED <<peer, dir, rel>>

AcceptMirrors ==
    /\ task.pc \in {"mirror", "reject"} /\ peer.end # "reset"
    /\ IF task.pc = "mirror"
         THEN /\ task' = [task EXCEPT !.pc = "keys"]
              /\ peer' = [peer EXCEPT !.got = Append(@, Mine.taken)]
              /\ UNCHANGED <<org, dir>>
         ELSE /\ task' = [task EXCEPT !.pc = "close"]
              /\ dir' = [up |-> "drain", dn |-> "drain"]
              /\ peer' = [peer EXCEPT !.got = Append(@, Mine.taken), !.fin = TRUE]
              /\ org' = [org EXCEPT ![task.mine].fin = TRUE]
    /\ UNCHANGED rel

(* HANDSHAKE_TIMEOUT on each step, an error, a record that is no ServerHello *)
AcceptFails ==
    /\ task.pc \in {"hello", "mirror", "reject"}
    /\ CloseBoth("close")
    /\ UNCHANGED rel

-----------------------------------------------------------------------------
Direction == {"up", "dn"}

(* What the server does without waiting for the other ends: its timers make
   sure that it is always able to do something. *)
Server ==
    \/ FirstReads \/ FirstGivesUp \/ FirstFails \/ FirstReleased
    \/ AdoptSpare \/ DialFallback \/ ConnectAndForward
    \/ \E d \in Direction : \/ PumpReads(d) \/ PumpEof(d) \/ PumpStops(d)
                            \/ DrainDiscards(d) \/ DrainEnds(d)
    \/ PumpsOver \/ SpawnFails \/ Drops
    \/ AcceptForwards \/ AcceptReadsHello \/ AcceptFails

Release == ReleaseSettles \/ ReleaseDiscards \/ ReleaseEnds

Dial == \E i \in DOMAIN org : DialSettles(i)

Environment ==
    \/ PeerSends \/ PeerEnds \/ Predial \/ AcceptMirrors
    \/ \E i \in DOMAIN org : OriginSends(i) \/ OriginEnds(i)
    \/ \E d \in Direction : PumpWrites(d)

Next == Server \/ Release \/ Dial \/ Environment

(* The runtime polls the task and the detached release; a dial has a timeout.
   Nothing is assumed of the peer or the origin. *)
Spec == Init /\ [][Next]_vars /\ WF_vars(Server) /\ WF_vars(Release) /\ WF_vars(Dial)

-----------------------------------------------------------------------------
(* Properties *)

(* A splice is transparent: the origin sees what the peer sent, from its first
   byte, in order and once, all of it on one connection; a second connection
   is dialled only after a dial that failed; the pre-dialled one that an
   accepted client does not need never carries a byte; and a FIN that is passed
   on because its source ended cleanly comes after everything the source sent.
   (relay_fallback_reusing_origin: "dialing a second time would make a
   silent-then-talkative probe open TWO origin connections".) *)
Transparent ==
    /\ \A i \in DOMAIN org :
         /\ org[i].got = Prefix(Len(org[i].got))
         /\ org[i].got # <<>> => task.mine \in {0, i}
    /\ peer.got = Prefix(Len(peer.got))
    /\ task.pc = "relay" =>
         /\ \A i \in DOMAIN org \ {task.mine} : org[i].st = "failed"
         /\ dir.up \in {"read", "eof"} => Len(Mine.got) = task.read
         /\ dir.dn \in {"read", "eof"} => Len(peer.got) = Mine.taken
         /\ dir.up = "eof" => task.read = peer.sent
         /\ dir.dn = "eof" => Mine.taken = Mine.sent

(* No socket is dropped with bytes unread, which would reset the connection
   instead of closing it, unless its drain ran out of time, its other end had
   reset it, or the kernel relay could not start its first thread.
   (graceful_fin_then_drain, fin_write_then_drain_read.) *)
ClosesByFin ==
    /\ task.pc = "ended" =>
          peer.end = "reset" \/ "up" \in task.rough
            \/ (Queued("up") = 0 /\ (peer.fin \/ peer.end = "fin"))
    /\ \A i \in DOMAIN org : org[i].st = "closed" =>
          \/ org[i].end = "reset"
          \/ (IF i = task.mine THEN "dn" ELSE "spare") \in task.rough
          \/ org[i].taken = org[i].sent /\ org[i].fin

=============================================================================
