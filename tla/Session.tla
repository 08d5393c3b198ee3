------------------------------ MODULE Session ------------------------------
(***************************************************************************)
(* One ParallaX session from the moment both ends hold the epoch-0 keys to  *)
(* its end: the camouflage that still flows, the post-quantum rekey         *)
(* (PX1Q, PX1K), the server's identity, the optional negotiation of the     *)
(* QUIC plane (PX1G, PX1O or PX1N, PX1P), the first command, the relay on   *)
(* the plane chosen, and the DONE exchange that closes a QUIC relay.        *)
(*                                                                         *)
(* Client: client/runtime.rs, server: handshake/server.rs.  The two ends    *)
(* run concurrently, joined by a TCP connection (c2s, s2c) that may be cut  *)
(* at any time and a QUIC connection (qUp, qDn) that may be closed by       *)
(* either end or lost.  Both peers follow the protocol.                     *)
(*                                                                         *)
(* A sealed record is [e, n, m]: the epoch of its key, its sequence number  *)
(* and what it says.  It opens for a codec that stands at the same epoch    *)
(* and number.  Camouflage has the epoch Plain and opens for no codec.      *)
(***************************************************************************)
EXTENDS Naturals, Sequences

CONSTANTS
    RecordUnits,   \* pieces in which an origin record may arrive: 1 or 2
    ByteLimit,     \* MAX_PRE_KEY_EXCHANGE_CAMOUFLAGE_BYTES, in pieces
    RecordLimit,   \* MAX_PRE_KEY_EXCHANGE_CAMOUFLAGE_RECORDS
    ClientCamo,    \* camouflage records a client may send before PX1Q
    Chunks,        \* records of PX1Q, of PX1K and of the identity proof
    MaxUp, MaxDown \* bounds: units a direction carries

ASSUME SessionAssumption ==
    /\ RecordUnits \in {1, 2}
    /\ {ByteLimit, RecordLimit, ClientCamo, MaxUp, MaxDown} \subseteq Nat
    /\ Chunks \in Nat \ {0}

VARIABLES
    cli,       \* the client's task
    srv,       \* the server's task
    c2s, s2c,  \* bytes in flight on the TCP connection
    tcp,       \* "up" or "cut"
    quic,      \* [conn, close, up, dn]: the QUIC connection and its bidi
    up, dn     \* history: [sent, got] of each direction

vars == <<cli, srv, c2s, s2c, tcp, quic, up, dn>>

Plain == 2

Codec0 == [e |-> 0, n |-> 0]

(* Faulty: the sequence number survives the rekey. *)
RekeyedKeepingCount(codec) == [codec EXCEPT !.e = @ + 1]

(* rekey_with_suite: the next epoch's keys, numbered from 0 again *)
Rekeyed(codec) == [e |-> codec.e + 1, n |-> 0]
After(codec, k) == [codec EXCEPT !.n = @ + k]
Opens(codec, r) == r.e = codec.e /\ r.n = codec.n
SealAll(codec, k, m) ==
    [i \in 1..k |-> [e |-> codec.e, n |-> codec.n + i - 1, m |-> m]]
Seal(codec, m) == SealAll(codec, 1, m)
Camo(m) == [e |-> Plain, n |-> 0, m |-> m]
Fin == Camo("fin")

Init ==
    /\ cli = [pc |-> "camo", seal |-> Codec0, open |-> Codec0, camo |-> 0,
              frag |-> 0, skipped |-> 0, plane |-> "none",
              up |-> FALSE, dn |-> FALSE, end |-> "open"]
    /\ srv = [pc |-> "prepq", seal |-> Codec0, open |-> Codec0, camo |-> 0,
              frag |-> 0, fwd |-> 0, fallback |-> TRUE, spent |-> FALSE,
              offer |-> FALSE, guard |-> FALSE, have |-> FALSE,
              plane |-> "none", up |-> FALSE, dn |-> FALSE, end |-> "open"]
    /\ c2s = <<>> /\ s2c = <<>> /\ tcp = "up"
    /\ quic = [conn |-> "none", close |-> "open", up |-> <<>>, dn |-> <<>>]
    /\ up = [sent |-> 0, got |-> 0] /\ dn = [sent |-> 0, got |-> 0]

(* Bytes written to a connection that is cut, or whose reader is gone, are
   lost.  The writer may learn of it later. *)
ToServer(us) == c2s' = IF tcp = "up" /\ srv.end = "open" THEN c2s \o us ELSE c2s
ToClient(us) == s2c' = IF tcp = "up" /\ cli.end = "open" THEN s2c \o us ELSE s2c

Accepted == quic.conn \in {"accepted", "echoed"}

(* Connection::close takes effect once; what the other end has not read may
   be lost from then on. *)
CloseQuic(code) ==
    quic' = IF Accepted /\ quic.close = "open"
              THEN [quic EXCEPT !.close = code] ELSE quic

ClientEndsAs(how) ==
    /\ cli' = [cli EXCEPT !.pc = "ended", !.end = how]
    /\ s2c' = <<>>

(* Every exit of run_authenticated_data_mode drops its two guards. *)
ServerEndsAs(how) ==
    /\ srv' = [srv EXCEPT !.pc = "ended", !.end = how,
                          !.offer = FALSE, !.guard = FALSE]
    /\ c2s' = <<>>

(* Faulty: the connection is left open. *)
GuardForgotten(code) == UNCHANGED quic

GuardDropped(code) == IF srv.guard THEN CloseQuic(code) ELSE UNCHANGED quic

-----------------------------------------------------------------------------
(* The client until it has a session *)

ClientSendsCamo ==
    /\ cli.pc = "camo" /\ cli.camo < ClientCamo
    /\ cli' = [cli EXCEPT !.camo = @ + 1]
    /\ ToServer(<<Camo("camo")>>)
    /\ UNCHANGED <<srv, s2c, tcp, quic, up, dn>>

(* The length in pieces of the record at the front of s2c, 0 if it has not
   arrived whole.  A record cut short swallows the start of what follows. *)
FrontRecord == IF s2c = <<>> THEN 0
               ELSE IF Head(s2c).m # "head" THEN 1
               ELSE IF Len(s2c) >= 2 THEN 2 ELSE 0
FrontIsTorn == FrontRecord = 2 /\ s2c[2].m # "tail"

(* The camouflage handshake reads the origin's flight; nothing is counted. *)
ClientReadsCamo ==
    /\ cli.pc = "camo" /\ FrontRecord > 0
    /\ s2c' = SubSeq(s2c, FrontRecord + 1, Len(s2c))
    /\ UNCHANGED <<cli, srv, c2s, tcp, quic, up, dn>>

ClientSendsPx1q ==
    /\ cli.pc = "camo"
    /\ cli' = [cli EXCEPT !.pc = "px1k", !.seal = After(@, Chunks), !.camo = 0]
    /\ ToServer(SealAll(cli.seal, Chunks, "px1q"))
    /\ UNCHANGED <<srv, s2c, tcp, quic, up, dn>>

(* Faulty: the budget is one piece short. *)
ToleratedShort(skipped) == skipped + 1 < ByteLimit

ResidualTolerated(skipped) == skipped < ByteLimit

(* apply_server_key_exchange_after_residuals: a record that does not open is
   residual camouflage.  After a torn one the reader is inside PX1K and finds
   no record header again. *)
ClientSkipsResidual ==
    /\ cli.pc = "px1k" /\ FrontRecord > 0 /\ ~Opens(cli.open, Head(s2c))
    /\ CASE FrontIsTorn -> ClientEndsAs("desynced")
         [] ~FrontIsTorn /\ ResidualTolerated(cli.skipped) ->
              /\ cli' = [cli EXCEPT !.skipped = @ + FrontRecord]
              /\ s2c' = SubSeq(s2c, FrontRecord + 1, Len(s2c))
         [] OTHER -> ClientEndsAs("overbudget")
    /\ UNCHANGED <<srv, c2s, tcp, quic, up, dn>>

(* FramedReassembler: the rekey is applied when the last chunk is in. *)
ClientReadsPx1k ==
    /\ cli.pc = "px1k" /\ s2c # <<>> /\ Opens(cli.open, Head(s2c))
    /\ s2c' = Tail(s2c)
    /\ cli' = IF cli.frag + 1 < Chunks
                THEN [cli EXCEPT !.frag = @ + 1, !.open = After(@, 1)]
                ELSE [cli EXCEPT !.pc = "identity", !.frag = 0, !.skipped = 0,
                                 !.open = Rekeyed(@), !.seal = Rekeyed(@)]
    /\ UNCHANGED <<srv, c2s, tcp, quic, up, dn>>

(* A read of the control connection outside the residual loop: a record that
   does not open fails the session. *)
ClientReads(pc, read) ==
    /\ cli.pc = pc /\ s2c # <<>>
    /\ IF Opens(cli.open, Head(s2c))
         THEN /\ s2c' = Tail(s2c)
              /\ cli' = [read EXCEPT !.open = After(@, 1)]
         ELSE ClientEndsAs("undecryptable")

(* read_server_identity_payload and the verification of the proof *)
ClientReadsIdentity ==
    /\ ClientReads("identity",
         IF cli.frag + 1 < Chunks THEN [cli EXCEPT !.frag = @ + 1]
                                  ELSE [cli EXCEPT !.pc = "verified", !.frag = 0])
    /\ UNCHANGED <<srv, c2s, tcp, quic, up, dn>>

(* udp.enabled and the reachability breaker decide; both answers occur. *)
ClientSkipsUdp ==
    /\ cli.pc = "verified"
    /\ cli' = [cli EXCEPT !.pc = "command", !.plane = "tcp"]
    /\ UNCHANGED <<srv, c2s, s2c, tcp, quic, up, dn>>

ClientRequestsUdp ==
    /\ cli.pc = "verified"
    /\ cli' = [cli EXCEPT !.pc = "answer", !.seal = After(@, 1)]
    /\ ToServer(Seal(cli.seal, "px1g"))
    /\ UNCHANGED <<srv, s2c, tcp, quic, up, dn>>

(* An offer starts the probe, whose first packet may or may not arrive. *)
ClientReadsAnswer ==
    /\ ClientReads("answer",
         IF Head(s2c).m = "px1o" THEN [cli EXCEPT !.pc = "probe"]
                                 ELSE [cli EXCEPT !.pc = "command", !.plane = "tcp"])
    /\ quic' \in {quic, IF cli'.pc = "probe" THEN [quic EXCEPT !.conn = "dialled"]
                                             ELSE quic}
    /\ UNCHANGED <<srv, c2s, tcp, up, dn>>

(* The probe is Verified only by the server's echo.  The outcome is always
   reported, under the offer's id or, when the offer did not decode, under a
   zero id.  The client's choice of plane is made here. *)
ProbeOutcomes == {"unverified", "zeroid"}
                 \cup IF quic.conn = "echoed" THEN {"verified"} ELSE {}
PlaneFor(outcome) == IF outcome = "verified" THEN "quic" ELSE "tcp"

ClientAcks ==
    /\ cli.pc = "probe"
    /\ \E o \in ProbeOutcomes :
         /\ cli' = [cli EXCEPT !.pc = "command", !.seal = After(@, 1),
                               !.plane = PlaneFor(o)]
         /\ ToServer(Seal(cli.seal, o))
    /\ UNCHANGED <<srv, s2c, tcp, quic, up, dn>>

(* The first command; a mux client with a retained connection signals it by
   a lone cover frame. *)
Commands == {"connect", IF cli.plane = "quic" THEN "muxquic" ELSE "mux"}

ClientCommands ==
    /\ cli.pc = "command"
    /\ \E m \in Commands :
         /\ cli' = [cli EXCEPT !.pc = IF m = "connect" THEN "relay" ELSE "mux",
                               !.seal = After(@, 1)]
         /\ ToServer(Seal(cli.seal, m))
    /\ UNCHANGED <<srv, s2c, tcp, quic, up, dn>>

-----------------------------------------------------------------------------
(* The server until it dispatches the first command *)

(* The origin's bytes are forwarded as they come, up to the byte limit. *)
OriginPiece == CASE RecordUnits = 1 -> "whole"
                 [] RecordUnits = 2 /\ srv.fwd % 2 = 0 -> "head"
                 [] OTHER -> "tail"
MayForward == srv.fwd < ByteLimit

ServerForwardsOrigin ==
    /\ srv.pc = "prepq" /\ srv.fallback /\ MayForward
    /\ srv' = [srv EXCEPT !.fwd = @ + 1]
    /\ ToClient(<<Camo(OriginPiece)>>)
    /\ UNCHANGED <<cli, c2s, tcp, quic, up, dn>>

OriginCloses ==
    /\ srv.pc = "prepq" /\ srv.fallback
    /\ srv' = [srv EXCEPT !.fallback = FALSE]
    /\ UNCHANGED <<cli, c2s, s2c, tcp, quic, up, dn>>

(* A client record that does not open is forwarded to the origin, if that is
   still there, and counted; past the cap the server closes. *)
ServerReadsCamo ==
    /\ srv.pc = "prepq" /\ c2s # <<>> /\ ~Opens(srv.open, Head(c2s))
    /\ IF srv.camo + 1 > RecordLimit
         THEN ServerEndsAs("gone")
         ELSE srv' = [srv EXCEPT !.camo = @ + 1] /\ c2s' = Tail(c2s)
    /\ UNCHANGED <<cli, s2c, tcp, quic, up, dn>>

ServerReadsPx1q ==
    /\ srv.pc = "prepq" /\ c2s # <<>> /\ Opens(srv.open, Head(c2s))
    /\ c2s' = Tail(c2s)
    /\ srv' = IF srv.frag + 1 < Chunks
                THEN [srv EXCEPT !.frag = @ + 1, !.open = After(@, 1)]
                ELSE [srv EXCEPT !.pc = "commit", !.frag = 0,
                                 !.open = After(@, 1)]
    /\ UNCHANGED <<cli, s2c, tcp, quic, up, dn>>

(* commit_pending_replay_entry: any other answer than Inserted, and no cache,
   closes the connection before a key exchange is sent. *)
ServerCommits ==
    /\ srv.pc = "commit"
    /\ srv' = [srv EXCEPT !.pc = "keyx", !.spent = TRUE]
    /\ UNCHANGED <<cli, c2s, s2c, tcp, quic, up, dn>>

(* PX1K goes out under epoch 0, then both codecs are rekeyed. *)
ServerSendsPx1k ==
    /\ srv.pc = "keyx"
    /\ srv' = [srv EXCEPT !.pc = "identity", !.seal = Rekeyed(@),
                          !.open = Rekeyed(@), !.camo = 0, !.fwd = 0,
                          !.fallback = FALSE]
    /\ ToClient(SealAll(srv.seal, Chunks, "px1k"))
    /\ UNCHANGED <<cli, c2s, tcp, quic, up, dn>>

(* write_server_identity_chunks: one write per chunk, with pauses between. *)
ServerSendsIdentity ==
    /\ srv.pc = "identity"
    /\ srv' = IF srv.frag + 1 < Chunks
                THEN [srv EXCEPT !.frag = @ + 1, !.seal = After(@, 1)]
                ELSE [srv EXCEPT !.pc = "first", !.frag = 0, !.seal = After(@, 1)]
    /\ ToClient(Seal(srv.seal, "identity"))
    /\ UNCHANGED <<cli, c2s, tcp, quic, up, dn>>

(* A control record from the client; one that does not open ends the task. *)
ServerReads(pcs, msgs, Do) ==
    /\ srv.pc \in pcs /\ c2s # <<>> /\ Head(c2s).m \in msgs
    /\ IF Opens(srv.open, Head(c2s)) THEN Do
         ELSE /\ ServerEndsAs("undecryptable") /\ GuardDropped("zero")
              /\ UNCHANGED s2c

(* udp.enabled and a bound carrier decide between an offer and a refusal. *)
ServerAnswersUdp ==
    /\ \E m \in {"px1o", "px1n"} : ServerReads({"first"}, {"px1g"},
         /\ srv' = [srv EXCEPT !.pc = IF m = "px1o" THEN "handoff" ELSE "command",
                               !.offer = (m = "px1o"),
                               !.open = After(@, 1), !.seal = After(@, 1)]
         /\ c2s' = Tail(c2s)
         /\ ToClient(Seal(srv.seal, m))
         /\ UNCHANGED quic)
    /\ UNCHANGED <<cli, tcp, up, dn>>

(* The carrier hands the marked connection over and forgets the offer. *)
ServerTakesConn ==
    /\ srv.pc = "handoff" /\ quic.conn = "dialled"
    /\ srv' = [srv EXCEPT !.pc = "serve", !.offer = FALSE, !.guard = TRUE]
    /\ quic' = [quic EXCEPT !.conn = "accepted"]
    /\ UNCHANGED <<cli, c2s, s2c, tcp, up, dn>>

ProbeDeadline ==
    /\ srv.pc = "handoff"
    /\ srv' = [srv EXCEPT !.pc = "ack", !.offer = FALSE]
    /\ UNCHANGED <<cli, c2s, s2c, tcp, quic, up, dn>>

ServerEchoes ==
    /\ srv.pc = "serve" /\ quic.conn = "accepted"
    /\ quic' = [quic EXCEPT !.conn = "echoed"]
    /\ UNCHANGED <<cli, srv, c2s, s2c, tcp, up, dn>>

(* serve_probed_quic_on_conn: a malformed probe is only logged; a late or
   failed negotiation, or another source address, closes the connection. *)
ServerKeepsConn ==
    /\ srv.pc = "serve"
    /\ srv' = [srv EXCEPT !.pc = "ack", !.have = TRUE]
    /\ UNCHANGED <<cli, c2s, s2c, tcp, quic, up, dn>>

ServerLosesConn ==
    /\ srv.pc = "serve"
    /\ srv' = [srv EXCEPT !.pc = "ack", !.guard = FALSE]
    /\ CloseQuic("zero")
    /\ UNCHANGED <<cli, c2s, s2c, tcp, up, dn>>

(* udp_retention_decision on the reported status *)
Retain(m, have) == m = "verified" /\ have

(* Faulty: a lost connection that the client verified is not fatal. *)
NeverHardFail(m, have) == FALSE

HardFail(m, have) == m = "verified" /\ ~have

ServerReadsAck ==
    /\ \E m \in {"verified", "unverified", "zeroid"} : ServerReads({"ack"}, {m},
         /\ CASE Retain(m, srv.have) ->
                   /\ srv' = [srv EXCEPT !.pc = "command", !.open = After(@, 1)]
                   /\ c2s' = Tail(c2s)
                   /\ UNCHANGED quic
              [] HardFail(m, srv.have) ->
                   ServerEndsAs("gone") /\ GuardDropped("zero")
              [] OTHER ->
                   /\ srv' = [srv EXCEPT !.pc = "command", !.open = After(@, 1),
                                         !.have = FALSE, !.guard = FALSE]
                   /\ c2s' = Tail(c2s)
                   /\ IF srv.have THEN CloseQuic("zero") ELSE UNCHANGED quic
         /\ UNCHANGED s2c)
    /\ UNCHANGED <<cli, tcp, up, dn>>

(* Dispatch: a retained connection carries the relay, or the mux if the client
   signals it; a plain mux drops it. *)
ServerPlane(m) == IF srv.have /\ m # "mux" THEN "quic" ELSE "tcp"

ServerDispatches ==
    /\ \E m \in {"connect", "mux", "muxquic"} : ServerReads({"first", "command"}, {m},
         /\ srv' = [srv EXCEPT !.pc = IF m = "connect" THEN "relay" ELSE "mux",
                               !.open = After(@, 1), !.plane = ServerPlane(m)]
         /\ c2s' = Tail(c2s)
         /\ IF m = "mux" /\ srv.have THEN CloseQuic("zero") ELSE UNCHANGED quic
         /\ UNCHANGED s2c)
    /\ UNCHANGED <<cli, tcp, up, dn>>

-----------------------------------------------------------------------------
(* The relay.  On the TCP plane the records and the end of the stream travel
   on the control connection, on the QUIC plane on the bidi. *)

PutUp(us) == IF cli.plane = "quic"
    THEN /\ quic' = IF quic.close = "open" THEN [quic EXCEPT !.up = @ \o us] ELSE quic
         /\ UNCHANGED c2s
    ELSE ToServer(us) /\ UNCHANGED quic
PutDown(us) == IF srv.plane = "quic"
    THEN /\ quic' = IF quic.close = "open" THEN [quic EXCEPT !.dn = @ \o us] ELSE quic
         /\ UNCHANGED s2c
    ELSE ToClient(us) /\ UNCHANGED quic

UpLeg == IF srv.plane = "quic" THEN quic.up ELSE c2s
DownLeg == IF cli.plane = "quic" THEN quic.dn ELSE s2c
TakeUp == IF srv.plane = "quic"
    THEN quic' = [quic EXCEPT !.up = Tail(@)] /\ UNCHANGED c2s
    ELSE c2s' = Tail(c2s) /\ UNCHANGED quic
TakeDown == IF cli.plane = "quic"
    THEN quic' = [quic EXCEPT !.dn = Tail(@)] /\ UNCHANGED s2c
    ELSE s2c' = Tail(s2c) /\ UNCHANGED quic

(* client_upload_loop: a read of the local application, or its end *)
ClientUploads ==
    /\ cli.pc = "relay" /\ ~cli.up /\ up.sent < MaxUp
    /\ PutUp(Seal(cli.seal, "data"))
    /\ cli' = [cli EXCEPT !.seal = After(@, 1)]
    /\ up' = [up EXCEPT !.sent = @ + 1]
    /\ UNCHANGED <<srv, s2c, tcp, dn>>

ClientUploadEnds ==
    /\ cli.pc = "relay" /\ ~cli.up
    /\ PutUp(<<Fin>>)
    /\ cli' = [cli EXCEPT !.up = TRUE]
    /\ UNCHANGED <<srv, s2c, tcp, up, dn>>

(* server_download_loop: a read of the target, or its end *)
ServerDownloads ==
    /\ srv.pc = "relay" /\ ~srv.dn /\ dn.sent < MaxDown
    /\ PutDown(Seal(srv.seal, "data"))
    /\ srv' = [srv EXCEPT !.seal = After(@, 1)]
    /\ dn' = [dn EXCEPT !.sent = @ + 1]
    /\ UNCHANGED <<cli, c2s, tcp, up>>

ServerDownloadEnds ==
    /\ srv.pc = "relay" /\ ~srv.dn
    /\ PutDown(<<Fin>>)
    /\ srv' = [srv EXCEPT !.dn = TRUE]
    /\ UNCHANGED <<cli, c2s, tcp, up, dn>>

(* server_upload_loop and client_download_loop: a record, the end of the
   stream, or a record that does not open *)
ServerUploads ==
    /\ srv.pc = "relay" /\ ~srv.up /\ UpLeg # <<>>
    /\ CASE Head(UpLeg) = Fin -> /\ srv' = [srv EXCEPT !.up = TRUE]
                                 /\ TakeUp /\ UNCHANGED up
         [] Opens(srv.open, Head(UpLeg)) ->
              /\ srv' = [srv EXCEPT !.open = After(@, 1)]
              /\ up' = [up EXCEPT !.got = @ + 1]
              /\ TakeUp
         [] OTHER -> /\ ServerEndsAs("undecryptable") /\ GuardDropped("zero")
                     /\ UNCHANGED up
    /\ UNCHANGED <<cli, s2c, tcp, dn>>

ClientDownloads ==
    /\ cli.pc = "relay" /\ ~cli.dn /\ DownLeg # <<>>
    /\ CASE Head(DownLeg) = Fin -> /\ cli' = [cli EXCEPT !.dn = TRUE]
                                   /\ TakeDown /\ UNCHANGED dn
         [] Opens(cli.open, Head(DownLeg)) ->
              /\ cli' = [cli EXCEPT !.open = After(@, 1)]
              /\ dn' = [dn EXCEPT !.got = @ + 1]
              /\ TakeDown
         [] OTHER -> /\ ClientEndsAs("undecryptable") /\ CloseQuic("zero")
                     /\ UNCHANGED dn
    /\ UNCHANGED <<srv, c2s, tcp, up>>

(* TCP: the socket of a peer that gave up reads as a clean close. *)
ServerReadsEof ==
    /\ srv.pc = "relay" /\ ~srv.up /\ srv.plane = "tcp"
    /\ c2s = <<>> /\ cli.end # "open"
    /\ srv' = [srv EXCEPT !.up = TRUE]
    /\ UNCHANGED <<cli, c2s, s2c, tcp, quic, up, dn>>

ClientReadsEof ==
    /\ cli.pc = "relay" /\ ~cli.dn /\ cli.plane = "tcp"
    /\ s2c = <<>> /\ srv.end # "open"
    /\ cli' = [cli EXCEPT !.dn = TRUE]
    /\ UNCHANGED <<srv, c2s, s2c, tcp, quic, up, dn>>

-----------------------------------------------------------------------------
(* The end: try_join, the DONE exchange of a QUIC relay, and every failure *)

Joined(side) == side.pc = "relay" /\ side.up /\ side.dn

ClientDoneOnTcp ==
    /\ Joined(cli) /\ cli.plane = "tcp"
    /\ ClientEndsAs("done")
    /\ UNCHANGED <<srv, c2s, tcp, quic, up, dn>>

ServerDoneOnTcp ==
    /\ Joined(srv) /\ srv.plane = "tcp"
    /\ ServerEndsAs("done") /\ GuardDropped("zero")
    /\ UNCHANGED <<cli, s2c, tcp, up, dn>>

(* client_exchange_quic_done and server_exchange_quic_done: DONE takes the
   next number of the data codec but travels on the control connection. *)
ClientSendsDone ==
    /\ Joined(cli) /\ cli.plane = "quic"
    /\ cli' = [cli EXCEPT !.pc = "done", !.seal = After(@, 1)]
    /\ ToServer(Seal(cli.seal, "done"))
    /\ UNCHANGED <<srv, s2c, tcp, quic, up, dn>>

ServerSendsDone ==
    /\ Joined(srv) /\ srv.plane = "quic"
    /\ srv' = [srv EXCEPT !.pc = "done", !.seal = After(@, 1)]
    /\ ToClient(Seal(srv.seal, "done"))
    /\ UNCHANGED <<cli, c2s, tcp, quic, up, dn>>

(* The close of the QUIC connection overtakes DONE: one more, short, read. *)
ClientSeesClose ==
    /\ cli.pc = "done" /\ quic.close # "open"
    /\ cli' = [cli EXCEPT !.pc = "grace"]
    /\ UNCHANGED <<srv, c2s, s2c, tcp, quic, up, dn>>

ServerSeesClose ==
    /\ srv.pc = "done" /\ quic.close # "open"
    /\ srv' = [srv EXCEPT !.pc = "grace"]
    /\ UNCHANGED <<cli, c2s, s2c, tcp, quic, up, dn>>

DoneVerdict(codec, r) == IF Opens(codec, r) THEN "done" ELSE "undecryptable"

ClientReadsDone ==
    /\ cli.pc \in {"done", "grace"} /\ s2c # <<>>
    /\ ClientEndsAs(DoneVerdict(cli.open, Head(s2c))) /\ CloseQuic("zero")
    /\ UNCHANGED <<srv, c2s, tcp, up, dn>>

ServerReadsDone ==
    /\ srv.pc \in {"done", "grace"} /\ c2s # <<>>
    /\ ServerEndsAs(DoneVerdict(srv.open, Head(c2s))) /\ CloseQuic("zero")
    /\ UNCHANGED <<cli, s2c, tcp, up, dn>>

(* server_download_loop: a read of the target that fails still finishes the
   stream, and then the connection is closed.  The client may see the finish
   first; only the missing DONE tells it from a complete download. *)
ServerDownloadFails ==
    /\ srv.pc = "relay" /\ ~srv.dn
    /\ ServerEndsAs("gone")
    /\ IF srv.plane = "quic"
         THEN /\ quic' = [quic EXCEPT !.dn = IF quic.close = "open"
                                               THEN @ \o <<Fin>> ELSE @,
                                      !.close = IF @ = "open" THEN "zero" ELSE @]
              /\ UNCHANGED s2c
         ELSE ToClient(<<Fin>>) /\ UNCHANGED quic
    /\ UNCHANGED <<cli, tcp, up, dn>>

(* relay_idle_watchdog: Ok without DONE; the peer tells the code apart. *)
ClientIdles ==
    /\ cli.pc = "relay"
    /\ ClientEndsAs("idle")
    /\ IF cli.plane = "quic" THEN CloseQuic("idle") ELSE UNCHANGED quic
    /\ UNCHANGED <<srv, c2s, tcp, up, dn>>

ServerIdles ==
    /\ srv.pc = "relay"
    /\ ServerEndsAs("idle") /\ GuardDropped("idle")
    /\ UNCHANGED <<cli, s2c, tcp, up, dn>>

(* A leg of the QUIC relay fails because the connection is closed. *)
CloseVerdict == IF quic.close = "idle" THEN "idle" ELSE "gone"

ClientLosesLeg ==
    /\ cli.pc = "relay" /\ cli.plane = "quic" /\ quic.close # "open"
    /\ ClientEndsAs(CloseVerdict)
    /\ UNCHANGED <<srv, c2s, tcp, quic, up, dn>>

ServerLosesLeg ==
    /\ srv.pc = "relay" /\ srv.plane = "quic" /\ quic.close # "open"
    /\ ServerEndsAs(CloseVerdict)
    /\ UNCHANGED <<cli, s2c, tcp, quic, up, dn>>

(* Every other exit: a deadline or backstop, an error of the control
   connection, of the local socket or of the target, a refused replay entry. *)
ClientFails ==
    /\ cli.pc \notin {"ended", "mux"}
    /\ ClientEndsAs("gone")
    /\ IF cli.pc \in {"relay", "done", "grace"} /\ cli.plane = "quic"
         THEN CloseQuic("zero") ELSE UNCHANGED quic
    /\ UNCHANGED <<srv, c2s, tcp, up, dn>>

ServerFails ==
    /\ srv.pc \notin {"ended", "mux"}
    /\ ServerEndsAs("gone") /\ GuardDropped("zero")
    /\ UNCHANGED <<cli, s2c, tcp, up, dn>>

-----------------------------------------------------------------------------
(* The network *)

TcpCut == /\ tcp = "up" /\ tcp' = "cut"
          /\ UNCHANGED <<cli, srv, c2s, s2c, quic, up, dn>>

QuicLost == /\ Accepted /\ quic.close = "open"
            /\ quic' = [quic EXCEPT !.close = "lost"]
            /\ UNCHANGED <<cli, srv, c2s, s2c, tcp, up, dn>>

ClientStep ==
    \/ ClientSendsCamo \/ ClientReadsCamo \/ ClientSendsPx1q
    \/ ClientSkipsResidual \/ ClientReadsPx1k \/ ClientReadsIdentity
    \/ ClientSkipsUdp \/ ClientRequestsUdp \/ ClientReadsAnswer \/ ClientAcks
    \/ ClientCommands \/ ClientUploads \/ ClientUploadEnds \/ ClientDownloads
    \/ ClientReadsEof \/ ClientDoneOnTcp \/ ClientSendsDone \/ ClientSeesClose
    \/ ClientReadsDone \/ ClientIdles \/ ClientLosesLeg \/ ClientFails

ServerStep ==
    \/ ServerForwardsOrigin \/ OriginCloses \/ ServerReadsCamo
    \/ ServerReadsPx1q \/ ServerCommits \/ ServerSendsPx1k
    \/ ServerSendsIdentity \/ ServerAnswersUdp
    \/ ServerTakesConn \/ ProbeDeadline \/ ServerEchoes \/ ServerKeepsConn
    \/ ServerLosesConn \/ ServerReadsAck \/ ServerDispatches
    \/ ServerDownloads \/ ServerDownloadEnds \/ ServerUploads
    \/ ServerReadsEof \/ ServerDoneOnTcp \/ ServerSendsDone
    \/ ServerSeesClose \/ ServerReadsDone \/ ServerIdles \/ ServerLosesLeg
    \/ ServerDownloadFails \/ ServerFails

Next == ClientStep \/ ServerStep \/ TcpCut \/ QuicLost

Spec == Init /\ [][Next]_vars

-----------------------------------------------------------------------------
(* Properties *)

(* Two honest ends never meet a record they cannot open after the key
   exchange: whatever is negotiated, and on whichever plane a record travels,
   the sequence numbers of the sealing and the opening codec stay in step.
   This is what "the sequence numbers continue uninterrupted" claims of DONE
   (server.rs, server_exchange_quic_done). *)
SequenceAligned == "undecryptable" \notin {cli.end, srv.end}

(* However the server's task leaves the session, its offer is unregistered,
   and a QUIC connection it accepted is open only while the task can still
   use it (OfferRegistrationGuard, SessionQuicCloseGuard, drop_retained_quic). *)
ServerReleases ==
    /\ srv.offer => srv.pc = "handoff"
    /\ Accepted /\ quic.close = "open" =>
          srv.pc = "serve" \/ (srv.have /\ srv.end = "open")

(* The client gives up on the key exchange for camouflage that the server may
   lawfully have forwarded before it: never.  (client/runtime.rs,
   apply_server_key_exchange_after_residuals.) *)
ResidualsTolerated == cli.end \notin {"desynced", "overbudget"}
=============================================================================
