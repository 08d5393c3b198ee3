--------------------------- MODULE SessionInvariant ---------------------------
(***************************************************************************)
(* The invariant of the session protocol: how the records in flight on a   *)
(* connection relate to the codecs of the two ends.                        *)
(*                                                                         *)
(* A connection carries camouflage, then sealed records with consecutive   *)
(* numbers, then perhaps the end of the stream. Between what the reader    *)
(* opens next and what the writer seals next nothing is missing while the  *)
(* link is up and the reader is there (Flow). The invariant states it of   *)
(* the control connection and of the bidi, in both directions, with what   *)
(* each task knows of itself and of its peer.                              *)
(***************************************************************************)
EXTENDS Session

-----------------------------------------------------------------------------
(* Records in flight *)

\* What a record can say.
Msg == {"camo", "whole", "head", "tail", "px1q", "px1k", "identity", "px1g", "px1o",
        "px1n", "verified", "unverified", "zeroid", "connect", "mux", "muxquic", "data",
        "done", "fin"}

\* The records of Session, with their types.
Rec == [e : {0, 1, Plain}, n : Nat, m : Msg]

\* The place of a sealed record, or of the next record of a codec, in the
\* order in which one end seals: the Chunks records of epoch 0 come first.
Idx(r) == IF r.e = 0 THEN r.n ELSE Chunks + r.n

\* What ends a stream: the end of a TCP stream or of a bidi, and DONE.
\* Neither takes a place in the order of the connection it travels on.
Last == {"fin", "done"}

\* The first a records of q are camouflage, the next ones up to z are sealed
\* and consecutive from place lo, and at most one record that ends the
\* stream follows.
Chain(q, a, z, lo) ==
  /\ a \in 0..z /\ z \in 0..Len(q) /\ Len(q) <= z + 1
  /\ \A i \in 1..a : q[i].e = Plain /\ q[i].m \notin Last
  /\ \A i \in (a + 1)..z : /\ q[i].e # Plain /\ q[i].m \notin Last
                           /\ Idx(q[i]) + a + 1 = lo + i
  /\ z < Len(q) => q[Len(q)].m \in Last /\ (q[Len(q)].e = Plain => q[Len(q)].m = "fin")

\* The records in flight.
In(q) == {q[i] : i \in 1..Len(q)}

\* No camouflage is in flight.
NoCamo(q) == \A r \in In(q) : r.e = Plain => r.m = "fin"

\* Nothing in flight ends the stream.
Open(q) == \A r \in In(q) : r.m \notin Last

\* What is in flight when nothing was lost: all of the records from lo, the
\* next the reader opens, to hi, the next the writer seals.
Whole(q, lo, hi) ==
  /\ q \in Seq(Rec)
  /\ lo > 0 => NoCamo(q)
  /\ \E a, z \in Nat : Chain(q, a, z, lo) /\ lo + z = hi + a

\* What may be in flight when writes were dropped on a dead connection: the
\* records from lo up to some place not past hi.
Partial(q, lo, hi) ==
  /\ q \in Seq(Rec)
  /\ lo > 0 => NoCamo(q)
  /\ \E a, z \in Nat : Chain(q, a, z, lo) /\ lo + z <= hi + a /\ (z < Len(q) => lo + z = hi + a)

\* Records sealed one after the other from place k (DataRecordCodec::seal).
SealedFrom(us, k) ==
  /\ us \in Seq(Rec)
  /\ \A i \in 1..Len(us) : us[i].e # Plain /\ us[i].m \notin Last /\ Idx(us[i]) + 1 = k + i

-----------------------------------------------------------------------------
(* Codecs *)

\* An end of a DataRecordCodec: the epoch of its key and its sequence
\* number.
IsCodec(codec) == /\ DOMAIN codec = {"e", "n"}
                  /\ codec.e \in {0, 1} /\ codec.n \in Nat

-----------------------------------------------------------------------------
(* Connections *)

\* What is in flight between a writer and a reader: everything while the
\* link is up and the reader is there, a prefix of it afterwards.
Flow(q, lo, hi, link, reader) ==
  IF link = "up" /\ reader = "open" THEN Whole(q, lo, hi) ELSE Partial(q, lo, hi)

\* A connection after a write: a dead link or an absent reader drops it.
Sent(q, us, link, reader) == IF link = "up" /\ reader = "open" THEN q \o us ELSE q

-----------------------------------------------------------------------------
(* The invariant: the two tasks *)

\* The fields of the state and their types, as far as the argument needs
\* them.
Shape ==
  /\ DOMAIN cli = {"pc", "seal", "open", "camo", "frag", "skipped", "plane",
                   "up", "dn", "end"}
  /\ DOMAIN srv = {"pc", "seal", "open", "camo", "frag", "fwd", "fallback", "spent",
                   "offer", "guard", "have", "plane", "up", "dn", "end"}
  /\ DOMAIN quic = {"conn", "close", "up", "dn"}
  /\ DOMAIN up = {"sent", "got"} /\ DOMAIN dn = {"sent", "got"}
  /\ IsCodec(cli.seal) /\ IsCodec(cli.open) /\ IsCodec(srv.seal) /\ IsCodec(srv.open)
  /\ cli.frag \in Nat /\ cli.skipped \in Nat /\ srv.frag \in Nat /\ srv.fwd \in Nat
  /\ up.sent \in Nat /\ up.got \in Nat /\ dn.sent \in Nat /\ dn.got \in Nat
  /\ cli.plane \in {"none", "tcp", "quic"} /\ srv.plane \in {"none", "tcp", "quic"}
  /\ cli.up \in BOOLEAN /\ cli.dn \in BOOLEAN /\ srv.up \in BOOLEAN /\ srv.dn \in BOOLEAN

\* Where the client's task stands (pc) determines its codecs, its counters
\* and whether it has chosen a plane.
ClientAt ==
  /\ cli.end = "open" <=> cli.pc # "ended"
  /\ cli.open.e = cli.seal.e
  /\ cli.pc \in {"camo", "px1k"} => cli.seal.e = 0
  /\ cli.pc \notin {"camo", "px1k", "ended"} => cli.seal.e = 1
  /\ cli.seal.e = 0 => cli.open.n < Chunks /\ cli.seal.n <= Chunks
  /\ cli.pc = "camo" => cli.seal.n = 0 /\ cli.open.n = 0 /\ cli.frag = 0
  /\ cli.pc = "px1k" => cli.seal.n = Chunks /\ cli.open.n = cli.frag
  /\ cli.pc = "identity" => cli.seal.n = 0 /\ cli.open.n = cli.frag /\ cli.frag < Chunks
  /\ cli.pc = "verified" => cli.seal.n = 0 /\ cli.open.n = Chunks
  /\ cli.pc = "answer" => cli.seal.n = 1 /\ cli.open.n = Chunks
  /\ cli.pc = "probe" => cli.seal.n = 1 /\ cli.open.n = Chunks + 1
  /\ cli.pc \in {"camo", "px1k", "identity", "verified", "answer", "probe"} =>
       cli.plane = "none"
  /\ cli.pc \in {"command", "relay", "mux", "done", "grace"} => cli.plane # "none"
  /\ cli.plane # "none" => cli.seal.e = 1
  /\ cli.plane = "tcp" => cli.open.n >= Chunks
  /\ cli.plane = "none" => (cli.seal.e = 1 => cli.seal.n <= 1)
  /\ cli.plane = "none" \/ cli.pc = "command" =>
       up.sent = 0 /\ dn.got = 0 /\ ~cli.up /\ ~cli.dn
  /\ cli.pc \in {"done", "grace"} => cli.plane = "quic" /\ cli.up /\ cli.dn
  /\ cli.plane = "quic" =>
       /\ cli.seal.n >= 2
       /\ cli.pc = "command" => cli.seal.n = 2
       /\ cli.pc = "relay" => cli.seal.n = 3 + up.sent
       /\ cli.pc \in {"command", "relay", "done", "grace"} => cli.open.n = Chunks + 1 + dn.got

\* The same for the server's task. The handshake is spent before the server
\* has any key of epoch 1, and a retained connection goes with the QUIC
\* plane.
ServerAt ==
  /\ srv.end = "open" <=> srv.pc # "ended"
  /\ srv.open.e = srv.seal.e
  /\ srv.pc \in {"prepq", "commit", "keyx"} => srv.seal.e = 0
  /\ srv.pc \notin {"prepq", "commit", "keyx", "ended"} => srv.seal.e = 1
  /\ srv.seal.e = 0 => srv.seal.n = 0 /\ srv.open.n <= Chunks /\ srv.plane = "none"
  /\ srv.seal.e = 1 => srv.spent
  /\ srv.pc \in {"prepq", "commit"} => ~srv.spent
  /\ srv.pc = "keyx" => srv.spent
  /\ srv.pc = "prepq" => srv.open.n = srv.frag /\ srv.frag < Chunks
  /\ srv.pc \in {"commit", "keyx"} => srv.open.n = Chunks /\ srv.frag = 0
  /\ srv.pc = "identity" => srv.open.n = 0 /\ srv.seal.n = srv.frag /\ srv.frag < Chunks
  /\ srv.pc = "first" => srv.open.n = 0 /\ srv.seal.n = Chunks
  /\ srv.pc \in {"handoff", "serve", "ack"} => srv.open.n = 1 /\ srv.seal.n = Chunks + 1
  /\ srv.pc = "command" => srv.open.n \in {1, 2} /\ srv.seal.n = Chunks + 1
  /\ srv.pc = "command" /\ srv.have => srv.open.n = 2
  /\ srv.have => srv.pc \in {"ack", "command", "relay", "mux", "done", "grace", "ended"}
  /\ srv.pc \in {"relay", "mux", "done", "grace"} => srv.plane # "none"
  /\ srv.plane # "none" => srv.pc \in {"relay", "mux", "done", "grace", "ended"}
  /\ srv.plane = "none" =>
       /\ up.got = 0 /\ dn.sent = 0 /\ ~srv.up /\ ~srv.dn
       /\ srv.seal.e = 1 => srv.seal.n <= Chunks + 1
       /\ srv.seal.e = 1 /\ srv.open.n = 0 => srv.seal.n <= Chunks
  /\ srv.pc \in {"done", "grace"} => srv.plane = "quic" /\ srv.up /\ srv.dn
  /\ srv.plane = "quic" =>
       /\ srv.pc = "relay" => srv.seal.n = Chunks + 1 + dn.sent
       /\ srv.pc \in {"relay", "done", "grace"} => srv.open.n = 3 + up.got
  /\ srv.plane = "quic" /\ srv.pc \in {"relay", "mux", "done", "grace"} => srv.have
  /\ srv.plane = "tcp" => ~srv.have

-----------------------------------------------------------------------------
(* The invariant: the records in flight *)

\* The places on the control connection. On the QUIC plane the data records
\* travel on the bidi, so the control connection stays where the first
\* command left it.
ClientSealed == IF cli.plane = "quic" /\ cli.seal.n >= 3 THEN Chunks + 3 ELSE Idx(cli.seal)
ServerOpened == IF srv.plane = "quic" THEN Chunks + 3 ELSE Idx(srv.open)
ServerSealed == IF srv.plane = "quic" THEN Chunks + Chunks + 1 ELSE Idx(srv.seal)
ClientOpened == IF cli.plane = "quic" THEN Chunks + Chunks + 1 ELSE Idx(cli.open)

\* What the client wrote on the control connection and the server has not
\* read.
UpOrder ==
  /\ Flow(c2s, ServerOpened, ClientSealed, tcp, srv.end)
  /\ srv.end # "open" => c2s = <<>>

\* What a record in flight to the server says about the client that sealed
\* it.
UpRec(r) ==
  /\ r.e = 0 => r.n < Chunks
  /\ r.m = "fin" => r = Fin /\ cli.plane = "tcp" /\ cli.up
  /\ r.m = "done" => /\ r.e = 1 /\ r.n = 3 + up.sent
                     /\ cli.plane = "quic" /\ cli.up /\ cli.dn
                     /\ cli.pc \in {"done", "grace", "ended"}
  /\ r.m = "px1g" => /\ r.e = 1 /\ r.n = 0 /\ cli.plane = "none"
                     /\ cli.pc \in {"answer", "ended"}
  /\ r.m \in {"verified", "muxquic"} => cli.plane = "quic"
  /\ r.m \in {"unverified", "zeroid", "mux"} => cli.plane = "tcp"
  /\ r.m \in {"connect", "mux", "muxquic"} => cli.plane # "none" /\ cli.pc # "command"
  /\ r.m \in {"connect", "mux"} /\ cli.plane = "tcp" =>
       r.e = 1 /\ cli.seal.n = r.n + 1 + up.sent

\* Every record in flight to the server says what is so.
UpSays == \A r \in In(c2s) : UpRec(r)

\* What the server wrote on the control connection and the client has not
\* read.
DownOrder ==
  /\ Flow(s2c, ClientOpened, ServerSealed, tcp, cli.end)
  /\ cli.end # "open" => s2c = <<>>

\* The server will not serve QUIC: it made no offer, or it dropped the
\* connection.
Unoffered == srv.end = "open" /\ ~srv.have /\ srv.pc \notin {"handoff", "serve", "ack"}

\* What a record in flight to the client says about the server that sealed
\* it.
DownRec(r) ==
  /\ r.e = 0 => r.n < Chunks
  /\ r.e # Plain => r.m \notin {"head", "tail", "whole"}
  /\ r.m = "fin" => r = Fin /\ srv.plane = "tcp" /\ (srv.dn \/ srv.end # "open")
  /\ r.m = "done" => /\ r.e = 1 /\ r.n = Chunks + 1 + dn.sent
                     /\ srv.plane = "quic" /\ srv.up /\ srv.dn
                     /\ srv.pc \in {"done", "grace", "ended"}
  /\ r.m = "px1o" => cli.pc = "answer" /\ ~Unoffered

\* Every record in flight to the client says what is so.
DownSays == \A r \in In(s2c) : DownRec(r)

\* A bidi carries data only when its writer chose the QUIC plane.
Leg(plane) == IF plane = "quic" THEN "up" ELSE "none"

\* The client's half of the bidi: the data it sent and the server has not
\* read.
BidiUp ==
  /\ Flow(quic.up, Chunks + 3 + up.got, Chunks + 3 + up.sent,
          Leg(cli.plane), quic.close)
  /\ cli.plane # "quic" => quic.up = <<>>
  /\ \A r \in In(quic.up) : r.e # 0 /\ r.m # "done" /\ (r.m = "fin" => r = Fin /\ cli.up)

\* The server's half of the bidi.
BidiDown ==
  /\ Flow(quic.dn, Chunks + Chunks + 1 + dn.got, Chunks + Chunks + 1 + dn.sent,
          Leg(srv.plane), quic.close)
  /\ srv.plane # "quic" => quic.dn = <<>>
  /\ \A r \in In(quic.dn) : /\ r.e # 0 /\ r.m # "done"
                            /\ r.m = "fin" => r = Fin /\ (srv.dn \/ srv.end # "open")

-----------------------------------------------------------------------------
(* The invariant: what the ends know of each other *)

\* The ends agree on the plane: the server relays on the one the client
\* chose, and a client on the QUIC plane has a server that retained the
\* connection.
Agreed ==
  /\ srv.plane # "none" => srv.plane = cli.plane /\ cli.pc # "command"
  /\ srv.have /\ srv.pc \in {"command", "relay", "mux", "done", "grace"} => cli.plane = "quic"
  /\ Unoffered => cli.plane # "quic" /\ cli.pc # "probe"

\* On the TCP plane the sequence numbers of the codecs differ by the data in
\* flight.
Counted ==
  /\ srv.plane = "tcp" => cli.seal.n + up.got = srv.open.n + up.sent
  /\ cli.plane = "tcp" => srv.seal.e = 1 /\ srv.seal.n + dn.got = cli.open.n + dn.sent

\* What an end that has seen the end of its incoming direction knows:
\* everything was delivered, unless on the TCP plane its peer has gone.
Heard ==
  /\ srv.up /\ srv.plane = "quic" => cli.up /\ up.got = up.sent
  /\ cli.dn /\ cli.plane = "quic" => dn.got = dn.sent /\ (srv.dn \/ srv.end # "open")
  /\ srv.up /\ srv.plane = "tcp" => (cli.up /\ up.got = up.sent) \/ cli.end # "open"
  /\ cli.dn /\ cli.plane = "tcp" => (srv.dn /\ dn.got = dn.sent) \/ srv.end # "open"

\* The camouflage in flight to the client is within its budget, counting
\* what it has already skipped, and comes in pieces only if the origin's
\* records do.
Tolerable(q, skipped) ==
  /\ srv.pc = "prepq" => skipped + Len(q) <= srv.fwd /\ srv.fwd <= ByteLimit
  /\ \A i \in 1..Len(q) : q[i].e = Plain /\ q[i].m # "fin" => skipped + i <= ByteLimit
  /\ RecordUnits = 1 => \A r \in In(q) : r.m # "head"

\* The camouflage between the server and a client that waits for the key
\* exchange.
Residual == Tolerable(s2c, cli.skipped)

\* The server's offer and its accepted connection have an owner that will
\* release them (OfferRegistrationGuard, SessionQuicCloseGuard).
Guarded ==
  /\ srv.offer => srv.pc = "handoff"
  /\ Accepted /\ quic.close = "open" =>
       srv.pc = "serve" \/ (srv.have /\ srv.end = "open")
  /\ srv.pc = "serve" \/ (srv.have /\ srv.end = "open") => srv.guard
  /\ srv.plane = "tcp" => ~(Accepted /\ quic.close = "open")

\* Everything the argument needs to know of the records and the two tasks.
Body == /\ Shape /\ ClientAt /\ ServerAt /\ UpOrder /\ UpSays /\ DownOrder /\ DownSays
        /\ BidiUp /\ BidiDown /\ Agreed /\ Counted /\ Heard /\ Residual

\* The verdicts that never occur.
Verdicts ==
  /\ SequenceAligned
  /\ cli.end # "overbudget"
  /\ RecordUnits = 1 => cli.end # "desynced"

\* The inductive invariant.
IInv == Body /\ Guarded /\ Verdicts

-----------------------------------------------------------------------------
(* What a step does to an end, in terms of its fields *)

\* What a step makes of the client, in terms of its fields.
ClientBecomes(pc, e, sealed, opened, frag, skipped, plane, u, d, end) ==
  /\ DOMAIN cli' = DOMAIN cli
  /\ cli'.pc = pc /\ cli'.frag = frag /\ cli'.skipped = skipped /\ cli'.plane = plane
  /\ cli'.up = u /\ cli'.dn = d /\ cli'.end = end
  /\ IsCodec(cli'.seal) /\ IsCodec(cli'.open)
  /\ cli'.seal.e = e /\ cli'.open.e = e /\ cli'.seal.n = sealed /\ cli'.open.n = opened

\* What a step makes of the server, in terms of its fields.
ServerBecomes(pc, e, sealed, opened, frag, fwd, spent, have, plane, u, d, end) ==
  /\ DOMAIN srv' = DOMAIN srv
  /\ srv'.pc = pc /\ srv'.frag = frag /\ srv'.fwd = fwd /\ srv'.spent = spent
  /\ srv'.have = have /\ srv'.plane = plane
  /\ srv'.up = u /\ srv'.dn = d /\ srv'.end = end
  /\ IsCodec(srv'.seal) /\ IsCodec(srv'.open)
  /\ srv'.seal.e = e /\ srv'.open.e = e /\ srv'.seal.n = sealed /\ srv'.open.n = opened

-----------------------------------------------------------------------------
(* The bidi and the ends *)

\* A close of the QUIC connection loses what is in flight and nothing else.
QuicStays ==
  /\ DOMAIN quic' = DOMAIN quic /\ quic'.up = quic.up /\ quic'.dn = quic.dn
  /\ quic'.close = quic.close \/ quic'.close # "open"
=============================================================================
