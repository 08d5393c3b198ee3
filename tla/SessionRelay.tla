----------------------------- MODULE SessionRelay -----------------------------
(***************************************************************************)
(* The steps of the relay on either plane, of the DONE exchange and of the *)
(* network keep the invariant, and so do those in which the server only    *)
(* waits.                                                                  *)
(***************************************************************************)
EXTENDS SessionLemmas

-----------------------------------------------------------------------------
(* The client uploads *)

\* A record that the client seals for the bidi takes the next place.
LEMMA BidiUpPush ==
  ASSUME NEW lo \in Nat, NEW hi \in Nat, NEW leg, NEW m \in Msg, m \notin Last,
         Flow(quic.up, lo, hi, leg, quic.close), Open(quic.up), IsCodec(cli.seal), Idx(cli.seal) = hi,
         quic'.up = IF leg = "up" /\ quic.close = "open" THEN quic.up \o Seal(cli.seal, m) ELSE quic.up
  PROVE  Flow(quic'.up, lo, hi + 1, leg, quic.close)
BY Zenon, SentSeal DEF Sent

\* The client seals and writes one record on the bidi.
LEMMA BidiUpSeal ==
  ASSUME Body, NEW m \in Msg, m \notin Last, Open(quic.up), Idx(cli.seal) = Chunks + 3 + up.sent,
         quic'.up = IF Leg(cli.plane) = "up" /\ quic.close = "open" THEN quic.up \o Seal(cli.seal, m) ELSE quic.up
  PROVE  /\ Flow(quic'.up, Chunks + 3 + up.got, Chunks + 3 + (up.sent + 1), Leg(cli.plane), quic.close)
         /\ \A r \in In(quic'.up) : r \in In(quic.up) \/ (r.e = cli.seal.e /\ r.n = cli.seal.n /\ r.m = m)
<1>1. IsCodec(cli.seal) /\ Chunks \in Nat /\ up.sent \in Nat /\ dn.sent \in Nat
  BY Zenon, Positions DEF Body, Shape
<1>3. Flow(quic'.up, Chunks + 3 + up.got, (Chunks + 3 + up.sent) + 1, Leg(cli.plane), quic.close)
  BY Zenon, <1>1, BidiUpFlow, BidiUpPush
<1>4. (Chunks + 3 + up.sent) + 1 = Chunks + 3 + (up.sent + 1)
  BY <1>1
<1>5. quic.up \in Seq(Rec)
  BY Zenon, BidiUpFlow
<1>6. ASSUME NEW r \in In(quic'.up) PROVE r \in In(quic.up) \/ (r.e = cli.seal.e /\ r.n = cli.seal.n /\ r.m = m)
  <2>1. CASE quic'.up = quic.up \o Seal(cli.seal, m)
    <3>1. r \in In(quic.up \o Seal(cli.seal, m))
      BY Zenon, <1>6, <2>1
    <3> QED BY ZenonT(30), <1>1, <1>5, <3>1, OneSealed
  <2>2. CASE quic'.up = quic.up
    BY Zenon, <2>2
  <2> QED BY Zenon, <2>1, <2>2
<1> QED BY Zenon, <1>3, <1>4, <1>6

\* ClientUploads keeps the invariant on either plane (client_upload_loop).
LEMMA Uploads ==
  ASSUME Body, ClientUploads PROVE Body'
<1>ends. Shape /\ ClientAt /\ ServerAt
  BY Zenon DEF Body
<1>know. Agreed /\ Counted /\ Heard
  BY Zenon DEF Body
<1>ctl. UpOrder /\ UpSays /\ DownOrder /\ DownSays /\ Residual
  BY Zenon DEF Body
<1>bidi. BidiUp /\ BidiDown
  BY Zenon DEF Body
<1>0. /\ Chunks \in Nat /\ Chunks > 0 /\ cli.pc = "relay" /\ ~cli.up /\ IsCodec(cli.open) /\ IsCodec(cli.seal)
      /\ cli.plane \in {"none", "tcp", "quic"} /\ up.sent \in Nat /\ up.got \in Nat
  BY Zenon, Positions, <1>ends DEF Shape, ClientUploads
<1>a. /\ cli.plane # "none" /\ cli.seal.e = 1 /\ cli.open.e = 1
      /\ cli.plane = "quic" => cli.seal.n = 3 + up.sent
      /\ cli.end = "open"
  BY Zenon, <1>0, <1>ends DEF ClientAt
<1>b. /\ IsCodec(After(cli.seal, 1)) /\ After(cli.seal, 1).e = cli.seal.e
      /\ After(cli.seal, 1).n = cli.seal.n + 1 /\ cli.seal.n \in Nat
  BY Zenon, <1>0, AfterOne DEF IsCodec
<1>d. /\ srv' = srv /\ s2c' = s2c /\ tcp' = tcp /\ dn' = dn
      /\ up'.sent = up.sent + 1 /\ up'.got = up.got /\ DOMAIN up' = DOMAIN up
  BY Zenon, <1>ends DEF ClientUploads, Shape
<1>1. ClientBecomes("relay", 1, cli.seal.n + 1, cli.open.n, cli.frag, cli.skipped, cli.plane, cli.up, cli.dn, cli.end)
  BY Zenon, <1>0, <1>a, <1>b, <1>ends DEF ClientBecomes, ClientUploads, Shape
<1>e. /\ DOMAIN quic' = DOMAIN quic /\ quic'.close = quic.close /\ quic'.dn = quic.dn
      /\ cli.plane = "tcp" => quic' = quic /\ ToServer(Seal(cli.seal, "data"))
      /\ cli.plane = "quic" =>
           /\ c2s' = c2s
           /\ quic'.up = IF Leg(cli.plane) = "up" /\ quic.close = "open"
                           THEN quic.up \o Seal(cli.seal, "data") ELSE quic.up
  BY Zenon, <1>ends DEF ClientUploads, PutUp, Shape, Leg
<1>2. Shape' /\ ClientAt' /\ ServerAt' /\ Agreed' /\ Counted' /\ Heard'
  <2>0. Shape'
    BY <1>0, <1>1, <1>d, <1>e, <1>ends DEF ClientBecomes, Shape
  <2>1. ClientAt'
    BY <1>0, <1>1, <1>a, <1>b, <1>d, <1>ends DEF ClientBecomes, ClientAt
  <2>2. ServerAt' /\ Agreed'
    BY <1>0, <1>1, <1>a, <1>d, <1>ends, <1>know DEF ClientBecomes, ServerAt, Agreed, Unoffered
  <2>3. Counted'
    BY <1>0, <1>1, <1>b, <1>d, <1>ends, <1>know DEF ClientBecomes, Counted, Shape, IsCodec
  <2>4. Heard'
    BY Zenon, <1>0, <1>1, <1>a, <1>d, <1>know DEF ClientBecomes, Heard
  <2> QED BY Zenon, <2>0, <2>1, <2>2, <2>3, <2>4
<1>3. /\ cli.plane = "tcp" => ClientSealed' = ClientSealed + 1 /\ ClientSealed = Idx(cli.seal)
      /\ cli.plane = "quic" => ClientSealed' = ClientSealed
      /\ ServerOpened' = ServerOpened /\ ServerSealed' = ServerSealed /\ ClientOpened' = ClientOpened
  BY <1>0, <1>1, <1>a, <1>b, <1>d
     DEF ClientBecomes, ClientSealed, ServerOpened, ServerSealed, ClientOpened, Idx
<1>4. DownOrder' /\ BidiDown' /\ Residual'
  BY Zenon, <1>1, <1>3, <1>d, <1>e, <1>ctl, <1>bidi
     DEF ClientBecomes, DownOrder, BidiDown, Residual, Tolerable
<1>5. DownSays'
  BY Zenon, <1>0, <1>1, <1>d, <1>ctl DEF ClientBecomes, DownSays, DownRec, Unoffered
<1>f. "data" \in Msg /\ "data" \notin Last
  BY Zenon DEF Msg, Last
<1>6. CASE cli.plane = "tcp"
  <2>1. BidiUp'
    <3>1. quic.up = <<>> /\ In(<<>>) = {}
      BY Zenon, <1>6, Nothing, <1>bidi DEF BidiUp
    <3>2. Flow(quic.up, Chunks + 3 + up.got, Chunks + 3 + up.sent + 1, Leg(cli.plane), quic.close)
      <4>1. Chunks + 3 + up.got <= Chunks + 3 + up.sent
        BY Zenon, BidiUpFlow, FlowIs
      <4>2. Chunks + 3 + up.got <= Chunks + 3 + up.sent + 1
        BY <1>0, <4>1
      <4>3. Partial(<<>>, Chunks + 3 + up.got, Chunks + 3 + up.sent + 1)
        BY <1>0, <4>2, NoneLeft
      <4> QED BY Zenon, <1>6, <3>1, <4>3 DEF Flow, Leg
    <3>3. Chunks + 3 + up.sent + 1 = Chunks + 3 + (up.sent + 1)
      BY <1>0
    <3> QED BY Zenon, <1>1, <1>6, <1>d, <1>e, <3>1, <3>2, <3>3, <1>bidi DEF BidiUp, ClientBecomes
  <2>2. Open(c2s)
    BY Zenon, <1>0, <1>6, <1>ctl DEF UpSays, UpRec, Open, Last
  <2>3. /\ Flow(c2s', ServerOpened, ClientSealed + 1, tcp, srv.end)
        /\ srv.end # "open" => c2s' = <<>>
        /\ \A r \in In(c2s') : UpRec(r) \/ (r.e = cli.seal.e /\ r.n = cli.seal.n /\ r.m = "data")
    BY Zenon, <1>3, <1>6, <1>e, <1>f, <2>2, UpSeal
  <2>4. UpOrder'
    BY Zenon, <1>3, <1>6, <1>d, <2>3, <1>ctl DEF UpOrder
  <2>5. UpSays'
    <3>0. \A r \in In(c2s') : r \in Rec
      BY <2>3, UpFlow, FlowRec
    <3>1. ASSUME NEW r \in Rec, UpRec(r) PROVE UpRec(r)'
      BY <1>0, <1>1, <1>6, <1>a, <1>b, <1>d, <3>1 DEF ClientBecomes, UpRec, Rec
    <3>2. ASSUME NEW r, r.e = cli.seal.e, r.n = cli.seal.n, r.m = "data" PROVE UpRec(r)'
      BY <1>a, <3>2 DEF UpRec
    <3> QED BY Zenon, <2>3, <3>0, <3>1, <3>2, <1>ctl DEF UpSays
  <2> QED BY Zenon, <1>2, <1>4, <1>5, <2>1, <2>4, <2>5 DEF Body
<1>7. CASE cli.plane = "quic"
  <2>1. UpOrder'
    BY Zenon, <1>3, <1>7, <1>d, <1>e, <1>ctl DEF UpOrder
  <2>2. UpSays'
    BY Zenon, <1>0, <1>1, <1>7, <1>d, <1>e, <1>ctl DEF ClientBecomes, UpSays, UpRec
  <2>3. Open(quic.up)
    BY Zenon, <1>0, BidiUpFlow DEF Open, Last
  <2>4. Idx(cli.seal) = Chunks + 3 + up.sent
    BY <1>0, <1>7, <1>a DEF Idx
  <2>5. /\ Flow(quic'.up, Chunks + 3 + up.got, Chunks + 3 + (up.sent + 1), Leg(cli.plane), quic.close)
        /\ \A r \in In(quic'.up) : r \in In(quic.up) \/ (r.e = cli.seal.e /\ r.n = cli.seal.n /\ r.m = "data")
    BY Zenon, <1>7, <1>e, <1>f, <2>3, <2>4, BidiUpSeal
  <2>8. Flow(quic'.up, Chunks + 3 + up'.got, Chunks + 3 + up'.sent, Leg(cli'.plane), quic'.close)
    BY Zenon, <1>1, <1>d, <1>e, <2>5 DEF ClientBecomes
  <2>9. \A r \in In(quic'.up) : r.e # 0 /\ r.m # "done" /\ (r.m = "fin" => r = Fin /\ cli'.up)
    BY <1>1, <1>a, <2>5, BidiUpFlow DEF ClientBecomes
  <2>10. BidiUp'
    BY Zenon, <1>1, <1>7, <2>8, <2>9, <1>bidi DEF BidiUp, ClientBecomes
  <2> QED BY Zenon, <1>2, <1>4, <1>5, <2>1, <2>2, <2>10 DEF Body
<1> QED BY Zenon, <1>0, <1>6, <1>7, <1>a DEF Body

\* The client finishes its half of the bidi.
LEMMA BidiUpFin ==
  ASSUME Body, Open(quic.up), quic'.up = Sent(quic.up, <<Fin>>, Leg(cli.plane), quic.close)
  PROVE  /\ Flow(quic'.up, Chunks + 3 + up.got, Chunks + 3 + up.sent, Leg(cli.plane), quic.close)
         /\ In(quic'.up) \subseteq In(quic.up) \cup {Fin}
<1>1. Fin \in Rec /\ Fin.e = Plain /\ Fin.m = "fin" /\ Fin.m \in Last
  BY Zenon, FinIs
<1>2. Flow(quic'.up, Chunks + 3 + up.got, Chunks + 3 + up.sent, Leg(cli.plane), quic.close)
  BY <1>1, BidiUpFlow, SentLast
<1>3. In(quic'.up) \subseteq In(quic.up) \cup {Fin}
  BY Zenon, <1>1, BidiUpFlow, OneMore DEF Sent
<1> QED BY Zenon, <1>2, <1>3

\* ClientUploadEnds keeps the invariant: the end follows the last record.
LEMMA UploadEnds ==
  ASSUME Body, ClientUploadEnds PROVE Body'
<1>ends. Shape /\ ClientAt /\ ServerAt
  BY Zenon DEF Body
<1>know. Agreed /\ Counted /\ Heard
  BY Zenon DEF Body
<1>ctl. UpOrder /\ UpSays /\ DownOrder /\ DownSays /\ Residual
  BY Zenon DEF Body
<1>bidi. BidiUp /\ BidiDown
  BY Zenon DEF Body
<1>0. /\ Chunks \in Nat /\ Chunks > 0 /\ cli.pc = "relay" /\ ~cli.up /\ IsCodec(cli.open) /\ IsCodec(cli.seal)
      /\ cli.plane \in {"none", "tcp", "quic"}
  BY Zenon, Positions, <1>ends DEF Shape, ClientUploadEnds
<1>a. /\ cli.plane # "none" /\ cli.seal.e = 1 /\ cli.open.e = 1 /\ cli.end = "open"
  BY Zenon, <1>0, <1>ends DEF ClientAt
<1>d. srv' = srv /\ s2c' = s2c /\ tcp' = tcp /\ up' = up /\ dn' = dn
  BY Zenon DEF ClientUploadEnds
<1>1. ClientBecomes("relay", 1, cli.seal.n, cli.open.n, cli.frag, cli.skipped, cli.plane, TRUE, cli.dn, cli.end)
  BY Zenon, <1>0, <1>a, <1>ends DEF ClientBecomes, ClientUploadEnds, Shape
<1>e. /\ DOMAIN quic' = DOMAIN quic /\ quic'.close = quic.close /\ quic'.dn = quic.dn
      /\ cli.plane = "tcp" => quic' = quic /\ ToServer(<<Fin>>)
      /\ cli.plane = "quic" =>
           /\ c2s' = c2s
           /\ quic'.up = Sent(quic.up, <<Fin>>, Leg(cli.plane), quic.close)
  BY Zenon, <1>ends DEF ClientUploadEnds, PutUp, Shape, Leg, Sent
<1>2. Shape' /\ ClientAt' /\ ServerAt' /\ Agreed' /\ Counted' /\ Heard'
  <2>0. Shape'
    BY Zenon, <1>1, <1>d, <1>e, <1>ends DEF ClientBecomes, Shape
  <2>1. ClientAt'
    BY Zenon, <1>0, <1>1, <1>a, <1>d, <1>ends DEF ClientBecomes, ClientAt
  <2>2. ServerAt' /\ Agreed' /\ Counted' /\ Heard'
    BY <1>0, <1>1, <1>a, <1>d, <1>ends, <1>know
       DEF ClientBecomes, ServerAt, Agreed, Unoffered, Counted, Heard
  <2> QED BY Zenon, <2>0, <2>1, <2>2
<1>3. /\ ClientSealed' = ClientSealed
      /\ ServerOpened' = ServerOpened /\ ServerSealed' = ServerSealed /\ ClientOpened' = ClientOpened
  BY Zenon, <1>1, <1>a, <1>d
     DEF ClientBecomes, ClientSealed, ServerOpened, ServerSealed, ClientOpened, Idx
<1>4. DownOrder' /\ BidiDown' /\ Residual'
  BY Zenon, <1>1, <1>3, <1>d, <1>e, <1>ctl, <1>bidi
     DEF ClientBecomes, DownOrder, BidiDown, Residual, Tolerable
<1>5. DownSays'
  BY Zenon, <1>0, <1>1, <1>d, <1>ctl DEF ClientBecomes, DownSays, DownRec, Unoffered
<1>f. Fin \in Rec /\ Fin.e = Plain /\ Fin.m = "fin" /\ Fin.m \in Last
  BY Zenon, FinIs
<1>6. CASE cli.plane = "tcp"
  <2>1. BidiUp'
    BY Zenon, <1>1, <1>6, <1>d, <1>e, <1>bidi DEF BidiUp, ClientBecomes
  <2>2. Open(c2s)
    BY Zenon, <1>0, <1>6, <1>ctl DEF UpSays, UpRec, Open, Last
  <2>3. /\ Flow(c2s', ServerOpened, ClientSealed, tcp, srv.end)
        /\ srv.end # "open" => c2s' = <<>>
        /\ \A r \in In(c2s') : UpRec(r) \/ r = Fin
    BY Zenon, <1>6, <1>e, <1>f, <2>2, UpLast
  <2>4. UpOrder'
    BY Zenon, <1>3, <1>6, <1>d, <2>3, <1>ctl DEF UpOrder
  <2>5. UpSays'
    BY <1>0, <1>1, <1>6, <1>d, <1>f, <2>3, <1>ctl DEF ClientBecomes, UpSays, UpRec, Plain
  <2> QED BY Zenon, <1>2, <1>4, <1>5, <2>1, <2>4, <2>5 DEF Body
<1>7. CASE cli.plane = "quic"
  <2>1. UpOrder'
    BY Zenon, <1>3, <1>7, <1>d, <1>e, <1>ctl DEF UpOrder
  <2>2. UpSays'
    BY <1>0, <1>1, <1>7, <1>d, <1>e, <1>ctl DEF ClientBecomes, UpSays, UpRec
  <2>3. Open(quic.up)
    BY Zenon, <1>0, BidiUpFlow DEF Open, Last
  <2>4. /\ Flow(quic'.up, Chunks + 3 + up.got, Chunks + 3 + up.sent, Leg(cli.plane), quic.close)
        /\ In(quic'.up) \subseteq In(quic.up) \cup {Fin}
    BY Zenon, <1>7, <1>e, <2>3, BidiUpFin
  <2>5. \A r \in In(quic'.up) : r.e # 0 /\ r.m # "done" /\ (r.m = "fin" => r = Fin /\ cli'.up)
    BY <1>1, <1>f, <2>4, BidiUpFlow DEF ClientBecomes, Plain
  <2>10. BidiUp'
    BY Zenon, <1>1, <1>7, <1>d, <1>e, <2>4, <2>5, <1>bidi DEF BidiUp, ClientBecomes
  <2> QED BY Zenon, <1>2, <1>4, <1>5, <2>1, <2>2, <2>10 DEF Body
<1> QED BY Zenon, <1>0, <1>6, <1>7, <1>a DEF Body

-----------------------------------------------------------------------------
(* The client downloads *)

\* ClientReadsEof keeps the invariant: a closed socket reads as the end.
LEMMA ReadsEof ==
  ASSUME Body, ClientReadsEof PROVE Body'
<1>ends. Shape /\ ClientAt /\ ServerAt
  BY Zenon DEF Body
<1>know. Agreed /\ Counted /\ Heard
  BY Zenon DEF Body
<1>ctl. UpOrder /\ UpSays /\ DownOrder /\ DownSays /\ Residual
  BY Zenon DEF Body
<1>bidi. BidiUp /\ BidiDown
  BY Zenon DEF Body
<1>0. /\ cli.pc = "relay" /\ cli.plane = "tcp" /\ IsCodec(cli.open) /\ IsCodec(cli.seal) /\ srv.end # "open"
      /\ s2c = <<>>
  BY Zenon, <1>ends DEF Shape, ClientReadsEof
<1>a. /\ cli.seal.e = 1 /\ cli.open.e = 1 /\ cli.end = "open"
  BY Zenon, <1>0, <1>ends DEF ClientAt
<1>1. /\ ClientBecomes("relay", 1, cli.seal.n, cli.open.n, cli.frag, cli.skipped, "tcp", cli.up, TRUE, cli.end)
      /\ srv' = srv /\ c2s' = c2s /\ s2c' = s2c /\ tcp' = tcp /\ quic' = quic /\ up' = up /\ dn' = dn
  BY Zenon, <1>0, <1>a, <1>ends DEF ClientBecomes, ClientReadsEof, Shape
<1>2. Shape' /\ ClientAt' /\ ServerAt' /\ Agreed' /\ Counted' /\ Heard'
  <2>0. Shape' /\ ClientAt'
    BY Zenon, <1>0, <1>1, <1>a, <1>ends DEF ClientBecomes, Shape, ClientAt
  <2>2. ServerAt' /\ Agreed' /\ Counted' /\ Heard'
    <3>1. ServerAt'
      BY Zenon, <1>1, <1>ends, ServerStays
    <3>2. Agreed' /\ Counted' /\ Heard'
      BY Zenon, <1>0, <1>1, <1>a, <1>know
         DEF ClientBecomes, Agreed, Unoffered, Counted, Heard
    <3> QED BY Zenon, <3>1, <3>2
  <2> QED BY Zenon, <2>0, <2>2
<1>3. /\ ClientSealed' = ClientSealed
      /\ ServerOpened' = ServerOpened /\ ServerSealed' = ServerSealed /\ ClientOpened' = ClientOpened
  BY Zenon, <1>0, <1>1, <1>a
     DEF ClientBecomes, ClientSealed, ServerOpened, ServerSealed, ClientOpened, Idx
<1>4. UpOrder' /\ DownOrder' /\ BidiUp' /\ BidiDown' /\ Residual'
  BY Zenon, <1>0, <1>1, <1>3, <1>ctl, <1>bidi
     DEF ClientBecomes, UpOrder, DownOrder, BidiUp, BidiDown, Residual, Tolerable
<1>5. UpSays' /\ DownSays'
  BY <1>0, <1>1, <1>ctl DEF ClientBecomes, UpSays, UpRec, DownSays, DownRec, Unoffered
<1> QED BY Zenon, <1>2, <1>4, <1>5 DEF Body

\* What the client's download meets on the control connection: the end of
\* the stream after the last record, or the next record.
LEMMA DownloadMeetsTcp ==
  ASSUME Body, cli.pc = "relay", cli.plane = "tcp", s2c # <<>>
  PROVE  \/ /\ Head(s2c) = Fin
            /\ Flow(Tail(s2c), ClientOpened, ServerSealed, tcp, cli.end)
            /\ srv.end # "open" \/ (srv.dn /\ dn.got = dn.sent)
         \/ /\ Head(s2c) # Fin /\ Opens(cli.open, Head(s2c)) /\ dn.got + 1 <= dn.sent
            /\ Flow(Tail(s2c), ClientOpened + 1, ServerSealed, tcp, cli.end)
<1>ends. Shape /\ ClientAt /\ ServerAt
  BY Zenon DEF Body
<1>know. Agreed /\ Counted /\ Heard
  BY Zenon DEF Body
<1> DEFINE r == Head(s2c)
<1>0. /\ Chunks \in Nat /\ Chunks > 0 /\ cli.open.e = 1 /\ cli.open.n \in Nat /\ srv.seal.n \in Nat
      /\ srv.seal.e = 1 /\ srv.seal.n + dn.got = cli.open.n + dn.sent
      /\ dn.got \in Nat /\ dn.sent \in Nat /\ srv.plane # "quic"
  BY Zenon, Positions, <1>ends, <1>know DEF Shape, ClientAt, Counted, Agreed, IsCodec
<1>1. ClientOpened = Chunks + cli.open.n /\ ServerSealed = Chunks + srv.seal.n
  BY <1>0 DEF ClientOpened, ServerSealed, Idx
<1>z. /\ Chunks + cli.open.n = Chunks + srv.seal.n => dn.got = dn.sent
      /\ Chunks + cli.open.n < Chunks + srv.seal.n => dn.got + 1 <= dn.sent
  <2> DEFINE c == Chunks
             o == cli.open.n
             n == srv.seal.n
             g == dn.got
             s == dn.sent
  <2>1. c \in Nat /\ o \in Nat /\ n \in Nat /\ g \in Nat /\ s \in Nat /\ n + g = o + s
    BY Zenon, <1>0
  <2> HIDE DEF c, o, n, g, s
  <2>2. (c + o = c + n => g = s) /\ (c + o < c + n => g + 1 <= s)
    BY <2>1
  <2> QED BY Zenon, <2>2 DEF c, o, n, g, s
<1>2. CASE r.m \in Last
  <2>1. r = Fin /\ (srv.dn \/ srv.end # "open")
    BY Zenon, <1>0, <1>2, DownTake DEF DownRec, Last
  <2>2. ClientOpened = ServerSealed /\ Flow(Tail(s2c), ClientOpened, ServerSealed, tcp, cli.end)
    BY Zenon, <1>2, DownTake
  <2>3. dn.got = dn.sent
    <3>1. Chunks + cli.open.n = Chunks + srv.seal.n
      BY Zenon, <1>1, <2>2
    <3> QED BY Zenon, <1>z, <3>1
  <2> QED BY Zenon, <2>1, <2>2, <2>3
<1>3. CASE r.m \notin Last
  <2>1. r.e # Plain
    BY <1>0, <1>1, <1>3, DownTake
  <2>2. Opens(cli.open, r)
    BY Zenon, <1>3, <2>1, HeadOpensDown
  <2>3. /\ ClientOpened < ServerSealed
        /\ Flow(Tail(s2c), ClientOpened + 1, ServerSealed, tcp, cli.end)
    BY Zenon, <1>3, <2>1, DownTake
  <2>4. dn.got + 1 <= dn.sent
    <3>1. Chunks + cli.open.n < Chunks + srv.seal.n
      BY Zenon, <1>1, <2>3
    <3> QED BY Zenon, <1>z, <3>1
  <2>5. r # Fin
    BY Zenon, <1>3, FinIs
  <2> QED BY Zenon, <2>2, <2>3, <2>4, <2>5
<1> QED BY Zenon, <1>2, <1>3

\* What the client's download meets on the bidi.
LEMMA DownloadMeetsQuic ==
  ASSUME Body, cli.pc = "relay", cli.plane = "quic", quic.dn # <<>>
  PROVE  /\ In(Tail(quic.dn)) \subseteq In(quic.dn) /\ srv.plane = "quic"
         /\ \/ /\ Head(quic.dn) = Fin
               /\ Flow(Tail(quic.dn), Chunks + Chunks + 1 + dn.got, Chunks + Chunks + 1 + dn.sent,
                       Leg(srv.plane), quic.close)
               /\ srv.end # "open" \/ srv.dn
               /\ dn.got = dn.sent
            \/ /\ Head(quic.dn) # Fin /\ Opens(cli.open, Head(quic.dn))
               /\ Flow(Tail(quic.dn), Chunks + Chunks + 1 + (dn.got + 1), Chunks + Chunks + 1 + dn.sent,
                       Leg(srv.plane), quic.close)
<1>ends. Shape /\ ClientAt /\ ServerAt
  BY Zenon DEF Body
<1> DEFINE q == quic.dn
           h == Head(q)
           lo == Chunks + Chunks + 1 + dn.got
           hi == Chunks + Chunks + 1 + dn.sent
<1>0. /\ Chunks \in Nat /\ Chunks > 0 /\ cli.open.e = 1 /\ cli.open.n = Chunks + 1 + dn.got
      /\ dn.got \in Nat /\ dn.sent \in Nat
  BY Zenon, Positions, <1>ends DEF Shape, ClientAt
<1>1. /\ Flow(q, lo, hi, Leg(srv.plane), quic.close) /\ lo \in Nat /\ hi \in Nat /\ q # <<>>
      /\ \A x \in In(q) : x.e # 0 /\ x.m # "done" /\ (x.m = "fin" => x = Fin /\ (srv.dn \/ srv.end # "open"))
      /\ srv.plane = "quic" /\ lo > 0 /\ (lo = hi => dn.got = dn.sent)
      /\ lo + 1 = Chunks + Chunks + 1 + (dn.got + 1)
  <2>1. lo > 0 /\ (lo = hi => dn.got = dn.sent) /\ lo + 1 = Chunks + Chunks + 1 + (dn.got + 1)
    BY <1>0
  <2>2. Flow(q, lo, hi, Leg(srv.plane), quic.close) /\ lo \in Nat /\ hi \in Nat
    BY Zenon, BidiDownFlow
  <2>3. \A x \in In(q) : x.e # 0 /\ x.m # "done" /\ (x.m = "fin" => x = Fin /\ (srv.dn \/ srv.end # "open"))
    BY Zenon, BidiDownFlow
  <2>4. srv.plane = "quic"
    BY Zenon, BidiDownFlow
  <2> HIDE DEF q, lo, hi
  <2> QED BY Zenon, <2>1, <2>2, <2>3, <2>4 DEF q
<1> HIDE DEF q, lo, hi
<1>2. /\ h \in In(q) /\ h \in Rec /\ In(Tail(q)) \subseteq In(q)
      /\ h.e = Plain /\ h.m \notin Last => lo = 0
      /\ h.e # Plain /\ h.m \notin Last =>
              Idx(h) = lo /\ lo < hi /\ Flow(Tail(q), lo + 1, hi, Leg(srv.plane), quic.close)
      /\ h.m \in Last => lo = hi /\ Tail(q) = <<>> /\ Flow(Tail(q), lo, hi, Leg(srv.plane), quic.close)
  BY Zenon, <1>1, FlowTake
<1> HIDE DEF h
<1>3. CASE h.m \in Last
  <2>1. h = Fin /\ (srv.dn \/ srv.end # "open") /\ dn.got = dn.sent
    BY Zenon, <1>1, <1>2, <1>3 DEF Last
  <2> QED BY Zenon, <1>1, <1>2, <1>3, <2>1 DEF q, h, lo, hi
<1>4. CASE h.m \notin Last
  <2>1. h.e = 1 /\ h.n \in Nat
    BY <1>1, <1>2, <1>4 DEF Rec, Plain
  <2>2. Idx(h) = lo /\ Flow(Tail(q), lo + 1, hi, Leg(srv.plane), quic.close)
    BY <1>2, <1>4, <2>1 DEF Plain
  <2>3. h.n = cli.open.n
    BY <1>0, <2>1, <2>2 DEF Idx, lo
  <2>4. h # Fin
    BY Zenon, <1>4, FinIs
  <2>5. Opens(cli.open, h)
    BY Zenon, <1>0, <2>1, <2>3 DEF Opens
  <2>6. Flow(Tail(q), Chunks + Chunks + 1 + (dn.got + 1), hi, Leg(srv.plane), quic.close)
    BY Zenon, <1>1, <2>2
  <2> QED BY Zenon, <1>1, <1>2, <2>4, <2>5, <2>6 DEF q, h, hi
<1> QED BY Zenon, <1>3, <1>4

\* The download never meets a record it cannot open (client_download_loop).
LEMMA DownloadOpens ==
  ASSUME Body, ClientDownloads PROVE Head(DownLeg) = Fin \/ Opens(cli.open, Head(DownLeg))
<1>1. cli.plane \in {"tcp", "quic"} /\ cli.pc = "relay"
  BY Zenon DEF Body, ClientDownloads, ClientAt, Shape
<1>2. CASE cli.plane = "tcp"
  BY Zenon, <1>1, <1>2, DownloadMeetsTcp DEF ClientDownloads, DownLeg
<1>3. CASE cli.plane = "quic"
  BY Zenon, <1>1, <1>3, DownloadMeetsQuic DEF ClientDownloads, DownLeg
<1> QED BY Zenon, <1>1, <1>2, <1>3

\* ClientDownloads keeps the invariant on the TCP plane.
LEMMA DownloadsTcp ==
  ASSUME Body, ClientDownloads, cli.plane = "tcp" PROVE Body'
<1>ends. Shape /\ ClientAt /\ ServerAt
  BY Zenon DEF Body
<1>know. Agreed /\ Counted /\ Heard
  BY Zenon DEF Body
<1>ctl. UpOrder /\ UpSays /\ DownOrder /\ DownSays /\ Residual
  BY Zenon DEF Body
<1>bidi. BidiUp /\ BidiDown
  BY Zenon DEF Body
<1>0. /\ Chunks \in Nat /\ Chunks > 0 /\ cli.pc = "relay" /\ ~cli.dn /\ IsCodec(cli.open) /\ IsCodec(cli.seal)
      /\ s2c # <<>> /\ DownLeg = s2c /\ dn.got \in Nat /\ dn.sent \in Nat /\ srv.plane # "quic"
  BY Zenon, Positions, <1>ends, <1>know DEF Shape, ClientDownloads, DownLeg, Agreed
<1>a. /\ cli.seal.e = 1 /\ cli.open.e = 1 /\ cli.end = "open" /\ cli.open.n \in Nat
  BY Zenon, <1>0, <1>ends DEF ClientAt, IsCodec
<1>b. /\ IsCodec(After(cli.open, 1)) /\ After(cli.open, 1).e = cli.open.e
      /\ After(cli.open, 1).n = cli.open.n + 1
  BY Zenon, <1>0, AfterOne
<1>d. srv' = srv /\ c2s' = c2s /\ tcp' = tcp /\ up' = up
  BY Zenon DEF ClientDownloads
<1>m. \/ /\ Head(s2c) = Fin
         /\ Flow(Tail(s2c), ClientOpened, ServerSealed, tcp, cli.end)
         /\ srv.end # "open" \/ (srv.dn /\ dn.got = dn.sent)
      \/ /\ Head(s2c) # Fin /\ Opens(cli.open, Head(s2c)) /\ dn.got + 1 <= dn.sent
         /\ Flow(Tail(s2c), ClientOpened + 1, ServerSealed, tcp, cli.end)
  BY Zenon, <1>0, DownloadMeetsTcp
<1>1. \/ /\ ClientBecomes("relay", 1, cli.seal.n, cli.open.n, cli.frag, cli.skipped, "tcp", cli.up, TRUE, cli.end)
         /\ dn' = dn /\ (srv.end # "open" \/ (srv.dn /\ dn.got = dn.sent))
         /\ Flow(Tail(s2c), ClientOpened, ServerSealed, tcp, cli.end)
      \/ /\ ClientBecomes("relay", 1, cli.seal.n, cli.open.n + 1, cli.frag, cli.skipped, "tcp", cli.up, cli.dn, cli.end)
         /\ dn'.got = dn.got + 1 /\ dn'.sent = dn.sent /\ DOMAIN dn' = DOMAIN dn
         /\ dn.got + 1 <= dn.sent
         /\ Flow(Tail(s2c), ClientOpened + 1, ServerSealed, tcp, cli.end)
  <2>1. CASE Head(s2c) = Fin
    <3>1. ~Opens(cli.open, Head(s2c))
      BY <1>a, <2>1, FinIs DEF Opens, Plain
    <3>2. cli' = [cli EXCEPT !.dn = TRUE] /\ dn' = dn
      BY Zenon, <1>0, <2>1, <3>1 DEF ClientDownloads
    <3> QED BY Zenon, <1>0, <1>a, <1>m, <2>1, <3>2, <1>ends DEF ClientBecomes, Shape
  <2>2. CASE Head(s2c) # Fin
    <3>1. /\ cli' = [cli EXCEPT !.open = After(@, 1)]
          /\ dn' = [dn EXCEPT !.got = @ + 1]
      BY Zenon, <1>0, <1>m, <2>2 DEF ClientDownloads
    <3>2. dn'.got = dn.got + 1 /\ dn'.sent = dn.sent /\ DOMAIN dn' = DOMAIN dn
      BY Zenon, <3>1, <1>ends DEF Shape
    <3>3. ClientBecomes("relay", 1, cli.seal.n, cli.open.n + 1, cli.frag, cli.skipped, "tcp", cli.up, cli.dn, cli.end)
      BY Zenon, <1>0, <1>a, <1>b, <3>1, <1>ends DEF ClientBecomes, Shape
    <3> QED BY Zenon, <1>m, <2>2, <3>2, <3>3
  <2> QED BY Zenon, <2>1, <2>2
<1>e. s2c' = Tail(s2c) /\ quic' = quic
  BY Zenon, <1>0, <1>m DEF ClientDownloads, TakeDown
<1>h. /\ dn'.sent = dn.sent /\ dn'.got \in Nat /\ DOMAIN dn' = DOMAIN dn /\ cli'.seal = cli.seal
      /\ cli'.pc = "relay" /\ cli'.plane = "tcp" /\ cli'.up = cli.up /\ cli'.end = cli.end /\ cli'.skipped = cli.skipped
  <2>1. dn.got + 1 \in Nat
    BY <1>0
  <2>2. cli'.seal = cli.seal
    BY Zenon, <1>0, <1>m, <1>ends DEF ClientDownloads, ClientEndsAs, Shape
  <2> QED BY Zenon, <1>0, <1>1, <2>1, <2>2 DEF ClientBecomes
<1>2. Shape' /\ ClientAt' /\ ServerAt' /\ Agreed' /\ Counted' /\ Heard'
  <2>0. Shape'
    BY Zenon, <1>0, <1>1, <1>d, <1>e, <1>h, <1>ends DEF ClientBecomes, Shape
  <2>1. ClientAt'
    BY <1>0, <1>1, <1>a, <1>d, <1>h, <1>ends DEF ClientBecomes, ClientAt
  <2>2. ServerAt' /\ Agreed'
    BY <1>0, <1>a, <1>d, <1>h, <1>ends, <1>know DEF ServerAt, Agreed, Unoffered
  <2>3. Counted'
    <3>1. srv.seal.e = 1 /\ srv.seal.n \in Nat /\ srv.seal.n + dn.got = cli.open.n + dn.sent
      BY Zenon, <1>ends, <1>know DEF Counted, Shape, IsCodec
    <3>2. srv.seal.n + dn'.got = cli'.open.n + dn.sent
      <4>1. (cli'.open.n = cli.open.n /\ dn'.got = dn.got) \/ (cli'.open.n = cli.open.n + 1 /\ dn'.got = dn.got + 1)
        BY Zenon, <1>1 DEF ClientBecomes
      <4>2. dn.got \in Nat /\ dn.sent \in Nat /\ cli.open.n \in Nat
        BY Zenon, <1>0, <1>a
      <4> QED BY <3>1, <4>1, <4>2
    <3> QED BY Zenon, <1>d, <1>h, <3>1, <3>2, <1>know DEF Counted
  <2>4. Heard'
    BY Zenon, <1>0, <1>1, <1>a, <1>d, <1>h, <1>know DEF ClientBecomes, Heard
  <2> QED BY Zenon, <2>0, <2>1, <2>2, <2>3, <2>4
<1>3. /\ ClientSealed' = ClientSealed /\ ServerOpened' = ServerOpened /\ ServerSealed' = ServerSealed
  BY Zenon, <1>0, <1>a, <1>d, <1>h DEF ClientSealed, ServerOpened, ServerSealed, Idx
<1>4. UpOrder' /\ BidiUp'
  BY Zenon, <1>0, <1>3, <1>d, <1>e, <1>h, <1>ctl, <1>bidi DEF UpOrder, BidiUp
<1>5. UpSays' /\ DownSays'
  <2>1. UpSays'
    BY Zenon, <1>0, <1>d, <1>h, <1>ctl DEF UpSays, UpRec
  <2>2. DownSays'
    BY <1>0, <1>d, <1>e, <1>h, DownTake, <1>ctl DEF DownSays, DownRec, Unoffered
  <2> QED BY Zenon, <2>1, <2>2
<1>6. BidiDown'
  <2>1. quic.dn = <<>> /\ In(<<>>) = {}
    BY Zenon, <1>0, Nothing, <1>bidi DEF BidiDown
  <2>2. /\ Chunks + Chunks + 1 + dn'.got <= Chunks + Chunks + 1 + dn.sent
        /\ Chunks + Chunks + 1 + dn'.got \in Nat /\ Chunks + Chunks + 1 + dn.sent \in Nat
    <3>1. Chunks + Chunks + 1 + dn.got <= Chunks + Chunks + 1 + dn.sent
      BY Zenon, BidiDownFlow, FlowIs
    <3>2. dn'.got = dn.got \/ (dn'.got = dn.got + 1 /\ dn.got + 1 <= dn.sent)
      BY Zenon, <1>1
    <3> QED BY <1>0, <3>1, <3>2
  <2>3. Partial(<<>>, Chunks + Chunks + 1 + dn'.got, Chunks + Chunks + 1 + dn.sent)
    BY Zenon, <2>2, NoneLeft
  <2>4. Flow(quic.dn, Chunks + Chunks + 1 + dn'.got, Chunks + Chunks + 1 + dn'.sent, Leg(srv.plane), quic.close)
    BY Zenon, <1>0, <1>h, <2>1, <2>3 DEF Flow, Leg
  <2> QED BY Zenon, <1>d, <1>e, <2>1, <2>4, <1>bidi DEF BidiDown
<1>7. DownOrder'
  <2>1. Flow(Tail(s2c), ClientOpened', ServerSealed, tcp, cli.end)
    <3>1. ClientOpened = Chunks + cli.open.n /\ ClientOpened' = Chunks + cli'.open.n
      BY <1>0, <1>1, <1>a, <1>h DEF ClientBecomes, ClientOpened, Idx
    <3>2. CASE cli'.open.n = cli.open.n /\ Flow(Tail(s2c), ClientOpened, ServerSealed, tcp, cli.end)
      BY Zenon, <3>1, <3>2
    <3>3. CASE cli'.open.n = cli.open.n + 1 /\ Flow(Tail(s2c), ClientOpened + 1, ServerSealed, tcp, cli.end)
      <4>1. ClientOpened' = ClientOpened + 1
        BY <1>0, <1>a, <3>1, <3>3
      <4> QED BY Zenon, <3>3, <4>1
    <3> QED BY Zenon, <1>1, <3>2, <3>3 DEF ClientBecomes
  <2> QED BY Zenon, <1>3, <1>a, <1>d, <1>e, <1>h, <2>1, <1>ctl DEF DownOrder
<1>8. Residual'
  BY <1>0, <1>d, <1>e, <1>h, ResidualReads, <1>ends DEF Shape
<1> QED BY Zenon, <1>2, <1>4, <1>5, <1>6, <1>7, <1>8 DEF Body

\* ClientDownloads keeps the invariant on the QUIC plane.
LEMMA DownloadsQuic ==
  ASSUME Body, ClientDownloads, cli.plane = "quic" PROVE Body'
<1>ends. Shape /\ ClientAt /\ ServerAt
  BY Zenon DEF Body
<1>know. Agreed /\ Counted /\ Heard
  BY Zenon DEF Body
<1>ctl. UpOrder /\ UpSays /\ DownOrder /\ DownSays /\ Residual
  BY Zenon DEF Body
<1>bidi. BidiUp /\ BidiDown
  BY Zenon DEF Body
<1>0. /\ Chunks \in Nat /\ Chunks > 0 /\ cli.pc = "relay" /\ ~cli.dn /\ IsCodec(cli.open) /\ IsCodec(cli.seal)
      /\ quic.dn # <<>> /\ DownLeg = quic.dn /\ dn.got \in Nat /\ dn.sent \in Nat
  BY Zenon, Positions, <1>ends DEF Shape, ClientDownloads, DownLeg
<1>a. /\ cli.seal.e = 1 /\ cli.open.e = 1 /\ cli.end = "open" /\ cli.open.n \in Nat
  BY Zenon, <1>0, <1>ends DEF ClientAt, IsCodec
<1>b. /\ IsCodec(After(cli.open, 1)) /\ After(cli.open, 1).e = cli.open.e
      /\ After(cli.open, 1).n = cli.open.n + 1
  BY Zenon, <1>0, AfterOne
<1>d. srv' = srv /\ c2s' = c2s /\ tcp' = tcp /\ up' = up
  BY Zenon DEF ClientDownloads
<1>m. /\ In(Tail(quic.dn)) \subseteq In(quic.dn) /\ srv.plane = "quic"
      /\ \/ /\ Head(quic.dn) = Fin
            /\ Flow(Tail(quic.dn), Chunks + Chunks + 1 + dn.got, Chunks + Chunks + 1 + dn.sent,
                    Leg(srv.plane), quic.close)
            /\ srv.end # "open" \/ srv.dn
            /\ dn.got = dn.sent
         \/ /\ Head(quic.dn) # Fin /\ Opens(cli.open, Head(quic.dn))
            /\ Flow(Tail(quic.dn), Chunks + Chunks + 1 + (dn.got + 1), Chunks + Chunks + 1 + dn.sent,
                    Leg(srv.plane), quic.close)
  BY Zenon, <1>0, DownloadMeetsQuic
<1>1. \/ /\ ClientBecomes("relay", 1, cli.seal.n, cli.open.n, cli.frag, cli.skipped, "quic", cli.up, TRUE, cli.end)
         /\ dn' = dn /\ (srv.end # "open" \/ srv.dn) /\ dn.got = dn.sent
         /\ Flow(Tail(quic.dn), Chunks + Chunks + 1 + dn'.got, Chunks + Chunks + 1 + dn'.sent,
                    Leg(srv.plane), quic.close)
      \/ /\ ClientBecomes("relay", 1, cli.seal.n, cli.open.n + 1, cli.frag, cli.skipped, "quic", cli.up, cli.dn, cli.end)
         /\ dn'.got = dn.got + 1 /\ dn'.sent = dn.sent /\ DOMAIN dn' = DOMAIN dn
         /\ Flow(Tail(quic.dn), Chunks + Chunks + 1 + dn'.got, Chunks + Chunks + 1 + dn'.sent,
                    Leg(srv.plane), quic.close)
  <2>1. CASE Head(quic.dn) = Fin
    <3>1. ~Opens(cli.open, Head(quic.dn))
      BY <1>a, <2>1, FinIs DEF Opens, Plain
    <3>2. cli' = [cli EXCEPT !.dn = TRUE] /\ dn' = dn
      BY Zenon, <1>0, <2>1, <3>1 DEF ClientDownloads
    <3> QED BY Zenon, <1>0, <1>a, <1>m, <2>1, <3>2, <1>ends DEF ClientBecomes, Shape
  <2>2. CASE Head(quic.dn) # Fin
    <3>1. dn'.got = dn.got + 1 /\ dn'.sent = dn.sent /\ DOMAIN dn' = DOMAIN dn
      BY Zenon, <1>0, <1>m, <2>2, <1>ends DEF ClientDownloads, Shape
    <3>2. ClientBecomes("relay", 1, cli.seal.n, cli.open.n + 1, cli.frag, cli.skipped, "quic", cli.up, cli.dn, cli.end)
      <4>1. cli' = [cli EXCEPT !.open = After(@, 1)]
        BY Zenon, <1>0, <1>m, <2>2 DEF ClientDownloads
      <4> QED BY Zenon, <1>0, <1>a, <1>b, <4>1, <1>ends DEF ClientBecomes, Shape
    <3> QED BY Zenon, <1>m, <2>2, <3>1, <3>2
  <2> QED BY Zenon, <2>1, <2>2
<1>e. /\ s2c' = s2c /\ quic'.dn = Tail(quic.dn) /\ DOMAIN quic' = DOMAIN quic
      /\ quic'.up = quic.up /\ quic'.close = quic.close
  BY Zenon, <1>0, <1>m, <1>ends DEF ClientDownloads, TakeDown, Shape
<1>h. /\ dn'.sent = dn.sent /\ dn'.got \in Nat /\ DOMAIN dn' = DOMAIN dn /\ cli'.seal = cli.seal
      /\ cli'.pc = "relay" /\ cli'.plane = "quic" /\ cli'.up = cli.up /\ cli'.end = cli.end /\ cli'.skipped = cli.skipped
  <2>1. dn.got + 1 \in Nat
    BY <1>0
  <2>2. cli'.seal = cli.seal
    BY Zenon, <1>0, <1>m, <1>ends DEF ClientDownloads, ClientEndsAs, Shape
  <2> QED BY Zenon, <1>0, <1>1, <2>1, <2>2 DEF ClientBecomes
<1>2. Shape' /\ ClientAt' /\ ServerAt' /\ Agreed' /\ Counted' /\ Heard'
  <2>0. Shape'
    BY Zenon, <1>0, <1>1, <1>d, <1>e, <1>h, <1>ends DEF ClientBecomes, Shape
  <2>1. ClientAt'
    <3>1. cli'.open.n = Chunks + 1 + dn'.got /\ cli'.open.e = 1
      <4>1. cli.open.n = Chunks + 1 + dn.got
        BY Zenon, <1>0, <1>ends DEF ClientAt
      <4>2. (cli'.open.n = cli.open.n /\ dn'.got = dn.got) \/ (cli'.open.n = cli.open.n + 1 /\ dn'.got = dn.got + 1)
        BY Zenon, <1>1 DEF ClientBecomes
      <4> QED BY <1>0, <1>1, <4>1, <4>2 DEF ClientBecomes
    <3> QED BY <1>0, <1>a, <1>d, <1>h, <3>1, <1>ends DEF ClientAt
  <2>2. ServerAt' /\ Agreed' /\ Counted'
    BY <1>0, <1>a, <1>d, <1>h, <1>m, <1>ends, <1>know DEF ServerAt, Agreed, Unoffered, Counted
  <2>4. Heard'
    BY Zenon, <1>0, <1>1, <1>a, <1>d, <1>h, <1>know DEF ClientBecomes, Heard
  <2> QED BY Zenon, <2>0, <2>1, <2>2, <2>4
<1>3. /\ ClientSealed' = ClientSealed /\ ServerOpened' = ServerOpened /\ ServerSealed' = ServerSealed
      /\ ClientOpened' = ClientOpened
  BY Zenon, <1>0, <1>a, <1>d, <1>h DEF ClientSealed, ServerOpened, ServerSealed, ClientOpened, Idx
<1>4. UpOrder' /\ BidiUp' /\ DownOrder' /\ Residual'
  BY Zenon, <1>0, <1>3, <1>d, <1>e, <1>h, <1>ctl, <1>bidi
     DEF UpOrder, BidiUp, DownOrder, Residual, Tolerable
<1>5. UpSays' /\ DownSays'
  BY <1>0, <1>d, <1>e, <1>h, <1>ctl DEF UpSays, UpRec, DownSays, DownRec, Unoffered
<1>6. BidiDown'
  <2>1. Flow(Tail(quic.dn), Chunks + Chunks + 1 + dn'.got, Chunks + Chunks + 1 + dn'.sent,
                    Leg(srv.plane), quic.close)
    BY Zenon, <1>1
  <2>2. \A r \in In(quic'.dn) : /\ r.e # 0 /\ r.m # "done"
                                /\ r.m = "fin" => r = Fin /\ (srv.dn \/ srv.end # "open")
    BY Zenon, <1>e, <1>m, BidiDownFlow
  <2> QED BY Zenon, <1>d, <1>e, <1>m, <2>1, <2>2, <1>bidi DEF BidiDown
<1> QED BY Zenon, <1>2, <1>4, <1>5, <1>6 DEF Body

-----------------------------------------------------------------------------
(* The client exchanges DONE *)

\* ClientSendsDone keeps the invariant: DONE takes the number behind the
\* data but travels on the control connection (client_exchange_quic_done).
LEMMA SendsDone ==
  ASSUME Body, ClientSendsDone PROVE Body'
<1>ends. Shape /\ ClientAt /\ ServerAt
  BY Zenon DEF Body
<1>know. Agreed /\ Counted /\ Heard
  BY Zenon DEF Body
<1>ctl. UpOrder /\ UpSays /\ DownOrder /\ DownSays /\ Residual
  BY Zenon DEF Body
<1>bidi. BidiUp /\ BidiDown
  BY Zenon DEF Body
<1>0. /\ Chunks \in Nat /\ Chunks > 0 /\ cli.pc = "relay" /\ cli.up /\ cli.dn /\ IsCodec(cli.open) /\ IsCodec(cli.seal)
      /\ cli.plane = "quic" /\ up.sent \in Nat
  BY Zenon, Positions, <1>ends DEF Shape, ClientSendsDone, Joined
<1>a. /\ cli.seal.e = 1 /\ cli.open.e = 1 /\ cli.end = "open" /\ cli.seal.n = 3 + up.sent
  BY Zenon, <1>0, <1>ends DEF ClientAt
<1>b. /\ IsCodec(After(cli.seal, 1)) /\ After(cli.seal, 1).e = cli.seal.e
      /\ After(cli.seal, 1).n = cli.seal.n + 1 /\ cli.seal.n \in Nat
  BY Zenon, <1>0, AfterOne DEF IsCodec
<1>1. /\ ClientBecomes("done", 1, cli.seal.n + 1, cli.open.n, cli.frag, cli.skipped, "quic", cli.up, cli.dn, cli.end)
      /\ srv' = srv /\ s2c' = s2c /\ tcp' = tcp /\ quic' = quic /\ up' = up /\ dn' = dn
  BY Zenon, <1>0, <1>a, <1>b, <1>ends DEF ClientBecomes, ClientSendsDone, Shape
<1>2. Shape' /\ ClientAt' /\ ServerAt' /\ Agreed' /\ Counted' /\ Heard'
  <2>0. Shape'
    BY Zenon, <1>1, <1>ends DEF ClientBecomes, Shape
  <2>1. ClientAt'
    BY <1>0, <1>1, <1>a, <1>b, <1>ends DEF ClientBecomes, ClientAt
  <2>2. ServerAt' /\ Agreed' /\ Heard'
    BY <1>0, <1>1, <1>a, <1>ends, <1>know DEF ClientBecomes, ServerAt, Agreed, Unoffered, Heard
  <2>3. Counted'
    BY Zenon, <1>0, <1>1, <1>know DEF ClientBecomes, Counted, Agreed
  <2> QED BY Zenon, <2>0, <2>1, <2>2, <2>3
<1>3. /\ ClientSealed' = ClientSealed
      /\ ServerOpened' = ServerOpened /\ ServerSealed' = ServerSealed /\ ClientOpened' = ClientOpened
  BY <1>0, <1>1, <1>a, <1>b
     DEF ClientBecomes, ClientSealed, ServerOpened, ServerSealed, ClientOpened, Idx
<1>4. DownOrder' /\ BidiUp' /\ BidiDown' /\ Residual'
  BY Zenon, <1>0, <1>1, <1>3, <1>ctl, <1>bidi
     DEF ClientBecomes, DownOrder, BidiUp, BidiDown, Residual, Tolerable
<1>5. DownSays'
  BY Zenon, <1>0, <1>1, <1>ctl DEF ClientBecomes, DownSays, DownRec, Unoffered
<1> DEFINE x == [e |-> cli.seal.e, n |-> cli.seal.n, m |-> "done"]
<1>6. Seal(cli.seal, "done") = <<x>> /\ x \in Rec
  BY Zenon, <1>0, SealIs DEF Msg
<1>7. x.m = "done" /\ x.m \in Last /\ x.e = 1 /\ x.n = cli.seal.n
  BY Zenon, <1>a DEF Last
<1>8. ToServer(<<x>>)
  BY Zenon, <1>6 DEF ClientSendsDone
<1> HIDE DEF x
<1>9. Open(c2s)
  BY Zenon, <1>0, <1>ctl DEF UpSays, UpRec, Open, Last
<1>10. /\ Flow(c2s', ServerOpened, ClientSealed, tcp, srv.end)
       /\ srv.end # "open" => c2s' = <<>>
       /\ \A r \in In(c2s') : UpRec(r) \/ r = x
  BY <1>6, <1>7, <1>8, <1>9, UpLast DEF Plain
<1>11. UpOrder'
  BY Zenon, <1>1, <1>3, <1>10, <1>ctl DEF UpOrder
<1>12. UpSays'
  <2>1. ASSUME NEW r, UpRec(r) PROVE UpRec(r)'
    BY Zenon, <1>0, <1>1, <2>1 DEF ClientBecomes, UpRec
  <2>2. ASSUME NEW r, r.m = "done", r.e = 1, r.n = 3 + up.sent PROVE UpRec(r)'
    BY <1>0, <1>1, <2>2 DEF ClientBecomes, UpRec
  <2>3. \A r \in In(c2s') : UpRec(r) \/ (r.m = "done" /\ r.e = 1 /\ r.n = 3 + up.sent)
    BY Zenon, <1>7, <1>10, <1>a
  <2> QED BY Zenon, <2>1, <2>2, <2>3, <1>ctl DEF UpSays
<1> QED BY Zenon, <1>2, <1>4, <1>5, <1>11, <1>12 DEF Body

\* ClientSeesClose keeps the invariant.
LEMMA SeesClose ==
  ASSUME Body, ClientSeesClose PROVE Body'
<1>ends. Shape /\ ClientAt /\ ServerAt
  BY Zenon DEF Body
<1>know. Agreed /\ Counted /\ Heard
  BY Zenon DEF Body
<1>ctl. UpOrder /\ UpSays /\ DownOrder /\ DownSays /\ Residual
  BY Zenon DEF Body
<1>bidi. BidiUp /\ BidiDown
  BY Zenon DEF Body
<1>0. /\ cli.pc = "done" /\ IsCodec(cli.open) /\ IsCodec(cli.seal)
  BY Zenon, <1>ends DEF Shape, ClientSeesClose
<1>a. /\ cli.seal.e = 1 /\ cli.open.e = 1 /\ cli.end = "open" /\ cli.plane = "quic"
  BY Zenon, <1>0, <1>ends DEF ClientAt
<1>1. /\ ClientBecomes("grace", 1, cli.seal.n, cli.open.n, cli.frag, cli.skipped, "quic", cli.up, cli.dn, cli.end)
      /\ srv' = srv /\ c2s' = c2s /\ s2c' = s2c /\ tcp' = tcp /\ quic' = quic /\ up' = up /\ dn' = dn
  BY Zenon, <1>0, <1>a, <1>ends DEF ClientBecomes, ClientSeesClose, Shape
<1>2. Shape' /\ ClientAt' /\ ServerAt' /\ Agreed' /\ Counted' /\ Heard'
  <2>0. Shape' /\ ClientAt'
    BY <1>0, <1>1, <1>a, <1>ends DEF ClientBecomes, Shape, ClientAt
  <2>2. ServerAt' /\ Agreed' /\ Counted' /\ Heard'
    <3>1. ServerAt'
      BY Zenon, <1>1, <1>ends, ServerStays
    <3>2. Agreed' /\ Counted' /\ Heard'
      BY Zenon, <1>0, <1>1, <1>a, <1>know
         DEF ClientBecomes, Agreed, Unoffered, Counted, Heard
    <3> QED BY Zenon, <3>1, <3>2
  <2> QED BY Zenon, <2>0, <2>2
<1>3. /\ ClientSealed' = ClientSealed
      /\ ServerOpened' = ServerOpened /\ ServerSealed' = ServerSealed /\ ClientOpened' = ClientOpened
  BY Zenon, <1>0, <1>1, <1>a
     DEF ClientBecomes, ClientSealed, ServerOpened, ServerSealed, ClientOpened, Idx
<1>4. UpOrder' /\ DownOrder' /\ BidiUp' /\ BidiDown' /\ Residual'
  BY Zenon, <1>0, <1>1, <1>3, <1>a, <1>ctl, <1>bidi
     DEF ClientBecomes, UpOrder, DownOrder, BidiUp, BidiDown, Residual, Tolerable
<1>5. UpSays' /\ DownSays'
  BY <1>0, <1>1, <1>a, <1>ctl DEF ClientBecomes, UpSays, UpRec, DownSays, DownRec, Unoffered
<1> QED BY Zenon, <1>2, <1>4, <1>5 DEF Body

-----------------------------------------------------------------------------
(* The server waits *)

\* A step of the server that writes and reads nothing keeps what is known of
\* the connections.
LEMMA ServerMoves ==
  ASSUME Body, QuicStays, NEW pc, NEW spent, NEW have, NEW u,
         ServerBecomes(pc, srv.seal.e, srv.seal.n, srv.open.n, srv.frag, srv.fwd, spent, have,
                       srv.plane, u, srv.dn, srv.end),
         cli' = cli, c2s' = c2s, s2c' = s2c, tcp' = tcp, up' = up, dn' = dn,
         pc = "prepq" => srv.pc = "prepq", Unoffered' => Unoffered,
         srv.pc \in {"done", "grace", "ended"} => pc \in {"done", "grace", "ended"},
         srv.up => u
  PROVE  /\ UpOrder' /\ UpSays' /\ DownOrder' /\ DownSays' /\ BidiUp' /\ BidiDown' /\ Residual'
         /\ ClientAt' /\ Counted'
<1>ends. Shape /\ ClientAt /\ ServerAt
  BY Zenon DEF Body
<1>know. Agreed /\ Counted /\ Heard
  BY Zenon DEF Body
<1>ctl. UpOrder /\ UpSays /\ DownOrder /\ DownSays /\ Residual
  BY Zenon DEF Body
<1>0. /\ srv'.plane = srv.plane /\ srv'.dn = srv.dn /\ srv'.end = srv.end /\ srv'.pc = pc /\ srv'.up = u
      /\ srv'.fwd = srv.fwd
      /\ srv'.seal.e = srv.seal.e /\ srv'.seal.n = srv.seal.n /\ srv'.open.n = srv.open.n
      /\ srv'.open.e = srv.open.e
  BY <1>ends DEF ServerBecomes, ServerAt
<1>1. /\ ClientSealed' = ClientSealed
      /\ ServerOpened' = ServerOpened /\ ServerSealed' = ServerSealed /\ ClientOpened' = ClientOpened
  BY <1>0 DEF ClientSealed, ServerOpened, ServerSealed, ClientOpened, Idx
<1>2. BidiUp' /\ BidiDown'
  BY <1>0, BidiStops
<1>3. UpOrder' /\ UpSays' /\ DownOrder'
  BY <1>0, <1>1, <1>ctl DEF UpOrder, UpSays, UpRec, DownOrder
<1>4. DownSays'
  BY <1>0, <1>ctl DEF DownSays, DownRec
<1>5. Residual'
  BY <1>0, <1>ctl DEF Residual, Tolerable
<1>6. ClientAt' /\ Counted'
  BY <1>0, <1>ends, <1>know DEF ClientAt, Counted
<1> QED BY <1>2, <1>3, <1>4, <1>5, <1>6

\* The steps of the server that write and read nothing keep the invariant.
LEMMA ServerPauses ==
  ASSUME Body, OriginCloses \/ ServerCommits \/ ProbeDeadline \/ ServerTakesConn \/ ServerEchoes
               \/ ServerKeepsConn \/ ServerLosesConn \/ ServerReadsEof \/ ServerSeesClose
  PROVE  Body'
<1>ends. Shape /\ ClientAt /\ ServerAt
  BY Zenon DEF Body
<1>know. Agreed /\ Counted /\ Heard
  BY Zenon DEF Body
<1>0. /\ cli' = cli /\ c2s' = c2s /\ s2c' = s2c /\ tcp' = tcp /\ up' = up /\ dn' = dn
  BY Zenon
     DEF OriginCloses, ServerCommits, ProbeDeadline, ServerTakesConn, ServerEchoes, ServerKeepsConn, ServerLosesConn, ServerReadsEof, ServerSeesClose
<1>1. QuicStays
  <2>1. ServerLosesConn => CloseQuic("zero")
    BY Zenon DEF ServerLosesConn
  <2>2. ServerTakesConn \/ ServerEchoes => QuicStays
    BY Zenon, <1>ends DEF ServerTakesConn, ServerEchoes, QuicStays, Shape
  <2>3. OriginCloses \/ ServerCommits \/ ProbeDeadline \/ ServerKeepsConn \/ ServerReadsEof \/ ServerSeesClose => quic' = quic
    BY Zenon
       DEF OriginCloses, ServerCommits, ProbeDeadline, ServerKeepsConn, ServerReadsEof, ServerSeesClose
  <2>4. ASSUME NEW code, code # "open", CloseQuic(code) \/ quic' = quic PROVE QuicStays
    BY Zenon, <2>4, QuicCloses
  <2>5. "zero" # "open"
    BY Zenon
  <2> QED BY <2>1, <2>2, <2>3, <2>4, <2>5
<1>2. ServerBecomes(srv'.pc, srv.seal.e, srv.seal.n, srv.open.n, srv.frag, srv.fwd, srv'.spent, srv'.have,
                    srv.plane, srv'.up, srv.dn, srv.end)
  <2>1. IsCodec(srv.seal) /\ IsCodec(srv.open) /\ srv.open.e = srv.seal.e
    BY Zenon, <1>ends DEF Shape, ServerAt
  <2>2. CASE OriginCloses
    BY Zenon, <2>1, <2>2, <1>ends DEF OriginCloses, ServerBecomes, Shape
  <2>3. CASE ServerCommits
    BY Zenon, <2>1, <2>3, <1>ends DEF ServerCommits, ServerBecomes, Shape
  <2>4. CASE ProbeDeadline
    BY Zenon, <2>1, <2>4, <1>ends DEF ProbeDeadline, ServerBecomes, Shape
  <2>5. CASE ServerTakesConn
    BY Zenon, <2>1, <2>5, <1>ends DEF ServerTakesConn, ServerBecomes, Shape
  <2>6. CASE ServerEchoes
    BY Zenon, <2>1, <2>6, <1>ends DEF ServerEchoes, ServerBecomes, Shape
  <2>7. CASE ServerKeepsConn
    BY Zenon, <2>1, <2>7, <1>ends DEF ServerKeepsConn, ServerBecomes, Shape
  <2>8. CASE ServerLosesConn
    BY Zenon, <2>1, <2>8, <1>ends DEF ServerLosesConn, ServerBecomes, Shape
  <2>9. CASE ServerReadsEof
    BY Zenon, <2>1, <2>9, <1>ends DEF ServerReadsEof, ServerBecomes, Shape
  <2>10. CASE ServerSeesClose
    BY Zenon, <2>1, <2>10, <1>ends DEF ServerSeesClose, ServerBecomes, Shape
  <2> QED BY Zenon, <2>2, <2>3, <2>4, <2>5, <2>6, <2>7, <2>8, <2>9, <2>10
<1>3. \/ /\ srv'.pc = srv.pc /\ srv'.spent = srv.spent /\ srv'.have = srv.have
         /\ \/ srv'.up = srv.up
            \/ srv.pc = "relay" /\ srv.plane = "tcp" /\ cli.end # "open" /\ srv'.up = TRUE
      \/ /\ srv.pc = "commit" /\ srv'.pc = "keyx" /\ srv'.spent = TRUE /\ srv'.have = srv.have /\ srv'.up = srv.up
      \/ /\ srv.pc = "handoff" /\ srv'.pc \in {"ack", "serve"} /\ srv'.spent = srv.spent
         /\ srv'.have = srv.have /\ srv'.up = srv.up
      \/ /\ srv.pc = "serve" /\ srv'.pc = "ack" /\ srv'.spent = srv.spent
         /\ srv'.have \in {srv.have, TRUE} /\ srv'.up = srv.up
      \/ /\ srv.pc = "done" /\ srv'.pc = "grace" /\ srv'.spent = srv.spent
         /\ srv'.have = srv.have /\ srv'.up = srv.up
  <2>2. CASE OriginCloses
    BY Zenon, <2>2, <1>ends DEF OriginCloses, Shape
  <2>3. CASE ServerCommits
    BY Zenon, <2>3, <1>ends DEF ServerCommits, Shape
  <2>4. CASE ProbeDeadline
    BY Zenon, <2>4, <1>ends DEF ProbeDeadline, Shape
  <2>5. CASE ServerTakesConn
    BY Zenon, <2>5, <1>ends DEF ServerTakesConn, Shape
  <2>6. CASE ServerEchoes
    BY Zenon, <2>6, <1>ends DEF ServerEchoes, Shape
  <2>7. CASE ServerKeepsConn
    BY Zenon, <2>7, <1>ends DEF ServerKeepsConn, Shape
  <2>8. CASE ServerLosesConn
    BY Zenon, <2>8, <1>ends DEF ServerLosesConn, Shape
  <2>9. CASE ServerReadsEof
    BY Zenon, <2>9, <1>ends DEF ServerReadsEof, Shape
  <2>10. CASE ServerSeesClose
    BY Zenon, <2>10, <1>ends DEF ServerSeesClose, Shape
  <2> QED BY Zenon, <2>2, <2>3, <2>4, <2>5, <2>6, <2>7, <2>8, <2>9, <2>10
<1>4. /\ srv'.seal.e = srv.seal.e /\ srv'.seal.n = srv.seal.n /\ srv'.open.n = srv.open.n
      /\ srv'.open.e = srv.seal.e /\ srv'.plane = srv.plane /\ srv'.dn = srv.dn /\ srv'.end = srv.end
      /\ srv'.frag = srv.frag
  BY Zenon, <1>2 DEF ServerBecomes
<1>5. ServerAt'
  <2>1. CASE srv'.pc = srv.pc /\ srv'.spent = srv.spent /\ srv'.have = srv.have /\ srv'.up = srv.up
    BY <1>0, <1>4, <2>1, <1>ends DEF ServerAt
  <2>2. CASE /\ srv'.pc = srv.pc /\ srv'.spent = srv.spent /\ srv'.have = srv.have
             /\ srv.pc = "relay" /\ srv.plane = "tcp" /\ srv'.up = TRUE
    BY <1>0, <1>4, <2>2, <1>ends DEF ServerAt
  <2>3. CASE srv.pc = "commit" /\ srv'.pc = "keyx" /\ srv'.spent = TRUE /\ srv'.have = srv.have /\ srv'.up = srv.up
    BY <1>0, <1>4, <2>3, <1>ends DEF ServerAt
  <2>4. CASE /\ srv.pc = "handoff" /\ srv'.pc \in {"ack", "serve"} /\ srv'.spent = srv.spent
             /\ srv'.have = srv.have /\ srv'.up = srv.up
    BY <1>0, <1>4, <2>4, <1>ends DEF ServerAt
  <2>5. CASE /\ srv.pc = "serve" /\ srv'.pc = "ack" /\ srv'.spent = srv.spent
             /\ srv'.have \in {srv.have, TRUE} /\ srv'.up = srv.up
    BY <1>0, <1>4, <2>5, <1>ends DEF ServerAt
  <2>6. CASE /\ srv.pc = "done" /\ srv'.pc = "grace" /\ srv'.spent = srv.spent
             /\ srv'.have = srv.have /\ srv'.up = srv.up
    BY Zenon, <1>0, <1>4, <2>6, <1>ends DEF ServerAt
  <2> QED BY Zenon, <1>3, <2>1, <2>2, <2>3, <2>4, <2>5, <2>6
<1>6. Unoffered' => Unoffered
  BY Zenon, <1>3, <1>4 DEF Unoffered
<1>7. Agreed' /\ Heard'
  <2>1. Agreed'
    BY Zenon, <1>0, <1>3, <1>4, <1>6, <1>ends, <1>know DEF Agreed, ServerAt
  <2>2. Heard'
    BY Zenon, <1>0, <1>3, <1>4, <1>know DEF Heard
  <2> QED BY Zenon, <2>1, <2>2
<1>8. Shape'
  <2>1. DOMAIN quic' = DOMAIN quic
    BY Zenon, <1>1 DEF QuicStays
  <2>2. srv'.up \in BOOLEAN
    BY Zenon, <1>3, <1>ends DEF Shape
  <2> QED BY Zenon, <1>0, <1>2, <2>1, <2>2, <1>ends DEF ServerBecomes, Shape
<1>9. /\ srv'.pc = "prepq" => srv.pc = "prepq"
      /\ srv.pc \in {"done", "grace", "ended"} => srv'.pc \in {"done", "grace", "ended"}
      /\ srv.up => srv'.up
  BY Zenon, <1>3
<1>10. /\ UpOrder' /\ UpSays' /\ DownOrder' /\ DownSays' /\ BidiUp' /\ BidiDown' /\ Residual'
       /\ ClientAt' /\ Counted'
  <2> DEFINE pc == srv'.pc
             spent == srv'.spent
             have == srv'.have
             u == srv'.up
  <2>1. /\ ServerBecomes(pc, srv.seal.e, srv.seal.n, srv.open.n, srv.frag, srv.fwd, spent, have,
                       srv.plane, u, srv.dn, srv.end)
        /\ pc = "prepq" => srv.pc = "prepq"
        /\ srv.pc \in {"done", "grace", "ended"} => pc \in {"done", "grace", "ended"}
        /\ srv.up => u
    BY Zenon, <1>2, <1>9
  <2> HIDE DEF pc, spent, have, u
  <2> QED BY Zenon, <1>0, <1>1, <1>6, <2>1, ServerMoves
<1> QED BY Zenon, <1>5, <1>7, <1>8, <1>10 DEF Body

-----------------------------------------------------------------------------
(* The server downloads *)

\* A record that the server seals for the bidi takes the next place.
LEMMA BidiDownPush ==
  ASSUME NEW lo \in Nat, NEW hi \in Nat, NEW leg, NEW m \in Msg, m \notin Last,
         Flow(quic.dn, lo, hi, leg, quic.close), Open(quic.dn), IsCodec(srv.seal), Idx(srv.seal) = hi,
         quic'.dn = IF leg = "up" /\ quic.close = "open" THEN quic.dn \o Seal(srv.seal, m) ELSE quic.dn
  PROVE  Flow(quic'.dn, lo, hi + 1, leg, quic.close)
BY Zenon, SentSeal DEF Sent

\* The server seals and writes one record on the bidi.
LEMMA BidiDownSeal ==
  ASSUME Body, NEW m \in Msg, m \notin Last, Open(quic.dn), Idx(srv.seal) = Chunks + Chunks + 1 + dn.sent,
         quic'.dn = IF Leg(srv.plane) = "up" /\ quic.close = "open" THEN quic.dn \o Seal(srv.seal, m) ELSE quic.dn
  PROVE  /\ Flow(quic'.dn, Chunks + Chunks + 1 + dn.got, Chunks + Chunks + 1 + (dn.sent + 1), Leg(srv.plane), quic.close)
         /\ \A r \in In(quic'.dn) : r \in In(quic.dn) \/ (r.e = srv.seal.e /\ r.n = srv.seal.n /\ r.m = m)
<1>1. IsCodec(srv.seal) /\ Chunks \in Nat /\ up.sent \in Nat /\ dn.sent \in Nat
  BY Zenon, Positions DEF Body, Shape
<1>3. Flow(quic'.dn, Chunks + Chunks + 1 + dn.got, (Chunks + Chunks + 1 + dn.sent) + 1, Leg(srv.plane), quic.close)
  BY Zenon, <1>1, BidiDownFlow, BidiDownPush
<1>4. (Chunks + Chunks + 1 + dn.sent) + 1 = Chunks + Chunks + 1 + (dn.sent + 1)
  BY <1>1
<1>5. quic.dn \in Seq(Rec)
  BY Zenon, BidiDownFlow
<1>6. ASSUME NEW r \in In(quic'.dn) PROVE r \in In(quic.dn) \/ (r.e = srv.seal.e /\ r.n = srv.seal.n /\ r.m = m)
  <2>1. CASE quic'.dn = quic.dn \o Seal(srv.seal, m)
    <3>1. r \in In(quic.dn \o Seal(srv.seal, m))
      BY Zenon, <1>6, <2>1
    <3> QED BY Zenon, <1>1, <1>5, <3>1, OneSealed
  <2>2. CASE quic'.dn = quic.dn
    BY Zenon, <2>2
  <2> QED BY Zenon, <2>1, <2>2
<1> QED BY Zenon, <1>3, <1>4, <1>6

\* ServerDownloads keeps the invariant on either plane
\* (server_download_loop).
LEMMA DownloadsFromTarget ==
  ASSUME Body, ServerDownloads PROVE Body'
<1>ends. Shape /\ ClientAt /\ ServerAt
  BY Zenon DEF Body
<1>know. Agreed /\ Counted /\ Heard
  BY Zenon DEF Body
<1>ctl. UpOrder /\ UpSays /\ DownOrder /\ DownSays /\ Residual
  BY Zenon DEF Body
<1>bidi. BidiUp /\ BidiDown
  BY Zenon DEF Body
<1>0. /\ Chunks \in Nat /\ Chunks > 0 /\ srv.pc = "relay" /\ ~srv.dn /\ IsCodec(srv.open) /\ IsCodec(srv.seal)
      /\ srv.plane \in {"none", "tcp", "quic"} /\ dn.sent \in Nat /\ dn.got \in Nat
  BY Zenon, Positions, <1>ends DEF Shape, ServerDownloads
<1>a. /\ srv.plane # "none" /\ srv.seal.e = 1 /\ srv.open.e = 1
      /\ srv.plane = "quic" => srv.seal.n = Chunks + 1 + dn.sent
      /\ srv.end = "open" /\ srv.plane = cli.plane
  BY Zenon, <1>0, <1>ends, <1>know DEF ServerAt, Agreed
<1>b. /\ IsCodec(After(srv.seal, 1)) /\ After(srv.seal, 1).e = srv.seal.e
      /\ After(srv.seal, 1).n = srv.seal.n + 1 /\ srv.seal.n \in Nat
  BY Zenon, <1>0, AfterOne DEF IsCodec
<1>d. /\ cli' = cli /\ c2s' = c2s /\ tcp' = tcp /\ up' = up
      /\ dn'.sent = dn.sent + 1 /\ dn'.got = dn.got /\ DOMAIN dn' = DOMAIN dn
  BY Zenon, <1>ends DEF ServerDownloads, Shape
<1>1. ServerBecomes("relay", 1, srv.seal.n + 1, srv.open.n, srv.frag, srv.fwd, srv.spent,
                    srv.have, srv.plane, srv.up, srv.dn, srv.end)
  BY Zenon, <1>0, <1>a, <1>b, <1>ends DEF ServerBecomes, ServerDownloads, Shape
<1>h. /\ srv'.pc = "relay" /\ srv'.plane = srv.plane /\ srv'.up = srv.up /\ srv'.dn = srv.dn
      /\ srv'.end = srv.end /\ srv'.have = srv.have /\ srv'.spent = srv.spent /\ srv'.fwd = srv.fwd
      /\ srv'.seal.e = 1 /\ srv'.seal.n = srv.seal.n + 1 /\ srv'.open.e = 1 /\ srv'.open.n = srv.open.n
  BY Zenon, <1>1 DEF ServerBecomes
<1>e. /\ DOMAIN quic' = DOMAIN quic /\ quic'.close = quic.close /\ quic'.up = quic.up
      /\ srv.plane = "tcp" => quic' = quic /\ ToClient(Seal(srv.seal, "data"))
      /\ srv.plane = "quic" =>
           /\ s2c' = s2c
           /\ quic'.dn = IF Leg(srv.plane) = "up" /\ quic.close = "open"
                           THEN quic.dn \o Seal(srv.seal, "data") ELSE quic.dn
  BY Zenon, <1>ends DEF ServerDownloads, PutDown, Shape, Leg
<1>2. Shape' /\ ClientAt' /\ ServerAt' /\ Agreed' /\ Counted' /\ Heard'
  <2>0. Shape'
    BY <1>0, <1>1, <1>d, <1>e, <1>ends DEF ServerBecomes, Shape
  <2>1. ClientAt' /\ Agreed'
    BY <1>0, <1>a, <1>d, <1>h, <1>ends, <1>know DEF ClientAt, Agreed, Unoffered
  <2>2. ServerAt'
    BY <1>0, <1>a, <1>b, <1>d, <1>h, <1>ends DEF ServerAt
  <2>3. Counted'
    <3>1. srv.plane = "tcp" => srv'.seal.n + dn'.got = cli.open.n + dn'.sent
      <4>1. srv.plane = "tcp" => srv.seal.n + dn.got = cli.open.n + dn.sent
        BY Zenon, <1>a, <1>know DEF Counted
      <4>2. cli.open.n \in Nat
        BY Zenon, <1>ends DEF Shape, IsCodec
      <4> QED BY <1>0, <1>b, <1>d, <1>h, <4>1, <4>2
    <3> QED BY Zenon, <1>a, <1>d, <1>h, <3>1, <1>know DEF Counted
  <2>4. Heard'
    BY Zenon, <1>0, <1>a, <1>d, <1>h, <1>know DEF Heard
  <2> QED BY Zenon, <2>0, <2>1, <2>2, <2>3, <2>4
<1>3. /\ srv.plane = "tcp" => ServerSealed' = ServerSealed + 1 /\ ServerSealed = Idx(srv.seal)
      /\ srv.plane = "quic" => ServerSealed' = ServerSealed
      /\ ServerOpened' = ServerOpened /\ ClientSealed' = ClientSealed /\ ClientOpened' = ClientOpened
  BY <1>0, <1>a, <1>b, <1>d, <1>h DEF ClientSealed, ServerOpened, ServerSealed, ClientOpened, Idx
<1>4. UpOrder' /\ UpSays' /\ BidiUp'
  BY <1>3, <1>d, <1>e, <1>h, <1>ctl, <1>bidi DEF UpOrder, UpSays, UpRec, BidiUp
<1>f. "data" \in Msg /\ "data" \notin Last /\ "data" # "head"
  BY Zenon DEF Msg, Last
<1>6. CASE srv.plane = "tcp"
  <2>1. BidiDown'
    <3>1. quic.dn = <<>> /\ In(<<>>) = {}
      BY Zenon, <1>6, Nothing, <1>bidi DEF BidiDown
    <3>2. Flow(quic.dn, Chunks + Chunks + 1 + dn.got, Chunks + Chunks + 1 + (dn.sent + 1), Leg(srv.plane), quic.close)
      <4>1. Chunks + Chunks + 1 + dn.got <= Chunks + Chunks + 1 + dn.sent
        BY Zenon, BidiDownFlow, FlowIs
      <4>2. Chunks + Chunks + 1 + dn.got <= Chunks + Chunks + 1 + (dn.sent + 1)
        BY <1>0, <4>1
      <4>3. Partial(<<>>, Chunks + Chunks + 1 + dn.got, Chunks + Chunks + 1 + (dn.sent + 1))
        BY <1>0, <4>2, NoneLeft
      <4> QED BY Zenon, <1>6, <3>1, <4>3 DEF Flow, Leg
    <3> QED BY Zenon, <1>6, <1>d, <1>e, <1>h, <3>1, <3>2, <1>bidi DEF BidiDown
  <2>2. Open(s2c)
    BY Zenon, <1>0, <1>6, <1>a, <1>ctl DEF DownSays, DownRec, Open, Last
  <2>3. /\ Flow(s2c', ClientOpened, ServerSealed + 1, tcp, cli.end)
        /\ cli.end # "open" => s2c' = <<>>
        /\ \A r \in In(s2c') : (DownRec(r) /\ r \in In(s2c)) \/ (r.e = srv.seal.e /\ r.n = srv.seal.n /\ r.m = "data")
    BY Zenon, <1>3, <1>6, <1>e, <1>f, <2>2, DownSeal
  <2>4. DownOrder'
    BY Zenon, <1>3, <1>6, <1>d, <2>3, <1>ctl DEF DownOrder
  <2>5. DownSays'
    <3>1. ASSUME NEW r, DownRec(r) PROVE DownRec(r)'
      BY Zenon, <1>0, <1>6, <1>d, <1>h, <3>1 DEF DownRec, Unoffered
    <3>2. ASSUME NEW r, r.e = 1, r.m = "data" PROVE DownRec(r)'
      BY <3>2 DEF DownRec
    <3> QED BY Zenon, <1>a, <2>3, <3>1, <3>2, <1>ctl DEF DownSays
  <2>6. Residual'
    <3>1. srv'.pc # "prepq" /\ ToClient(Seal(srv.seal, "data"))
      BY Zenon, <1>6, <1>e, <1>h
    <3> QED BY Zenon, <1>d, <1>f, <3>1, ResidualSeals
  <2> QED BY Zenon, <1>2, <1>4, <2>1, <2>4, <2>5, <2>6 DEF Body
<1>7. CASE srv.plane = "quic"
  <2>1. DownOrder' /\ Residual'
    BY Zenon, <1>3, <1>7, <1>d, <1>e, <1>h, <1>ctl DEF DownOrder, Residual, Tolerable
  <2>2. DownSays'
    <3>1. \A r \in In(s2c) : r.m # "done"
      BY Zenon, <1>0, <1>ctl DEF DownSays, DownRec
    <3> QED BY Zenon, <1>0, <1>7, <1>d, <1>e, <1>h, <3>1, <1>ctl DEF DownSays, DownRec, Unoffered
  <2>3. Open(quic.dn)
    BY Zenon, <1>0, <1>a, BidiDownFlow DEF Open, Last
  <2>4. Idx(srv.seal) = Chunks + Chunks + 1 + dn.sent
    BY <1>0, <1>7, <1>a DEF Idx
  <2>5. /\ Flow(quic'.dn, Chunks + Chunks + 1 + dn.got, Chunks + Chunks + 1 + (dn.sent + 1), Leg(srv.plane), quic.close)
        /\ \A r \in In(quic'.dn) : r \in In(quic.dn) \/ (r.e = srv.seal.e /\ r.n = srv.seal.n /\ r.m = "data")
    BY Zenon, <1>7, <1>e, <1>f, <2>3, <2>4, BidiDownSeal
  <2>8. Flow(quic'.dn, Chunks + Chunks + 1 + dn'.got, Chunks + Chunks + 1 + dn'.sent, Leg(srv'.plane), quic'.close)
    BY Zenon, <1>d, <1>e, <1>h, <2>5
  <2>9. \A r \in In(quic'.dn) : r.e # 0 /\ r.m # "done" /\ (r.m = "fin" => r = Fin /\ (srv'.dn \/ srv'.end # "open"))
    BY <1>a, <1>h, <2>5, BidiDownFlow
  <2>10. BidiDown'
    BY Zenon, <1>7, <1>h, <2>8, <2>9, <1>bidi DEF BidiDown
  <2> QED BY Zenon, <1>2, <1>4, <2>1, <2>2, <2>10 DEF Body
<1> QED BY Zenon, <1>0, <1>6, <1>7, <1>a DEF Body

\* The server finishes its half of the bidi.
LEMMA BidiDownFin ==
  ASSUME Body, Open(quic.dn), quic'.dn = Sent(quic.dn, <<Fin>>, Leg(srv.plane), quic.close)
  PROVE  /\ Flow(quic'.dn, Chunks + Chunks + 1 + dn.got, Chunks + Chunks + 1 + dn.sent, Leg(srv.plane), quic.close)
         /\ In(quic'.dn) \subseteq In(quic.dn) \cup {Fin}
<1>1. Fin \in Rec /\ Fin.e = Plain /\ Fin.m = "fin" /\ Fin.m \in Last
  BY Zenon, FinIs
<1>2. Flow(quic'.dn, Chunks + Chunks + 1 + dn.got, Chunks + Chunks + 1 + dn.sent, Leg(srv.plane), quic.close)
  BY Zenon, <1>1, BidiDownFlow, SentLast
<1>3. In(quic'.dn) \subseteq In(quic.dn) \cup {Fin}
  BY Zenon, <1>1, BidiDownFlow, OneMore DEF Sent
<1> QED BY Zenon, <1>2, <1>3

\* ServerDownloadEnds keeps the invariant: the end follows the last record.
LEMMA DownloadEnds ==
  ASSUME Body, ServerDownloadEnds PROVE Body'
<1>ends. Shape /\ ClientAt /\ ServerAt
  BY Zenon DEF Body
<1>know. Agreed /\ Counted /\ Heard
  BY Zenon DEF Body
<1>ctl. UpOrder /\ UpSays /\ DownOrder /\ DownSays /\ Residual
  BY Zenon DEF Body
<1>bidi. BidiUp /\ BidiDown
  BY Zenon DEF Body
<1>0. /\ Chunks \in Nat /\ Chunks > 0 /\ srv.pc = "relay" /\ ~srv.dn /\ IsCodec(srv.open) /\ IsCodec(srv.seal)
      /\ srv.plane \in {"none", "tcp", "quic"}
  BY Zenon, Positions, <1>ends DEF Shape, ServerDownloadEnds
<1>a. /\ srv.plane # "none" /\ srv.seal.e = 1 /\ srv.open.e = 1 /\ srv.end = "open" /\ srv.plane = cli.plane
  BY Zenon, <1>0, <1>ends, <1>know DEF ServerAt, Agreed
<1>d. cli' = cli /\ c2s' = c2s /\ tcp' = tcp /\ up' = up /\ dn' = dn
  BY Zenon DEF ServerDownloadEnds
<1>1. ServerBecomes("relay", 1, srv.seal.n, srv.open.n, srv.frag, srv.fwd, srv.spent,
                    srv.have, srv.plane, srv.up, TRUE, srv.end)
  BY Zenon, <1>0, <1>a, <1>ends DEF ServerBecomes, ServerDownloadEnds, Shape
<1>h. /\ srv'.pc = "relay" /\ srv'.plane = srv.plane /\ srv'.up = srv.up /\ srv'.dn
      /\ srv'.end = srv.end /\ srv'.have = srv.have /\ srv'.spent = srv.spent /\ srv'.fwd = srv.fwd
      /\ srv'.seal.e = 1 /\ srv'.seal.n = srv.seal.n /\ srv'.open.e = 1 /\ srv'.open.n = srv.open.n
  BY Zenon, <1>1 DEF ServerBecomes
<1>e. /\ DOMAIN quic' = DOMAIN quic /\ quic'.close = quic.close /\ quic'.up = quic.up
      /\ srv.plane = "tcp" => quic' = quic /\ ToClient(<<Fin>>)
      /\ srv.plane = "quic" =>
           /\ s2c' = s2c
           /\ quic'.dn = Sent(quic.dn, <<Fin>>, Leg(srv.plane), quic.close)
  BY Zenon, <1>ends DEF ServerDownloadEnds, PutDown, Shape, Leg, Sent
<1>2. Shape' /\ ClientAt' /\ ServerAt' /\ Agreed' /\ Counted' /\ Heard'
  <2>0. Shape'
    BY Zenon, <1>1, <1>d, <1>e, <1>ends DEF ServerBecomes, Shape
  <2>1. ServerAt'
    BY <1>0, <1>a, <1>d, <1>h, <1>ends DEF ServerAt
  <2>2. ClientAt' /\ Agreed' /\ Counted' /\ Heard'
    BY <1>0, <1>a, <1>d, <1>h, <1>ends, <1>know DEF ClientAt, Agreed, Unoffered, Counted, Heard
  <2> QED BY Zenon, <2>0, <2>1, <2>2
<1>3. /\ ClientSealed' = ClientSealed
      /\ ServerOpened' = ServerOpened /\ ServerSealed' = ServerSealed /\ ClientOpened' = ClientOpened
  BY Zenon, <1>a, <1>d, <1>h DEF ClientSealed, ServerOpened, ServerSealed, ClientOpened, Idx
<1>4. UpOrder' /\ UpSays' /\ BidiUp'
  BY <1>3, <1>d, <1>e, <1>h, <1>ctl, <1>bidi DEF UpOrder, UpSays, UpRec, BidiUp
<1>f. Fin \in Rec /\ Fin.e = Plain /\ Fin.m = "fin" /\ Fin.m \in Last
  BY Zenon, FinIs
<1>6. CASE srv.plane = "tcp"
  <2>1. BidiDown'
    BY Zenon, <1>6, <1>d, <1>e, <1>h, <1>bidi DEF BidiDown
  <2>2. Open(s2c)
    BY Zenon, <1>0, <1>6, <1>a, <1>ctl DEF DownSays, DownRec, Open, Last
  <2>3. /\ Flow(s2c', ClientOpened, ServerSealed, tcp, cli.end)
        /\ cli.end # "open" => s2c' = <<>>
        /\ \A r \in In(s2c') : (DownRec(r) /\ r \in In(s2c)) \/ r = Fin
    BY Zenon, <1>6, <1>e, <1>f, <2>2, DownLast
  <2>4. DownOrder'
    BY Zenon, <1>3, <1>6, <1>d, <2>3, <1>ctl DEF DownOrder
  <2>5. DownSays'
    <3>1. ASSUME NEW r, DownRec(r) PROVE DownRec(r)'
      BY Zenon, <1>0, <1>6, <1>d, <1>h, <3>1 DEF DownRec, Unoffered
    <3>2. ASSUME NEW r, r = Fin PROVE DownRec(r)'
      BY <1>6, <1>f, <1>h, <3>2 DEF DownRec, Plain
    <3> QED BY Zenon, <2>3, <3>1, <3>2, <1>ctl DEF DownSays
  <2>6. Residual'
    <3>1. <<Fin>> \in Seq(Rec) /\ In(<<Fin>>) = {Fin}
      BY <1>f DEF In
    <3>2. s2c' = s2c \/ s2c' = s2c \o <<Fin>>
      BY Zenon, <1>6, <1>e DEF ToClient
    <3> QED BY Zenon, <1>d, <1>f, <1>h, <3>1, <3>2, ResidualSends
  <2> QED BY Zenon, <1>2, <1>4, <2>1, <2>4, <2>5, <2>6 DEF Body
<1>7. CASE srv.plane = "quic"
  <2>1. DownOrder' /\ Residual'
    BY Zenon, <1>3, <1>7, <1>d, <1>e, <1>h, <1>ctl DEF DownOrder, Residual, Tolerable
  <2>2. DownSays'
    BY Zenon, <1>0, <1>7, <1>d, <1>e, <1>h, <1>ctl DEF DownSays, DownRec, Unoffered
  <2>3. Open(quic.dn)
    BY Zenon, <1>0, <1>a, BidiDownFlow DEF Open, Last
  <2>4. /\ Flow(quic'.dn, Chunks + Chunks + 1 + dn.got, Chunks + Chunks + 1 + dn.sent, Leg(srv.plane), quic.close)
        /\ In(quic'.dn) \subseteq In(quic.dn) \cup {Fin}
    BY Zenon, <1>7, <1>e, <2>3, BidiDownFin
  <2>5. \A r \in In(quic'.dn) : r.e # 0 /\ r.m # "done" /\ (r.m = "fin" => r = Fin /\ srv'.dn)
    BY <1>f, <1>h, <2>4, BidiDownFlow DEF Plain
  <2>10. BidiDown'
    BY Zenon, <1>7, <1>d, <1>e, <1>h, <2>4, <2>5, <1>bidi DEF BidiDown
  <2> QED BY Zenon, <1>2, <1>4, <2>1, <2>2, <2>10 DEF Body
<1> QED BY Zenon, <1>0, <1>6, <1>7, <1>a DEF Body

\* ServerDownloadFails keeps the invariant: the stream is finished, but the
\* server has gone.
LEMMA DownloadFails ==
  ASSUME Body, ServerDownloadFails PROVE Body'
<1>ends. Shape /\ ClientAt /\ ServerAt
  BY Zenon DEF Body
<1>know. Agreed /\ Counted /\ Heard
  BY Zenon DEF Body
<1>ctl. UpOrder /\ UpSays /\ DownOrder /\ DownSays /\ Residual
  BY Zenon DEF Body
<1>bidi. BidiUp /\ BidiDown
  BY Zenon DEF Body
<1>0. /\ srv.pc = "relay" /\ ~srv.dn /\ IsCodec(srv.open) /\ IsCodec(srv.seal) /\ c2s' = <<>>
      /\ srv.plane \in {"none", "tcp", "quic"}
      /\ cli' = cli /\ tcp' = tcp /\ up' = up /\ dn' = dn
  BY Zenon, <1>ends DEF Shape, ServerDownloadFails, ServerEndsAs
<1>a. /\ srv.plane # "none" /\ srv.seal.e = 1 /\ srv.open.e = 1 /\ srv.end = "open" /\ srv.plane = cli.plane
  BY Zenon, <1>0, <1>ends, <1>know DEF ServerAt, Agreed
<1>1. ServerBecomes("ended", 1, srv.seal.n, srv.open.n, srv.frag, srv.fwd, srv.spent,
                    srv.have, srv.plane, srv.up, srv.dn, "gone")
  BY Zenon, <1>0, <1>a, <1>ends DEF ServerBecomes, ServerDownloadFails, ServerEndsAs, Shape
<1>h. /\ srv'.pc = "ended" /\ srv'.plane = srv.plane /\ srv'.up = srv.up /\ srv'.dn = srv.dn
      /\ srv'.end = "gone" /\ srv'.have = srv.have /\ srv'.spent = srv.spent /\ srv'.fwd = srv.fwd
      /\ srv'.seal.e = 1 /\ srv'.seal.n = srv.seal.n /\ srv'.open.e = 1 /\ srv'.open.n = srv.open.n
  BY Zenon, <1>1 DEF ServerBecomes
<1>e. /\ DOMAIN quic' = DOMAIN quic /\ quic'.up = quic.up
      /\ srv.plane = "tcp" => quic' = quic /\ ToClient(<<Fin>>)
      /\ srv.plane = "quic" =>
           /\ s2c' = s2c /\ quic'.close # "open"
           /\ quic'.dn = Sent(quic.dn, <<Fin>>, Leg(srv.plane), quic.close)
  BY Zenon, <1>ends DEF ServerDownloadFails, Shape, Leg, Sent
<1>2. Shape' /\ ClientAt' /\ ServerAt' /\ Agreed' /\ Counted' /\ Heard'
  <2>0. Shape' /\ ClientAt'
    BY <1>0, <1>1, <1>e, <1>ends DEF ServerBecomes, Shape, ClientAt
  <2>1. ServerAt'
    BY <1>0, <1>a, <1>h, <1>ends DEF ServerAt
  <2>2. Agreed' /\ Counted' /\ Heard'
    BY Zenon, <1>0, <1>a, <1>h, <1>know DEF Agreed, Unoffered, Counted, Heard
  <2> QED BY Zenon, <2>0, <2>1, <2>2
<1>3. /\ ClientSealed' = ClientSealed
      /\ ServerOpened' = ServerOpened /\ ServerSealed' = ServerSealed /\ ClientOpened' = ClientOpened
  BY Zenon, <1>0, <1>a, <1>h DEF ClientSealed, ServerOpened, ServerSealed, ClientOpened, Idx
<1>4. UpOrder' /\ UpSays'
  <2>1. ASSUME NEW how, how # "open" PROVE Flow(<<>>, ServerOpened, ClientSealed, tcp, how)
    BY Zenon, <2>1, UpFlow, FlowStops
  <2>2. Flow(<<>>, ServerOpened, ClientSealed, tcp, srv'.end) /\ srv'.end # "open"
    BY Zenon, <1>h, <2>1
  <2> QED BY Zenon, <1>0, <1>3, <2>2, Nothing, <1>ctl DEF UpOrder, UpSays
<1>f. Fin \in Rec /\ Fin.e = Plain /\ Fin.m = "fin" /\ Fin.m \in Last
  BY Zenon, FinIs
<1>6. CASE srv.plane = "tcp"
  <2>1. BidiUp' /\ BidiDown'
    BY Zenon, <1>0, <1>6, <1>e, <1>h, <1>bidi DEF BidiUp, BidiDown
  <2>2. Open(s2c)
    BY Zenon, <1>0, <1>6, <1>a, <1>ctl DEF DownSays, DownRec, Open, Last
  <2>3. /\ Flow(s2c', ClientOpened, ServerSealed, tcp, cli.end)
        /\ cli.end # "open" => s2c' = <<>>
        /\ \A r \in In(s2c') : (DownRec(r) /\ r \in In(s2c)) \/ r = Fin
    BY Zenon, <1>6, <1>e, <1>f, <2>2, DownLast
  <2>4. DownOrder'
    BY Zenon, <1>0, <1>3, <1>6, <2>3, <1>ctl DEF DownOrder
  <2>5. DownSays'
    <3>1. ASSUME NEW r, DownRec(r) PROVE DownRec(r)'
      BY Zenon, <1>0, <1>6, <1>h, <3>1 DEF DownRec, Unoffered
    <3>2. ASSUME NEW r, r = Fin PROVE DownRec(r)'
      BY <1>6, <1>f, <1>h, <3>2 DEF DownRec, Plain
    <3> QED BY Zenon, <2>3, <3>1, <3>2, <1>ctl DEF DownSays
  <2>6. Residual'
    <3>1. <<Fin>> \in Seq(Rec) /\ In(<<Fin>>) = {Fin}
      BY <1>f DEF In
    <3>2. s2c' = s2c \/ s2c' = s2c \o <<Fin>>
      BY Zenon, <1>6, <1>e DEF ToClient
    <3> QED BY Zenon, <1>0, <1>f, <1>h, <3>1, <3>2, ResidualSends
  <2> QED BY Zenon, <1>2, <1>4, <2>1, <2>4, <2>5, <2>6 DEF Body
<1>7. CASE srv.plane = "quic"
  <2>1. DownOrder' /\ Residual'
    BY Zenon, <1>0, <1>3, <1>7, <1>e, <1>h, <1>ctl DEF DownOrder, Residual, Tolerable
  <2>2. DownSays'
    BY Zenon, <1>0, <1>7, <1>e, <1>h, <1>ctl DEF DownSays, DownRec, Unoffered
  <2>3. Open(quic.dn)
    BY Zenon, <1>0, <1>a, BidiDownFlow DEF Open, Last
  <2>4. /\ Flow(quic'.dn, Chunks + Chunks + 1 + dn.got, Chunks + Chunks + 1 + dn.sent, Leg(srv.plane), quic.close)
        /\ In(quic'.dn) \subseteq In(quic.dn) \cup {Fin}
    BY Zenon, <1>7, <1>e, <2>3, BidiDownFin
  <2>5. ASSUME NEW c, c # "open"
        PROVE  /\ Flow(quic'.dn, Chunks + Chunks + 1 + dn.got, Chunks + Chunks + 1 + dn.sent, Leg(srv.plane), c)
               /\ Flow(quic.up, Chunks + 3 + up.got, Chunks + 3 + up.sent, Leg(cli.plane), c)
    BY Zenon, <2>4, <2>5, BidiDownFlow, BidiUpFlow, FlowStops
  <2>6. \A r \in In(quic'.dn) : r.e # 0 /\ r.m # "done" /\ (r.m = "fin" => r = Fin)
    BY <1>f, <2>4, BidiDownFlow DEF Plain
  <2>7. BidiUp'
    BY Zenon, <1>0, <1>7, <1>e, <2>5, <1>bidi DEF BidiUp
  <2>8. BidiDown'
    BY Zenon, <1>0, <1>7, <1>e, <1>h, <2>5, <2>6, <1>bidi DEF BidiDown
  <2> QED BY Zenon, <1>2, <1>4, <2>1, <2>2, <2>7, <2>8 DEF Body
<1> QED BY Zenon, <1>0, <1>6, <1>7, <1>a DEF Body

-----------------------------------------------------------------------------
(* The server uploads *)

\* What the server's upload meets on the control connection: the end of the
\* stream after the last record, or the next record.
LEMMA UploadMeetsTcp ==
  ASSUME Body, srv.pc = "relay", srv.plane = "tcp", c2s # <<>>
  PROVE  \/ /\ Head(c2s) = Fin
            /\ Flow(Tail(c2s), ServerOpened, ClientSealed, tcp, srv.end)
            /\ cli.up /\ up.got = up.sent
         \/ /\ Head(c2s) # Fin /\ Opens(srv.open, Head(c2s)) /\ up.got + 1 <= up.sent
            /\ Flow(Tail(c2s), ServerOpened + 1, ClientSealed, tcp, srv.end)
<1>ends. Shape /\ ClientAt /\ ServerAt
  BY Zenon DEF Body
<1>know. Agreed /\ Counted /\ Heard
  BY Zenon DEF Body
<1> DEFINE r == Head(c2s)
<1>0. /\ Chunks \in Nat /\ Chunks > 0 /\ srv.open.e = 1 /\ srv.open.n \in Nat /\ cli.seal.n \in Nat
      /\ cli.seal.e = 1 /\ cli.seal.n + up.got = srv.open.n + up.sent
      /\ up.got \in Nat /\ up.sent \in Nat /\ cli.plane = "tcp"
  BY Zenon, Positions, <1>ends, <1>know DEF Shape, ServerAt, ClientAt, Counted, Agreed, IsCodec
<1>1. ServerOpened = Chunks + srv.open.n /\ ClientSealed = Chunks + cli.seal.n
  BY <1>0 DEF ServerOpened, ClientSealed, Idx
<1>z. /\ Chunks + srv.open.n = Chunks + cli.seal.n => up.got = up.sent
      /\ Chunks + srv.open.n < Chunks + cli.seal.n => up.got + 1 <= up.sent
  <2> DEFINE c == Chunks
             o == srv.open.n
             n == cli.seal.n
             g == up.got
             s == up.sent
  <2>1. c \in Nat /\ o \in Nat /\ n \in Nat /\ g \in Nat /\ s \in Nat /\ n + g = o + s
    BY Zenon, <1>0
  <2> HIDE DEF c, o, n, g, s
  <2>2. (c + o = c + n => g = s) /\ (c + o < c + n => g + 1 <= s)
    BY <2>1
  <2> QED BY Zenon, <2>2 DEF c, o, n, g, s
<1>2. CASE r.m \in Last
  <2>1. r = Fin /\ cli.up
    BY Zenon, <1>0, <1>2, UpTake DEF UpRec, Last
  <2>2. ServerOpened = ClientSealed /\ Flow(Tail(c2s), ServerOpened, ClientSealed, tcp, srv.end)
    BY Zenon, <1>2, UpTake
  <2>3. up.got = up.sent
    <3>1. Chunks + srv.open.n = Chunks + cli.seal.n
      BY Zenon, <1>1, <2>2
    <3> QED BY Zenon, <1>z, <3>1
  <2> QED BY Zenon, <2>1, <2>2, <2>3
<1>3. CASE r.m \notin Last
  <2>1. r.e # Plain
    BY <1>0, <1>1, <1>3, UpTake
  <2>2. Opens(srv.open, r)
    BY <1>0, <1>3, <2>1, HeadOpensUp
  <2>3. /\ ServerOpened < ClientSealed
        /\ Flow(Tail(c2s), ServerOpened + 1, ClientSealed, tcp, srv.end)
    BY Zenon, <1>3, <2>1, UpTake
  <2>4. up.got + 1 <= up.sent
    <3>1. Chunks + srv.open.n < Chunks + cli.seal.n
      BY Zenon, <1>1, <2>3
    <3> QED BY Zenon, <1>z, <3>1
  <2>5. r # Fin
    BY Zenon, <1>3, FinIs
  <2> QED BY Zenon, <2>2, <2>3, <2>4, <2>5
<1> QED BY Zenon, <1>2, <1>3

\* What the server's upload meets on the bidi.
LEMMA UploadMeetsQuic ==
  ASSUME Body, srv.pc = "relay", srv.plane = "quic", quic.up # <<>>
  PROVE  /\ In(Tail(quic.up)) \subseteq In(quic.up) /\ cli.plane = "quic"
         /\ \/ /\ Head(quic.up) = Fin
               /\ Flow(Tail(quic.up), Chunks + 3 + up.got, Chunks + 3 + up.sent,
                       Leg(cli.plane), quic.close)
               /\ cli.up /\ up.got = up.sent
            \/ /\ Head(quic.up) # Fin /\ Opens(srv.open, Head(quic.up))
               /\ Flow(Tail(quic.up), Chunks + 3 + (up.got + 1), Chunks + 3 + up.sent,
                       Leg(cli.plane), quic.close)
<1>ends. Shape /\ ClientAt /\ ServerAt
  BY Zenon DEF Body
<1> DEFINE q == quic.up
           h == Head(q)
           lo == Chunks + 3 + up.got
           hi == Chunks + 3 + up.sent
<1>0. /\ Chunks \in Nat /\ Chunks > 0 /\ srv.open.e = 1 /\ srv.open.n = 3 + up.got
      /\ up.got \in Nat /\ up.sent \in Nat
  BY Zenon, Positions, <1>ends DEF Shape, ServerAt
<1>1. /\ Flow(q, lo, hi, Leg(cli.plane), quic.close) /\ lo \in Nat /\ hi \in Nat /\ q # <<>>
      /\ \A x \in In(q) : x.e # 0 /\ x.m # "done" /\ (x.m = "fin" => x = Fin /\ cli.up)
      /\ cli.plane = "quic" /\ lo > 0 /\ (lo = hi => up.got = up.sent)
      /\ lo + 1 = Chunks + 3 + (up.got + 1)
  <2>1. lo > 0 /\ (lo = hi => up.got = up.sent) /\ lo + 1 = Chunks + 3 + (up.got + 1)
    BY <1>0
  <2>2. Flow(q, lo, hi, Leg(cli.plane), quic.close) /\ lo \in Nat /\ hi \in Nat
    BY Zenon, BidiUpFlow
  <2>3. \A x \in In(q) : x.e # 0 /\ x.m # "done" /\ (x.m = "fin" => x = Fin /\ cli.up)
    BY Zenon, BidiUpFlow
  <2>4. cli.plane = "quic"
    BY Zenon, BidiUpFlow
  <2> HIDE DEF q, lo, hi
  <2> QED BY Zenon, <2>1, <2>2, <2>3, <2>4 DEF q
<1> HIDE DEF q, lo, hi
<1>2. /\ h \in In(q) /\ h \in Rec /\ In(Tail(q)) \subseteq In(q)
      /\ h.e = Plain /\ h.m \notin Last => lo = 0
      /\ h.e # Plain /\ h.m \notin Last =>
              Idx(h) = lo /\ lo < hi /\ Flow(Tail(q), lo + 1, hi, Leg(cli.plane), quic.close)
      /\ h.m \in Last => lo = hi /\ Tail(q) = <<>> /\ Flow(Tail(q), lo, hi, Leg(cli.plane), quic.close)
  BY Zenon, <1>1, FlowTake
<1> HIDE DEF h
<1>3. CASE h.m \in Last
  <2>1. h = Fin /\ cli.up /\ up.got = up.sent
    BY Zenon, <1>1, <1>2, <1>3 DEF Last
  <2> QED BY Zenon, <1>1, <1>2, <1>3, <2>1 DEF q, h, lo, hi
<1>4. CASE h.m \notin Last
  <2>1. h.e = 1 /\ h.n \in Nat
    BY <1>1, <1>2, <1>4 DEF Rec, Plain
  <2>2. Idx(h) = lo /\ Flow(Tail(q), lo + 1, hi, Leg(cli.plane), quic.close)
    BY <1>2, <1>4, <2>1 DEF Plain
  <2>3. h.n = srv.open.n
    BY <1>0, <2>1, <2>2 DEF Idx, lo
  <2>4. h # Fin
    BY Zenon, <1>4, FinIs
  <2>5. Opens(srv.open, h)
    BY Zenon, <1>0, <2>1, <2>3 DEF Opens
  <2>6. Flow(Tail(q), Chunks + 3 + (up.got + 1), hi, Leg(cli.plane), quic.close)
    BY Zenon, <1>1, <2>2
  <2> QED BY Zenon, <1>1, <1>2, <2>4, <2>5, <2>6 DEF q, h, hi
<1> QED BY Zenon, <1>3, <1>4

\* The upload never meets a record it cannot open (server_upload_loop).
LEMMA UploadOpens ==
  ASSUME Body, ServerUploads PROVE Head(UpLeg) = Fin \/ Opens(srv.open, Head(UpLeg))
<1>1. srv.plane \in {"tcp", "quic"} /\ srv.pc = "relay"
  BY Zenon DEF Body, ServerUploads, ServerAt, Shape
<1>2. CASE srv.plane = "tcp"
  BY Zenon, <1>1, <1>2, UploadMeetsTcp DEF ServerUploads, UpLeg
<1>3. CASE srv.plane = "quic"
  BY Zenon, <1>1, <1>3, UploadMeetsQuic DEF ServerUploads, UpLeg
<1> QED BY Zenon, <1>1, <1>2, <1>3

\* ServerUploads keeps the invariant on the TCP plane.
LEMMA UploadsTcp ==
  ASSUME Body, ServerUploads, srv.plane = "tcp" PROVE Body'
<1>ends. Shape /\ ClientAt /\ ServerAt
  BY Zenon DEF Body
<1>know. Agreed /\ Counted /\ Heard
  BY Zenon DEF Body
<1>ctl. UpOrder /\ UpSays /\ DownOrder /\ DownSays /\ Residual
  BY Zenon DEF Body
<1>bidi. BidiUp /\ BidiDown
  BY Zenon DEF Body
<1>0. /\ Chunks \in Nat /\ Chunks > 0 /\ srv.pc = "relay" /\ ~srv.up /\ IsCodec(srv.open) /\ IsCodec(srv.seal)
      /\ c2s # <<>> /\ UpLeg = c2s /\ up.got \in Nat /\ up.sent \in Nat /\ cli.plane = "tcp"
  BY Zenon, Positions, <1>ends, <1>know DEF Shape, ServerUploads, UpLeg, Agreed
<1>a. /\ srv.seal.e = 1 /\ srv.open.e = 1 /\ srv.end = "open" /\ srv.open.n \in Nat
  BY Zenon, <1>0, <1>ends DEF ServerAt, IsCodec
<1>b. /\ IsCodec(After(srv.open, 1)) /\ After(srv.open, 1).e = srv.open.e
      /\ After(srv.open, 1).n = srv.open.n + 1
  BY Zenon, <1>0, AfterOne
<1>d. cli' = cli /\ s2c' = s2c /\ tcp' = tcp /\ dn' = dn
  BY Zenon DEF ServerUploads
<1>m. \/ /\ Head(c2s) = Fin
         /\ Flow(Tail(c2s), ServerOpened, ClientSealed, tcp, srv.end)
         /\ cli.up /\ up.got = up.sent
      \/ /\ Head(c2s) # Fin /\ Opens(srv.open, Head(c2s)) /\ up.got + 1 <= up.sent
         /\ Flow(Tail(c2s), ServerOpened + 1, ClientSealed, tcp, srv.end)
  BY Zenon, <1>0, UploadMeetsTcp
<1>1. \/ /\ ServerBecomes("relay", 1, srv.seal.n, srv.open.n, srv.frag, srv.fwd, srv.spent,
                          srv.have, "tcp", TRUE, srv.dn, srv.end)
         /\ up' = up /\ cli.up /\ up.got = up.sent
         /\ Flow(Tail(c2s), ServerOpened, ClientSealed, tcp, srv.end)
      \/ /\ ServerBecomes("relay", 1, srv.seal.n, srv.open.n + 1, srv.frag, srv.fwd, srv.spent,
                          srv.have, "tcp", srv.up, srv.dn, srv.end)
         /\ up'.got = up.got + 1 /\ up'.sent = up.sent /\ DOMAIN up' = DOMAIN up
         /\ up.got + 1 <= up.sent
         /\ Flow(Tail(c2s), ServerOpened + 1, ClientSealed, tcp, srv.end)
  <2>1. CASE Head(c2s) = Fin
    <3>1. ~Opens(srv.open, Head(c2s))
      BY <1>a, <2>1, FinIs DEF Opens, Plain
    <3>2. srv' = [srv EXCEPT !.up = TRUE] /\ up' = up
      BY Zenon, <1>0, <2>1, <3>1 DEF ServerUploads
    <3> QED BY Zenon, <1>0, <1>a, <1>m, <2>1, <3>2, <1>ends DEF ServerBecomes, Shape
  <2>2. CASE Head(c2s) # Fin
    <3>1. srv' = [srv EXCEPT !.open = After(@, 1)] /\ up' = [up EXCEPT !.got = @ + 1]
      BY Zenon, <1>0, <1>m, <2>2 DEF ServerUploads
    <3> QED BY Zenon, <1>0, <1>a, <1>b, <1>m, <2>2, <3>1, <1>ends DEF ServerBecomes, Shape
  <2> QED BY Zenon, <2>1, <2>2
<1>e. c2s' = Tail(c2s) /\ quic' = quic
  BY Zenon, <1>0, <1>m DEF ServerUploads, TakeUp
<1>h. /\ up'.sent = up.sent /\ up'.got \in Nat /\ DOMAIN up' = DOMAIN up
      /\ srv'.seal.e = 1 /\ srv'.seal.n = srv.seal.n /\ srv'.open.e = 1
      /\ srv'.pc = "relay" /\ srv'.plane = "tcp" /\ srv'.dn = srv.dn /\ srv'.end = srv.end
      /\ srv'.have = srv.have /\ srv'.spent = srv.spent /\ srv'.fwd = srv.fwd
  BY <1>0, <1>1, <1>ends DEF ServerBecomes, Shape
<1>2. Shape' /\ ClientAt' /\ ServerAt' /\ Agreed' /\ Counted' /\ Heard'
  <2>0. Shape'
    BY Zenon, <1>0, <1>1, <1>d, <1>e, <1>h, <1>ends DEF ServerBecomes, Shape
  <2>1. ServerAt'
    BY Zenon, <1>0, <1>a, <1>d, <1>h, <1>ends DEF ServerAt
  <2>2. ClientAt' /\ Agreed'
    BY Zenon, <1>0, <1>a, <1>d, <1>h, <1>ends, <1>know DEF ClientAt, Agreed, Unoffered
  <2>3. Counted'
    <3>1. cli.seal.n \in Nat /\ cli.seal.n + up.got = srv.open.n + up.sent
      BY Zenon, <1>ends, <1>know DEF Counted, Shape, IsCodec
    <3>2. cli.seal.n + up'.got = srv'.open.n + up.sent
      <4>1. (srv'.open.n = srv.open.n /\ up'.got = up.got) \/ (srv'.open.n = srv.open.n + 1 /\ up'.got = up.got + 1)
        BY Zenon, <1>1 DEF ServerBecomes
      <4>2. up.got \in Nat /\ up.sent \in Nat /\ srv.open.n \in Nat
        BY Zenon, <1>0, <1>a
      <4> QED BY <3>1, <4>1, <4>2
    <3> QED BY Zenon, <1>d, <1>h, <3>1, <3>2, <1>know DEF Counted
  <2>4. Heard'
    BY Zenon, <1>0, <1>1, <1>a, <1>d, <1>h, <1>know DEF ServerBecomes, Heard
  <2> QED BY Zenon, <2>0, <2>1, <2>2, <2>3, <2>4
<1>3. /\ ClientSealed' = ClientSealed /\ ClientOpened' = ClientOpened /\ ServerSealed' = ServerSealed
  BY Zenon, <1>0, <1>a, <1>d, <1>h DEF ClientSealed, ClientOpened, ServerSealed, Idx
<1>4. DownOrder' /\ DownSays' /\ BidiDown' /\ Residual'
  <2>1. DownOrder' /\ BidiDown' /\ Residual'
    BY Zenon, <1>0, <1>3, <1>d, <1>e, <1>h, <1>ctl, <1>bidi
       DEF DownOrder, BidiDown, Residual, Tolerable
  <2>2. DownSays'
    BY Zenon, <1>0, <1>d, <1>h, <1>ctl DEF DownSays, DownRec, Unoffered
  <2> QED BY Zenon, <2>1, <2>2
<1>5. UpSays'
  BY <1>0, <1>d, <1>e, <1>h, UpTake, <1>ctl DEF UpSays, UpRec
<1>6. BidiUp'
  <2>1. quic.up = <<>> /\ In(<<>>) = {}
    BY Zenon, <1>0, Nothing, <1>bidi DEF BidiUp
  <2>2. /\ Chunks + 3 + up'.got <= Chunks + 3 + up.sent
        /\ Chunks + 3 + up'.got \in Nat /\ Chunks + 3 + up.sent \in Nat
    <3>1. Chunks + 3 + up.got <= Chunks + 3 + up.sent
      BY Zenon, BidiUpFlow, FlowIs
    <3>2. up'.got = up.got \/ (up'.got = up.got + 1 /\ up.got + 1 <= up.sent)
      BY Zenon, <1>1
    <3> QED BY <1>0, <3>1, <3>2
  <2>3. Partial(<<>>, Chunks + 3 + up'.got, Chunks + 3 + up.sent)
    BY Zenon, <2>2, NoneLeft
  <2>4. Flow(quic.up, Chunks + 3 + up'.got, Chunks + 3 + up'.sent, Leg(cli.plane), quic.close)
    BY Zenon, <1>0, <1>h, <2>1, <2>3 DEF Flow, Leg
  <2> QED BY Zenon, <1>d, <1>e, <2>1, <2>4, <1>bidi DEF BidiUp
<1>7. UpOrder'
  <2>1. Flow(Tail(c2s), ServerOpened', ClientSealed, tcp, srv.end)
    <3>1. ServerOpened = Chunks + srv.open.n /\ ServerOpened' = Chunks + srv'.open.n
      BY <1>a, <1>h DEF ServerOpened, Idx
    <3>2. CASE srv'.open.n = srv.open.n /\ Flow(Tail(c2s), ServerOpened, ClientSealed, tcp, srv.end)
      BY Zenon, <3>1, <3>2
    <3>3. CASE srv'.open.n = srv.open.n + 1 /\ Flow(Tail(c2s), ServerOpened + 1, ClientSealed, tcp, srv.end)
      <4>1. ServerOpened' = ServerOpened + 1
        BY <1>0, <1>a, <3>1, <3>3
      <4> QED BY Zenon, <3>3, <4>1
    <3> QED BY Zenon, <1>1, <3>2, <3>3 DEF ServerBecomes
  <2> QED BY Zenon, <1>3, <1>a, <1>d, <1>e, <1>h, <2>1, <1>ctl DEF UpOrder
<1> QED BY Zenon, <1>2, <1>4, <1>5, <1>6, <1>7 DEF Body

\* ServerUploads keeps the invariant on the QUIC plane.
LEMMA UploadsQuic ==
  ASSUME Body, ServerUploads, srv.plane = "quic" PROVE Body'
<1>ends. Shape /\ ClientAt /\ ServerAt
  BY Zenon DEF Body
<1>know. Agreed /\ Counted /\ Heard
  BY Zenon DEF Body
<1>ctl. UpOrder /\ UpSays /\ DownOrder /\ DownSays /\ Residual
  BY Zenon DEF Body
<1>bidi. BidiUp /\ BidiDown
  BY Zenon DEF Body
<1>0. /\ Chunks \in Nat /\ Chunks > 0 /\ srv.pc = "relay" /\ ~srv.up /\ IsCodec(srv.open) /\ IsCodec(srv.seal)
      /\ quic.up # <<>> /\ UpLeg = quic.up /\ up.got \in Nat /\ up.sent \in Nat
  BY Zenon, Positions, <1>ends DEF Shape, ServerUploads, UpLeg
<1>a. /\ srv.seal.e = 1 /\ srv.open.e = 1 /\ srv.end = "open" /\ srv.open.n \in Nat
  BY Zenon, <1>0, <1>ends DEF ServerAt, IsCodec
<1>b. /\ IsCodec(After(srv.open, 1)) /\ After(srv.open, 1).e = srv.open.e
      /\ After(srv.open, 1).n = srv.open.n + 1
  BY Zenon, <1>0, AfterOne
<1>d. cli' = cli /\ s2c' = s2c /\ tcp' = tcp /\ dn' = dn
  BY Zenon DEF ServerUploads
<1>m. /\ In(Tail(quic.up)) \subseteq In(quic.up) /\ cli.plane = "quic"
      /\ \/ /\ Head(quic.up) = Fin
            /\ Flow(Tail(quic.up), Chunks + 3 + up.got, Chunks + 3 + up.sent,
                    Leg(cli.plane), quic.close)
            /\ cli.up /\ up.got = up.sent
         \/ /\ Head(quic.up) # Fin /\ Opens(srv.open, Head(quic.up))
            /\ Flow(Tail(quic.up), Chunks + 3 + (up.got + 1), Chunks + 3 + up.sent,
                    Leg(cli.plane), quic.close)
  BY Zenon, <1>0, UploadMeetsQuic
<1>1. \/ /\ ServerBecomes("relay", 1, srv.seal.n, srv.open.n, srv.frag, srv.fwd, srv.spent,
                          srv.have, "quic", TRUE, srv.dn, srv.end)
         /\ up' = up /\ cli.up /\ up.got = up.sent
         /\ Flow(Tail(quic.up), Chunks + 3 + up'.got, Chunks + 3 + up'.sent, Leg(cli.plane), quic.close)
      \/ /\ ServerBecomes("relay", 1, srv.seal.n, srv.open.n + 1, srv.frag, srv.fwd, srv.spent,
                          srv.have, "quic", srv.up, srv.dn, srv.end)
         /\ up'.got = up.got + 1 /\ up'.sent = up.sent /\ DOMAIN up' = DOMAIN up
         /\ Flow(Tail(quic.up), Chunks + 3 + up'.got, Chunks + 3 + up'.sent, Leg(cli.plane), quic.close)
  <2>1. CASE Head(quic.up) = Fin
    <3>1. ~Opens(srv.open, Head(quic.up))
      BY <1>a, <2>1, FinIs DEF Opens, Plain
    <3>2. srv' = [srv EXCEPT !.up = TRUE] /\ up' = up
      BY Zenon, <1>0, <2>1, <3>1 DEF ServerUploads
    <3> QED BY Zenon, <1>0, <1>a, <1>m, <2>1, <3>2, <1>ends DEF ServerBecomes, Shape
  <2>2. CASE Head(quic.up) # Fin
    <3>0. srv' = [srv EXCEPT !.open = After(@, 1)] /\ up' = [up EXCEPT !.got = @ + 1]
      BY Zenon, <1>0, <1>m, <2>2 DEF ServerUploads
    <3>1. up'.got = up.got + 1 /\ up'.sent = up.sent /\ DOMAIN up' = DOMAIN up
      BY Zenon, <3>0, <1>ends DEF Shape
    <3>2. ServerBecomes("relay", 1, srv.seal.n, srv.open.n + 1, srv.frag, srv.fwd, srv.spent,
                        srv.have, "quic", srv.up, srv.dn, srv.end)
      BY Zenon, <1>0, <1>a, <1>b, <3>0, <1>ends DEF ServerBecomes, Shape
    <3> QED BY Zenon, <1>m, <2>2, <3>1, <3>2
  <2> QED BY Zenon, <2>1, <2>2
<1>e. /\ c2s' = c2s /\ quic'.up = Tail(quic.up) /\ DOMAIN quic' = DOMAIN quic
      /\ quic'.dn = quic.dn /\ quic'.close = quic.close
  BY Zenon, <1>0, <1>m, <1>ends DEF ServerUploads, TakeUp, Shape
<1>h. /\ up'.sent = up.sent /\ up'.got \in Nat /\ DOMAIN up' = DOMAIN up
      /\ srv'.seal.e = 1 /\ srv'.seal.n = srv.seal.n /\ srv'.open.e = 1
      /\ srv'.pc = "relay" /\ srv'.plane = "quic" /\ srv'.dn = srv.dn /\ srv'.end = srv.end
      /\ srv'.have = srv.have /\ srv'.spent = srv.spent /\ srv'.fwd = srv.fwd
  BY <1>0, <1>1, <1>ends DEF ServerBecomes, Shape
<1>2. Shape' /\ ClientAt' /\ ServerAt' /\ Agreed' /\ Counted' /\ Heard'
  <2>0. Shape'
    BY Zenon, <1>0, <1>1, <1>d, <1>e, <1>h, <1>ends DEF ServerBecomes, Shape
  <2>1. ServerAt'
    <3>1. srv'.open.n = 3 + up'.got
      <4>1. srv.open.n = 3 + up.got
        BY Zenon, <1>0, <1>ends DEF ServerAt
      <4>2. (srv'.open.n = srv.open.n /\ up'.got = up.got) \/ (srv'.open.n = srv.open.n + 1 /\ up'.got = up.got + 1)
        BY Zenon, <1>1 DEF ServerBecomes
      <4> QED BY <1>0, <4>1, <4>2
    <3> QED BY Zenon, <1>0, <1>a, <1>d, <1>h, <3>1, <1>ends DEF ServerAt
  <2>2. ClientAt' /\ Agreed' /\ Counted'
    BY Zenon, <1>0, <1>a, <1>d, <1>h, <1>m, <1>ends, <1>know
       DEF ClientAt, Agreed, Unoffered, Counted
  <2>4. Heard'
    BY Zenon, <1>0, <1>1, <1>a, <1>d, <1>h, <1>know DEF ServerBecomes, Heard
  <2> QED BY Zenon, <2>0, <2>1, <2>2, <2>4
<1>3. /\ ClientSealed' = ClientSealed /\ ServerOpened' = ServerOpened /\ ServerSealed' = ServerSealed
      /\ ClientOpened' = ClientOpened
  BY Zenon, <1>0, <1>a, <1>d, <1>h DEF ClientSealed, ServerOpened, ServerSealed, ClientOpened, Idx
<1>4. UpOrder' /\ BidiDown' /\ DownOrder' /\ Residual'
  BY Zenon, <1>0, <1>3, <1>d, <1>e, <1>h, <1>ctl, <1>bidi
     DEF UpOrder, BidiDown, DownOrder, Residual, Tolerable
<1>5. UpSays' /\ DownSays'
  BY <1>0, <1>d, <1>e, <1>h, <1>ctl DEF UpSays, UpRec, DownSays, DownRec, Unoffered
<1>6. BidiUp'
  <2>1. Flow(Tail(quic.up), Chunks + 3 + up'.got, Chunks + 3 + up'.sent, Leg(cli.plane), quic.close)
    BY Zenon, <1>1
  <2>2. \A r \in In(quic'.up) : r.e # 0 /\ r.m # "done" /\ (r.m = "fin" => r = Fin /\ cli.up)
    BY Zenon, <1>e, <1>m, BidiUpFlow
  <2> QED BY Zenon, <1>d, <1>e, <1>m, <2>1, <2>2, <1>bidi DEF BidiUp
<1> QED BY Zenon, <1>2, <1>4, <1>5, <1>6 DEF Body

-----------------------------------------------------------------------------
(* The server exchanges DONE *)

\* ServerSendsDone keeps the invariant: DONE takes the number behind the
\* data (server_exchange_quic_done).
LEMMA SendsDoneDown ==
  ASSUME Body, ServerSendsDone PROVE Body'
<1>ends. Shape /\ ClientAt /\ ServerAt
  BY Zenon DEF Body
<1>know. Agreed /\ Counted /\ Heard
  BY Zenon DEF Body
<1>ctl. UpOrder /\ UpSays /\ DownOrder /\ DownSays /\ Residual
  BY Zenon DEF Body
<1>bidi. BidiUp /\ BidiDown
  BY Zenon DEF Body
<1>0. /\ Chunks \in Nat /\ Chunks > 0 /\ srv.pc = "relay" /\ srv.up /\ srv.dn /\ IsCodec(srv.open) /\ IsCodec(srv.seal)
      /\ srv.plane = "quic" /\ dn.sent \in Nat
      /\ cli' = cli /\ c2s' = c2s /\ tcp' = tcp /\ quic' = quic /\ up' = up /\ dn' = dn
  BY Zenon, Positions, <1>ends DEF Shape, ServerSendsDone, Joined
<1>a. /\ srv.seal.e = 1 /\ srv.open.e = 1 /\ srv.end = "open" /\ srv.seal.n = Chunks + 1 + dn.sent
      /\ cli.plane = "quic"
  BY Zenon, <1>0, <1>ends, <1>know DEF ServerAt, Agreed
<1>b. /\ IsCodec(After(srv.seal, 1)) /\ After(srv.seal, 1).e = srv.seal.e
      /\ After(srv.seal, 1).n = srv.seal.n + 1 /\ srv.seal.n \in Nat
  BY Zenon, <1>0, AfterOne DEF IsCodec
<1>1. ServerBecomes("done", 1, srv.seal.n + 1, srv.open.n, srv.frag, srv.fwd, srv.spent,
                    srv.have, "quic", srv.up, srv.dn, srv.end)
  BY Zenon, <1>0, <1>a, <1>b, <1>ends DEF ServerBecomes, ServerSendsDone, Shape
<1>h. /\ srv'.pc = "done" /\ srv'.plane = "quic" /\ srv'.up = srv.up /\ srv'.dn = srv.dn
      /\ srv'.end = srv.end /\ srv'.have = srv.have /\ srv'.spent = srv.spent /\ srv'.fwd = srv.fwd
      /\ srv'.seal.e = 1 /\ srv'.seal.n = srv.seal.n + 1 /\ srv'.open.e = 1 /\ srv'.open.n = srv.open.n
  BY Zenon, <1>1 DEF ServerBecomes
<1>2. Shape' /\ ClientAt' /\ ServerAt' /\ Agreed' /\ Counted' /\ Heard'
  <2>0. Shape' /\ ClientAt'
    BY <1>0, <1>1, <1>ends DEF ServerBecomes, Shape, ClientAt
  <2>1. ServerAt'
    BY Zenon, <1>0, <1>a, <1>h, <1>ends DEF ServerAt
  <2>2. Agreed' /\ Counted' /\ Heard'
    BY Zenon, <1>0, <1>a, <1>h, <1>know DEF Agreed, Unoffered, Counted, Heard
  <2> QED BY Zenon, <2>0, <2>1, <2>2
<1>3. /\ ClientSealed' = ClientSealed
      /\ ServerOpened' = ServerOpened /\ ServerSealed' = ServerSealed /\ ClientOpened' = ClientOpened
  BY Zenon, <1>0, <1>h DEF ClientSealed, ServerOpened, ServerSealed, ClientOpened, Idx
<1>4. UpOrder' /\ UpSays' /\ BidiUp' /\ BidiDown'
  BY Zenon, <1>0, <1>3, <1>h, <1>ctl, <1>bidi DEF UpOrder, UpSays, UpRec, BidiUp, BidiDown
<1> DEFINE x == [e |-> srv.seal.e, n |-> srv.seal.n, m |-> "done"]
<1>6. Seal(srv.seal, "done") = <<x>> /\ x \in Rec
  BY Zenon, <1>0, SealIs DEF Msg
<1>7. x.m = "done" /\ x.m \in Last /\ x.e = 1 /\ x.n = srv.seal.n
  BY Zenon, <1>a DEF Last
<1>8. ToClient(<<x>>)
  BY Zenon, <1>6 DEF ServerSendsDone
<1>5. Residual'
  <2>1. <<x>> \in Seq(Rec) /\ In(<<x>>) = {x}
    BY <1>6 DEF In
  <2>2. s2c' = s2c \/ s2c' = s2c \o <<x>>
    BY Zenon, <1>8 DEF ToClient
  <2>3. \A r \in In(<<x>>) : (r.e # Plain \/ r.m = "fin") /\ r.m # "head"
    BY <1>7, <2>1 DEF Plain
  <2> HIDE DEF x
  <2> QED BY Zenon, <1>0, <1>h, <2>1, <2>2, <2>3, ResidualSends
<1> HIDE DEF x
<1>9. Open(s2c)
  BY Zenon, <1>0, <1>a, <1>ctl DEF DownSays, DownRec, Open, Last
<1>10. /\ Flow(s2c', ClientOpened, ServerSealed, tcp, cli.end)
       /\ cli.end # "open" => s2c' = <<>>
       /\ \A r \in In(s2c') : (DownRec(r) /\ r \in In(s2c)) \/ r = x
  BY <1>6, <1>7, <1>8, <1>9, DownLast DEF Plain
<1>11. DownOrder'
  BY Zenon, <1>0, <1>3, <1>10, <1>ctl DEF DownOrder
<1>12. DownSays'
  <2>1. ASSUME NEW r, DownRec(r) PROVE DownRec(r)'
    BY Zenon, <1>0, <1>h, <2>1 DEF DownRec, Unoffered
  <2>2. ASSUME NEW r, r.m = "done", r.e = 1, r.n = Chunks + 1 + dn.sent PROVE DownRec(r)'
    BY <1>0, <1>h, <2>2 DEF DownRec
  <2>3. \A r \in In(s2c') : DownRec(r) \/ (r.m = "done" /\ r.e = 1 /\ r.n = Chunks + 1 + dn.sent)
    BY Zenon, <1>7, <1>10, <1>a
  <2> QED BY Zenon, <2>1, <2>2, <2>3, <1>ctl DEF DownSays
<1> QED BY Zenon, <1>2, <1>4, <1>5, <1>11, <1>12 DEF Body

-----------------------------------------------------------------------------
(* What DONE means *)

\* What a client that waits for DONE reads is DONE: it opens, and both
\* directions have been delivered.
LEMMA DoneDown ==
  ASSUME Body, ClientReadsDone
  PROVE  /\ Opens(cli.open, Head(s2c))
         /\ cli.plane = "quic" /\ cli.up /\ srv.dn /\ up.got = up.sent /\ dn.got = dn.sent
<1>ends. Shape /\ ClientAt /\ ServerAt
  BY Zenon DEF Body
<1>know. Agreed /\ Counted /\ Heard
  BY Zenon DEF Body
<1> DEFINE r == Head(s2c)
<1>0. cli.pc \in {"done", "grace"} /\ s2c # <<>>
  BY Zenon DEF ClientReadsDone
<1>1. /\ cli.plane = "quic" /\ cli.up /\ cli.dn /\ cli.open.n = Chunks + 1 + dn.got
      /\ cli.open.e = 1 /\ ClientOpened = Chunks + Chunks + 1 /\ srv.plane # "tcp"
      /\ dn.got = dn.sent /\ Chunks \in Nat /\ Chunks > 0
  BY Zenon, <1>0, Positions, <1>ends, <1>know DEF ClientAt, ClientOpened, Agreed, Heard
<1>2. ServerSealed <= Chunks + Chunks + 1
  <2>1. CASE srv.plane = "quic"
    BY <1>1, <2>1 DEF ServerSealed
  <2>2. CASE srv.plane = "none"
    <3>1. /\ srv.seal.e \in {0, 1} /\ srv.seal.n \in Nat /\ (srv.seal.e = 0 => srv.seal.n = 0)
          /\ (srv.seal.e = 1 => srv.seal.n <= Chunks + 1) /\ ServerSealed = Idx(srv.seal)
      BY Zenon, <2>2, <1>ends DEF Shape, IsCodec, ServerAt, ServerSealed
    <3> QED BY <1>1, <3>1 DEF Idx
  <2> QED BY Zenon, <1>1, <2>1, <2>2, <1>ends DEF Shape
<1>3. r.m \in Last
  <2>1. ~(ClientOpened < ServerSealed) /\ ClientOpened # 0
    BY <1>1, <1>2, Positions, <1>ends
  <2> QED BY Zenon, <1>0, <2>1, DownTake
<1>4. r.m = "done" /\ r.e = 1 /\ r.n = Chunks + 1 + dn.sent /\ srv.plane = "quic" /\ srv.up /\ srv.dn
  BY Zenon, <1>0, <1>1, <1>3, DownTake DEF DownRec, Last
<1>5. up.got = up.sent
  BY Zenon, <1>4, <1>know DEF Heard
<1> QED BY Zenon, <1>1, <1>4, <1>5 DEF Opens

\* What a server that waits for DONE reads is DONE: it opens, and both
\* directions have been delivered.
LEMMA DoneUp ==
  ASSUME Body, ServerReadsDone
  PROVE  /\ Opens(srv.open, Head(c2s))
         /\ srv.plane = "quic" /\ cli.up /\ srv.dn /\ up.got = up.sent /\ dn.got = dn.sent
<1>ends. Shape /\ ClientAt /\ ServerAt
  BY Zenon DEF Body
<1>know. Agreed /\ Counted /\ Heard
  BY Zenon DEF Body
<1> DEFINE r == Head(c2s)
<1>0. srv.pc \in {"done", "grace"} /\ c2s # <<>>
  BY Zenon DEF ServerReadsDone
<1>1. /\ srv.plane = "quic" /\ srv.up /\ srv.dn /\ srv.open.n = 3 + up.got
      /\ srv.open.e = 1 /\ ServerOpened = Chunks + 3 /\ cli.plane = "quic"
      /\ cli.up /\ up.got = up.sent /\ Chunks \in Nat /\ Chunks > 0
  BY Zenon, <1>0, Positions, <1>ends, <1>know DEF ServerAt, ServerOpened, Agreed, Heard
<1>2. ClientSealed <= Chunks + 3
  <2>1. cli.seal.e = 1 /\ cli.seal.n \in Nat
    BY Zenon, <1>1, <1>ends DEF ClientAt, Shape, IsCodec
  <2> QED BY <1>1, <2>1 DEF ClientSealed, Idx
<1>3. r.m \in Last
  <2>1. ~(ServerOpened < ClientSealed) /\ ServerOpened # 0
    BY <1>1, <1>2, Positions, <1>ends
  <2> QED BY Zenon, <1>0, <2>1, UpTake
<1>4. r.m = "done" /\ r.e = 1 /\ r.n = 3 + up.sent /\ cli.dn
  BY Zenon, <1>0, <1>1, <1>3, UpTake DEF UpRec, Last
<1>5. dn.got = dn.sent
  BY Zenon, <1>1, <1>4, <1>know DEF Heard
<1> QED BY Zenon, <1>1, <1>4, <1>5 DEF Opens

-----------------------------------------------------------------------------
(* The network *)

\* A cut of the TCP connection keeps the invariant.
LEMMA Cut ==
  ASSUME Body, TcpCut PROVE Body'
<1>ends. Shape /\ ClientAt /\ ServerAt
  BY Zenon DEF Body
<1>know. Agreed /\ Counted /\ Heard
  BY Zenon DEF Body
<1>ctl. UpOrder /\ UpSays /\ DownOrder /\ DownSays /\ Residual
  BY Zenon DEF Body
<1>bidi. BidiUp /\ BidiDown
  BY Zenon DEF Body
<1>1. tcp' = "cut" /\ cli' = cli /\ srv' = srv /\ c2s' = c2s /\ s2c' = s2c /\ quic' = quic /\ up' = up /\ dn' = dn
  BY Zenon DEF TcpCut
<1>2. ASSUME NEW link, link # "up"
      PROVE  /\ Flow(c2s, ServerOpened, ClientSealed, link, srv.end)
             /\ Flow(s2c, ClientOpened, ServerSealed, link, cli.end)
  BY Zenon, <1>2, UpFlow, DownFlow, FlowStops
<1>3. /\ ClientSealed' = ClientSealed
      /\ ServerOpened' = ServerOpened /\ ServerSealed' = ServerSealed /\ ClientOpened' = ClientOpened
  BY Zenon, <1>1 DEF ClientSealed, ServerOpened, ServerSealed, ClientOpened
<1>4. UpOrder' /\ DownOrder'
  BY Zenon, <1>1, <1>2, <1>3, <1>ctl DEF UpOrder, DownOrder
<1>5. Shape' /\ ClientAt' /\ ServerAt' /\ Agreed' /\ Counted' /\ Heard'
  <2>1. Shape' /\ ClientAt'
    <3>1. Shape'
      BY Zenon, <1>1, <1>ends DEF Shape
    <3>2. ClientAt'
      BY Zenon, <1>1, <1>ends, ClientStays
    <3> QED BY Zenon, <3>1, <3>2
  <2>2. ServerAt'
    BY Zenon, <1>1, <1>ends, ServerStays
  <2>3. Agreed' /\ Counted' /\ Heard'
    BY <1>1, <1>know DEF Agreed, Unoffered, Counted, Heard
  <2> QED BY Zenon, <2>1, <2>2, <2>3
<1>6. UpSays' /\ DownSays' /\ BidiUp' /\ BidiDown' /\ Residual'
  BY Zenon, <1>1, <1>ctl, <1>bidi
     DEF UpSays, UpRec, DownSays, DownRec, Unoffered, BidiUp, BidiDown, Residual, Tolerable
<1> QED BY Zenon, <1>4, <1>5, <1>6 DEF Body

\* A loss of the QUIC connection keeps the invariant.
LEMMA Lost ==
  ASSUME Body, QuicLost PROVE Body'
<1>ends. Shape /\ ClientAt /\ ServerAt
  BY Zenon DEF Body
<1>know. Agreed /\ Counted /\ Heard
  BY Zenon DEF Body
<1>ctl. UpOrder /\ UpSays /\ DownOrder /\ DownSays /\ Residual
  BY Zenon DEF Body
<1>1. cli' = cli /\ srv' = srv /\ c2s' = c2s /\ s2c' = s2c /\ tcp' = tcp /\ up' = up /\ dn' = dn
  BY Zenon DEF QuicLost
<1>2. QuicStays
  BY Zenon, <1>ends DEF QuicLost, QuicStays, Shape
<1>3. BidiUp' /\ BidiDown' /\ DOMAIN quic' = DOMAIN quic
  BY Zenon, <1>1, <1>2, BidiStops
<1>4. /\ ClientSealed' = ClientSealed
      /\ ServerOpened' = ServerOpened /\ ServerSealed' = ServerSealed /\ ClientOpened' = ClientOpened
  BY Zenon, <1>1 DEF ClientSealed, ServerOpened, ServerSealed, ClientOpened
<1>5. Shape' /\ ClientAt' /\ ServerAt' /\ Agreed' /\ Counted' /\ Heard'
  <2>1. Shape' /\ ClientAt'
    <3>1. Shape'
      BY Zenon, <1>1, <1>3, <1>ends DEF Shape
    <3>2. ClientAt'
      BY Zenon, <1>1, <1>ends, ClientStays
    <3> QED BY Zenon, <3>1, <3>2
  <2>2. ServerAt'
    BY Zenon, <1>1, <1>ends, ServerStays
  <2>3. Agreed' /\ Counted' /\ Heard'
    BY <1>1, <1>know DEF Agreed, Unoffered, Counted, Heard
  <2> QED BY Zenon, <2>1, <2>2, <2>3
<1>6. UpOrder' /\ DownOrder' /\ UpSays' /\ DownSays' /\ Residual'
  BY <1>1, <1>4, <1>ctl
     DEF UpOrder, DownOrder, UpSays, UpRec, DownSays, DownRec, Unoffered, Residual, Tolerable
<1> QED BY Zenon, <1>3, <1>5, <1>6 DEF Body
=============================================================================
