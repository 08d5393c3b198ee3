---------------------------- MODULE SessionOpening ----------------------------
(***************************************************************************)
(* The steps from the first record to the dispatch of the first command    *)
(* keep the invariant: camouflage, key exchange, identity, the negotiation *)
(* of UDP and the choice of a plane, at the client and at the server.      *)
(***************************************************************************)
EXTENDS SessionLemmas

-----------------------------------------------------------------------------
(* The client until it has the keys *)

\* ClientSendsCamo keeps the invariant: nothing is sealed yet.
LEMMA SendsCamo ==
  ASSUME Body, ClientSendsCamo PROVE Body'
<1>ends. Shape /\ ClientAt /\ ServerAt
  BY Zenon DEF Body
<1>know. Agreed /\ Counted /\ Heard
  BY Zenon DEF Body
<1>ctl. UpOrder /\ UpSays /\ DownOrder /\ DownSays /\ Residual
  BY Zenon DEF Body
<1>bidi. BidiUp /\ BidiDown
  BY Zenon DEF Body
<1>1. /\ ClientBecomes(cli.pc, cli.seal.e, cli.seal.n, cli.open.n, cli.frag, cli.skipped,
                       cli.plane, cli.up, cli.dn, cli.end)
      /\ cli.pc = "camo" /\ cli.open.e = cli.seal.e
      /\ srv' = srv /\ s2c' = s2c /\ tcp' = tcp /\ quic' = quic /\ up' = up /\ dn' = dn
  BY Zenon, <1>ends DEF ClientSendsCamo, ClientBecomes, Shape, ClientAt
<1>2. Shape' /\ ClientAt' /\ ServerAt' /\ Agreed' /\ Counted' /\ Heard'
  BY <1>1, <1>ends, <1>know
     DEF ClientBecomes, Shape, ClientAt, ServerAt, Agreed, Unoffered, Counted, Heard
<1>3. ClientSealed' = ClientSealed /\ ServerOpened' = ServerOpened
      /\ ServerSealed' = ServerSealed /\ ClientOpened' = ClientOpened
  BY Zenon, <1>1 DEF ClientBecomes, ClientSealed, ServerOpened, ServerSealed, ClientOpened, Idx
<1>4. DownOrder' /\ DownSays' /\ BidiUp' /\ BidiDown' /\ Residual'
  BY <1>1, <1>3, <1>ctl, <1>bidi
     DEF ClientBecomes, DownOrder, DownSays, DownRec, Unoffered, BidiUp, BidiDown, Residual, Tolerable
<1>5. ClientSealed = 0 /\ ServerOpened = 0
  <2>1. ClientSealed = 0
    BY Zenon, <1>1, <1>ends DEF ClientAt, ClientSealed, Idx
  <2>2. ServerOpened <= ClientSealed /\ ServerOpened \in Nat
    BY Zenon, Ahead, UpFlow
  <2> QED BY <2>1, <2>2
<1>6. Camo("camo") \in Rec /\ Camo("camo").m = "camo" /\ Camo("camo").e = Plain /\ "camo" \notin Last
  BY Zenon, CamoIs DEF Last, Msg
<1>9. Open(c2s)
  BY Zenon, <1>1, <1>ends, <1>ctl DEF UpSays, UpRec, Open, Last, ClientAt
<1>10. /\ Flow(c2s', 0, 0, tcp, srv.end)
       /\ srv.end # "open" => c2s' = <<>>
       /\ \A r \in In(c2s') : UpRec(r) \/ r = Camo("camo")
  BY Zenon, <1>5, <1>6, <1>9, UpCamo DEF ClientSendsCamo, Msg
<1>11. UpOrder'
  BY Zenon, <1>1, <1>3, <1>5, <1>10, <1>ctl DEF UpOrder
<1>7. \A r \in In(c2s') : UpRec(r)'
  BY <1>1, <1>6, <1>10 DEF ClientBecomes, UpRec, Plain
<1> QED BY Zenon, <1>2, <1>4, <1>7, <1>11, <1>ctl DEF UpSays, Body

\* ClientSendsPx1q keeps the invariant: PX1Q goes out in Chunks records of
\* epoch 0.
LEMMA SendsPx1q ==
  ASSUME Body, ClientSendsPx1q PROVE Body'
<1>ends. Shape /\ ClientAt /\ ServerAt
  BY Zenon DEF Body
<1>know. Agreed /\ Counted /\ Heard
  BY Zenon DEF Body
<1>ctl. UpOrder /\ UpSays /\ DownOrder /\ DownSays /\ Residual
  BY Zenon DEF Body
<1>bidi. BidiUp /\ BidiDown
  BY Zenon DEF Body
<1> DEFINE us == SealAll(cli.seal, Chunks, "px1q")
<1>0. Chunks \in Nat /\ Chunks > 0 /\ IsCodec(cli.seal)
  BY Zenon, Positions, <1>ends DEF Shape
<1>a. /\ IsCodec(After(cli.seal, Chunks)) /\ After(cli.seal, Chunks).e = cli.seal.e
      /\ After(cli.seal, Chunks).n = cli.seal.n + Chunks
  BY Zenon, <1>0, AfterIs
<1>1. /\ ClientBecomes("px1k", cli.seal.e, Chunks, cli.open.n, cli.frag, cli.skipped,
                       cli.plane, cli.up, cli.dn, cli.end)
      /\ cli.pc = "camo" /\ cli.seal.e = 0 /\ cli.seal.n = 0 /\ cli.open.n = 0 /\ cli.open.e = 0
      /\ srv' = srv /\ s2c' = s2c /\ tcp' = tcp /\ quic' = quic /\ up' = up /\ dn' = dn
  BY <1>0, <1>a, <1>ends DEF ClientSendsPx1q, ClientBecomes, Shape, ClientAt
<1>2. Shape' /\ ClientAt' /\ ServerAt' /\ Agreed' /\ Counted' /\ Heard'
  BY <1>0, <1>1, <1>ends, <1>know
     DEF ClientBecomes, Shape, ClientAt, ServerAt, Agreed, Unoffered, Counted, Heard
<1>3. ClientSealed' = Chunks /\ ClientSealed = 0 /\ Idx(cli.seal) = 0 /\ ServerOpened' = ServerOpened
      /\ ServerSealed' = ServerSealed /\ ClientOpened' = ClientOpened
  BY Zenon, <1>1, <1>ends
     DEF ClientBecomes, ClientSealed, ServerOpened, ServerSealed, ClientOpened, Idx, ClientAt
<1>4. DownOrder' /\ DownSays' /\ BidiUp' /\ BidiDown' /\ Residual'
  BY <1>1, <1>3, <1>ctl, <1>bidi
     DEF ClientBecomes, DownOrder, DownSays, DownRec, Unoffered, BidiUp, BidiDown, Residual, Tolerable
<1>b. "px1q" \in Msg /\ "px1q" \notin Last
  BY Zenon DEF Last, Msg
<1>5. /\ SealedFrom(us, ClientSealed) /\ Len(us) = Chunks
      /\ \A r \in In(us) : r.e = 0 /\ r.n < Chunks /\ r.m = "px1q"
  BY <1>0, <1>1, <1>3, <1>b, SealAllIs
<1>7. Open(c2s)
  BY Zenon, <1>1, <1>ends, <1>ctl DEF UpSays, UpRec, Open, Last, ClientAt
<1>6. ToServer(us)
  BY Zenon DEF ClientSendsPx1q
<1> HIDE DEF us
<1>8. /\ Flow(c2s', ServerOpened, ClientSealed + Len(us), tcp, srv.end)
      /\ srv.end # "open" => c2s' = <<>>
      /\ \A r \in In(c2s') : UpRec(r) \/ r \in In(us)
  BY Zenon, <1>5, <1>6, <1>7, UpSend
<1>c. UpOrder'
  BY <1>0, <1>1, <1>3, <1>5, <1>8, <1>ctl DEF UpOrder
<1>9. \A r \in In(c2s') : UpRec(r)'
  BY Zenon, <1>1, <1>5, <1>8, <1>ends DEF ClientBecomes, UpRec, ClientAt
<1> QED BY Zenon, <1>2, <1>4, <1>9, <1>c, <1>ctl DEF UpSays, Body

\* ClientReadsIdentity keeps the invariant: the identity arrives in
\* consecutive chunks of epoch 1.
LEMMA ReadsIdentity ==
  ASSUME Body, ClientReadsIdentity PROVE Body'
<1>ends. Shape /\ ClientAt /\ ServerAt
  BY Zenon DEF Body
<1>know. Agreed /\ Counted /\ Heard
  BY Zenon DEF Body
<1>ctl. UpOrder /\ UpSays /\ DownOrder /\ DownSays /\ Residual
  BY Zenon DEF Body
<1>bidi. BidiUp /\ BidiDown
  BY Zenon DEF Body
<1> DEFINE last == cli.frag + 1 >= Chunks
<1>0. Chunks \in Nat /\ Chunks > 0 /\ cli.frag \in Nat /\ cli.pc = "identity" /\ s2c # <<>>
  BY Zenon, Positions, <1>ends DEF Shape, ClientReadsIdentity, ClientReads
<1>a. cli.plane = "none" /\ cli.seal.e = 1 /\ cli.open.e = 1 /\ IsCodec(cli.open) /\ IsCodec(cli.seal)
  BY Zenon, <1>0, <1>ends DEF ClientAt, Shape
<1>b. /\ Opens(cli.open, Head(s2c)) /\ Head(s2c).m \notin Last /\ Head(s2c).e # Plain
      /\ Flow(Tail(s2c), ClientOpened + 1, ServerSealed, tcp, cli.end)
  BY Zenon, <1>0, <1>a, ControlOpensDown
<1>c. /\ IsCodec(After(cli.open, 1)) /\ After(cli.open, 1).e = 1
      /\ After(cli.open, 1).n = cli.open.n + 1
  BY Zenon, <1>a, AfterIs
<1>d. /\ s2c' = Tail(s2c)
      /\ srv' = srv /\ c2s' = c2s /\ tcp' = tcp /\ quic' = quic /\ up' = up /\ dn' = dn
  BY Zenon, <1>b DEF ClientReadsIdentity, ClientReads
<1>1. /\ ClientBecomes(cli'.pc, 1, cli.seal.n, cli.open.n + 1, cli'.frag, cli.skipped,
                       "none", cli.up, cli.dn, cli.end)
      /\ \/ cli'.pc = "verified" /\ cli'.frag = 0 /\ cli.open.n + 1 = Chunks
         \/ cli'.pc = "identity" /\ cli'.frag = cli.open.n + 1 /\ cli'.frag < Chunks
  <2>0. cli.open.n = cli.frag /\ cli.frag < Chunks
    BY Zenon, <1>0, <1>ends DEF ClientAt
  <2> DEFINE read == IF cli.frag + 1 < Chunks THEN [cli EXCEPT !.frag = @ + 1]
                                              ELSE [cli EXCEPT !.pc = "verified", !.frag = 0]
  <2>3. cli' = [read EXCEPT !.open = After(@, 1)]
    BY Zenon, <1>b DEF ClientReadsIdentity, ClientReads
  <2>1. CASE last
    <3>1. read = [cli EXCEPT !.pc = "verified", !.frag = 0]
      BY <1>0, <2>1
    <3> HIDE DEF read
    <3> QED BY <1>0, <1>a, <1>c, <2>0, <2>1, <2>3, <3>1, <1>ends DEF ClientBecomes, Shape
  <2>2. CASE ~last
    <3>1. read = [cli EXCEPT !.frag = @ + 1]
      BY <1>0, <2>2
    <3> HIDE DEF read
    <3> QED BY <1>0, <1>a, <1>c, <2>0, <2>2, <2>3, <3>1, <1>ends DEF ClientBecomes, Shape
  <2> QED BY Zenon, <2>1, <2>2
<1>2. Shape' /\ ClientAt' /\ ServerAt' /\ Agreed' /\ Counted' /\ Heard'
  <2>1. Shape' /\ ClientAt'
    <3>1. Shape'
      <4>1. /\ DOMAIN cli' = DOMAIN cli /\ IsCodec(cli'.seal) /\ IsCodec(cli'.open)
            /\ cli'.skipped = cli.skipped /\ cli'.plane = "none"
            /\ cli'.up = cli.up /\ cli'.dn = cli.dn
        BY Zenon, <1>1 DEF ClientBecomes
      <4>2. cli'.frag \in Nat
        <5>1. cli.open.n \in Nat
          BY Zenon, <1>a DEF IsCodec
        <5> QED BY <1>1, <5>1
      <4> QED BY Zenon, <1>d, <4>1, <4>2, <1>ends DEF Shape
    <3>2. ClientAt'
      <4>1. /\ up.sent = 0 /\ dn.got = 0 /\ ~cli.up /\ ~cli.dn
            /\ cli.seal.n = 0 /\ cli.end = "open" /\ cli.open.n \in Nat /\ Chunks \in Nat
        BY Zenon, <1>0, <1>a, Positions, <1>ends DEF ClientAt, Shape, IsCodec
      <4>2. /\ cli'.up = cli.up /\ cli'.dn = cli.dn /\ cli'.end = cli.end /\ cli'.plane = "none"
            /\ cli'.seal.e = 1 /\ cli'.open.e = 1 /\ cli'.seal.n = 0 /\ cli'.open.n = cli.open.n + 1
            /\ up'.sent = 0 /\ dn'.got = 0
        BY Zenon, <1>1, <1>d, <4>1 DEF ClientBecomes
      <4>3. CASE cli'.pc = "verified" /\ cli'.frag = 0 /\ cli.open.n + 1 = Chunks
        BY <4>1, <4>2, <4>3 DEF ClientAt
      <4>4. CASE cli'.pc = "identity" /\ cli'.frag = cli.open.n + 1 /\ cli'.frag < Chunks
        BY <4>1, <4>2, <4>4 DEF ClientAt
      <4> QED BY Zenon, <1>1, <4>3, <4>4
    <3> QED BY Zenon, <3>1, <3>2
  <2>2. ServerAt' /\ Agreed' /\ Counted' /\ Heard'
    <3>1. ServerAt'
      BY Zenon, <1>d, <1>ends, ServerStays
    <3>2. Agreed' /\ Counted' /\ Heard'
      BY <1>0, <1>1, <1>a, <1>d, <1>know
         DEF ClientBecomes, Agreed, Unoffered, Counted, Heard
    <3> QED BY Zenon, <3>1, <3>2
  <2> QED BY Zenon, <2>1, <2>2
<1>3. ClientSealed' = ClientSealed /\ ServerOpened' = ServerOpened
      /\ ServerSealed' = ServerSealed /\ ClientOpened' = ClientOpened + 1
  BY <1>0, <1>1, <1>a, <1>d, <1>ends
     DEF ClientBecomes, Shape, IsCodec, ClientSealed, ServerOpened, ServerSealed, ClientOpened, Idx
<1>4. UpOrder' /\ UpSays' /\ BidiUp' /\ BidiDown'
  BY Zenon, <1>0, <1>1, <1>3, <1>a, <1>d, <1>ctl, <1>bidi
     DEF ClientBecomes, UpOrder, UpSays, UpRec, BidiUp, BidiDown
<1>5. /\ s2c' \in Seq(Rec) /\ In(s2c') \subseteq In(s2c) /\ \A r \in In(s2c') : DownRec(r)
  BY Zenon, <1>0, <1>d, DownTake, DownFlow, RestIs
<1>6. DownOrder'
  BY Zenon, <1>1, <1>3, <1>b, <1>d, <1>0, <1>ends, <1>ctl DEF DownOrder, ClientBecomes, ClientAt
<1>7. DownSays'
  BY Zenon, <1>0, <1>1, <1>5, <1>d, <1>ctl DEF DownSays, DownRec, Unoffered, ClientBecomes
<1>8. Residual'
  BY <1>0, <1>1, <1>d, ResidualReads, <1>ends DEF ClientBecomes, Shape
<1> QED BY Zenon, <1>2, <1>4, <1>6, <1>7, <1>8 DEF Body

\* Before the client has sent its key exchange the origin's flight is all
\* there is.
LEMMA FlightOnly ==
  ASSUME Body, cli.pc = "camo"
  PROVE  /\ ClientOpened = 0 /\ ServerSealed = 0
         /\ \A r \in In(s2c) : r.e = Plain /\ r.m \notin Last
<1>1. ClientSealed = 0 /\ ClientOpened = 0 /\ cli.plane = "none"
  BY Zenon DEF Body, ClientAt, ClientSealed, ClientOpened, Idx
<1>2. ServerOpened <= ClientSealed /\ ServerOpened \in Nat
  BY Zenon, Ahead, UpFlow
<1>3. srv.plane = "none"
  BY Zenon, <1>1 DEF Body, Agreed
<1>4. srv.open.e = 0
  BY <1>1, <1>2, <1>3, Positions DEF Body, Shape, IsCodec, ServerOpened, Idx
<1>5. ServerSealed = 0
  BY Zenon, <1>3, <1>4 DEF Body, ServerAt, ServerSealed, Idx
<1>6. \A r \in In(s2c) : DownRec(r)
  BY Zenon, DownFlow
<1>7. \A r \in In(s2c) : r.m \notin Last
  BY Zenon, <1>3, <1>6 DEF DownRec, Last
<1>8. \A r \in In(s2c) : r.e = Plain \/ r.m \in Last
  BY Zenon, <1>1, <1>5, DownFlow, FlowIs
<1> QED BY Zenon, <1>1, <1>5, <1>7, <1>8

\* Taking the front record, in one piece or in two, when its pieces are
\* camouflage.
LEMMA FrontTaken ==
  ASSUME Body, FrontRecord > 0, s2c' = SubSeq(s2c, FrontRecord + 1, Len(s2c)), srv' = srv,
         Head(s2c).e = Plain, Head(s2c).m \notin Last,
         FrontRecord = 2 => s2c[2].e = Plain /\ s2c[2].m \notin Last,
         cli'.skipped \in {cli.skipped, cli.skipped + FrontRecord}
  PROVE  /\ Flow(s2c', ClientOpened, ServerSealed, tcp, cli.end)
         /\ In(s2c') \subseteq In(s2c) /\ Residual' /\ ClientOpened = 0
         /\ cli.end = "open"
<1>0. /\ s2c \in Seq(Rec) /\ s2c # <<>> /\ Len(s2c) \in Nat /\ Len(s2c) >= 1
      /\ FrontRecord \in {1, 2} /\ (FrontRecord = 2 => Len(s2c) >= 2)
  BY DownFlow DEF FrontRecord
<1>1. /\ cli.skipped \in Nat /\ srv.fwd \in Nat /\ Tolerable(s2c, cli.skipped)
      /\ ClientOpened \in Nat /\ ServerSealed \in Nat
  BY Zenon, DownFlow DEF Body, Shape, Residual
<1>2. /\ Flow(Tail(s2c), ClientOpened, ServerSealed, tcp, cli.end) /\ ClientOpened = 0
      /\ In(Tail(s2c)) \subseteq In(s2c) /\ cli.end = "open"
  BY Zenon, <1>0, DownTake
<1>3. Tail(s2c) \in Seq(Rec)
  BY Zenon, <1>0, RestIs
<1>4. CASE FrontRecord = 1
  <2>1. s2c' = Tail(s2c)
    BY <1>0, <1>4, RestTwo
  <2>2. cli'.skipped \in 0..cli.skipped + 1
    BY <1>1, <1>4
  <2>3. Residual'
    BY Zenon, <1>0, <2>1, <2>2, ResidualReads
  <2> QED BY Zenon, <1>2, <2>1, <2>3
<1>5. CASE FrontRecord = 2
  <2> DEFINE t == Tail(s2c)
  <2>0. s2c' = SubSeq(s2c, 3, Len(s2c)) /\ Len(s2c) >= 2
    BY <1>0, <1>5
  <2>1. t # <<>> /\ Head(t) = s2c[2] /\ s2c' = Tail(t)
    BY Zenon, <1>0, <2>0, RestTwo
  <2>2. t \in Seq(Rec) /\ Flow(t, ClientOpened, ServerSealed, tcp, cli.end)
    BY Zenon, <1>2, <1>3
  <2>8. /\ cli.skipped \in 0..cli.skipped + 1 /\ cli.skipped + 1 \in 0..cli.skipped + 1
        /\ cli.skipped + 1 \in Nat /\ cli.skipped + 2 \in 0..(cli.skipped + 1) + 1
    BY <1>1
  <2>3. Tolerable(t, cli.skipped) /\ Tolerable(t, cli.skipped + 1)
    BY Zenon, <1>0, <1>1, <2>8, TolerableRest
  <2>4. Head(t).e = Plain /\ Head(t).m \notin Last
    BY Zenon, <1>5, <2>1
  <2> HIDE DEF t
  <2>5. Flow(Tail(t), ClientOpened, ServerSealed, tcp, cli.end) /\ In(Tail(t)) \subseteq In(t)
    BY Zenon, <1>1, <2>1, <2>2, <2>4, FlowTake
  <2>6. Tolerable(Tail(t), cli.skipped) /\ Tolerable(Tail(t), cli.skipped + 2)
    BY Zenon, <1>1, <2>1, <2>2, <2>3, <2>8, TolerableRest
  <2>7. Residual'
    BY Zenon, <1>5, <2>1, <2>6 DEF Residual, Tolerable
  <2> QED BY Zenon, <1>2, <2>1, <2>5, <2>7 DEF t
<1> QED BY Zenon, <1>0, <1>4, <1>5

\* ClientReadsCamo keeps the invariant: the flight is read without a budget.
LEMMA ReadsCamo ==
  ASSUME Body, ClientReadsCamo PROVE Body'
<1>ends. Shape /\ ClientAt /\ ServerAt
  BY Zenon DEF Body
<1>know. Agreed /\ Counted /\ Heard
  BY Zenon DEF Body
<1>ctl. UpOrder /\ UpSays /\ DownOrder /\ DownSays /\ Residual
  BY Zenon DEF Body
<1>bidi. BidiUp /\ BidiDown
  BY Zenon DEF Body
<1>1. /\ cli' = cli /\ srv' = srv /\ c2s' = c2s /\ tcp' = tcp /\ quic' = quic /\ up' = up /\ dn' = dn
      /\ cli.pc = "camo" /\ FrontRecord > 0 /\ s2c' = SubSeq(s2c, FrontRecord + 1, Len(s2c))
  BY Zenon DEF ClientReadsCamo
<1>2. Shape' /\ ClientAt' /\ ServerAt' /\ Agreed' /\ Counted' /\ Heard'
  <2>1. Shape' /\ ClientAt'
    BY Zenon, <1>1, <1>ends DEF Shape, ClientAt
  <2>2. ServerAt' /\ Agreed' /\ Counted' /\ Heard'
    BY <1>1, <1>ends, <1>know DEF ServerAt, Agreed, Unoffered, Counted, Heard
  <2> QED BY Zenon, <2>1, <2>2
<1>3. ClientSealed' = ClientSealed /\ ServerOpened' = ServerOpened
      /\ ServerSealed' = ServerSealed /\ ClientOpened' = ClientOpened
  BY Zenon, <1>1 DEF ClientSealed, ServerOpened, ServerSealed, ClientOpened
<1>4. UpOrder' /\ UpSays' /\ BidiUp' /\ BidiDown'
  BY <1>1, <1>3, <1>ctl, <1>bidi DEF UpOrder, UpSays, UpRec, BidiUp, BidiDown
<1>5. Head(s2c) \in In(s2c) /\ (FrontRecord = 2 => s2c[2] \in In(s2c))
  <2>1. s2c # <<>> /\ s2c \in Seq(Rec) /\ (FrontRecord = 2 => Len(s2c) >= 2)
    BY <1>1, DownFlow DEF FrontRecord
  <2>2. FrontRecord = 2 => s2c[2] \in In(s2c)
    BY <2>1 DEF In
  <2> QED BY Zenon, <2>1, <2>2, DownTake
<1>6. Head(s2c).e = Plain /\ Head(s2c).m \notin Last
      /\ (FrontRecord = 2 => s2c[2].e = Plain /\ s2c[2].m \notin Last)
  BY Zenon, <1>1, <1>5, FlightOnly
<1>7. Flow(s2c', ClientOpened, ServerSealed, tcp, cli.end) /\ In(s2c') \subseteq In(s2c)
      /\ Residual' /\ cli.end = "open"
  BY Zenon, <1>1, <1>6, FrontTaken
<1>8. DownOrder' /\ DownSays'
  BY <1>1, <1>3, <1>7, <1>ctl DEF DownOrder, DownSays, DownRec, Unoffered
<1> QED BY Zenon, <1>2, <1>4, <1>7, <1>8 DEF Body

\* No end of stream is in flight before the client has chosen a plane.
LEMMA NotLastYet ==
  ASSUME Body, cli.plane = "none", s2c # <<>>
  PROVE  Head(s2c).m \notin Last
<1>1. srv.plane = "none"
  BY Zenon DEF Body, Agreed
<1> QED BY Zenon, <1>1, DownTake DEF DownRec, Last

\* What does not open for a client that waits for PX1K is camouflage within
\* its budget, and it is torn only if the origin's records arrive in pieces.
LEMMA ResidualHead ==
  ASSUME Body, cli.pc = "px1k", FrontRecord > 0, ~Opens(cli.open, Head(s2c))
  PROVE  /\ Head(s2c).e = Plain /\ Head(s2c).m \notin Last /\ s2c # <<>>
         /\ ResidualTolerated(cli.skipped)
         /\ FrontRecord = 2 /\ ~FrontIsTorn => s2c[2].e = Plain /\ s2c[2].m \notin Last
         /\ RecordUnits = 1 => ~FrontIsTorn
<1>1. s2c # <<>> /\ cli.plane = "none" /\ s2c \in Seq(Rec) /\ Len(s2c) \in Nat /\ Len(s2c) >= 1
  BY DownFlow DEF FrontRecord, Body, ClientAt
<1>2. Head(s2c).m \notin Last
  BY Zenon, <1>1, NotLastYet
<1>3. Head(s2c).e = Plain
  BY Zenon, <1>1, <1>2, HeadOpensDown
<1>4. Head(s2c) = s2c[1] /\ Head(s2c) \in In(s2c) /\ 1 \in 1..Len(s2c)
  BY <1>1, RestIs
<1>5. /\ cli.skipped \in Nat /\ ByteLimit \in Nat /\ Tolerable(s2c, cli.skipped)
  BY Zenon, SessionAssumption DEF Body, Shape, Residual
<1>6. cli.skipped + 1 <= ByteLimit
  BY Zenon, <1>2, <1>3, <1>4, <1>5 DEF Tolerable, Last
<1>7. ResidualTolerated(cli.skipped)
  BY <1>5, <1>6 DEF ResidualTolerated
<1>8. FrontRecord = 2 /\ ~FrontIsTorn => s2c[2].e = Plain /\ s2c[2].m \notin Last
  <2>1. FrontRecord = 2 => s2c[2] \in In(s2c)
    BY <1>1 DEF FrontRecord, In
  <2> QED BY Zenon, <2>1, DownFlow DEF FrontIsTorn, DownRec, Last
<1>9. RecordUnits = 1 => ~FrontIsTorn
  BY <1>4, <1>5 DEF Tolerable, FrontIsTorn, FrontRecord
<1> QED BY Zenon, <1>1, <1>2, <1>3, <1>7, <1>8, <1>9

\* ClientSkipsResidual keeps the invariant when it skips a whole record.
LEMMA SkipsResidual ==
  ASSUME Body, ClientSkipsResidual, ~FrontIsTorn PROVE Body'
<1>ends. Shape /\ ClientAt /\ ServerAt
  BY Zenon DEF Body
<1>know. Agreed /\ Counted /\ Heard
  BY Zenon DEF Body
<1>ctl. UpOrder /\ UpSays /\ DownOrder /\ DownSays /\ Residual
  BY Zenon DEF Body
<1>bidi. BidiUp /\ BidiDown
  BY Zenon DEF Body
<1>1. /\ srv' = srv /\ c2s' = c2s /\ tcp' = tcp /\ quic' = quic /\ up' = up /\ dn' = dn
      /\ cli.pc = "px1k" /\ FrontRecord > 0 /\ ~Opens(cli.open, Head(s2c))
  BY Zenon DEF ClientSkipsResidual
<1>2. /\ Head(s2c).e = Plain /\ Head(s2c).m \notin Last /\ ResidualTolerated(cli.skipped)
      /\ FrontRecord = 2 => s2c[2].e = Plain /\ s2c[2].m \notin Last
  BY Zenon, <1>1, ResidualHead
<1>3. /\ cli' = [cli EXCEPT !.skipped = @ + FrontRecord]
      /\ s2c' = SubSeq(s2c, FrontRecord + 1, Len(s2c))
  BY Zenon, <1>2 DEF ClientSkipsResidual
<1>4. FrontRecord \in Nat
  BY Zenon DEF FrontRecord
<1>5. ClientBecomes(cli.pc, cli.seal.e, cli.seal.n, cli.open.n, cli.frag, cli.skipped + FrontRecord,
                    cli.plane, cli.up, cli.dn, cli.end)
  BY Zenon, <1>3, <1>ends DEF ClientBecomes, Shape, ClientAt
<1>6. Shape' /\ ClientAt' /\ ServerAt' /\ Agreed' /\ Counted' /\ Heard'
  <2>1. Shape' /\ ClientAt'
    <3>1. Shape'
      BY <1>1, <1>4, <1>5, <1>ends DEF ClientBecomes, Shape
    <3>2. ClientAt'
      BY <1>1, <1>4, <1>5, <1>ends DEF ClientBecomes, ClientAt
    <3> QED BY Zenon, <3>1, <3>2
  <2>2. ServerAt' /\ Agreed' /\ Counted' /\ Heard'
    <3>1. ServerAt'
      BY Zenon, <1>1, <1>ends, ServerStays
    <3>2. Agreed' /\ Counted' /\ Heard'
      BY <1>1, <1>5, <1>know
         DEF ClientBecomes, Agreed, Unoffered, Counted, Heard
    <3> QED BY Zenon, <3>1, <3>2
  <2> QED BY Zenon, <2>1, <2>2
<1>7. ClientSealed' = ClientSealed /\ ServerOpened' = ServerOpened
      /\ ServerSealed' = ServerSealed /\ ClientOpened' = ClientOpened
  BY Zenon, <1>1, <1>5, <1>ends
     DEF ClientBecomes, ClientAt, ClientSealed, ServerOpened, ServerSealed, ClientOpened, Idx
<1>8. UpOrder' /\ UpSays' /\ BidiUp' /\ BidiDown'
  <2>1. UpOrder'
    BY Zenon, <1>1, <1>7, <1>ctl DEF UpOrder
  <2>2. UpSays'
    BY Zenon, <1>1, <1>5, <1>ctl DEF ClientBecomes, UpSays, UpRec
  <2>3. BidiUp' /\ BidiDown'
    BY Zenon, <1>1, <1>5, <1>bidi DEF ClientBecomes, BidiUp, BidiDown
  <2> QED BY Zenon, <2>1, <2>2, <2>3
<1>9. Flow(s2c', ClientOpened, ServerSealed, tcp, cli.end) /\ In(s2c') \subseteq In(s2c)
      /\ Residual' /\ cli.end = "open"
  BY Zenon, <1>1, <1>2, <1>3, <1>5, FrontTaken DEF ClientBecomes
<1>10. DownOrder' /\ DownSays'
  BY Zenon, <1>1, <1>5, <1>7, <1>9, <1>ctl
     DEF ClientBecomes, DownOrder, DownSays, DownRec, Unoffered
<1> QED BY Zenon, <1>6, <1>8, <1>9, <1>10 DEF Body

\* ClientReadsPx1k keeps the invariant: with the last chunk the client
\* rekeys, as the server has done.
LEMMA ReadsPx1k ==
  ASSUME Body, ClientReadsPx1k PROVE Body'
<1>ends. Shape /\ ClientAt /\ ServerAt
  BY Zenon DEF Body
<1>know. Agreed /\ Counted /\ Heard
  BY Zenon DEF Body
<1>ctl. UpOrder /\ UpSays /\ DownOrder /\ DownSays /\ Residual
  BY Zenon DEF Body
<1>bidi. BidiUp /\ BidiDown
  BY Zenon DEF Body
<1>0. /\ Chunks \in Nat /\ Chunks > 0 /\ cli.frag \in Nat /\ cli.pc = "px1k" /\ s2c # <<>>
      /\ Opens(cli.open, Head(s2c)) /\ IsCodec(cli.open) /\ IsCodec(cli.seal)
  BY Zenon, Positions, <1>ends DEF Shape, ClientReadsPx1k
<1>a. /\ cli.plane = "none" /\ cli.seal.e = 0 /\ cli.open.e = 0 /\ cli.seal.n = Chunks
      /\ cli.open.n = cli.frag /\ cli.frag < Chunks
  BY Zenon, <1>0, <1>ends DEF ClientAt
<1>b. Head(s2c).m \notin Last /\ Head(s2c).e # Plain
  BY <1>0, <1>a, NotLastYet DEF Opens, Plain
<1>c. Flow(Tail(s2c), ClientOpened + 1, ServerSealed, tcp, cli.end)
  BY Zenon, <1>0, <1>b, DownTake
<1>d. /\ s2c' = Tail(s2c)
      /\ srv' = srv /\ c2s' = c2s /\ tcp' = tcp /\ quic' = quic /\ up' = up /\ dn' = dn
  BY Zenon DEF ClientReadsPx1k
<1>1. \/ /\ ClientBecomes("px1k", 0, Chunks, cli.open.n + 1, cli.frag + 1, cli.skipped,
                          "none", cli.up, cli.dn, cli.end)
         /\ cli.frag + 1 < Chunks
      \/ /\ ClientBecomes("identity", 1, 0, 0, 0, 0, "none", cli.up, cli.dn, cli.end)
         /\ cli.frag + 1 = Chunks
  <2>1. CASE cli.frag + 1 < Chunks
    <3>1. /\ IsCodec(After(cli.open, 1)) /\ After(cli.open, 1).e = cli.open.e
          /\ After(cli.open, 1).n = cli.open.n + 1
      BY Zenon, <1>0, AfterOne
    <3>2. cli' = [cli EXCEPT !.frag = @ + 1, !.open = After(@, 1)]
      BY Zenon, <2>1 DEF ClientReadsPx1k
    <3> QED BY Zenon, <1>0, <1>a, <2>1, <3>1, <3>2, <1>ends DEF ClientBecomes, Shape
  <2>2. CASE ~(cli.frag + 1 < Chunks)
    <3>1. /\ IsCodec(Rekeyed(cli.open)) /\ Rekeyed(cli.open).e = 1 /\ Rekeyed(cli.open).n = 0
          /\ IsCodec(Rekeyed(cli.seal)) /\ Rekeyed(cli.seal).e = 1 /\ Rekeyed(cli.seal).n = 0
      <4>1. IsCodec(Rekeyed(cli.open)) /\ Rekeyed(cli.open).e = 1 /\ Rekeyed(cli.open).n = 0
        BY Zenon, <1>0, <1>a, RekeyedIs
      <4>2. IsCodec(Rekeyed(cli.seal)) /\ Rekeyed(cli.seal).e = 1 /\ Rekeyed(cli.seal).n = 0
        BY Zenon, <1>0, <1>a, RekeyedIs
      <4> QED BY Zenon, <4>1, <4>2
    <3>2. cli' = [cli EXCEPT !.pc = "identity", !.frag = 0, !.skipped = 0,
                             !.open = Rekeyed(@), !.seal = Rekeyed(@)]
      BY Zenon, <2>2 DEF ClientReadsPx1k
    <3>3. cli.frag + 1 = Chunks
      BY <1>0, <1>a, <2>2
    <3> QED BY Zenon, <1>a, <3>1, <3>2, <3>3, <1>ends DEF ClientBecomes, Shape
  <2> QED BY Zenon, <2>1, <2>2
<1>2. Shape' /\ ClientAt' /\ ServerAt' /\ Agreed' /\ Counted' /\ Heard'
  <2>1. Shape' /\ ClientAt'
    <3>1. Shape'
      BY <1>0, <1>1, <1>a, <1>d, <1>ends DEF ClientBecomes, Shape
    <3>2. ClientAt'
      BY <1>0, <1>1, <1>a, <1>d, <1>ends DEF ClientBecomes, ClientAt
    <3> QED BY Zenon, <3>1, <3>2
  <2>2. ServerAt' /\ Agreed' /\ Counted' /\ Heard'
    <3>1. ServerAt'
      BY Zenon, <1>d, <1>ends, ServerStays
    <3>2. Agreed' /\ Counted' /\ Heard'
      BY <1>0, <1>1, <1>a, <1>d, <1>know
         DEF ClientBecomes, Agreed, Unoffered, Counted, Heard
    <3> QED BY Zenon, <3>1, <3>2
  <2> QED BY Zenon, <2>1, <2>2
<1>3. ClientSealed' = ClientSealed /\ ServerOpened' = ServerOpened
      /\ ServerSealed' = ServerSealed /\ ClientOpened' = ClientOpened + 1
  BY <1>0, <1>1, <1>a, <1>d
     DEF ClientBecomes, ClientSealed, ServerOpened, ServerSealed, ClientOpened, Idx
<1>e. /\ cli'.pc \in {"px1k", "identity"} /\ cli'.plane = "none" /\ cli'.up = cli.up /\ cli'.dn = cli.dn
      /\ cli'.end = cli.end /\ cli'.skipped \in {cli.skipped, 0}
  BY Zenon, <1>1 DEF ClientBecomes
<1>4. UpOrder' /\ UpSays' /\ BidiUp' /\ BidiDown'
  BY Zenon, <1>0, <1>3, <1>a, <1>d, <1>e, <1>ctl, <1>bidi
     DEF UpOrder, UpSays, UpRec, BidiUp, BidiDown
<1>5. /\ In(s2c') \subseteq In(s2c) /\ \A r \in In(s2c') : DownRec(r)
  BY Zenon, <1>0, <1>d, DownTake
<1>6. DownOrder'
  BY Zenon, <1>3, <1>c, <1>d, <1>e, <1>0, <1>ends, <1>ctl DEF DownOrder, ClientAt
<1>7. DownSays'
  BY Zenon, <1>0, <1>5, <1>d, <1>e, <1>ctl DEF DownSays, DownRec, Unoffered
<1>8. Residual'
  BY <1>0, <1>e, <1>d, ResidualReads, <1>ends DEF Shape
<1> QED BY Zenon, <1>2, <1>4, <1>6, <1>7, <1>8 DEF Body

-----------------------------------------------------------------------------
(* The client chooses a plane *)

\* ClientSkipsUdp keeps the invariant: without UDP the plane is TCP.
LEMMA SkipsUdp ==
  ASSUME Body, ClientSkipsUdp PROVE Body'
<1>ends. Shape /\ ClientAt /\ ServerAt
  BY Zenon DEF Body
<1>know. Agreed /\ Counted /\ Heard
  BY Zenon DEF Body
<1>ctl. UpOrder /\ UpSays /\ DownOrder /\ DownSays /\ Residual
  BY Zenon DEF Body
<1>bidi. BidiUp /\ BidiDown
  BY Zenon DEF Body
<1>0. /\ Chunks \in Nat /\ Chunks > 0 /\ cli.pc = "verified" /\ IsCodec(cli.open) /\ IsCodec(cli.seal)
  BY Zenon, Positions, <1>ends DEF Shape, ClientSkipsUdp
<1>a. /\ cli.plane = "none" /\ cli.seal.e = 1 /\ cli.open.e = 1 /\ cli.seal.n = 0 /\ cli.open.n = Chunks
      /\ ~cli.up /\ ~cli.dn /\ up.sent = 0 /\ dn.got = 0 /\ cli.end = "open"
  BY Zenon, <1>0, <1>ends DEF ClientAt
<1>1. /\ ClientBecomes("command", 1, 0, Chunks, cli.frag, cli.skipped, "tcp", cli.up, cli.dn, cli.end)
      /\ srv' = srv /\ c2s' = c2s /\ s2c' = s2c /\ tcp' = tcp /\ quic' = quic /\ up' = up /\ dn' = dn
  BY Zenon, <1>0, <1>a, <1>ends DEF ClientSkipsUdp, ClientBecomes, Shape
<1>b. srv.plane = "none" /\ dn.sent = 0 /\ up.got = 0
  BY Zenon, <1>a, <1>ends, <1>know DEF Agreed, ServerAt
<1>c. srv.seal.e = 1 /\ srv.open.e = 1 /\ IsCodec(srv.seal) /\ IsCodec(srv.open)
  BY Zenon, <1>a, Ahead, <1>ends DEF ServerAt, Shape
<1>d. srv.open.n = 0
  <2>1. ServerOpened <= ClientSealed /\ ClientSealed = Chunks /\ ServerOpened = Chunks + srv.open.n
    BY <1>0, <1>a, <1>b, <1>c, Ahead DEF ServerOpened, ClientSealed, Idx
  <2> QED BY <1>0, <1>c, <2>1 DEF IsCodec
<1>e. srv.seal.n = Chunks
  <2>1. ClientOpened <= ServerSealed /\ ClientOpened = Chunks + Chunks /\ ServerSealed = Chunks + srv.seal.n
    BY <1>0, <1>a, <1>b, <1>c, Ahead DEF ServerSealed, ClientOpened, Idx
  <2>2. srv.seal.n <= Chunks
    BY Zenon, <1>b, <1>c, <1>d, <1>ends DEF ServerAt
  <2> QED BY <1>0, <1>c, <2>1, <2>2 DEF IsCodec
<1>2. Shape' /\ ClientAt' /\ ServerAt' /\ Agreed' /\ Counted' /\ Heard'
  <2>1. Shape' /\ ClientAt'
    <3>1. Shape'
      BY <1>0, <1>1, <1>a, <1>ends DEF ClientBecomes, Shape
    <3>2. ClientAt'
      BY <1>0, <1>1, <1>a, <1>ends DEF ClientBecomes, ClientAt
    <3> QED BY Zenon, <3>1, <3>2
  <2>2. ServerAt' /\ Agreed' /\ Counted' /\ Heard'
    <3>1. ServerAt'
      BY Zenon, <1>1, <1>ends, ServerStays
    <3>2. Agreed' /\ Counted' /\ Heard'
      BY <1>0, <1>1, <1>a, <1>b, <1>c, <1>e, <1>know
         DEF ClientBecomes, Agreed, Unoffered, Counted, Heard
    <3> QED BY Zenon, <3>1, <3>2
  <2> QED BY Zenon, <2>1, <2>2
<1>3. ClientSealed' = ClientSealed /\ ServerOpened' = ServerOpened
      /\ ServerSealed' = ServerSealed /\ ClientOpened' = ClientOpened
  BY Zenon, <1>1, <1>a
     DEF ClientBecomes, ClientSealed, ServerOpened, ServerSealed, ClientOpened, Idx
<1>4. UpOrder' /\ DownOrder' /\ BidiUp' /\ BidiDown' /\ Residual'
  BY Zenon, <1>1, <1>3, <1>a, <1>ctl, <1>bidi
     DEF ClientBecomes, UpOrder, DownOrder, BidiUp, BidiDown, Leg, Residual, Tolerable
<1>5. UpSays' /\ DownSays'
  BY Zenon, <1>0, <1>1, <1>a, <1>ctl DEF ClientBecomes, UpSays, UpRec, DownSays, DownRec, Unoffered
<1> QED BY Zenon, <1>2, <1>4, <1>5 DEF Body

\* ClientRequestsUdp keeps the invariant: PX1G takes number 0 of epoch 1.
LEMMA RequestsUdp ==
  ASSUME Body, ClientRequestsUdp PROVE Body'
<1>ends. Shape /\ ClientAt /\ ServerAt
  BY Zenon DEF Body
<1>know. Agreed /\ Counted /\ Heard
  BY Zenon DEF Body
<1>ctl. UpOrder /\ UpSays /\ DownOrder /\ DownSays /\ Residual
  BY Zenon DEF Body
<1>bidi. BidiUp /\ BidiDown
  BY Zenon DEF Body
<1>0. /\ Chunks \in Nat /\ Chunks > 0 /\ cli.pc = "verified" /\ IsCodec(cli.open) /\ IsCodec(cli.seal)
  BY Zenon, Positions, <1>ends DEF Shape, ClientRequestsUdp
<1>a. /\ cli.plane = "none" /\ cli.seal.e = 1 /\ cli.open.e = 1 /\ cli.seal.n = 0 /\ cli.open.n = Chunks
      /\ ~cli.up /\ ~cli.dn /\ up.sent = 0 /\ dn.got = 0 /\ cli.end = "open"
  BY Zenon, <1>0, <1>ends DEF ClientAt
<1>b. /\ IsCodec(After(cli.seal, 1)) /\ After(cli.seal, 1).e = 1 /\ After(cli.seal, 1).n = 1
  <2>1. /\ IsCodec(After(cli.seal, 1)) /\ After(cli.seal, 1).e = cli.seal.e
        /\ After(cli.seal, 1).n = cli.seal.n + 1
    BY Zenon, <1>0, AfterIs
  <2> QED BY <1>a, <2>1
<1>1. /\ ClientBecomes("answer", 1, 1, Chunks, cli.frag, cli.skipped, "none", cli.up, cli.dn, cli.end)
      /\ srv' = srv /\ s2c' = s2c /\ tcp' = tcp /\ quic' = quic /\ up' = up /\ dn' = dn
  BY Zenon, <1>0, <1>a, <1>b, <1>ends DEF ClientRequestsUdp, ClientBecomes, Shape
<1>2. Shape' /\ ClientAt' /\ ServerAt' /\ Agreed' /\ Counted' /\ Heard'
  <2>1. Shape' /\ ClientAt'
    <3>1. Shape'
      BY <1>0, <1>1, <1>a, <1>ends DEF ClientBecomes, Shape
    <3>2. ClientAt'
      BY <1>0, <1>1, <1>a, <1>ends DEF ClientBecomes, ClientAt
    <3> QED BY Zenon, <3>1, <3>2
  <2>2. ServerAt' /\ Agreed' /\ Counted' /\ Heard'
    <3>1. ServerAt'
      BY Zenon, <1>1, <1>ends, ServerStays
    <3>2. Agreed' /\ Counted' /\ Heard'
      BY <1>0, <1>1, <1>a, <1>know
         DEF ClientBecomes, Agreed, Unoffered, Counted, Heard
    <3> QED BY Zenon, <3>1, <3>2
  <2> QED BY Zenon, <2>1, <2>2
<1>3. ClientSealed' = ClientSealed + 1 /\ ClientSealed = Idx(cli.seal) /\ ServerOpened' = ServerOpened
      /\ ServerSealed' = ServerSealed /\ ClientOpened' = ClientOpened
  BY <1>0, <1>1, <1>a DEF ClientBecomes, ClientSealed, ServerOpened, ServerSealed, ClientOpened, Idx
<1>4. DownOrder' /\ BidiUp' /\ BidiDown' /\ Residual'
  BY Zenon, <1>1, <1>3, <1>a, <1>ctl, <1>bidi
     DEF ClientBecomes, DownOrder, BidiUp, BidiDown, Residual, Tolerable
<1>5. Open(c2s)
  BY Zenon, <1>a, <1>ctl DEF UpSays, UpRec, Open, Last
<1>6. /\ Flow(c2s', ServerOpened, ClientSealed + 1, tcp, srv.end)
      /\ srv.end # "open" => c2s' = <<>>
      /\ \A r \in In(c2s') : UpRec(r) \/ (r.e = cli.seal.e /\ r.n = cli.seal.n /\ r.m = "px1g")
  BY Zenon, <1>3, <1>5, UpSeal DEF ClientRequestsUdp, Msg, Last
<1>7. UpOrder'
  BY Zenon, <1>1, <1>3, <1>6, <1>ctl DEF UpOrder
<1>8. UpSays'
  BY Zenon, <1>0, <1>1, <1>6, <1>a, <1>ctl DEF ClientBecomes, UpSays, UpRec
<1>9. DownSays'
  BY <1>0, <1>1, <1>a, <1>ctl DEF ClientBecomes, DownSays, DownRec, Unoffered
<1> QED BY Zenon, <1>2, <1>4, <1>7, <1>8, <1>9 DEF Body

\* Once the server has answered, the client's request is no longer in
\* flight.
LEMMA Answered ==
  ASSUME Body, cli.seal.e = 1, cli.plane = "none", cli.seal.n = 1, ServerSealed > Chunks + Chunks
  PROVE  /\ srv.plane = "none" /\ srv.seal.e = 1 /\ srv.seal.n = Chunks + 1
         /\ dn.sent = 0 /\ up.got = 0
         /\ ServerSealed = Chunks + Chunks + 1
         /\ \A r \in In(c2s) : r.m # "px1g"
<1>ends. Shape /\ ClientAt /\ ServerAt
  BY Zenon DEF Body
<1>know. Agreed /\ Counted /\ Heard
  BY Zenon DEF Body
<1>0. Chunks \in Nat /\ Chunks > 0
  BY Zenon, Positions, <1>ends
<1>1. srv.plane = "none" /\ dn.sent = 0 /\ up.got = 0
  BY Zenon, <1>ends, <1>know DEF Agreed, ServerAt
<1>2. srv.seal.e = 1 /\ srv.open.e = 1 /\ IsCodec(srv.seal) /\ IsCodec(srv.open)
  BY Zenon, Ahead, <1>ends DEF ServerAt, Shape
<1>3. ServerSealed = Chunks + srv.seal.n /\ srv.seal.n \in Nat /\ srv.open.n \in Nat
  BY <1>1, <1>2 DEF ServerSealed, Idx, IsCodec
<1>4. srv.seal.n > Chunks
  BY <1>0, <1>3
<1>5. srv.seal.n = Chunks + 1 /\ srv.open.n # 0
  <2>1. srv.seal.n <= Chunks + 1 /\ (srv.open.n = 0 => srv.seal.n <= Chunks)
    BY Zenon, <1>1, <1>2, <1>ends DEF ServerAt
  <2> QED BY <1>0, <1>3, <1>4, <2>1
<1>6. ServerOpened = Chunks + srv.open.n /\ ClientSealed = Chunks + 1
  BY <1>1, <1>2 DEF ServerOpened, ClientSealed, Idx
<1>7. ServerOpened = ClientSealed
  BY <1>0, <1>3, <1>5, <1>6, Ahead
<1>8. \A r \in In(c2s) : r.e = Plain \/ r.m \in Last
  BY Zenon, <1>7, UpFlow, FlowIs
<1>9. \A r \in In(c2s) : r.m # "px1g"
  BY <1>8, UpFlow DEF UpRec, Plain, Last
<1> QED BY <1>0, <1>1, <1>2, <1>3, <1>5, <1>9

\* ClientReadsAnswer keeps the invariant: an offer starts the probe, a
\* refusal chooses TCP.
LEMMA ReadsAnswer ==
  ASSUME Body, ClientReadsAnswer PROVE Body'
<1>ends. Shape /\ ClientAt /\ ServerAt
  BY Zenon DEF Body
<1>know. Agreed /\ Counted /\ Heard
  BY Zenon DEF Body
<1>ctl. UpOrder /\ UpSays /\ DownOrder /\ DownSays /\ Residual
  BY Zenon DEF Body
<1>bidi. BidiUp /\ BidiDown
  BY Zenon DEF Body
<1>0. /\ Chunks \in Nat /\ Chunks > 0 /\ cli.pc = "answer" /\ s2c # <<>>
      /\ IsCodec(cli.open) /\ IsCodec(cli.seal)
  BY Zenon, Positions, <1>ends DEF Shape, ClientReadsAnswer, ClientReads
<1>a. /\ cli.plane = "none" /\ cli.seal.e = 1 /\ cli.open.e = 1 /\ cli.seal.n = 1 /\ cli.open.n = Chunks
      /\ ~cli.up /\ ~cli.dn /\ up.sent = 0 /\ dn.got = 0 /\ cli.end = "open"
  BY Zenon, <1>0, <1>ends DEF ClientAt
<1>b. /\ Opens(cli.open, Head(s2c)) /\ Head(s2c).m \notin Last /\ Head(s2c).e # Plain
      /\ Flow(Tail(s2c), ClientOpened + 1, ServerSealed, tcp, cli.end)
      /\ ClientOpened < ServerSealed
  BY Zenon, <1>0, <1>a, ControlOpensDown, DownTake
<1>c. /\ IsCodec(After(cli.open, 1)) /\ After(cli.open, 1).e = cli.open.e
      /\ After(cli.open, 1).n = cli.open.n + 1
  BY Zenon, <1>0, AfterOne
<1>d. /\ s2c' = Tail(s2c)
      /\ srv' = srv /\ c2s' = c2s /\ tcp' = tcp /\ up' = up /\ dn' = dn
      /\ DOMAIN quic' = DOMAIN quic /\ quic'.close = quic.close /\ quic'.up = quic.up /\ quic'.dn = quic.dn
  BY <1>b, <1>ends DEF ClientReadsAnswer, ClientReads, Shape
<1>e. ClientOpened = Chunks + Chunks
  BY <1>a DEF ClientOpened, Idx
<1>f. /\ srv.plane = "none" /\ srv.seal.e = 1 /\ srv.seal.n = Chunks + 1 /\ dn.sent = 0 /\ up.got = 0
      /\ ServerSealed = Chunks + Chunks + 1 /\ \A r \in In(c2s) : r.m # "px1g"
  BY Zenon, <1>0, <1>a, <1>b, <1>e, Answered
<1>1. \/ /\ ClientBecomes("probe", 1, 1, Chunks + 1, cli.frag, cli.skipped, "none", cli.up, cli.dn, cli.end)
         /\ Head(s2c).m = "px1o"
      \/ ClientBecomes("command", 1, 1, Chunks + 1, cli.frag, cli.skipped, "tcp", cli.up, cli.dn, cli.end)
  <2> DEFINE read == IF Head(s2c).m = "px1o" THEN [cli EXCEPT !.pc = "probe"]
                                 ELSE [cli EXCEPT !.pc = "command", !.plane = "tcp"]
  <2>3. cli' = [read EXCEPT !.open = After(@, 1)]
    BY Zenon, <1>b DEF ClientReadsAnswer, ClientReads
  <2>1. CASE Head(s2c).m = "px1o"
    <3>1. read = [cli EXCEPT !.pc = "probe"]
      BY Zenon, <2>1
    <3> HIDE DEF read
    <3> QED BY Zenon, <1>0, <1>a, <1>c, <2>1, <2>3, <3>1, <1>ends DEF ClientBecomes, Shape
  <2>2. CASE Head(s2c).m # "px1o"
    <3>1. read = [cli EXCEPT !.pc = "command", !.plane = "tcp"]
      BY Zenon, <2>2
    <3> HIDE DEF read
    <3> QED BY Zenon, <1>0, <1>a, <1>c, <2>2, <2>3, <3>1, <1>ends DEF ClientBecomes, Shape
  <2> QED BY Zenon, <2>1, <2>2
<1>g. Head(s2c).m = "px1o" => ~Unoffered
  BY Zenon, <1>0, DownTake DEF DownRec
<1>2. Shape' /\ ClientAt' /\ ServerAt' /\ Agreed' /\ Counted' /\ Heard'
  <2>1. Shape' /\ ClientAt'
    <3>1. Shape'
      BY <1>0, <1>1, <1>a, <1>d, <1>ends DEF ClientBecomes, Shape
    <3>2. ClientAt'
      BY <1>0, <1>1, <1>a, <1>d, <1>ends DEF ClientBecomes, ClientAt
    <3> QED BY Zenon, <3>1, <3>2
  <2>2. ServerAt' /\ Agreed' /\ Counted' /\ Heard'
    <3>1. ServerAt'
      BY Zenon, <1>d, <1>ends, ServerStays
    <3>2. Agreed' /\ Counted' /\ Heard'
      BY <1>0, <1>1, <1>a, <1>d, <1>f, <1>g, <1>know
         DEF ClientBecomes, Agreed, Unoffered, Counted, Heard
    <3> QED BY Zenon, <3>1, <3>2
  <2> QED BY Zenon, <2>1, <2>2
<1>h. /\ cli'.pc \in {"probe", "command"} /\ cli'.plane \in {"none", "tcp"} /\ cli'.up = cli.up /\ cli'.dn = cli.dn
      /\ cli'.end = cli.end /\ cli'.skipped = cli.skipped
      /\ cli'.seal.e = 1 /\ cli'.seal.n = 1 /\ cli'.open.e = 1 /\ cli'.open.n = Chunks + 1
  BY Zenon, <1>1 DEF ClientBecomes
<1>3. ClientSealed' = ClientSealed /\ ServerOpened' = ServerOpened
      /\ ServerSealed' = ServerSealed /\ ClientOpened' = ClientOpened + 1
  BY <1>0, <1>a, <1>d, <1>h DEF ClientSealed, ServerOpened, ServerSealed, ClientOpened, Idx
<1>4. UpOrder' /\ BidiUp' /\ BidiDown'
  BY Zenon, <1>0, <1>3, <1>a, <1>d, <1>h, <1>ctl, <1>bidi DEF UpOrder, BidiUp, BidiDown, Leg
<1>5. UpSays'
  BY Zenon, <1>0, <1>a, <1>d, <1>f, <1>h, <1>ctl DEF UpSays, UpRec
<1>6. DownOrder'
  BY Zenon, <1>3, <1>b, <1>d, <1>h, <1>a, <1>ctl DEF DownOrder
<1>7. DownSays'
  <2>1. ClientOpened + 1 = ServerSealed /\ ClientOpened + 1 \in Nat /\ ServerSealed \in Nat /\ ClientOpened + 1 > 0
    BY <1>0, <1>e, <1>f
  <2>2. \A r \in In(s2c') : r.e = Plain \/ r.m \in Last
    BY Zenon, <1>b, <1>d, <2>1, FlowIs
  <2>3. NoCamo(s2c')
    BY Zenon, <1>b, <1>d, <2>1, FlowIs
  <2>4. \A r \in In(s2c') : DownRec(r) /\ r.m # "px1o"
    BY Zenon, <1>0, <1>d, <2>2, <2>3, DownTake DEF NoCamo, Last
  <2> QED BY Zenon, <1>d, <2>4, <1>ctl DEF DownSays, DownRec
<1>8. Residual'
  BY <1>0, <1>h, <1>d, ResidualReads, <1>ends DEF Shape
<1> QED BY Zenon, <1>2, <1>4, <1>5, <1>6, <1>7, <1>8 DEF Body

\* ClientAcks keeps the invariant: the outcome it reports and the plane it
\* chooses agree.
LEMMA Acks ==
  ASSUME Body, ClientAcks PROVE Body'
<1>ends. Shape /\ ClientAt /\ ServerAt
  BY Zenon DEF Body
<1>know. Agreed /\ Counted /\ Heard
  BY Zenon DEF Body
<1>ctl. UpOrder /\ UpSays /\ DownOrder /\ DownSays /\ Residual
  BY Zenon DEF Body
<1>bidi. BidiUp /\ BidiDown
  BY Zenon DEF Body
<1>0. /\ Chunks \in Nat /\ Chunks > 0 /\ cli.pc = "probe" /\ IsCodec(cli.open) /\ IsCodec(cli.seal)
  BY Zenon, Positions, <1>ends DEF Shape, ClientAcks
<1>a. /\ cli.plane = "none" /\ cli.seal.e = 1 /\ cli.open.e = 1 /\ cli.seal.n = 1 /\ cli.open.n = Chunks + 1
      /\ ~cli.up /\ ~cli.dn /\ up.sent = 0 /\ dn.got = 0 /\ cli.end = "open"
  BY Zenon, <1>0, <1>ends DEF ClientAt
<1>b. /\ IsCodec(After(cli.seal, 1)) /\ After(cli.seal, 1).e = cli.seal.e
      /\ After(cli.seal, 1).n = cli.seal.n + 1
  BY Zenon, <1>0, AfterOne
<1>c. PICK o \in {"unverified", "zeroid", "verified"} :
         /\ cli' = [cli EXCEPT !.pc = "command", !.seal = After(@, 1), !.plane = PlaneFor(o)]
         /\ ToServer(Seal(cli.seal, o))
  BY Zenon DEF ClientAcks, ProbeOutcomes
<1>d. srv' = srv /\ s2c' = s2c /\ tcp' = tcp /\ quic' = quic /\ up' = up /\ dn' = dn
  BY Zenon DEF ClientAcks
<1>e. ServerSealed > Chunks + Chunks
  <2>1. ClientOpened = Chunks + Chunks + 1 /\ ClientOpened <= ServerSealed /\ ServerSealed \in Nat
    BY <1>0, <1>a, Ahead, DownFlow DEF ClientOpened, Idx
  <2> QED BY <1>0, <2>1
<1>f. /\ srv.plane = "none" /\ srv.seal.e = 1 /\ srv.seal.n = Chunks + 1 /\ dn.sent = 0 /\ up.got = 0
  BY Zenon, <1>a, <1>e, Answered
<1>1. /\ ClientBecomes("command", 1, 2, Chunks + 1, cli.frag, cli.skipped, cli'.plane, cli.up, cli.dn, cli.end)
      /\ o = "verified" => cli'.plane = "quic"
      /\ o # "verified" => cli'.plane = "tcp"
  BY <1>0, <1>a, <1>b, <1>c, <1>ends DEF ClientBecomes, Shape, PlaneFor
<1>g. cli'.plane \in {"quic", "tcp"}
  BY Zenon, <1>1
<1>2. Shape' /\ ClientAt' /\ ServerAt' /\ Agreed' /\ Counted' /\ Heard'
  <2>1. Shape' /\ ClientAt'
    <3>1. Shape'
      BY <1>0, <1>1, <1>a, <1>d, <1>g, <1>ends DEF ClientBecomes, Shape
    <3>2. ClientAt'
      BY <1>0, <1>1, <1>a, <1>d, <1>g, <1>ends DEF ClientBecomes, ClientAt
    <3> QED BY Zenon, <3>1, <3>2
  <2>2. ServerAt' /\ Agreed' /\ Counted' /\ Heard'
    <3>1. ServerAt'
      BY Zenon, <1>d, <1>ends, ServerStays
    <3>2. Agreed' /\ Counted' /\ Heard'
      BY Zenon, <1>0, <1>1, <1>a, <1>d, <1>f, <1>g, <1>know
         DEF ClientBecomes, Agreed, Unoffered, Counted, Heard
    <3> QED BY Zenon, <3>1, <3>2
  <2> QED BY Zenon, <2>1, <2>2
<1>3. ClientSealed' = ClientSealed + 1 /\ ClientSealed = Idx(cli.seal) /\ ServerOpened' = ServerOpened
      /\ ServerSealed' = ServerSealed /\ ClientOpened' = ClientOpened
  BY <1>0, <1>1, <1>a, <1>d
     DEF ClientBecomes, ClientSealed, ServerOpened, ServerSealed, ClientOpened, Idx
<1>4. DownOrder' /\ BidiDown' /\ Residual'
  BY Zenon, <1>1, <1>3, <1>d, <1>ctl, <1>bidi
     DEF ClientBecomes, DownOrder, BidiDown, Residual, Tolerable
<1>h. BidiUp'
  <2>1. quic.up = <<>> /\ In(<<>>) = {}
    BY Zenon, <1>a, Nothing, <1>bidi DEF BidiUp
  <2>2. Whole(<<>>, Chunks + 3 + 0, Chunks + 3 + 0) /\ Partial(<<>>, Chunks + 3 + 0, Chunks + 3 + 0)
    BY <1>0, NoneLeft
  <2>3. Flow(<<>>, Chunks + 3 + 0, Chunks + 3 + 0, Leg(cli'.plane), quic.close)
    BY Zenon, <2>2 DEF Flow
  <2> QED BY Zenon, <1>a, <1>d, <1>f, <2>1, <2>3, <1>bidi DEF BidiUp
<1>5. Open(c2s)
  BY Zenon, <1>a, <1>ctl DEF UpSays, UpRec, Open, Last
<1>6. /\ Flow(c2s', ServerOpened, ClientSealed + 1, tcp, srv.end)
      /\ srv.end # "open" => c2s' = <<>>
      /\ \A r \in In(c2s') : UpRec(r) \/ (r.e = cli.seal.e /\ r.n = cli.seal.n /\ r.m = o)
  <2>1. o \in Msg /\ o \notin Last
    BY Zenon DEF Msg, Last
  <2> QED BY Zenon, <1>3, <1>5, <1>c, <2>1, UpSeal
<1>7. UpOrder'
  BY Zenon, <1>1, <1>3, <1>6, <1>d, <1>ctl DEF UpOrder
<1>8. UpSays'
  BY <1>0, <1>1, <1>6, <1>a, <1>d, <1>ctl DEF ClientBecomes, UpSays, UpRec
<1>9. DownSays'
  BY <1>0, <1>1, <1>a, <1>d, <1>ctl DEF ClientBecomes, DownSays, DownRec, Unoffered
<1> QED BY Zenon, <1>2, <1>4, <1>h, <1>7, <1>8, <1>9 DEF Body

\* ClientCommands keeps the invariant: the command says which plane was
\* chosen.
LEMMA SendsCommand ==
  ASSUME Body, ClientCommands PROVE Body'
<1>ends. Shape /\ ClientAt /\ ServerAt
  BY Zenon DEF Body
<1>know. Agreed /\ Counted /\ Heard
  BY Zenon DEF Body
<1>ctl. UpOrder /\ UpSays /\ DownOrder /\ DownSays /\ Residual
  BY Zenon DEF Body
<1>bidi. BidiUp /\ BidiDown
  BY Zenon DEF Body
<1>0. /\ Chunks \in Nat /\ Chunks > 0 /\ cli.pc = "command" /\ IsCodec(cli.open) /\ IsCodec(cli.seal)
      /\ cli.plane \in {"none", "tcp", "quic"}
  BY Zenon, Positions, <1>ends DEF Shape, ClientCommands
<1>a. /\ cli.plane # "none" /\ cli.seal.e = 1 /\ cli.open.e = 1
      /\ cli.plane = "quic" => cli.seal.n = 2 /\ cli.open.n = Chunks + 1
      /\ ~cli.up /\ ~cli.dn /\ up.sent = 0 /\ dn.got = 0 /\ cli.end = "open"
  BY <1>0, <1>ends DEF ClientAt
<1>b. /\ IsCodec(After(cli.seal, 1)) /\ After(cli.seal, 1).e = cli.seal.e
      /\ After(cli.seal, 1).n = cli.seal.n + 1 /\ cli.seal.n \in Nat
  BY Zenon, <1>0, AfterOne DEF IsCodec
<1>c. PICK m \in {"connect", "mux", "muxquic"} :
         /\ cli' = [cli EXCEPT !.pc = IF m = "connect" THEN "relay" ELSE "mux", !.seal = After(@, 1)]
         /\ ToServer(Seal(cli.seal, m))
         /\ m = "muxquic" => cli.plane = "quic"
         /\ m = "mux" => cli.plane = "tcp"
  BY Zenon, <1>0, <1>a DEF ClientCommands, Commands
<1>d. srv' = srv /\ s2c' = s2c /\ tcp' = tcp /\ quic' = quic /\ up' = up /\ dn' = dn
  BY Zenon DEF ClientCommands
<1>f. srv.plane = "none" /\ up.got = 0 /\ dn.sent = 0
  BY Zenon, <1>0, <1>ends, <1>know DEF Agreed, ServerAt
<1>1. /\ ClientBecomes(cli'.pc, 1, cli.seal.n + 1, cli.open.n, cli.frag, cli.skipped, cli.plane, cli.up, cli.dn, cli.end)
      /\ cli'.pc \in {"relay", "mux"}
  BY Zenon, <1>0, <1>a, <1>b, <1>c, <1>ends DEF ClientBecomes, Shape
<1>2. Shape' /\ ClientAt' /\ ServerAt' /\ Agreed' /\ Counted' /\ Heard'
  <2>1. Shape' /\ ClientAt'
    <3>1. Shape'
      BY <1>0, <1>1, <1>a, <1>b, <1>d, <1>ends DEF ClientBecomes, Shape
    <3>2. ClientAt'
      BY <1>0, <1>1, <1>a, <1>b, <1>d, <1>ends DEF ClientBecomes, ClientAt
    <3> QED BY Zenon, <3>1, <3>2
  <2>2. ServerAt' /\ Agreed' /\ Counted' /\ Heard'
    <3>1. ServerAt'
      BY Zenon, <1>d, <1>ends, ServerStays
    <3>2. Agreed' /\ Counted' /\ Heard'
      BY <1>0, <1>1, <1>a, <1>d, <1>f, <1>know
         DEF ClientBecomes, Agreed, Unoffered, Counted, Heard
    <3> QED BY Zenon, <3>1, <3>2
  <2> QED BY Zenon, <2>1, <2>2
<1>3. ClientSealed' = ClientSealed + 1 /\ ClientSealed = Idx(cli.seal) /\ ServerOpened' = ServerOpened
      /\ ServerSealed' = ServerSealed /\ ClientOpened' = ClientOpened
  BY <1>0, <1>1, <1>a, <1>b, <1>d
     DEF ClientBecomes, ClientSealed, ServerOpened, ServerSealed, ClientOpened, Idx
<1>4. DownOrder' /\ BidiUp' /\ BidiDown' /\ Residual'
  BY Zenon, <1>1, <1>3, <1>d, <1>ctl, <1>bidi
     DEF ClientBecomes, DownOrder, BidiUp, BidiDown, Residual, Tolerable
<1>5. Open(c2s)
  BY Zenon, <1>0, <1>a, <1>ctl DEF UpSays, UpRec, Open, Last
<1>6. /\ Flow(c2s', ServerOpened, ClientSealed + 1, tcp, srv.end)
      /\ srv.end # "open" => c2s' = <<>>
      /\ \A r \in In(c2s') : UpRec(r) \/ (r.e = cli.seal.e /\ r.n = cli.seal.n /\ r.m = m)
  <2>1. m \in Msg /\ m \notin Last
    BY Zenon DEF Msg, Last
  <2> QED BY Zenon, <1>3, <1>5, <1>c, <2>1, UpSeal
<1>7. UpOrder'
  BY Zenon, <1>1, <1>3, <1>6, <1>d, <1>ctl DEF UpOrder
<1>8. UpSays'
  BY <1>0, <1>1, <1>6, <1>a, <1>b, <1>c, <1>d, <1>ctl DEF ClientBecomes, UpSays, UpRec
<1>9. DownSays'
  BY Zenon, <1>0, <1>1, <1>a, <1>d, <1>ctl DEF ClientBecomes, DownSays, DownRec, Unoffered
<1> QED BY Zenon, <1>2, <1>4, <1>7, <1>8, <1>9 DEF Body

-----------------------------------------------------------------------------
(* The server until it has sent the keys *)

\* Until the server sends its key exchange the client has not chosen a
\* plane.
LEMMA BeforeKeys ==
  ASSUME Body, srv.seal.e = 0
  PROVE  /\ cli.seal.e = 0 /\ cli.open.e = 0 /\ cli.plane = "none" /\ srv.plane = "none" /\ srv.open.e = 0
         /\ srv.seal.n = 0 /\ ServerSealed = 0 /\ ClientOpened = 0
         /\ ServerOpened = srv.open.n /\ ClientSealed = cli.seal.n
<1>1. cli.seal.e = 0 /\ cli.open.e = 0
  BY Zenon, Ahead DEF Body, Shape, IsCodec, ClientAt
<1>2. cli.plane = "none" /\ srv.plane = "none" /\ srv.open.e = 0 /\ srv.seal.n = 0
  BY <1>1 DEF Body, ClientAt, ServerAt
<1>3. ServerSealed = 0 /\ ServerOpened = srv.open.n /\ ClientSealed = cli.seal.n
  BY Zenon, <1>1, <1>2 DEF ServerSealed, ServerOpened, ClientSealed, Idx
<1>4. ClientOpened = 0
  BY <1>3, Ahead, Positions DEF Body
<1> QED BY Zenon, <1>1, <1>2, <1>3, <1>4

\* ServerReadsCamo keeps the invariant, whether it forwards the record or
\* gives up at the cap.
LEMMA ReadsCamoUp ==
  ASSUME Body, ServerReadsCamo PROVE Body'
<1>ends. Shape /\ ClientAt /\ ServerAt
  BY Zenon DEF Body
<1>know. Agreed /\ Counted /\ Heard
  BY Zenon DEF Body
<1>ctl. UpOrder /\ UpSays /\ DownOrder /\ DownSays /\ Residual
  BY Zenon DEF Body
<1>bidi. BidiUp /\ BidiDown
  BY Zenon DEF Body
<1>0. /\ srv.pc = "prepq" /\ c2s # <<>> /\ ~Opens(srv.open, Head(c2s)) /\ IsCodec(srv.open) /\ IsCodec(srv.seal)
      /\ cli' = cli /\ s2c' = s2c /\ tcp' = tcp /\ quic' = quic /\ up' = up /\ dn' = dn
  BY Zenon, <1>ends DEF Shape, ServerReadsCamo
<1>a. srv.seal.e = 0 /\ srv.open.e = 0 /\ srv.open.n = srv.frag /\ srv.frag < Chunks /\ srv.end = "open"
  BY Zenon, <1>0, <1>ends DEF ServerAt
<1>b. cli.plane = "none" /\ srv.plane = "none"
  BY Zenon, <1>a, BeforeKeys
<1>c. Head(c2s).m \notin Last
  BY Zenon, <1>0, <1>b, UpTake DEF UpRec, Last
<1>d. Head(c2s).e = Plain
  BY Zenon, <1>0, <1>a, <1>b, <1>c, HeadOpensUp
<1>1. CASE ServerEndsAs("gone")
  <2>1. QuicStays
    BY Zenon, <1>0, <1>ends DEF QuicStays, Shape
  <2>2. ASSUME NEW how, how # "open", ServerEndsAs(how) PROVE Body'
    BY Zenon, <1>0, <2>1, <2>2, ServerEnd
  <2>3. "gone" # "open"
    BY Zenon
  <2> QED BY Zenon, <1>1, <2>2, <2>3
<1>2. CASE srv' = [srv EXCEPT !.camo = @ + 1] /\ c2s' = Tail(c2s)
  <2>1. ServerBecomes("prepq", 0, srv.seal.n, srv.open.n, srv.frag, srv.fwd, srv.spent,
                      srv.have, "none", srv.up, srv.dn, srv.end)
    BY Zenon, <1>0, <1>2, <1>a, <1>b, <1>ends DEF ServerBecomes, Shape
  <2>2. Shape' /\ ClientAt' /\ ServerAt' /\ Agreed' /\ Counted' /\ Heard'
    <3>0. Shape' /\ ClientAt'
      <4>1. Shape'
        BY <1>0, <2>1, <1>ends DEF ServerBecomes, Shape
      <4>2. ClientAt'
        BY Zenon, <1>0, <1>ends, ClientStays
      <4> QED BY Zenon, <4>1, <4>2
    <3>1. ServerAt'
      BY <1>0, <1>a, <1>b, <2>1, <1>ends DEF ServerBecomes, ServerAt
    <3>2. Agreed' /\ Counted' /\ Heard'
      BY Zenon, <1>0, <1>a, <1>b, <2>1, <1>know DEF ServerBecomes, Agreed, Unoffered, Counted, Heard
    <3> QED BY Zenon, <3>0, <3>1, <3>2
  <2>3. /\ ClientSealed' = ClientSealed
        /\ ServerOpened' = ServerOpened /\ ServerSealed' = ServerSealed /\ ClientOpened' = ClientOpened
    BY Zenon, <1>0, <1>a, <1>b, <2>1
       DEF ServerBecomes, ClientSealed, ServerOpened, ServerSealed, ClientOpened, Idx
  <2>4. DownOrder' /\ BidiUp' /\ BidiDown' /\ Residual'
    BY Zenon, <1>0, <1>b, <2>1, <2>3, <1>ctl, <1>bidi
       DEF ServerBecomes, DownOrder, BidiUp, BidiDown, Residual, Tolerable
  <2>5. DownSays'
    BY Zenon, <1>0, <1>b, <2>1, <1>ctl DEF ServerBecomes, DownSays, DownRec, Unoffered
  <2>6. UpOrder' /\ UpSays'
    BY <1>0, <1>2, <1>a, <1>c, <1>d, <2>1, <2>3, UpTake, <1>ctl
       DEF ServerBecomes, UpOrder, UpSays, UpRec
  <2> QED BY Zenon, <2>2, <2>4, <2>5, <2>6 DEF Body
<1> QED BY Zenon, <1>1, <1>2 DEF ServerReadsCamo, Body

\* ServerReadsPx1q keeps the invariant: PX1Q arrives in Chunks records.
LEMMA ReadsPx1q ==
  ASSUME Body, ServerReadsPx1q PROVE Body'
<1>ends. Shape /\ ClientAt /\ ServerAt
  BY Zenon DEF Body
<1>know. Agreed /\ Counted /\ Heard
  BY Zenon DEF Body
<1>ctl. UpOrder /\ UpSays /\ DownOrder /\ DownSays /\ Residual
  BY Zenon DEF Body
<1>bidi. BidiUp /\ BidiDown
  BY Zenon DEF Body
<1>0. /\ srv.pc = "prepq" /\ c2s # <<>> /\ Opens(srv.open, Head(c2s)) /\ IsCodec(srv.open) /\ IsCodec(srv.seal)
      /\ cli' = cli /\ s2c' = s2c /\ tcp' = tcp /\ quic' = quic /\ up' = up /\ dn' = dn /\ c2s' = Tail(c2s)
      /\ Chunks \in Nat /\ srv.frag \in Nat
  BY Zenon, Positions, <1>ends DEF Shape, ServerReadsPx1q
<1>a. srv.seal.e = 0 /\ srv.open.e = 0 /\ srv.open.n = srv.frag /\ srv.frag < Chunks /\ srv.end = "open"
  BY Zenon, <1>0, <1>ends DEF ServerAt
<1>b. cli.plane = "none" /\ srv.plane = "none" /\ srv.seal.n = 0
  BY Zenon, <1>a, BeforeKeys
<1>c. Head(c2s).m \notin Last
  BY Zenon, <1>0, <1>b, UpTake DEF UpRec, Last
<1>d. Head(c2s).e # Plain
  BY <1>0, <1>a DEF Opens, Plain
<1>e. /\ IsCodec(After(srv.open, 1)) /\ After(srv.open, 1).e = srv.open.e
      /\ After(srv.open, 1).n = srv.open.n + 1
  BY Zenon, <1>0, AfterOne
<1>1. \/ /\ ServerBecomes("prepq", 0, 0, srv.frag + 1, srv.frag + 1, srv.fwd, srv.spent,
                          srv.have, "none", srv.up, srv.dn, srv.end)
         /\ srv.frag + 1 < Chunks
      \/ /\ ServerBecomes("commit", 0, 0, srv.frag + 1, 0, srv.fwd, srv.spent,
                          srv.have, "none", srv.up, srv.dn, srv.end)
         /\ srv.frag + 1 = Chunks
  <2>1. CASE srv.frag + 1 < Chunks
    <3>1. srv' = [srv EXCEPT !.frag = @ + 1, !.open = After(@, 1)]
      BY Zenon, <2>1 DEF ServerReadsPx1q
    <3> QED BY Zenon, <1>0, <1>a, <1>b, <1>e, <2>1, <3>1, <1>ends DEF ServerBecomes, Shape
  <2>2. CASE ~(srv.frag + 1 < Chunks)
    <3>1. srv' = [srv EXCEPT !.pc = "commit", !.frag = 0, !.open = After(@, 1)]
      BY Zenon, <2>2 DEF ServerReadsPx1q
    <3>2. srv.frag + 1 = Chunks
      BY <1>0, <1>a, <2>2
    <3> QED BY Zenon, <1>0, <1>a, <1>b, <1>e, <3>1, <3>2, <1>ends DEF ServerBecomes, Shape
  <2> QED BY Zenon, <2>1, <2>2
<1>h. /\ srv'.pc \in {"prepq", "commit"} /\ srv'.plane = "none" /\ srv'.up = srv.up /\ srv'.dn = srv.dn
      /\ srv'.end = srv.end /\ srv'.have = srv.have /\ srv'.fwd = srv.fwd /\ srv'.spent = srv.spent
      /\ srv'.seal.e = 0 /\ srv'.seal.n = 0 /\ srv'.open.e = 0 /\ srv'.open.n = srv.open.n + 1
  BY Zenon, <1>1, <1>a DEF ServerBecomes
<1>2. Shape' /\ ClientAt' /\ ServerAt' /\ Agreed' /\ Counted' /\ Heard'
  <2>0. Shape' /\ ClientAt'
    <3>1. Shape'
      BY <1>0, <1>1, <1>ends DEF ServerBecomes, Shape
    <3>2. ClientAt'
      BY Zenon, <1>0, <1>ends, ClientStays
    <3> QED BY Zenon, <3>1, <3>2
  <2>1. ServerAt'
    BY <1>0, <1>1, <1>a, <1>b, <1>ends DEF ServerBecomes, ServerAt
  <2>2. Agreed' /\ Counted' /\ Heard'
    BY Zenon, <1>0, <1>a, <1>b, <1>h, <1>know DEF Agreed, Unoffered, Counted, Heard
  <2> QED BY Zenon, <2>0, <2>1, <2>2
<1>3. /\ ClientSealed' = ClientSealed
      /\ ServerOpened' = ServerOpened + 1 /\ ServerSealed' = ServerSealed /\ ClientOpened' = ClientOpened
  BY Zenon, <1>0, <1>a, <1>b, <1>h DEF ClientSealed, ServerOpened, ServerSealed, ClientOpened, Idx
<1>4. DownOrder' /\ BidiUp' /\ BidiDown' /\ Residual'
  BY Zenon, <1>0, <1>b, <1>h, <1>3, <1>ctl, <1>bidi
     DEF DownOrder, BidiUp, BidiDown, Residual, Tolerable
<1>5. DownSays'
  BY Zenon, <1>0, <1>b, <1>h, <1>ctl DEF DownSays, DownRec, Unoffered
<1>6. UpOrder' /\ UpSays'
  <2>1. Flow(Tail(c2s), ServerOpened', ClientSealed', tcp, srv.end)
    BY Zenon, <1>0, <1>c, <1>d, <1>3, UpTake
  <2> QED BY Zenon, <1>0, <1>h, <2>1, UpAdvances
<1> QED BY Zenon, <1>2, <1>4, <1>5, <1>6 DEF Body

\* ServerForwardsOrigin keeps the invariant: what it forwards stays below
\* the byte limit, which is also the client's budget.
LEMMA ForwardsOrigin ==
  ASSUME Body, ServerForwardsOrigin PROVE Body'
<1>ends. Shape /\ ClientAt /\ ServerAt
  BY Zenon DEF Body
<1>know. Agreed /\ Counted /\ Heard
  BY Zenon DEF Body
<1>ctl. UpOrder /\ UpSays /\ DownOrder /\ DownSays /\ Residual
  BY Zenon DEF Body
<1>bidi. BidiUp /\ BidiDown
  BY Zenon DEF Body
<1>0. /\ srv.pc = "prepq" /\ srv.fwd < ByteLimit /\ IsCodec(srv.open) /\ IsCodec(srv.seal)
      /\ cli' = cli /\ c2s' = c2s /\ tcp' = tcp /\ quic' = quic /\ up' = up /\ dn' = dn
      /\ srv.fwd \in Nat /\ cli.skipped \in Nat /\ ByteLimit \in Nat
  BY Zenon, SessionAssumption, <1>ends DEF Shape, ServerForwardsOrigin, MayForward
<1>a. srv.seal.e = 0 /\ srv.open.e = 0 /\ srv.end = "open"
  BY Zenon, <1>0, <1>ends DEF ServerAt
<1>b. cli.plane = "none" /\ srv.plane = "none" /\ srv.seal.n = 0 /\ ServerSealed = 0 /\ ClientOpened = 0
  BY Zenon, <1>a, BeforeKeys
<1> DEFINE m == OriginPiece
<1>c. /\ m \in Msg /\ m \notin Last /\ m \in {"whole", "head", "tail"} /\ (RecordUnits = 1 => m # "head")
  BY DEF OriginPiece, Msg, Last
<1>d. ToClient(<<Camo(m)>>)
  BY Zenon DEF ServerForwardsOrigin
<1>1. ServerBecomes("prepq", 0, 0, srv.open.n, srv.frag, srv.fwd + 1, srv.spent,
                    srv.have, "none", srv.up, srv.dn, srv.end)
  BY Zenon, <1>0, <1>a, <1>b, <1>ends DEF ServerBecomes, ServerForwardsOrigin, Shape
<1> HIDE DEF m
<1>2. Shape' /\ ClientAt' /\ ServerAt' /\ Agreed' /\ Counted' /\ Heard'
  <2>0. Shape' /\ ClientAt'
    <3>1. Shape'
      BY <1>0, <1>1, <1>ends DEF ServerBecomes, Shape
    <3>2. ClientAt'
      BY Zenon, <1>0, <1>ends, ClientStays
    <3> QED BY Zenon, <3>1, <3>2
  <2>1. ServerAt'
    BY <1>0, <1>1, <1>a, <1>b, <1>ends DEF ServerBecomes, ServerAt
  <2>2. Agreed' /\ Counted' /\ Heard'
    BY Zenon, <1>0, <1>1, <1>a, <1>b, <1>know DEF ServerBecomes, Agreed, Unoffered, Counted, Heard
  <2> QED BY Zenon, <2>0, <2>1, <2>2
<1>3. /\ ClientSealed' = ClientSealed
      /\ ServerOpened' = ServerOpened /\ ServerSealed' = 0 /\ ClientOpened' = 0
  BY Zenon, <1>0, <1>1, <1>a, <1>b
     DEF ServerBecomes, ClientSealed, ServerOpened, ServerSealed, ClientOpened, Idx
<1>4. UpOrder' /\ UpSays' /\ BidiUp' /\ BidiDown'
  BY Zenon, <1>0, <1>1, <1>3, <1>b, <1>ctl, <1>bidi
     DEF ServerBecomes, UpOrder, UpSays, UpRec, BidiUp, BidiDown
<1>5. Open(s2c)
  BY Zenon, <1>b, <1>ctl DEF DownSays, DownRec, Open, Last
<1>6. /\ Flow(s2c', 0, 0, tcp, cli.end)
      /\ cli.end # "open" => s2c' = <<>>
      /\ \A r \in In(s2c') : (DownRec(r) /\ r \in In(s2c)) \/ r = Camo(m)
  BY Zenon, <1>5, <1>b, <1>c, <1>d, DownCamo
<1>7. DownOrder'
  BY Zenon, <1>0, <1>3, <1>6, <1>ctl DEF DownOrder
<1>8. DownSays'
  <2>1. ASSUME NEW r, DownRec(r) PROVE DownRec(r)'
    BY Zenon, <1>0, <1>1, <1>b, <2>1 DEF ServerBecomes, DownRec, Unoffered
  <2>2. ASSUME NEW r, r.e = Plain, r.m \in {"whole", "head", "tail"} PROVE DownRec(r)'
    BY <2>2 DEF DownRec, Plain
  <2>3. \A r \in In(s2c') : DownRec(r) \/ (r.e = Plain /\ r.m \in {"whole", "head", "tail"})
    BY Zenon, <1>6, <1>c, CamoIs
  <2> QED BY Zenon, <2>1, <2>2, <2>3, <1>ctl DEF DownSays
<1>9. Residual'
  <2>1. s2c \in Seq(Rec) /\ Len(s2c) \in Nat /\ cli.skipped + Len(s2c) <= srv.fwd
    BY <1>0, DownFlow, <1>ctl DEF Residual, Tolerable
  <2>2. s2c' = s2c \/ s2c' = s2c \o <<Camo(m)>>
    BY Zenon, <1>d DEF ToClient
  <2>3. Len(s2c') \in Nat /\ Len(s2c') <= Len(s2c) + 1
    BY <2>1, <2>2
  <2>4. cli.skipped + Len(s2c') <= srv.fwd + 1 /\ srv.fwd + 1 <= ByteLimit
    BY <1>0, <2>1, <2>3
  <2>5. \A i \in 1..Len(s2c') : cli.skipped + i <= ByteLimit
    BY <1>0, <2>3, <2>4
  <2>6. RecordUnits = 1 => \A r \in In(s2c') : r.m # "head"
    BY Zenon, <1>6, <1>c, CamoIs, <1>ctl DEF Residual, Tolerable
  <2> QED BY Zenon, <1>0, <1>1, <2>4, <2>5, <2>6, <1>ctl DEF ServerBecomes, Residual, Tolerable
<1> QED BY Zenon, <1>2, <1>4, <1>7, <1>8, <1>9 DEF Body

\* ServerSendsPx1k keeps the invariant: PX1K is sealed under epoch 0, then
\* both codecs are rekeyed.
LEMMA SendsPx1k ==
  ASSUME Body, ServerSendsPx1k PROVE Body'
<1>ends. Shape /\ ClientAt /\ ServerAt
  BY Zenon DEF Body
<1>know. Agreed /\ Counted /\ Heard
  BY Zenon DEF Body
<1>ctl. UpOrder /\ UpSays /\ DownOrder /\ DownSays /\ Residual
  BY Zenon DEF Body
<1>bidi. BidiUp /\ BidiDown
  BY Zenon DEF Body
<1>0. /\ srv.pc = "keyx" /\ IsCodec(srv.open) /\ IsCodec(srv.seal)
      /\ cli' = cli /\ c2s' = c2s /\ tcp' = tcp /\ quic' = quic /\ up' = up /\ dn' = dn
      /\ Chunks \in Nat /\ Chunks > 0
  BY Zenon, Positions, <1>ends DEF Shape, ServerSendsPx1k
<1>a. /\ srv.seal.e = 0 /\ srv.open.e = 0 /\ srv.end = "open" /\ srv.open.n = Chunks /\ srv.frag = 0
      /\ srv.spent /\ ~srv.have
  BY Zenon, <1>0, <1>ends DEF ServerAt
<1>b. /\ cli.plane = "none" /\ srv.plane = "none" /\ srv.seal.n = 0 /\ ServerSealed = 0
      /\ ServerOpened = Chunks
  BY Zenon, <1>a, BeforeKeys
<1>c. IsCodec(Rekeyed(srv.seal)) /\ Rekeyed(srv.seal).e = 1 /\ Rekeyed(srv.seal).n = 0
  BY Zenon, <1>0, <1>a, RekeyedIs
<1>d. IsCodec(Rekeyed(srv.open)) /\ Rekeyed(srv.open).e = 1 /\ Rekeyed(srv.open).n = 0
  BY Zenon, <1>0, <1>a, RekeyedIs
<1>1. ServerBecomes("identity", 1, 0, 0, 0, 0, srv.spent, srv.have, "none", srv.up, srv.dn, srv.end)
  BY Zenon, <1>0, <1>a, <1>b, <1>c, <1>d, <1>ends DEF ServerBecomes, ServerSendsPx1k, Shape
<1>2. Shape' /\ ClientAt' /\ ServerAt' /\ Agreed' /\ Counted' /\ Heard'
  <2>0. Shape' /\ ClientAt'
    <3>1. Shape'
      BY <1>0, <1>1, <1>ends DEF ServerBecomes, Shape
    <3>2. ClientAt'
      BY Zenon, <1>0, <1>ends, ClientStays
    <3> QED BY Zenon, <3>1, <3>2
  <2>1. ServerAt'
    BY <1>0, <1>1, <1>a, <1>b, <1>ends DEF ServerBecomes, ServerAt
  <2>2. Agreed' /\ Counted' /\ Heard'
    BY Zenon, <1>0, <1>1, <1>a, <1>b, <1>know DEF ServerBecomes, Agreed, Unoffered, Counted, Heard
  <2> QED BY Zenon, <2>0, <2>1, <2>2
<1>3. /\ ClientSealed' = ClientSealed
      /\ ServerOpened' = ServerOpened /\ ServerSealed' = Chunks /\ ClientOpened' = ClientOpened
  BY <1>0, <1>1, <1>a, <1>b
     DEF ServerBecomes, ClientSealed, ServerOpened, ServerSealed, ClientOpened, Idx
<1>4. UpOrder' /\ UpSays' /\ BidiUp' /\ BidiDown'
  BY Zenon, <1>0, <1>1, <1>3, <1>b, <1>ctl, <1>bidi
     DEF ServerBecomes, UpOrder, UpSays, UpRec, BidiUp, BidiDown
<1>5. Open(s2c)
  BY Zenon, <1>b, <1>ctl DEF DownSays, DownRec, Open, Last
<1> DEFINE us == SealAll(srv.seal, Chunks, "px1k")
<1>6. /\ SealedFrom(us, Idx(srv.seal)) /\ Len(us) = Chunks
      /\ \A r \in In(us) : r.e = srv.seal.e /\ r.m = "px1k" /\ r.n \in Nat /\ srv.seal.n <= r.n /\ r.n < srv.seal.n + Chunks
  <2>1. "px1k" \in Msg /\ "px1k" \notin Last
    BY Zenon DEF Msg, Last
  <2>2. ASSUME NEW m \in Msg, m \notin Last
        PROVE  /\ SealedFrom(SealAll(srv.seal, Chunks, m), Idx(srv.seal)) /\ Len(SealAll(srv.seal, Chunks, m)) = Chunks
               /\ \A r \in In(SealAll(srv.seal, Chunks, m)) :
                    r.e = srv.seal.e /\ r.m = m /\ r.n \in Nat /\ srv.seal.n <= r.n /\ r.n < srv.seal.n + Chunks
    BY Zenon, <1>0, <2>2, SealAllIs
  <2> QED BY Zenon, <2>1, <2>2
<1>7. ToClient(us)
  BY Zenon DEF ServerSendsPx1k
<1>8. us \in Seq(Rec) /\ \A r \in In(us) : r.e = 0 /\ r.m = "px1k" /\ r.n < Chunks
  BY <1>0, <1>6, <1>a, <1>b DEF SealedFrom
<1>9. SealedFrom(us, ServerSealed)
  BY Zenon, <1>6, <1>a, <1>b DEF Idx
<1> HIDE DEF us
<1>10. /\ Flow(s2c', ClientOpened, ServerSealed + Len(us), tcp, cli.end)
       /\ cli.end # "open" => s2c' = <<>>
       /\ \A r \in In(s2c') : (DownRec(r) /\ r \in In(s2c)) \/ r \in In(us)
  BY Zenon, <1>5, <1>7, <1>9, DownSend
<1>11. DownOrder'
  <2>1. ServerSealed + Len(us) = Chunks
    BY <1>0, <1>6, <1>b
  <2> QED BY Zenon, <1>0, <1>3, <1>10, <2>1, <1>ctl DEF DownOrder
<1>12. DownSays'
  <2>1. ASSUME NEW r, DownRec(r) PROVE DownRec(r)'
    BY Zenon, <1>0, <1>1, <1>a, <1>b, <2>1 DEF ServerBecomes, DownRec, Unoffered
  <2>2. ASSUME NEW r, r.e = 0, r.m = "px1k", r.n < Chunks PROVE DownRec(r)'
    BY Zenon, <2>2 DEF DownRec
  <2> QED BY Zenon, <1>8, <1>10, <2>1, <2>2, <1>ctl DEF DownSays
<1>13. Residual'
  <2>1. s2c' = s2c \/ s2c' = s2c \o us
    BY Zenon, <1>7 DEF ToClient
  <2>2. \A r \in In(us) : (r.e # Plain \/ r.m = "fin") /\ r.m # "head"
    BY <1>8 DEF Plain
  <2>3. srv'.pc # "prepq"
    BY Zenon, <1>1 DEF ServerBecomes
  <2> QED BY Zenon, <1>0, <1>8, <2>1, <2>2, <2>3, ResidualSends
<1> QED BY Zenon, <1>2, <1>4, <1>11, <1>12, <1>13 DEF Body

\* ServerSendsIdentity keeps the invariant: one chunk of the identity at a
\* time.
LEMMA SendsIdentity ==
  ASSUME Body, ServerSendsIdentity PROVE Body'
<1>ends. Shape /\ ClientAt /\ ServerAt
  BY Zenon DEF Body
<1>know. Agreed /\ Counted /\ Heard
  BY Zenon DEF Body
<1>ctl. UpOrder /\ UpSays /\ DownOrder /\ DownSays /\ Residual
  BY Zenon DEF Body
<1>bidi. BidiUp /\ BidiDown
  BY Zenon DEF Body
<1>0. /\ srv.pc = "identity" /\ IsCodec(srv.open) /\ IsCodec(srv.seal)
      /\ cli' = cli /\ c2s' = c2s /\ tcp' = tcp /\ quic' = quic /\ up' = up /\ dn' = dn
      /\ Chunks \in Nat /\ Chunks > 0 /\ srv.frag \in Nat
  BY Zenon, Positions, <1>ends DEF Shape, ServerSendsIdentity
<1>a. /\ srv.seal.e = 1 /\ srv.open.e = 1 /\ srv.end = "open" /\ srv.open.n = 0 /\ srv.seal.n = srv.frag
      /\ srv.frag < Chunks /\ srv.spent /\ ~srv.have /\ srv.plane = "none"
  BY Zenon, <1>0, <1>ends DEF ServerAt
<1>b. cli.plane = "none"
  <2>1. cli.plane # "quic"
    BY Zenon, <1>0, <1>a, <1>know DEF Agreed, Unoffered
  <2>2. CASE cli.plane = "tcp"
    <3>1. cli.open.n >= Chunks /\ cli.open.e = 1 /\ cli.open.n \in Nat
      BY Zenon, <2>2, <1>ends DEF ClientAt, Shape, IsCodec
    <3>2. ClientOpened = Chunks + cli.open.n /\ ServerSealed = Chunks + srv.frag
      BY <1>a, <2>2, <3>1 DEF ClientOpened, ServerSealed, Idx
    <3> QED BY <1>0, <1>a, <3>1, <3>2, Ahead
  <2> QED BY Zenon, <2>1, <2>2, <1>ends DEF Shape
<1>c. /\ IsCodec(After(srv.seal, 1)) /\ After(srv.seal, 1).e = srv.seal.e
      /\ After(srv.seal, 1).n = srv.seal.n + 1
  BY Zenon, <1>0, AfterOne
<1>1. \/ /\ ServerBecomes("identity", 1, srv.frag + 1, 0, srv.frag + 1, srv.fwd, srv.spent,
                          srv.have, "none", srv.up, srv.dn, srv.end)
         /\ srv.frag + 1 < Chunks
      \/ /\ ServerBecomes("first", 1, srv.frag + 1, 0, 0, srv.fwd, srv.spent,
                          srv.have, "none", srv.up, srv.dn, srv.end)
         /\ srv.frag + 1 = Chunks
  <2>1. CASE srv.frag + 1 < Chunks
    <3>1. srv' = [srv EXCEPT !.frag = @ + 1, !.seal = After(@, 1)]
      BY Zenon, <2>1 DEF ServerSendsIdentity
    <3> QED BY Zenon, <1>0, <1>a, <1>b, <1>c, <2>1, <3>1, <1>ends DEF ServerBecomes, Shape
  <2>2. CASE ~(srv.frag + 1 < Chunks)
    <3>1. srv' = [srv EXCEPT !.pc = "first", !.frag = 0, !.seal = After(@, 1)]
      BY Zenon, <2>2 DEF ServerSendsIdentity
    <3>2. srv.frag + 1 = Chunks
      BY <1>0, <1>a, <2>2
    <3> QED BY Zenon, <1>0, <1>a, <1>b, <1>c, <3>1, <3>2, <1>ends DEF ServerBecomes, Shape
  <2> QED BY Zenon, <2>1, <2>2
<1>h. /\ srv'.pc \in {"identity", "first"} /\ srv'.plane = "none" /\ srv'.up = srv.up /\ srv'.dn = srv.dn
      /\ srv'.end = srv.end /\ srv'.have = srv.have /\ srv'.fwd = srv.fwd /\ srv'.spent = srv.spent
      /\ srv'.seal.e = 1 /\ srv'.seal.n = srv.seal.n + 1 /\ srv'.open.e = 1 /\ srv'.open.n = 0
  BY Zenon, <1>1, <1>a DEF ServerBecomes
<1>2. Shape' /\ ClientAt' /\ ServerAt' /\ Agreed' /\ Counted' /\ Heard'
  <2>0. Shape' /\ ClientAt'
    <3>1. Shape'
      BY <1>0, <1>1, <1>ends DEF ServerBecomes, Shape
    <3>2. ClientAt'
      BY Zenon, <1>0, <1>ends, ClientStays
    <3> QED BY Zenon, <3>1, <3>2
  <2>1. ServerAt'
    <3>1. srv.frag + 1 <= Chunks /\ srv.frag + 1 <= Chunks + 1 /\ srv'.seal.n = srv.frag + 1
      BY <1>0, <1>a, <1>h
    <3>2. \/ srv'.pc = "identity" /\ srv'.frag = srv.frag + 1 /\ srv.frag + 1 < Chunks
          \/ srv'.pc = "first" /\ srv'.frag = 0 /\ srv.frag + 1 = Chunks
      BY Zenon, <1>1 DEF ServerBecomes
    <3>3. /\ srv'.seal.e # 0 /\ srv'.seal.n <= Chunks /\ srv'.seal.n <= Chunks + 1
      BY <1>h, <3>1
    <3>4. /\ srv'.spent /\ srv'.end = "open" /\ ~srv'.have
          /\ up'.got = 0 /\ dn'.sent = 0 /\ ~srv'.up /\ ~srv'.dn
      BY Zenon, <1>0, <1>a, <1>h, <1>ends DEF ServerAt
    <3>5. CASE srv'.pc = "identity"
      BY Zenon, <1>h, <3>1, <3>2, <3>3, <3>4, <3>5 DEF ServerAt
    <3>6. CASE srv'.pc = "first"
      BY Zenon, <1>h, <3>1, <3>2, <3>3, <3>4, <3>6 DEF ServerAt
    <3> QED BY Zenon, <3>2, <3>5, <3>6
  <2>2. Agreed' /\ Counted' /\ Heard'
    BY Zenon, <1>0, <1>a, <1>b, <1>h, <1>know DEF Agreed, Unoffered, Counted, Heard
  <2> QED BY Zenon, <2>0, <2>1, <2>2
<1>3. /\ ClientSealed' = ClientSealed
      /\ ServerOpened' = ServerOpened /\ ServerSealed' = ServerSealed + 1 /\ ClientOpened' = ClientOpened
      /\ ServerSealed = Idx(srv.seal)
  BY <1>0, <1>a, <1>b, <1>h DEF ClientSealed, ServerOpened, ServerSealed, ClientOpened, Idx
<1>4. UpOrder' /\ UpSays' /\ BidiUp' /\ BidiDown'
  BY Zenon, <1>0, <1>3, <1>a, <1>b, <1>h, <1>ctl, <1>bidi
     DEF UpOrder, UpSays, UpRec, BidiUp, BidiDown
<1>5. Open(s2c)
  BY Zenon, <1>a, <1>ctl DEF DownSays, DownRec, Open, Last
<1>6. "identity" \in Msg /\ "identity" \notin Last /\ "identity" # "head" /\ ToClient(Seal(srv.seal, "identity"))
  BY Zenon DEF Msg, Last, ServerSendsIdentity
<1>7. /\ Flow(s2c', ClientOpened, ServerSealed + 1, tcp, cli.end)
      /\ cli.end # "open" => s2c' = <<>>
      /\ \A r \in In(s2c') : (DownRec(r) /\ r \in In(s2c)) \/ (r.e = srv.seal.e /\ r.n = srv.seal.n /\ r.m = "identity")
  BY Zenon, <1>3, <1>5, <1>6, DownSeal
<1>8. DownOrder'
  BY Zenon, <1>0, <1>3, <1>7, <1>ctl DEF DownOrder
<1>9. DownSays'
  <2>1. ASSUME NEW r, DownRec(r) PROVE DownRec(r)'
    BY Zenon, <1>0, <1>a, <1>h, <2>1 DEF DownRec, Unoffered
  <2>2. ASSUME NEW r, r.e = 1, r.m = "identity" PROVE DownRec(r)'
    BY <2>2 DEF DownRec
  <2> QED BY Zenon, <1>7, <1>a, <2>1, <2>2, <1>ctl DEF DownSays
<1>10. Residual'
  <2>1. srv'.pc # "prepq"
    BY Zenon, <1>h
  <2> QED BY Zenon, <1>0, <1>6, <2>1, ResidualSeals
<1> QED BY Zenon, <1>2, <1>4, <1>8, <1>9, <1>10 DEF Body

-----------------------------------------------------------------------------
(* The server until it dispatches *)

\* ServerAnswersUdp keeps the invariant: only PX1O leaves an offer behind.
LEMMA AnswersUdp ==
  ASSUME Body, ServerAnswersUdp PROVE Body'
<1>ends. Shape /\ ClientAt /\ ServerAt
  BY Zenon DEF Body
<1>know. Agreed /\ Counted /\ Heard
  BY Zenon DEF Body
<1>ctl. UpOrder /\ UpSays /\ DownOrder /\ DownSays /\ Residual
  BY Zenon DEF Body
<1>bidi. BidiUp /\ BidiDown
  BY Zenon DEF Body
<1>0. /\ srv.pc = "first" /\ c2s # <<>> /\ Head(c2s).m = "px1g" /\ IsCodec(srv.open) /\ IsCodec(srv.seal)
      /\ cli' = cli /\ tcp' = tcp /\ up' = up /\ dn' = dn
      /\ Chunks \in Nat /\ Chunks > 0
  BY Zenon, Positions, <1>ends DEF Shape, ServerAnswersUdp, ServerReads
<1>a. /\ Opens(srv.open, Head(c2s))
      /\ Flow(Tail(c2s), ServerOpened + 1, ClientSealed, tcp, srv.end)
      /\ srv.plane = "none" /\ srv.open.e = 1 /\ srv.seal.e = 1 /\ srv.end = "open"
      /\ ServerOpened = Idx(srv.open) /\ ServerSealed = Idx(srv.seal)
  BY Zenon, <1>0, ControlOpensUp DEF Last
<1>b. srv.open.n = 0 /\ srv.seal.n = Chunks /\ ~srv.have
  BY Zenon, <1>0, <1>ends DEF ServerAt
<1>c. cli.plane = "none" /\ cli.pc \in {"answer", "ended"}
  BY Zenon, <1>0, UpTake DEF UpRec
<1>d. /\ IsCodec(After(srv.seal, 1)) /\ After(srv.seal, 1).e = srv.seal.e
      /\ After(srv.seal, 1).n = srv.seal.n + 1
  BY Zenon, <1>0, AfterOne
<1>e. /\ IsCodec(After(srv.open, 1)) /\ After(srv.open, 1).e = srv.open.e
      /\ After(srv.open, 1).n = srv.open.n + 1
  BY Zenon, <1>0, AfterOne
<1>p. PICK m \in {"px1o", "px1n"} :
        /\ srv' = [srv EXCEPT !.pc = IF m = "px1o" THEN "handoff" ELSE "command",
                              !.offer = (m = "px1o"),
                              !.open = After(@, 1), !.seal = After(@, 1)]
        /\ c2s' = Tail(c2s) /\ ToClient(Seal(srv.seal, m)) /\ quic' = quic
  BY Zenon, <1>a DEF ServerAnswersUdp, ServerReads
<1>1. /\ ServerBecomes(srv'.pc, 1, Chunks + 1, 1, srv.frag, srv.fwd, srv.spent,
                       srv.have, "none", srv.up, srv.dn, srv.end)
      /\ srv'.pc = IF m = "px1o" THEN "handoff" ELSE "command"
  BY <1>0, <1>a, <1>b, <1>d, <1>e, <1>p, <1>ends DEF ServerBecomes, Shape
<1>h. /\ srv'.pc \in {"handoff", "command"} /\ srv'.plane = "none" /\ srv'.up = srv.up /\ srv'.dn = srv.dn
      /\ srv'.end = srv.end /\ srv'.have = srv.have /\ srv'.spent = srv.spent
      /\ srv'.seal.e = 1 /\ srv'.seal.n = Chunks + 1 /\ srv'.open.e = 1 /\ srv'.open.n = 1
      /\ (m = "px1o" => srv'.pc = "handoff")
  BY Zenon, <1>1 DEF ServerBecomes
<1>2. Shape' /\ ClientAt' /\ ServerAt' /\ Agreed' /\ Counted' /\ Heard'
  <2>0. Shape' /\ ClientAt'
    <3>1. Shape'
      BY <1>0, <1>1, <1>p, <1>ends DEF ServerBecomes, Shape
    <3>2. ClientAt'
      BY Zenon, <1>0, <1>ends, ClientStays
    <3> QED BY Zenon, <3>1, <3>2
  <2>1. ServerAt'
    <3>1. srv.spent /\ up.got = 0 /\ dn.sent = 0 /\ ~srv.up /\ ~srv.dn
      BY Zenon, <1>a, <1>ends DEF ServerAt
    <3> QED BY <1>0, <1>a, <1>b, <1>h, <3>1 DEF ServerAt
  <2>2. Agreed' /\ Counted' /\ Heard'
    BY Zenon, <1>0, <1>a, <1>b, <1>c, <1>h, <1>know DEF Agreed, Unoffered, Counted, Heard
  <2> QED BY Zenon, <2>0, <2>1, <2>2
<1>3. /\ ClientSealed' = ClientSealed /\ ServerOpened' = ServerOpened + 1
      /\ ServerSealed' = ServerSealed + 1 /\ ClientOpened' = ClientOpened
  <2>1. ClientSealed' = ClientSealed /\ ClientOpened' = ClientOpened
    BY Zenon, <1>0 DEF ClientSealed, ClientOpened, Idx
  <2>2. ServerOpened' = Idx(srv'.open) /\ ServerSealed' = Idx(srv'.seal)
    BY Zenon, <1>a, <1>h DEF ServerOpened, ServerSealed
  <2>3. Idx(srv'.open) = Idx(srv.open) + 1 /\ Idx(srv'.seal) = Idx(srv.seal) + 1
    <3>1. /\ Chunks \in Nat /\ srv.open.e = 1 /\ srv.open.n = 0 /\ srv.seal.e = 1 /\ srv.seal.n = Chunks
          /\ srv'.open.e = 1 /\ srv'.open.n = 1 /\ srv'.seal.e = 1 /\ srv'.seal.n = Chunks + 1
      BY Zenon, <1>0, <1>a, <1>b, <1>h
    <3>2. /\ Idx(srv.open) = Chunks + 0 /\ Idx(srv'.open) = Chunks + 1
          /\ Idx(srv.seal) = Chunks + Chunks /\ Idx(srv'.seal) = Chunks + (Chunks + 1)
      BY <3>1 DEF Idx
    <3> QED BY <3>1, <3>2
  <2> QED BY Zenon, <1>a, <2>1, <2>2, <2>3
<1>4. UpOrder' /\ UpSays' /\ BidiUp' /\ BidiDown'
  <2>1. UpOrder' /\ UpSays'
    BY Zenon, <1>0, <1>3, <1>a, <1>h, <1>p, UpAdvances
  <2>2. BidiUp' /\ BidiDown'
    BY Zenon, <1>0, <1>a, <1>h, <1>p, <1>bidi DEF BidiUp, BidiDown
  <2> QED BY Zenon, <2>1, <2>2
<1>5. Open(s2c)
  BY Zenon, <1>a, <1>ctl DEF DownSays, DownRec, Open, Last
<1>6. m \in Msg /\ m \notin Last /\ m # "head"
  BY Zenon, <1>p DEF Msg, Last
<1>7. /\ Flow(s2c', ClientOpened, ServerSealed + 1, tcp, cli.end)
      /\ cli.end # "open" => s2c' = <<>>
      /\ \A r \in In(s2c') : (DownRec(r) /\ r \in In(s2c)) \/ (r.e = srv.seal.e /\ r.n = srv.seal.n /\ r.m = m)
  BY Zenon, <1>5, <1>6, <1>a, <1>p, DownSeal
<1>8. DownOrder'
  BY Zenon, <1>0, <1>3, <1>7, <1>ctl DEF DownOrder
<1>9. DownSays'
  <2>0. Unoffered
    BY Zenon, <1>0, <1>a, <1>b DEF Unoffered
  <2>1. ASSUME NEW r, DownRec(r) PROVE DownRec(r)'
    BY Zenon, <1>0, <1>a, <1>h, <2>0, <2>1 DEF DownRec
  <2>2. CASE cli.end = "open"
    <3>1. cli.pc = "answer"
      BY Zenon, <1>c, <2>2, <1>ends DEF ClientAt
    <3>2. ASSUME NEW r, r.e = 1, r.m = m PROVE DownRec(r)'
      BY <1>0, <1>h, <1>p, <3>1, <3>2 DEF DownRec, Unoffered
    <3> QED BY Zenon, <1>7, <1>a, <2>1, <3>2, <1>ctl DEF DownSays
  <2>3. CASE cli.end # "open"
    BY Zenon, <1>7, <2>3, Nothing, <1>ctl DEF DownSays
  <2> QED BY Zenon, <2>2, <2>3
<1>10. Residual'
  <2>1. srv'.pc # "prepq"
    BY Zenon, <1>h
  <2> QED BY Zenon, <1>0, <1>6, <1>p, <2>1, ResidualSeals
<1> QED BY Zenon, <1>2, <1>4, <1>8, <1>9, <1>10 DEF Body

\* Reading one record of the control connection while nothing is sent.
LEMMA ServerTakes ==
  ASSUME Body, QuicStays, c2s # <<>>, NEW pc, NEW have, NEW k \in Nat,
         ServerBecomes(pc, 1, srv.seal.n, k, srv.frag, srv.fwd, srv.spent, have,
                       "none", srv.up, srv.dn, srv.end),
         srv.plane = "none", srv.seal.e = 1, srv.open.e = 1, k = srv.open.n + 1, srv.pc # "ended",
         pc \notin {"prepq", "ended"}, Flow(Tail(c2s), ServerOpened + 1, ClientSealed, tcp, srv.end),
         srv.end = "open",
         cli' = cli, c2s' = Tail(c2s), s2c' = s2c, tcp' = tcp, up' = up, dn' = dn,
         cli.pc = "answer" => ~Unoffered'
  PROVE  UpOrder' /\ UpSays' /\ DownOrder' /\ DownSays' /\ BidiUp' /\ BidiDown' /\ Residual'
<1>ends. Shape /\ ClientAt /\ ServerAt
  BY Zenon DEF Body
<1>ctl. UpOrder /\ UpSays /\ DownOrder /\ DownSays /\ Residual
  BY Zenon DEF Body
<1>0. /\ srv'.plane = srv.plane /\ srv'.dn = srv.dn /\ srv'.end = srv.end /\ srv'.pc = pc /\ srv'.up = srv.up
      /\ srv'.seal.e = 1 /\ srv'.seal.n = srv.seal.n /\ srv'.open.n = srv.open.n + 1 /\ srv'.open.e = 1
  BY Zenon DEF ServerBecomes
<1>1. /\ ClientSealed' = ClientSealed
      /\ ServerOpened' = ServerOpened + 1 /\ ServerSealed' = ServerSealed /\ ClientOpened' = ClientOpened
  <2>1. ClientSealed' = ClientSealed /\ ClientOpened' = ClientOpened
    BY Zenon DEF ClientSealed, ClientOpened, Idx
  <2>2. /\ ServerOpened = Idx(srv.open) /\ ServerSealed = Idx(srv.seal)
        /\ ServerOpened' = Idx(srv'.open) /\ ServerSealed' = Idx(srv'.seal)
    BY Zenon, <1>0 DEF ServerOpened, ServerSealed
  <2>3. srv.open.n \in Nat /\ Chunks \in Nat
    BY Zenon, Positions, <1>ends DEF Shape, IsCodec
  <2>4. Idx(srv'.open) = Idx(srv.open) + 1 /\ Idx(srv'.seal) = Idx(srv.seal)
    BY <1>0, <2>3 DEF Idx
  <2> QED BY Zenon, <2>1, <2>2, <2>4
<1>2. BidiUp' /\ BidiDown'
  BY Zenon, <1>0, BidiStops
<1>3. UpOrder' /\ UpSays'
  BY Zenon, <1>1, UpAdvances DEF ServerBecomes
<1>4. DownOrder'
  BY Zenon, <1>0, <1>1, <1>ctl DEF DownOrder
<1>5. DownSays'
  BY Zenon, <1>0, <1>ctl DEF DownSays, DownRec
<1>6. Residual'
  BY Zenon, <1>0, <1>ctl DEF Residual, Tolerable
<1> QED BY Zenon, <1>2, <1>3, <1>4, <1>5, <1>6

\* ServerReadsAck keeps the invariant: it retains the connection exactly if
\* the client reported that it verified it, and so chose the QUIC plane.
LEMMA ReadsAck ==
  ASSUME Body, ServerReadsAck PROVE Body'
<1>ends. Shape /\ ClientAt /\ ServerAt
  BY Zenon DEF Body
<1>know. Agreed /\ Counted /\ Heard
  BY Zenon DEF Body
<1>0. /\ srv.pc = "ack" /\ c2s # <<>> /\ IsCodec(srv.open) /\ IsCodec(srv.seal)
      /\ cli' = cli /\ tcp' = tcp /\ up' = up /\ dn' = dn
      /\ Chunks \in Nat /\ Chunks > 0
  BY Zenon, Positions, <1>ends DEF Shape, ServerReadsAck, ServerReads
<1>1. PICK m \in {"verified", "unverified", "zeroid"} : ServerReads({"ack"}, {m},
         /\ CASE Retain(m, srv.have) ->
                   /\ srv' = [srv EXCEPT !.pc = "command", !.open = After(@, 1)]
                   /\ c2s' = Tail(c2s)
                   /\ UNCHANGED quic
              [] HardFail(m, srv.have) ->
                   ServerEndsAs("gone") /\ GuardDropped("zero")
              [] OTHER ->
                   /\ srv' = [srv EXCEPT !.pc = "command", !.open = After(@, 1),
                                         !.have = FALSE, !.guard = FALSE]
                   /\ c2s' = Tail(c2s)
                   /\ IF srv.have THEN CloseQuic("zero") ELSE UNCHANGED quic
         /\ UNCHANGED s2c)
  BY Zenon DEF ServerReadsAck
<1>2. Head(c2s).m = m
  BY Zenon, <1>1 DEF ServerReads
<1>a. /\ Opens(srv.open, Head(c2s))
      /\ Flow(Tail(c2s), ServerOpened + 1, ClientSealed, tcp, srv.end)
      /\ srv.plane = "none" /\ srv.open.e = 1 /\ srv.seal.e = 1 /\ srv.end = "open"
  BY Zenon, <1>0, <1>1, <1>2, ControlOpensUp DEF Last
<1>b. srv.open.n = 1 /\ srv.seal.n = Chunks + 1
  BY Zenon, <1>0, <1>ends DEF ServerAt
<1>c. /\ m = "verified" => cli.plane = "quic"
      /\ m # "verified" => cli.plane = "tcp"
  BY Zenon, <1>0, <1>1, <1>2, UpTake DEF UpRec
<1>d. cli.pc \notin {"answer", "probe"}
  BY Zenon, <1>1, <1>c, <1>ends DEF ClientAt
<1>e. /\ IsCodec(After(srv.open, 1)) /\ After(srv.open, 1).e = srv.open.e
      /\ After(srv.open, 1).n = srv.open.n + 1
  BY Zenon, <1>0, AfterOne
<1>3. s2c' = s2c
  BY Zenon, <1>1, <1>a DEF ServerReads
<1>4. \/ /\ ServerEndsAs("gone") /\ GuardDropped("zero")
      \/ /\ c2s' = Tail(c2s) /\ QuicStays
         /\ ServerBecomes("command", 1, srv.seal.n, 2, srv.frag, srv.fwd, srv.spent, srv'.have,
                          "none", srv.up, srv.dn, srv.end)
         /\ (srv'.have = srv.have /\ cli.plane = "quic" /\ srv.have) \/ (srv'.have = FALSE /\ cli.plane = "tcp")
  <2>0. ASSUME NEW code, code # "open", CloseQuic(code) \/ quic' = quic PROVE QuicStays
    BY Zenon, <2>0, QuicCloses
  <2>1. CASE m = "verified" /\ srv.have
    <3>1. Retain(m, srv.have) /\ ~HardFail(m, srv.have)
      BY Zenon, <2>1 DEF Retain, HardFail
    <3>2. srv' = [srv EXCEPT !.pc = "command", !.open = After(@, 1)] /\ c2s' = Tail(c2s) /\ quic' = quic
      BY Zenon, <1>1, <1>a, <3>1 DEF ServerReads
    <3>3. QuicStays
      BY Zenon, <3>2, <1>ends DEF QuicStays, Shape
    <3>4. ServerBecomes("command", 1, srv.seal.n, 2, srv.frag, srv.fwd, srv.spent, srv'.have,
                          "none", srv.up, srv.dn, srv.end) /\ srv'.have = srv.have
      BY <1>0, <1>a, <1>b, <1>e, <3>2, <1>ends DEF ServerBecomes, Shape
    <3> QED BY Zenon, <1>c, <2>1, <3>2, <3>3, <3>4
  <2>2. CASE m = "verified" /\ ~srv.have
    <3>1. ~Retain(m, srv.have) /\ HardFail(m, srv.have)
      BY Zenon, <2>2 DEF Retain, HardFail
    <3> QED BY Zenon, <1>1, <1>a, <3>1 DEF ServerReads
  <2>3. CASE m # "verified"
    <3>1. ~Retain(m, srv.have) /\ ~HardFail(m, srv.have)
      BY Zenon, <2>3 DEF Retain, HardFail
    <3>2. /\ srv' = [srv EXCEPT !.pc = "command", !.open = After(@, 1), !.have = FALSE, !.guard = FALSE]
          /\ c2s' = Tail(c2s) /\ IF srv.have THEN CloseQuic("zero") ELSE UNCHANGED quic
      BY Zenon, <1>1, <1>a, <3>1 DEF ServerReads
    <3>3. QuicStays
      <4>1. "zero" # "open" /\ (CloseQuic("zero") \/ quic' = quic)
        BY Zenon, <3>2
      <4> QED BY Zenon, <2>0, <4>1
    <3>4. ServerBecomes("command", 1, srv.seal.n, 2, srv.frag, srv.fwd, srv.spent, srv'.have,
                          "none", srv.up, srv.dn, srv.end) /\ srv'.have = FALSE
      BY <1>0, <1>a, <1>b, <1>e, <3>2, <1>ends DEF ServerBecomes, Shape
    <3> QED BY Zenon, <1>c, <2>3, <3>2, <3>3, <3>4
  <2> QED BY Zenon, <2>1, <2>2, <2>3
<1>5. CASE ServerEndsAs("gone") /\ GuardDropped("zero")
  <2>1. ASSUME NEW how, NEW code, how # "open", code # "open", ServerEndsAs(how), GuardDropped(code) PROVE Body'
    BY Zenon, <1>0, <1>3, <2>1, QuicCloses, ServerEnd
  <2>2. "gone" # "open" /\ "zero" # "open"
    BY Zenon
  <2> QED BY Zenon, <1>5, <2>1, <2>2
<1>6. CASE /\ c2s' = Tail(c2s) /\ QuicStays
           /\ ServerBecomes("command", 1, srv.seal.n, 2, srv.frag, srv.fwd, srv.spent, srv'.have,
                            "none", srv.up, srv.dn, srv.end)
           /\ (srv'.have = srv.have /\ cli.plane = "quic" /\ srv.have) \/ (srv'.have = FALSE /\ cli.plane = "tcp")
  <2>1. Shape' /\ ClientAt' /\ ServerAt' /\ Agreed' /\ Counted' /\ Heard'
    <3>0. Shape' /\ ClientAt'
      <4>1. Shape'
        BY <1>0, <1>6, <1>ends DEF ServerBecomes, Shape, QuicStays
      <4>2. ClientAt'
        BY Zenon, <1>0, <1>ends, ClientStays
      <4> QED BY Zenon, <4>1, <4>2
    <3>h. /\ srv'.pc = "command" /\ srv'.plane = "none" /\ srv'.up = srv.up /\ srv'.dn = srv.dn
          /\ srv'.end = srv.end /\ srv'.have \in {srv.have, FALSE} /\ srv'.spent = srv.spent
          /\ srv'.seal.e = 1 /\ srv'.seal.n = srv.seal.n /\ srv'.open.e = 1 /\ srv'.open.n = 2
      BY Zenon, <1>6 DEF ServerBecomes
    <3>1. ServerAt'
      <4>1. srv.spent /\ up.got = 0 /\ dn.sent = 0 /\ ~srv.up /\ ~srv.dn
        BY Zenon, <1>a, <1>ends DEF ServerAt
      <4> QED BY <1>0, <1>a, <1>b, <3>h, <4>1 DEF ServerAt
    <3>2. Agreed'
      BY Zenon, <1>0, <1>6, <1>a, <1>d, <1>know DEF ServerBecomes, Agreed, Unoffered
    <3>3. Counted' /\ Heard'
      BY Zenon, <1>0, <1>6, <1>a, <1>know DEF ServerBecomes, Counted, Heard
    <3> QED BY Zenon, <3>0, <3>1, <3>2, <3>3
  <2>2. UpOrder' /\ UpSays' /\ DownOrder' /\ DownSays' /\ BidiUp' /\ BidiDown' /\ Residual'
    <3> DEFINE have == srv'.have
    <3>1. ServerBecomes("command", 1, srv.seal.n, 2, srv.frag, srv.fwd, srv.spent, have,
                            "none", srv.up, srv.dn, srv.end)
      BY Zenon, <1>6
    <3> HIDE DEF have
    <3>2. ASSUME NEW pc, pc = "command" PROVE
           UpOrder' /\ UpSays' /\ DownOrder' /\ DownSays' /\ BidiUp' /\ BidiDown' /\ Residual'
      <4>1. pc \notin {"prepq", "ended"} /\ (2 = srv.open.n + 1) /\ 2 \in Nat /\ srv.pc # "ended"
        BY <1>0, <1>b, <3>2
      <4> QED BY Zenon, <1>0, <1>3, <1>6, <1>a, <1>d, <3>1, <3>2, <4>1, ServerTakes
    <3> QED BY Zenon, <3>2
  <2> QED BY Zenon, <2>1, <2>2 DEF Body
<1> QED BY Zenon, <1>4, <1>5, <1>6 DEF Body

\* ServerDispatches keeps the invariant: the plane it takes is the client's.
LEMMA Dispatches ==
  ASSUME Body, ServerDispatches PROVE Body'
<1>ends. Shape /\ ClientAt /\ ServerAt
  BY Zenon DEF Body
<1>know. Agreed /\ Counted /\ Heard
  BY Zenon DEF Body
<1>ctl. UpOrder /\ UpSays /\ DownOrder /\ DownSays /\ Residual
  BY Zenon DEF Body
<1>bidi. BidiUp /\ BidiDown
  BY Zenon DEF Body
<1>0. /\ srv.pc \in {"first", "command"} /\ c2s # <<>> /\ IsCodec(srv.open) /\ IsCodec(srv.seal)
      /\ cli' = cli /\ tcp' = tcp /\ up' = up /\ dn' = dn
      /\ Chunks \in Nat /\ Chunks > 0 /\ srv.open.n \in Nat
  BY Zenon, Positions, <1>ends DEF Shape, ServerDispatches, ServerReads, IsCodec
<1>1. PICK m \in {"connect", "mux", "muxquic"} : ServerReads({"first", "command"}, {m},
         /\ srv' = [srv EXCEPT !.pc = IF m = "connect" THEN "relay" ELSE "mux",
                               !.open = After(@, 1), !.plane = ServerPlane(m)]
         /\ c2s' = Tail(c2s)
         /\ IF m = "mux" /\ srv.have THEN CloseQuic("zero") ELSE UNCHANGED quic
         /\ UNCHANGED s2c)
  BY Zenon DEF ServerDispatches
<1>2. Head(c2s).m = m
  BY Zenon, <1>1 DEF ServerReads
<1>a. /\ Opens(srv.open, Head(c2s)) /\ Head(c2s).e = 1 /\ Head(c2s).n = srv.open.n
      /\ Flow(Tail(c2s), ServerOpened + 1, ClientSealed, tcp, srv.end)
      /\ srv.plane = "none" /\ srv.open.e = 1 /\ srv.seal.e = 1 /\ srv.end = "open"
      /\ ServerOpened = Idx(srv.open) /\ ServerSealed = Idx(srv.seal)
  BY Zenon, <1>0, <1>1, <1>2, ControlOpensUp DEF Last
<1>b. /\ up.got = 0 /\ dn.sent = 0 /\ ~srv.up /\ ~srv.dn
      /\ srv.have => srv.pc = "command" /\ srv.open.n = 2 /\ srv.seal.n = Chunks + 1
  BY Zenon, <1>0, <1>a, <1>ends DEF ServerAt
<1>c. /\ cli.plane # "none" /\ cli.pc # "command"
      /\ m = "muxquic" => cli.plane = "quic"
      /\ m = "mux" => cli.plane = "tcp"
      /\ m \in {"connect", "mux"} /\ cli.plane = "tcp" => cli.seal.n = srv.open.n + 1 + up.sent
  BY Zenon, <1>0, <1>1, <1>2, <1>a, UpTake DEF UpRec
<1>d. cli.pc \notin {"answer", "probe"}
  BY Zenon, <1>c, <1>ends DEF ClientAt
<1>e. /\ IsCodec(After(srv.open, 1)) /\ After(srv.open, 1).e = srv.open.e
      /\ After(srv.open, 1).n = srv.open.n + 1
  BY Zenon, <1>0, AfterOne
<1>f. IF srv.have THEN cli.plane = "quic" /\ m # "mux"
                  ELSE cli.plane = "tcp" /\ m # "muxquic" /\ cli.seal.n = srv.open.n + 1 + up.sent
  <2>1. CASE srv.have
    BY Zenon, <1>b, <1>c, <2>1, <1>know DEF Agreed
  <2>2. CASE ~srv.have
    <3>1. cli.plane # "quic"
      BY Zenon, <1>0, <1>a, <2>2, <1>know DEF Agreed, Unoffered
    <3>2. cli.plane = "tcp"
      BY Zenon, <1>c, <3>1, <1>ends DEF Shape
    <3> QED BY Zenon, <1>1, <1>c, <2>2, <3>2
  <2> QED BY Zenon, <2>1, <2>2
<1>3. /\ srv' = [srv EXCEPT !.pc = IF m = "connect" THEN "relay" ELSE "mux",
                            !.open = After(@, 1), !.plane = ServerPlane(m)]
      /\ c2s' = Tail(c2s) /\ s2c' = s2c /\ quic' = quic
  BY Zenon, <1>1, <1>a, <1>f DEF ServerReads
<1>4. ServerPlane(m) = cli.plane
  BY Zenon, <1>f DEF ServerPlane
<1>5. /\ ServerBecomes(srv'.pc, 1, srv.seal.n, srv.open.n + 1, srv.frag, srv.fwd, srv.spent,
                       srv.have, cli.plane, srv.up, srv.dn, srv.end)
      /\ srv'.pc \in {"relay", "mux"}
  BY Zenon, <1>0, <1>3, <1>4, <1>a, <1>e, <1>ends DEF ServerBecomes, Shape
<1>h. /\ srv'.pc \in {"relay", "mux"} /\ srv'.plane = cli.plane /\ srv'.up = srv.up /\ srv'.dn = srv.dn
      /\ srv'.end = srv.end /\ srv'.have = srv.have /\ srv'.spent = srv.spent /\ srv'.fwd = srv.fwd
      /\ srv'.seal.e = 1 /\ srv'.seal.n = srv.seal.n /\ srv'.open.e = 1 /\ srv'.open.n = srv.open.n + 1
  BY Zenon, <1>5 DEF ServerBecomes
<1>6. Shape' /\ ClientAt' /\ ServerAt' /\ Agreed' /\ Counted' /\ Heard'
  <2>0. Shape' /\ ClientAt'
    <3>1. Shape'
      BY <1>0, <1>3, <1>5, <1>ends DEF ServerBecomes, Shape
    <3>2. ClientAt'
      BY Zenon, <1>0, <1>ends, ClientStays
    <3> QED BY Zenon, <3>1, <3>2
  <2>s. srv.spent /\ up'.got = up.got /\ dn'.sent = dn.sent
    BY Zenon, <1>0, <1>a, <1>ends DEF ServerAt
  <2>1. ServerAt'
    <3>1. CASE srv.have
      <4>1. srv'.open.n = 3 + up.got /\ srv'.seal.n = Chunks + 1 + dn.sent
        BY <1>0, <1>b, <1>h, <3>1
      <4> QED BY <1>a, <1>f, <1>h, <2>s, <3>1, <4>1 DEF ServerAt
    <3>2. CASE ~srv.have
      BY <1>a, <1>f, <1>h, <2>s, <3>2 DEF ServerAt
    <3> QED BY Zenon, <3>1, <3>2
  <2>2. Agreed'
    BY Zenon, <1>0, <1>a, <1>c, <1>d, <1>f, <1>h, <1>know DEF Agreed, Unoffered
  <2>3. Counted'
    <3>1. cli.plane = "tcp" => cli.seal.n + up.got = srv.open.n + 1 + up.sent
      <4>1. cli.plane = "tcp" => cli.seal.n = srv.open.n + 1 + up.sent
        BY Zenon, <1>f
      <4>2. cli.seal.n \in Nat /\ up.sent \in Nat
        BY Zenon, <1>ends DEF Shape, IsCodec
      <4> QED BY <1>0, <1>b, <4>1, <4>2
    <3> QED BY Zenon, <1>0, <1>h, <3>1, <1>know DEF Counted
  <2>4. Heard'
    BY Zenon, <1>0, <1>b, <1>h, <1>know DEF Heard
  <2> QED BY Zenon, <2>0, <2>1, <2>2, <2>3, <2>4
<1>7. /\ ClientSealed' = ClientSealed /\ ServerOpened' = ServerOpened + 1
      /\ ServerSealed' = ServerSealed /\ ClientOpened' = ClientOpened
  <2>1. ClientSealed' = ClientSealed /\ ClientOpened' = ClientOpened
    BY Zenon, <1>0 DEF ClientSealed, ClientOpened, Idx
  <2>2. CASE srv.have
    <3>1. ServerOpened = Chunks + 2 /\ ServerSealed = Chunks + (Chunks + 1)
      BY <1>a, <1>b, <2>2 DEF Idx
    <3>2. ServerOpened' = Chunks + 3 /\ ServerSealed' = Chunks + Chunks + 1
      BY Zenon, <1>f, <1>h, <2>2 DEF ServerOpened, ServerSealed
    <3> QED BY <1>0, <2>1, <3>1, <3>2
  <2>3. CASE ~srv.have
    <3>1. Idx(srv'.open) = Idx(srv.open) + 1 /\ Idx(srv'.seal) = Idx(srv.seal)
      BY <1>0, <1>a, <1>h DEF Idx
    <3>2. ServerOpened' = Idx(srv'.open) /\ ServerSealed' = Idx(srv'.seal)
      BY Zenon, <1>f, <1>h, <2>3 DEF ServerOpened, ServerSealed
    <3> QED BY Zenon, <1>a, <2>1, <3>1, <3>2
  <2> QED BY Zenon, <2>2, <2>3
<1>8. UpOrder' /\ UpSays' /\ BidiUp'
  <2>1. UpOrder' /\ UpSays'
    BY Zenon, <1>0, <1>3, <1>7, <1>a, <1>h, UpAdvances
  <2>2. BidiUp'
    BY Zenon, <1>0, <1>3, <1>bidi DEF BidiUp
  <2> QED BY Zenon, <2>1, <2>2
<1>9. BidiDown'
  <2>1. quic.dn = <<>> /\ In(<<>>) = {}
    BY Zenon, <1>a, BidiDownFlow, Nothing
  <2>2. Chunks + Chunks + 1 + dn.got = Chunks + Chunks + 1 + dn.sent /\ Chunks + Chunks + 1 + dn.sent \in Nat
    <3>1. Chunks + Chunks + 1 + dn.got <= Chunks + Chunks + 1 + dn.sent
      BY Zenon, BidiDownFlow, FlowIs
    <3>2. dn.got \in Nat /\ dn.sent \in Nat
      BY Zenon, <1>ends DEF Shape
    <3> QED BY <1>0, <1>b, <3>1, <3>2
  <2>3. Partial(<<>>, Chunks + Chunks + 1 + dn.got, Chunks + Chunks + 1 + dn.sent)
        /\ Whole(<<>>, Chunks + Chunks + 1 + dn.got, Chunks + Chunks + 1 + dn.sent)
    BY <2>2, NoneLeft
  <2>4. Flow(quic.dn, Chunks + Chunks + 1 + dn.got, Chunks + Chunks + 1 + dn.sent, Leg(cli.plane), quic.close)
    BY Zenon, <2>1, <2>3 DEF Flow
  <2> QED BY Zenon, <1>0, <1>3, <1>h, <2>1, <2>4, <1>bidi DEF BidiDown
<1>10. DownOrder' /\ Residual'
  BY Zenon, <1>0, <1>3, <1>7, <1>h, <1>ctl DEF DownOrder, Residual, Tolerable
<1>11. DownSays'
  BY Zenon, <1>0, <1>3, <1>a, <1>d, <1>h, <1>ctl DEF DownSays, DownRec
<1> QED BY Zenon, <1>6, <1>8, <1>9, <1>10, <1>11 DEF Body
=============================================================================
