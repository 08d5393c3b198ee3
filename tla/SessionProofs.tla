---------------------------- MODULE SessionProofs -----------------------------
(***************************************************************************)
(* The theorems about the session: two honest ends stay in step, the       *)
(* server releases what it holds, forwarded camouflage is tolerated, and   *)
(* the session implements SessionPromise.                                  *)
(***************************************************************************)
EXTENDS SessionOpening, SessionRelay, SessionRefinement

-----------------------------------------------------------------------------
(* How the two tasks end *)

\* How a step of the client may end it.
ClientLeaves(how) ==
  /\ ClientEndsAs(how) /\ cli.end = "open" /\ QuicStays
  /\ srv' = srv /\ c2s' = c2s /\ tcp' = tcp /\ up' = up /\ dn' = dn

\* The steps that end the client end it as done, idle or gone, and as done
\* only on the TCP plane or after DONE.
LEMMA ClientGoes ==
  ASSUME Body, ClientDoneOnTcp \/ ClientReadsDone \/ ClientIdles \/ ClientLosesLeg \/ ClientFails
  PROVE  \E how \in {"done", "idle", "gone"} :
           /\ ClientLeaves(how)
           /\ how = "done" => ClientDoneOnTcp \/ ClientReadsDone
           /\ how = "idle" => cli.plane # "none"
<1>0. /\ srv' = srv /\ c2s' = c2s /\ tcp' = tcp /\ up' = up /\ dn' = dn
  BY Zenon DEF ClientDoneOnTcp, ClientReadsDone, ClientIdles, ClientLosesLeg, ClientFails
<1>1. cli.pc # "ended"
  BY Zenon DEF ClientDoneOnTcp, ClientReadsDone, ClientIdles, ClientLosesLeg, ClientFails, Joined
<1>2. cli.end = "open"
  BY Zenon, <1>1 DEF Body, ClientAt
<1>3. QuicStays
  <2>1. CloseQuic("zero") \/ CloseQuic("idle") \/ quic' = quic
    BY Zenon DEF ClientDoneOnTcp, ClientReadsDone, ClientIdles, ClientLosesLeg, ClientFails
  <2>2. ASSUME NEW code, code # "open", CloseQuic(code) \/ quic' = quic PROVE QuicStays
    BY Zenon, <2>2, QuicCloses
  <2>3. "zero" # "open" /\ "idle" # "open"
    BY Zenon
  <2> QED BY Zenon, <2>1, <2>2, <2>3
<1>4. CASE ClientDoneOnTcp
  BY Zenon, <1>0, <1>2, <1>3, <1>4 DEF ClientDoneOnTcp, ClientLeaves
<1>5. CASE ClientReadsDone
  <2>1. ClientEndsAs("done")
    BY Zenon, <1>5, DoneDown DEF ClientReadsDone, DoneVerdict
  <2> QED BY Zenon, <1>0, <1>2, <1>3, <1>5, <2>1 DEF ClientLeaves
<1>6. CASE ClientIdles
  <2>1. ClientEndsAs("idle") /\ cli.plane # "none"
    BY Zenon, <1>6 DEF ClientIdles, Body, ClientAt
  <2> QED BY Zenon, <1>0, <1>2, <1>3, <2>1 DEF ClientLeaves
<1>7. CASE ClientLosesLeg
  <2>1. ClientEndsAs(CloseVerdict) /\ CloseVerdict \in {"idle", "gone"} /\ cli.plane # "none"
    BY Zenon, <1>7 DEF ClientLosesLeg, CloseVerdict
  <2> QED BY Zenon, <1>0, <1>2, <1>3, <2>1 DEF ClientLeaves
<1>8. CASE ClientFails
  BY Zenon, <1>0, <1>2, <1>3, <1>8 DEF ClientFails, ClientLeaves
<1> QED BY Zenon, <1>4, <1>5, <1>6, <1>7, <1>8

\* How a step of the server may end it.
ServerLeaves(how) ==
  /\ ServerEndsAs(how) /\ srv.end = "open" /\ QuicStays
  /\ cli' = cli /\ s2c' = s2c /\ tcp' = tcp /\ up' = up /\ dn' = dn

\* The steps that end the server end it as done, idle or gone, and as done
\* only on the TCP plane or after DONE.
LEMMA ServerGoes ==
  ASSUME Body, ServerDoneOnTcp \/ ServerReadsDone \/ ServerIdles \/ ServerLosesLeg \/ ServerFails
  PROVE  \E how \in {"done", "idle", "gone"} :
           /\ ServerLeaves(how)
           /\ how = "done" => ServerDoneOnTcp \/ ServerReadsDone
           /\ how = "idle" => srv.plane # "none"
<1>0. /\ cli' = cli /\ s2c' = s2c /\ tcp' = tcp /\ up' = up /\ dn' = dn
  BY Zenon DEF ServerDoneOnTcp, ServerReadsDone, ServerIdles, ServerLosesLeg, ServerFails
<1>1. srv.pc # "ended"
  BY Zenon DEF ServerDoneOnTcp, ServerReadsDone, ServerIdles, ServerLosesLeg, ServerFails, Joined
<1>2. srv.end = "open"
  BY Zenon, <1>1 DEF Body, ServerAt
<1>3. QuicStays
  <2>1. CloseQuic("zero") \/ GuardDropped("zero") \/ GuardDropped("idle") \/ quic' = quic
    BY Zenon DEF ServerDoneOnTcp, ServerReadsDone, ServerIdles, ServerLosesLeg, ServerFails
  <2>2. ASSUME NEW code, code # "open", CloseQuic(code) \/ GuardDropped(code) \/ quic' = quic PROVE QuicStays
    BY Zenon, <2>2, QuicCloses
  <2>3. "zero" # "open" /\ "idle" # "open"
    BY Zenon
  <2> QED BY Zenon, <2>1, <2>2, <2>3
<1>4. CASE ServerDoneOnTcp
  BY Zenon, <1>0, <1>2, <1>3, <1>4 DEF ServerDoneOnTcp, ServerLeaves
<1>5. CASE ServerReadsDone
  <2>1. ServerEndsAs("done")
    BY Zenon, <1>5, DoneUp DEF ServerReadsDone, DoneVerdict
  <2> QED BY Zenon, <1>0, <1>2, <1>3, <1>5, <2>1 DEF ServerLeaves
<1>6. CASE ServerIdles
  <2>1. ServerEndsAs("idle") /\ srv.plane # "none"
    BY Zenon, <1>6 DEF ServerIdles, Body, ServerAt
  <2> QED BY Zenon, <1>0, <1>2, <1>3, <2>1 DEF ServerLeaves
<1>7. CASE ServerLosesLeg
  <2>1. ServerEndsAs(CloseVerdict) /\ CloseVerdict \in {"idle", "gone"} /\ srv.plane # "none"
    BY Zenon, <1>7 DEF ServerLosesLeg, CloseVerdict
  <2> QED BY Zenon, <1>0, <1>2, <1>3, <2>1 DEF ServerLeaves
<1>8. CASE ServerFails
  BY Zenon, <1>0, <1>2, <1>3, <1>8 DEF ServerFails, ServerLeaves
<1> QED BY Zenon, <1>4, <1>5, <1>6, <1>7, <1>8

\* A torn record ends the client's key exchange, and only origins whose
\* records arrive in pieces tear one.
LEMMA ClientTorn ==
  ASSUME Body, ClientSkipsResidual, FrontIsTorn
  PROVE  ClientLeaves("desynced") /\ RecordUnits # 1
<1>1. cli.pc = "px1k" /\ FrontRecord > 0 /\ ~Opens(cli.open, Head(s2c))
  BY Zenon DEF ClientSkipsResidual
<1>2. RecordUnits # 1
  BY Zenon, <1>1, ResidualHead
<1>3. /\ ClientEndsAs("desynced") /\ quic' = quic
      /\ srv' = srv /\ c2s' = c2s /\ tcp' = tcp /\ up' = up /\ dn' = dn
  BY Zenon DEF ClientSkipsResidual
<1>4. cli.end = "open" /\ QuicStays
  BY Zenon, <1>1, <1>3 DEF Body, ClientAt, QuicStays
<1> QED BY Zenon, <1>2, <1>3, <1>4 DEF ClientLeaves

-----------------------------------------------------------------------------
(* Every step keeps Body *)

\* Every step of the client keeps Body.
LEMMA ClientBody ==
  ASSUME Body, ClientStep PROVE Body'
<1>1. ASSUME NEW how, how # "open", ClientLeaves(how) PROVE Body'
  BY Zenon, <1>1, ClientEnd DEF ClientLeaves
<1>2. CASE ClientDoneOnTcp \/ ClientReadsDone \/ ClientIdles \/ ClientLosesLeg \/ ClientFails
  <2>1. PICK how \in {"done", "idle", "gone"} : ClientLeaves(how)
    BY Zenon, <1>2, ClientGoes
  <2>2. how # "open"
    BY Zenon
  <2> QED BY Zenon, <1>1, <2>1, <2>2
<1>3. CASE ClientSkipsResidual
  <2>1. CASE FrontIsTorn
    <3>1. ClientLeaves("desynced") /\ "desynced" # "open"
      BY Zenon, <1>3, <2>1, ClientTorn
    <3> QED BY Zenon, <1>1, <3>1
  <2> QED BY Zenon, <1>3, <2>1, SkipsResidual
<1>4. CASE ClientDownloads
  <2>1. cli.plane \in {"tcp", "quic"}
    BY Zenon, <1>4 DEF ClientDownloads, Body, ClientAt, Shape
  <2> QED BY <1>4, <2>1, DownloadsTcp, DownloadsQuic
<1>5. CASE \/ ClientSendsCamo \/ ClientReadsCamo \/ ClientSendsPx1q \/ ClientReadsPx1k
           \/ ClientReadsIdentity \/ ClientSkipsUdp \/ ClientRequestsUdp \/ ClientReadsAnswer
           \/ ClientAcks \/ ClientCommands
  BY Zenon, <1>5, SendsCamo, ReadsCamo, SendsPx1q, ReadsPx1k, ReadsIdentity, SkipsUdp, RequestsUdp,
     ReadsAnswer, Acks, SendsCommand
<1>6. CASE \/ ClientUploads \/ ClientUploadEnds \/ ClientReadsEof \/ ClientSendsDone \/ ClientSeesClose
  BY Zenon, <1>6, Uploads, UploadEnds, ReadsEof, SendsDone, SeesClose
<1> QED BY Zenon, <1>2, <1>3, <1>4, <1>5, <1>6 DEF ClientStep

\* Every step of the server keeps Body.
LEMMA ServerBody ==
  ASSUME Body, ServerStep PROVE Body'
<1>1. ASSUME NEW how, how # "open", ServerLeaves(how) PROVE Body'
  BY Zenon, <1>1, ServerEnd DEF ServerLeaves
<1>2. CASE ServerDoneOnTcp \/ ServerReadsDone \/ ServerIdles \/ ServerLosesLeg \/ ServerFails
  <2>1. PICK how \in {"done", "idle", "gone"} : ServerLeaves(how)
    BY Zenon, <1>2, ServerGoes
  <2>2. how # "open"
    BY Zenon
  <2> QED BY Zenon, <1>1, <2>1, <2>2
<1>4. CASE ServerUploads
  <2>1. srv.plane \in {"tcp", "quic"}
    BY Zenon, <1>4 DEF ServerUploads, Body, ServerAt, Shape
  <2> QED BY Zenon, <1>4, <2>1, UploadsTcp, UploadsQuic
<1>5. CASE \/ OriginCloses \/ ServerCommits \/ ProbeDeadline \/ ServerTakesConn \/ ServerEchoes
           \/ ServerKeepsConn \/ ServerLosesConn \/ ServerReadsEof \/ ServerSeesClose
  BY Zenon, <1>5, ServerPauses
<1>6. CASE \/ ServerForwardsOrigin \/ ServerReadsCamo \/ ServerReadsPx1q \/ ServerSendsPx1k
           \/ ServerSendsIdentity \/ ServerAnswersUdp \/ ServerReadsAck \/ ServerDispatches
  BY Zenon, <1>6, ForwardsOrigin, ReadsCamoUp, ReadsPx1q, SendsPx1k, SendsIdentity, AnswersUdp,
     ReadsAck, Dispatches
<1>7. CASE \/ ServerDownloads \/ ServerDownloadEnds \/ ServerSendsDone \/ ServerDownloadFails
  BY Zenon, <1>7, DownloadsFromTarget, DownloadEnds, SendsDoneDown, DownloadFails
<1> QED BY <1>2, <1>4, <1>5, <1>6, <1>7 DEF ServerStep

\* Every step keeps Body.
LEMMA BodyStep ==
  ASSUME Body, [Next]_vars PROVE Body'
<1>1. CASE UNCHANGED vars
  <2>1. cli' = cli /\ srv' = srv /\ c2s' = c2s /\ s2c' = s2c /\ tcp' = tcp /\ quic' = quic /\ up' = up /\ dn' = dn
    BY Zenon, <1>1 DEF vars
  <2>ends. Shape /\ ClientAt /\ ServerAt
    BY Zenon DEF Body
  <2>know. Agreed /\ Counted /\ Heard
    BY Zenon DEF Body
  <2>ctl. UpSays /\ DownSays /\ BidiUp /\ BidiDown /\ Residual
    BY Zenon DEF Body
  <2>2. Shape' /\ ClientAt' /\ Agreed' /\ Counted' /\ Heard'
    <3>1. Shape'
      BY Zenon, <2>1, <2>ends DEF Shape
    <3>2. ClientAt'
      BY Zenon, <2>1, <2>ends, ClientStays
    <3>3. Agreed' /\ Counted' /\ Heard'
      BY <2>1, <2>know DEF Agreed, Unoffered, Counted, Heard
    <3> QED BY Zenon, <3>1, <3>2, <3>3
  <2>3. ServerAt'
    BY Zenon, <2>1, <2>ends, ServerStays
  <2>4. UpSays' /\ DownSays' /\ BidiUp' /\ BidiDown' /\ Residual'
    <3>1. ASSUME NEW r, UpRec(r) PROVE UpRec(r)'
      BY Zenon, <2>1, <3>1 DEF UpRec
    <3>2. ASSUME NEW r, DownRec(r) PROVE DownRec(r)'
      BY Zenon, <2>1, <3>2 DEF DownRec, Unoffered
    <3>3. UpSays' /\ DownSays'
      BY Zenon, <2>1, <2>ctl, <3>1, <3>2 DEF UpSays, DownSays
    <3>4. BidiUp' /\ BidiDown'
      BY Zenon, <2>1, <2>ctl DEF BidiUp, BidiDown
    <3>5. Residual'
      BY Zenon, <2>1, <2>ctl DEF Residual, Tolerable
    <3> QED BY Zenon, <3>3, <3>4, <3>5
  <2>5. UpOrder' /\ DownOrder'
    BY Zenon, <2>1
       DEF Body, UpOrder, DownOrder, ClientSealed, ServerOpened, ServerSealed, ClientOpened
  <2> QED BY Zenon, <2>2, <2>3, <2>4, <2>5 DEF Body
<1> QED BY Zenon, <1>1, ClientBody, ServerBody, Cut, Lost DEF Next

-----------------------------------------------------------------------------
(* The verdicts *)

\* A client that ends in this step ends as done, idle or gone, or as
\* desynced where the origin's records may arrive in pieces.
LEMMA ClientVerdict ==
  ASSUME Body, ClientStep
  PROVE  \/ cli'.end = cli.end
         \/ cli.end = "open" /\ cli'.end \in {"done", "idle", "gone"}
         \/ cli.end = "open" /\ cli'.end = "desynced" /\ RecordUnits # 1
<1>ends. Shape /\ ClientAt /\ ServerAt
  BY Zenon DEF Body
<1>1. ASSUME NEW how, ClientLeaves(how) PROVE cli.end = "open" /\ cli'.end = how
  BY Zenon, <1>1, <1>ends DEF ClientLeaves, ClientEndsAs, Shape
<1>2. CASE ClientDoneOnTcp \/ ClientReadsDone \/ ClientIdles \/ ClientLosesLeg \/ ClientFails
  <2>1. PICK how \in {"done", "idle", "gone"} : ClientLeaves(how)
    BY Zenon, <1>2, ClientGoes
  <2> QED BY Zenon, <1>1, <2>1
<1>3. CASE ClientSkipsResidual
  <2>1. CASE FrontIsTorn
    <3>1. ClientLeaves("desynced") /\ RecordUnits # 1
      BY Zenon, <1>3, <2>1, ClientTorn
    <3> QED BY Zenon, <1>1, <3>1
  <2>2. CASE ~FrontIsTorn
    <3>1. ResidualTolerated(cli.skipped)
      BY Zenon, <1>3, ResidualHead DEF ClientSkipsResidual
    <3>2. cli' = [cli EXCEPT !.skipped = @ + FrontRecord]
      BY Zenon, <1>3, <2>2, <3>1 DEF ClientSkipsResidual
    <3> QED BY Zenon, <3>2, <1>ends DEF Shape
  <2> QED BY Zenon, <2>1, <2>2
<1>4. CASE ClientDownloads
  <2>1. CASE Head(DownLeg) = Fin
    <3>1. cli.open.e = 1
      BY Zenon, <1>4, <1>ends DEF ClientDownloads, ClientAt
    <3>2. ~Opens(cli.open, Head(DownLeg))
      BY <2>1, <3>1, FinIs DEF Opens, Plain
    <3>3. cli' = [cli EXCEPT !.dn = TRUE]
      BY Zenon, <1>4, <2>1, <3>2 DEF ClientDownloads
    <3> QED BY Zenon, <3>3, <1>ends DEF Shape
  <2>2. CASE Head(DownLeg) # Fin
    <3>1. cli' = [cli EXCEPT !.open = After(@, 1)]
      BY Zenon, <1>4, <2>2, DownloadOpens DEF ClientDownloads
    <3> QED BY Zenon, <3>1, <1>ends DEF Shape
  <2> QED BY Zenon, <2>1, <2>2
<1>5. CASE ClientReadsIdentity \/ ClientReadsAnswer
  <2>1. s2c # <<>> /\ cli.pc \in {"identity", "answer"}
    BY Zenon, <1>5 DEF ClientReadsIdentity, ClientReadsAnswer, ClientReads
  <2>2. Opens(cli.open, Head(s2c))
    BY Zenon, <2>1, ControlOpensDown, <1>ends DEF ClientAt
  <2> QED BY Zenon, <1>5, <2>2, <1>ends DEF ClientReadsIdentity, ClientReadsAnswer, ClientReads, Shape
<1>6. CASE \/ ClientSendsCamo \/ ClientReadsCamo \/ ClientSendsPx1q \/ ClientReadsPx1k
           \/ ClientSkipsUdp \/ ClientRequestsUdp \/ ClientAcks \/ ClientCommands
  BY Zenon, <1>6, <1>ends
     DEF ClientSendsCamo, ClientReadsCamo, ClientSendsPx1q, ClientReadsPx1k, ClientSkipsUdp, ClientRequestsUdp, ClientAcks, ClientCommands, Shape
<1>7. CASE \/ ClientUploads \/ ClientUploadEnds \/ ClientReadsEof \/ ClientSendsDone \/ ClientSeesClose
  BY Zenon, <1>7, <1>ends
     DEF ClientUploads, ClientUploadEnds, ClientReadsEof, ClientSendsDone, ClientSeesClose, Shape
<1> QED BY Zenon, <1>2, <1>3, <1>4, <1>5, <1>6, <1>7 DEF ClientStep

\* A server that ends in this step ends as done, idle or gone.
LEMMA ServerVerdict ==
  ASSUME Body, ServerStep
  PROVE  \/ srv'.end = srv.end
         \/ srv.end = "open" /\ srv'.end \in {"done", "idle", "gone"}
<1>ends. Shape /\ ClientAt /\ ServerAt
  BY Zenon DEF Body
<1>1. ASSUME NEW how, ServerLeaves(how) PROVE srv.end = "open" /\ srv'.end = how
  BY Zenon, <1>1, <1>ends DEF ServerLeaves, ServerEndsAs, Shape
<1>2. CASE ServerDoneOnTcp \/ ServerReadsDone \/ ServerIdles \/ ServerLosesLeg \/ ServerFails
  <2>1. PICK how \in {"done", "idle", "gone"} : ServerLeaves(how)
    BY Zenon, <1>2, ServerGoes
  <2> QED BY Zenon, <1>1, <2>1
<1>4. CASE ServerUploads
  <2>1. CASE Head(UpLeg) = Fin
    <3>1. srv.open.e = 1
      BY Zenon, <1>4, <1>ends DEF ServerUploads, ServerAt
    <3>2. ~Opens(srv.open, Head(UpLeg))
      BY <2>1, <3>1, FinIs DEF Opens, Plain
    <3>3. srv' = [srv EXCEPT !.up = TRUE]
      BY Zenon, <1>4, <2>1, <3>2 DEF ServerUploads
    <3> QED BY Zenon, <3>3, <1>ends DEF Shape
  <2>2. CASE Head(UpLeg) # Fin
    <3>1. srv' = [srv EXCEPT !.open = After(@, 1)]
      BY Zenon, <1>4, <2>2, UploadOpens DEF ServerUploads
    <3> QED BY Zenon, <3>1, <1>ends DEF Shape
  <2> QED BY Zenon, <2>1, <2>2
<1>5. CASE \/ OriginCloses \/ ServerCommits \/ ProbeDeadline \/ ServerTakesConn \/ ServerEchoes
           \/ ServerKeepsConn \/ ServerLosesConn \/ ServerReadsEof \/ ServerSeesClose
  <2>1. CASE OriginCloses
    BY Zenon, <2>1, <1>ends DEF OriginCloses, Shape
  <2>2. CASE ServerCommits
    BY Zenon, <2>2, <1>ends DEF ServerCommits, Shape
  <2>3. CASE ProbeDeadline
    BY Zenon, <2>3, <1>ends DEF ProbeDeadline, Shape
  <2>4. CASE ServerTakesConn
    BY Zenon, <2>4, <1>ends DEF ServerTakesConn, Shape
  <2>5. CASE ServerEchoes
    BY Zenon, <2>5, <1>ends DEF ServerEchoes, Shape
  <2>6. CASE ServerKeepsConn
    BY Zenon, <2>6, <1>ends DEF ServerKeepsConn, Shape
  <2>7. CASE ServerLosesConn
    BY Zenon, <2>7, <1>ends DEF ServerLosesConn, Shape
  <2>8. CASE ServerReadsEof
    BY Zenon, <2>8, <1>ends DEF ServerReadsEof, Shape
  <2>9. CASE ServerSeesClose
    BY Zenon, <2>9, <1>ends DEF ServerSeesClose, Shape
  <2> QED BY Zenon, <1>5, <2>1, <2>2, <2>3, <2>4, <2>5, <2>6, <2>7, <2>8, <2>9
<1>6. CASE ServerForwardsOrigin \/ ServerReadsPx1q \/ ServerSendsPx1k \/ ServerSendsIdentity
  <2>1. CASE ServerForwardsOrigin
    BY Zenon, <2>1, <1>ends DEF ServerForwardsOrigin, Shape
  <2>2. CASE ServerReadsPx1q
    BY Zenon, <2>2, <1>ends DEF ServerReadsPx1q, Shape
  <2>3. CASE ServerSendsPx1k
    BY Zenon, <2>3, <1>ends DEF ServerSendsPx1k, Shape
  <2>4. CASE ServerSendsIdentity
    BY Zenon, <2>4, <1>ends DEF ServerSendsIdentity, Shape
  <2> QED BY Zenon, <1>6, <2>1, <2>2, <2>3, <2>4
<1>7. CASE ServerDownloads \/ ServerDownloadEnds \/ ServerSendsDone
  BY Zenon, <1>7, <1>ends DEF ServerDownloads, ServerDownloadEnds, ServerSendsDone, Shape
<1>8. CASE ServerReadsCamo
  <2>1. srv.end = "open"
    BY Zenon, <1>8, <1>ends DEF ServerReadsCamo, ServerAt
  <2> QED BY Zenon, <1>8, <2>1, <1>ends DEF ServerReadsCamo, ServerEndsAs, Shape
<1>9. CASE ServerDownloadFails
  <2>1. srv.end = "open"
    BY Zenon, <1>9, <1>ends DEF ServerDownloadFails, ServerAt
  <2> QED BY Zenon, <1>9, <2>1, <1>ends DEF ServerDownloadFails, ServerEndsAs, Shape
<1>10. CASE ServerAnswersUdp \/ ServerReadsAck \/ ServerDispatches
  <2>1. c2s # <<>> /\ srv.pc \in {"first", "ack", "command"} /\ Head(c2s).m \notin Last
    BY Zenon, <1>10 DEF ServerAnswersUdp, ServerReadsAck, ServerDispatches, ServerReads, Last
  <2>2. Opens(srv.open, Head(c2s)) /\ srv.end = "open"
    BY Zenon, <2>1, ControlOpensUp
  <2>3. CASE ServerAnswersUdp
    BY Zenon, <2>2, <2>3, <1>ends DEF ServerAnswersUdp, ServerReads, Shape
  <2>4. CASE ServerDispatches
    BY Zenon, <2>2, <2>4, <1>ends DEF ServerDispatches, ServerReads, Shape
  <2>5. CASE ServerReadsAck
    <3>1. \/ ServerEndsAs("gone")
          \/ srv' = [srv EXCEPT !.pc = "command", !.open = After(@, 1)]
          \/ srv' = [srv EXCEPT !.pc = "command", !.open = After(@, 1), !.have = FALSE, !.guard = FALSE]
      BY Zenon, <2>2, <2>5 DEF ServerReadsAck, ServerReads
    <3>2. CASE ServerEndsAs("gone")
      BY Zenon, <2>2, <3>2, <1>ends DEF ServerEndsAs, Shape
    <3>3. CASE srv' = [srv EXCEPT !.pc = "command", !.open = After(@, 1)]
      BY Zenon, <3>3, <1>ends DEF Shape
    <3>4. CASE srv' = [srv EXCEPT !.pc = "command", !.open = After(@, 1), !.have = FALSE, !.guard = FALSE]
      BY Zenon, <3>4, <1>ends DEF Shape
    <3> QED BY Zenon, <3>1, <3>2, <3>3, <3>4
  <2> QED BY Zenon, <1>10, <2>3, <2>4, <2>5
<1> QED BY Zenon, <1>2, <1>4, <1>5, <1>6, <1>7, <1>8, <1>9, <1>10 DEF ServerStep

-----------------------------------------------------------------------------
(* The server's guards *)

\* The server has accepted a connection that is still open.
Held == Accepted /\ quic.close = "open"

\* No step of the client opens a connection that the server has to close, or
\* touches the server's task.
LEMMA ClientHolds ==
  ASSUME Body, ClientStep PROVE (Held' => Held) /\ srv' = srv
<1>ends. Shape /\ ClientAt /\ ServerAt
  BY Zenon DEF Body
<1>1. srv' = srv
  BY Zenon
     DEF ClientStep, ClientSendsCamo, ClientReadsCamo, ClientSendsPx1q, ClientSkipsResidual, ClientReadsPx1k, ClientReadsIdentity, ClientSkipsUdp, ClientRequestsUdp, ClientReadsAnswer, ClientAcks, ClientCommands, ClientUploads, ClientUploadEnds, ClientDownloads, ClientReadsEof, ClientDoneOnTcp, ClientSendsDone, ClientSeesClose, ClientReadsDone, ClientIdles, ClientLosesLeg, ClientFails
<1>2. ASSUME NEW code, code # "open", CloseQuic(code) \/ quic' = quic PROVE Held' => Held
  BY Zenon, <1>2, <1>ends DEF CloseQuic, Held, Accepted, Shape
<1>3. "zero" # "open" /\ "idle" # "open"
  BY Zenon
<1>4. CASE \/ ClientSendsCamo \/ ClientReadsCamo \/ ClientSendsPx1q \/ ClientSkipsResidual
           \/ ClientReadsPx1k \/ ClientReadsIdentity \/ ClientSkipsUdp \/ ClientRequestsUdp
           \/ ClientAcks \/ ClientCommands \/ ClientReadsEof \/ ClientDoneOnTcp \/ ClientSendsDone
           \/ ClientSeesClose \/ ClientReadsDone \/ ClientIdles \/ ClientLosesLeg \/ ClientFails
  <2>1. CloseQuic("zero") \/ CloseQuic("idle") \/ quic' = quic
    BY Zenon, <1>4
       DEF ClientSendsCamo, ClientReadsCamo, ClientSendsPx1q, ClientSkipsResidual, ClientReadsPx1k, ClientReadsIdentity, ClientSkipsUdp, ClientRequestsUdp, ClientAcks, ClientCommands, ClientReadsEof, ClientDoneOnTcp, ClientSendsDone, ClientSeesClose, ClientReadsDone, ClientIdles, ClientLosesLeg, ClientFails
  <2> QED BY Zenon, <1>1, <1>2, <1>3, <2>1
<1>5. CASE ClientReadsAnswer
  BY Zenon, <1>1, <1>5, <1>ends DEF ClientReadsAnswer, Held, Accepted, Shape
<1>6. CASE ClientUploads \/ ClientUploadEnds
  <2>1. quic'.conn = quic.conn /\ quic'.close = quic.close
    BY Zenon, <1>6, <1>ends DEF ClientUploads, ClientUploadEnds, PutUp, Shape
  <2> QED BY Zenon, <1>1, <2>1 DEF Held, Accepted
<1>7. CASE ClientDownloads
  <2>1. CloseQuic("zero") \/ TakeDown
    BY Zenon, <1>7 DEF ClientDownloads
  <2>2. CASE TakeDown
    <3>1. quic'.conn = quic.conn /\ quic'.close = quic.close
      BY Zenon, <2>2, <1>ends DEF TakeDown, Shape
    <3> QED BY Zenon, <1>1, <3>1 DEF Held, Accepted
  <2> QED BY Zenon, <1>1, <1>2, <1>3, <2>1, <2>2
<1> QED BY Zenon, <1>1, <1>4, <1>5, <1>6, <1>7 DEF ClientStep

\* An end of the server's task that drops its guard leaves nothing open.
LEMMA GuardCloses ==
  ASSUME Body, Guarded, NEW code, code # "open", GuardDropped(code) PROVE ~Held'
<1>1. CASE srv.guard
  BY Zenon, <1>1 DEF Body, Shape, GuardDropped, CloseQuic, Held, Accepted
<1>2. CASE ~srv.guard
  BY Zenon, <1>2 DEF GuardDropped, Guarded, Held, Accepted
<1> QED BY Zenon, <1>1, <1>2

\* An end of the task that leaves no connection open releases everything.
LEMMA EndGuarded ==
  ASSUME Body, NEW how, ServerEndsAs(how), how # "open", ~Held' PROVE Guarded'
BY Zenon DEF Body, Shape, ServerEndsAs, Guarded, Held, Accepted

\* The fields of the server that Guarded speaks of.
ServerKeeps == /\ srv'.offer = srv.offer /\ srv'.guard = srv.guard /\ srv'.have = srv.have
               /\ srv'.plane = srv.plane /\ srv'.end = srv.end

\* A step that leaves them alone and opens no connection keeps Guarded.
LEMMA KeepsGuarded ==
  ASSUME Body, Guarded, ServerKeeps, Held' => Held, srv'.pc = "serve" <=> srv.pc = "serve",
         srv'.pc = "handoff" <=> srv.pc = "handoff"
  PROVE  Guarded'
BY Zenon DEF Guarded, Held, Accepted, ServerKeeps

\* Every step of the server keeps Guarded: each exit drops the guards that
\* are armed at that point (SessionQuicCloseGuard, drop_retained_quic).
LEMMA ServerGuarded ==
  ASSUME Body, Guarded, ServerStep PROVE Guarded'
<1>ends. Shape /\ ClientAt /\ ServerAt
  BY Zenon DEF Body
<1>0. "zero" # "open" /\ "idle" # "open" /\ "gone" # "open" /\ "done" # "open"
  BY Zenon
<1>1. ASSUME NEW how, how # "open", ServerEndsAs(how), NEW code, code # "open", GuardDropped(code) PROVE Guarded'
  BY Zenon, <1>1, GuardCloses, EndGuarded
<1>2. CASE ServerDoneOnTcp \/ ServerIdles \/ ServerFails
  <2>1. \E how \in {"done", "idle", "gone"}, code \in {"zero", "idle"} : ServerEndsAs(how) /\ GuardDropped(code)
    BY Zenon, <1>2 DEF ServerDoneOnTcp, ServerIdles, ServerFails
  <2> QED BY Zenon, <1>0, <1>1, <2>1
<1>3. CASE ServerReadsDone \/ ServerLosesLeg
  <2>1. PICK how \in {"done", "idle", "gone"} : ServerEndsAs(how)
    BY Zenon, <1>3, ServerGoes DEF ServerLeaves
  <2>2. ~Held'
    BY Zenon, <1>3, <1>ends DEF ServerReadsDone, ServerLosesLeg, CloseQuic, Held, Accepted, Shape
  <2>3. how # "open"
    BY Zenon
  <2> QED BY Zenon, <2>1, <2>2, <2>3, EndGuarded
<1>4. CASE ServerDownloadFails
  <2>1. ServerEndsAs("gone") /\ srv.plane \in {"tcp", "quic"}
    BY Zenon, <1>4, <1>ends DEF ServerDownloadFails, ServerAt, Shape
  <2>2. CASE srv.plane = "quic"
    <3>1. ~Held'
      BY Zenon, <1>4, <2>2, <1>ends DEF ServerDownloadFails, Held, Accepted, Shape
    <3> QED BY Zenon, <1>0, <2>1, <3>1, EndGuarded
  <2>3. CASE srv.plane = "tcp"
    <3>1. ~Held'
      BY Zenon, <1>4, <2>3 DEF ServerDownloadFails, Held, Accepted, Guarded
    <3> QED BY Zenon, <1>0, <2>1, <3>1, EndGuarded
  <2> QED BY Zenon, <2>1, <2>2, <2>3
<1>5. CASE \/ OriginCloses \/ ServerCommits \/ ServerReadsEof \/ ServerSeesClose
           \/ ServerForwardsOrigin \/ ServerReadsPx1q \/ ServerSendsPx1k \/ ServerSendsIdentity
  <2>1. /\ ServerKeeps /\ (srv'.pc = "serve" <=> srv.pc = "serve") /\ (srv'.pc = "handoff" <=> srv.pc = "handoff")
        /\ quic' = quic
    <3>1. CASE OriginCloses
      BY Zenon, <3>1, <1>ends DEF OriginCloses, ServerKeeps, Shape
    <3>2. CASE ServerReadsEof
      BY Zenon, <3>2, <1>ends DEF ServerReadsEof, ServerKeeps, Shape
    <3>3. CASE ServerCommits
      BY Zenon, <3>3, <1>ends DEF ServerCommits, ServerKeeps, Shape
    <3>4. CASE ServerSeesClose
      BY Zenon, <3>4, <1>ends DEF ServerSeesClose, ServerKeeps, Shape
    <3>5. CASE ServerForwardsOrigin
      BY Zenon, <3>5, <1>ends DEF ServerForwardsOrigin, ServerKeeps, Shape
    <3>6. CASE ServerSendsPx1k
      BY Zenon, <3>6, <1>ends DEF ServerSendsPx1k, ServerKeeps, Shape
    <3>7. CASE ServerReadsPx1q
      BY Zenon, <3>7, <1>ends DEF ServerReadsPx1q, ServerKeeps, Shape
    <3>8. CASE ServerSendsIdentity
      BY Zenon, <3>8, <1>ends DEF ServerSendsIdentity, ServerKeeps, Shape
    <3> QED BY Zenon, <1>5, <3>1, <3>2, <3>3, <3>4, <3>5, <3>6, <3>7, <3>8
  <2>2. Held' => Held
    BY Zenon, <2>1 DEF Held, Accepted
  <2> QED BY Zenon, <2>1, <2>2, KeepsGuarded
<1>6. CASE ServerDownloads \/ ServerDownloadEnds \/ ServerSendsDone
  <2>1. ServerKeeps /\ (srv'.pc = "serve" <=> srv.pc = "serve") /\ (srv'.pc = "handoff" <=> srv.pc = "handoff")
    <3>1. CASE ServerDownloads
      BY Zenon, <3>1, <1>ends DEF ServerDownloads, Joined, ServerKeeps, Shape
    <3>2. CASE ServerDownloadEnds
      BY Zenon, <3>2, <1>ends DEF ServerDownloadEnds, Joined, ServerKeeps, Shape
    <3>3. CASE ServerSendsDone
      BY Zenon, <3>3, <1>ends DEF ServerSendsDone, Joined, ServerKeeps, Shape
    <3> QED BY Zenon, <1>6, <3>1, <3>2, <3>3
  <2>2. quic'.conn = quic.conn /\ quic'.close = quic.close
    BY <1>6, <1>ends DEF ServerDownloads, ServerDownloadEnds, ServerSendsDone, PutDown, Shape
  <2>3. Held' => Held
    BY Zenon, <2>2 DEF Held, Accepted
  <2> QED BY Zenon, <2>1, <2>3, KeepsGuarded
<1>7. CASE ServerUploads
  <2>1. CASE TakeUp /\ (srv' = [srv EXCEPT !.up = TRUE] \/ srv' = [srv EXCEPT !.open = After(@, 1)])
    <3>1. ServerKeeps /\ srv'.pc = srv.pc
      BY <2>1, <1>ends DEF ServerKeeps, Shape
    <3>2. quic'.conn = quic.conn /\ quic'.close = quic.close
      BY <2>1, <1>ends DEF TakeUp, Shape
    <3>3. Held' => Held
      BY Zenon, <3>2 DEF Held, Accepted
    <3> QED BY Zenon, <3>1, <3>3, KeepsGuarded
  <2>2. CASE ServerEndsAs("undecryptable") /\ GuardDropped("zero")
    <3>1. "undecryptable" # "open"
      BY Zenon
    <3> QED BY Zenon, <1>0, <1>1, <2>2, <3>1
  <2> QED BY Zenon, <1>7, <2>1, <2>2 DEF ServerUploads
<1>8. CASE ServerReadsCamo
  <2>1. srv.pc = "prepq" /\ ~srv.have /\ quic' = quic
    BY Zenon, <1>8, <1>ends DEF ServerReadsCamo, ServerAt
  <2>2. ~Held /\ ~Held'
    BY Zenon, <2>1 DEF Guarded, Held, Accepted
  <2>3. CASE ServerEndsAs("gone")
    BY Zenon, <1>0, <2>2, <2>3, EndGuarded
  <2>4. CASE srv' = [srv EXCEPT !.camo = @ + 1]
    <3>1. ServerKeeps /\ srv'.pc = srv.pc
      BY Zenon, <2>4, <1>ends DEF ServerKeeps, Shape
    <3> QED BY Zenon, <2>2, <3>1, KeepsGuarded
  <2> QED BY Zenon, <1>8, <2>3, <2>4 DEF ServerReadsCamo
<1>9. CASE ServerTakesConn \/ ProbeDeadline \/ ServerEchoes \/ ServerKeepsConn \/ ServerLosesConn
  <2>0. /\ srv.pc \in {"handoff", "serve"} => ~srv.have /\ srv.plane = "none" /\ srv.end = "open"
    BY Zenon, <1>ends DEF ServerAt
  <2>1. CASE ServerTakesConn
    BY Zenon, <2>0, <2>1, <1>ends DEF ServerTakesConn, Guarded, Accepted, Shape
  <2>2. CASE ProbeDeadline
    BY Zenon, <2>0, <2>2, <1>ends DEF ProbeDeadline, Guarded, Accepted, Shape
  <2>3. CASE ServerEchoes
    BY Zenon, <2>0, <2>3, <1>ends DEF ServerEchoes, Guarded, Accepted, Shape
  <2>4. CASE ServerKeepsConn
    BY Zenon, <2>0, <2>4, <1>ends DEF ServerKeepsConn, Guarded, Accepted, Shape
  <2>5. CASE ServerLosesConn
    BY Zenon, <2>0, <2>5, <1>ends DEF ServerLosesConn, CloseQuic, Guarded, Accepted, Shape
  <2> QED BY Zenon, <1>9, <2>1, <2>2, <2>3, <2>4, <2>5
<1>10. CASE ServerAnswersUdp \/ ServerReadsAck \/ ServerDispatches
  <2>1. c2s # <<>> /\ srv.pc \in {"first", "ack", "command"} /\ Head(c2s).m \notin Last
    BY Zenon, <1>10 DEF ServerAnswersUdp, ServerReadsAck, ServerDispatches, ServerReads, Last
  <2>2. Opens(srv.open, Head(c2s)) /\ srv.end = "open"
    BY Zenon, <2>1, ControlOpensUp
  <2>3. CASE ServerAnswersUdp
    <3>1. srv.pc = "first" /\ ~srv.have /\ srv.plane = "none" /\ ~srv.offer
      BY Zenon, <2>3, <1>ends DEF ServerAnswersUdp, ServerReads, ServerAt, Guarded
    <3>2. quic' = quic /\ srv'.have = srv.have /\ srv'.plane = "none" /\ srv'.pc \in {"handoff", "command"}
          /\ (srv'.offer => srv'.pc = "handoff")
      <4>1. PICK m \in {"px1o", "px1n"} :
              /\ srv' = [srv EXCEPT !.pc = IF m = "px1o" THEN "handoff" ELSE "command",
                                    !.offer = (m = "px1o"),
                                    !.open = After(@, 1), !.seal = After(@, 1)]
              /\ quic' = quic
        BY Zenon, <2>2, <2>3 DEF ServerAnswersUdp, ServerReads
      <4>2. CASE m = "px1o"
        BY Zenon, <3>1, <4>1, <4>2, <1>ends DEF Shape
      <4>3. CASE m # "px1o"
        <5>1. srv'.offer = FALSE
          BY Zenon, <4>1, <4>3, <1>ends DEF Shape
        <5> QED BY Zenon, <3>1, <4>1, <4>3, <5>1, <1>ends DEF Shape
      <4> QED BY Zenon, <4>2, <4>3
    <3> QED BY Zenon, <3>1, <3>2 DEF Guarded, Accepted
  <2>4. CASE ServerDispatches
    <3>1. PICK m \in {"connect", "mux", "muxquic"} :
            /\ srv' = [srv EXCEPT !.pc = IF m = "connect" THEN "relay" ELSE "mux",
                                  !.open = After(@, 1), !.plane = ServerPlane(m)]
            /\ IF m = "mux" /\ srv.have THEN CloseQuic("zero") ELSE quic' = quic
      BY Zenon, <2>2, <2>4 DEF ServerDispatches, ServerReads
    <3>2. /\ srv'.offer = srv.offer /\ srv'.guard = srv.guard /\ srv'.have = srv.have
          /\ srv'.end = srv.end /\ srv'.pc \in {"relay", "mux"} /\ srv'.plane = ServerPlane(m)
      BY Zenon, <3>1, <1>ends DEF Shape
    <3>3. CASE m = "mux" /\ srv.have
      <4>1. ~Held'
        BY Zenon, <3>1, <3>3, <1>ends DEF CloseQuic, Held, Accepted, Shape
      <4> QED BY Zenon, <2>1, <3>2, <4>1 DEF Guarded, Held, Accepted
    <3>4. CASE ~(m = "mux" /\ srv.have)
      <4>1. srv'.plane = "tcp" => ~srv.have
        BY Zenon, <3>2, <3>4 DEF ServerPlane
      <4>2. quic' = quic
        BY Zenon, <3>1, <3>4
      <4> QED BY Zenon, <2>1, <2>2, <3>2, <4>1, <4>2 DEF Guarded, Accepted
    <3> QED BY Zenon, <3>3, <3>4
  <2>5. CASE ServerReadsAck
    <3>0. srv.pc = "ack" /\ srv.plane = "none" /\ ~srv.offer
      BY Zenon, <2>5, <1>ends DEF ServerReadsAck, ServerReads, ServerAt, Guarded
    <3>1. PICK m \in {"verified", "unverified", "zeroid"} :
            \/ srv' = [srv EXCEPT !.pc = "command", !.open = After(@, 1)] /\ quic' = quic
            \/ ServerEndsAs("gone") /\ GuardDropped("zero")
            \/ /\ srv' = [srv EXCEPT !.pc = "command", !.open = After(@, 1),
                                     !.have = FALSE, !.guard = FALSE]
               /\ IF srv.have THEN CloseQuic("zero") ELSE quic' = quic
      BY Zenon, <2>2, <2>5 DEF ServerReadsAck, ServerReads
    <3>2. CASE srv' = [srv EXCEPT !.pc = "command", !.open = After(@, 1)] /\ quic' = quic
      BY Zenon, <3>0, <3>2, <1>ends DEF Guarded, Accepted, Shape
    <3>3. CASE ServerEndsAs("gone") /\ GuardDropped("zero")
      BY Zenon, <1>0, <1>1, <3>3
    <3>4. CASE /\ srv' = [srv EXCEPT !.pc = "command", !.open = After(@, 1),
                                     !.have = FALSE, !.guard = FALSE]
               /\ IF srv.have THEN CloseQuic("zero") ELSE quic' = quic
      <4>1. ~Held'
        <5>1. CASE srv.have
          BY Zenon, <3>4, <5>1, <1>ends DEF CloseQuic, Held, Accepted, Shape
        <5>2. CASE ~srv.have
          BY Zenon, <3>0, <3>4, <5>2 DEF Guarded, Held, Accepted
        <5> QED BY Zenon, <5>1, <5>2
      <4> QED BY Zenon, <3>0, <3>4, <4>1, <1>ends DEF Guarded, Held, Accepted, Shape
    <3> QED BY Zenon, <3>1, <3>2, <3>3, <3>4
  <2> QED BY Zenon, <1>10, <2>3, <2>4, <2>5
<1> QED BY Zenon, <1>2, <1>3, <1>4, <1>5, <1>6, <1>7, <1>8, <1>9, <1>10 DEF ServerStep

-----------------------------------------------------------------------------
(* The invariant *)

\* A step of the server does not touch the client's task.
LEMMA ServerLeft ==
  ASSUME ServerStep PROVE cli' = cli
<1>1. CASE \/ ServerForwardsOrigin \/ OriginCloses \/ ServerReadsCamo
           \/ ServerReadsPx1q \/ ServerCommits \/ ServerSendsPx1k
           \/ ServerSendsIdentity \/ ServerAnswersUdp
           \/ ServerTakesConn \/ ProbeDeadline \/ ServerEchoes \/ ServerKeepsConn
           \/ ServerLosesConn \/ ServerReadsAck \/ ServerDispatches
  BY Zenon, <1>1 DEF ServerForwardsOrigin, OriginCloses, ServerReadsCamo, ServerReadsPx1q,
     ServerCommits, ServerSendsPx1k, ServerSendsIdentity, ServerAnswersUdp, ServerTakesConn,
     ProbeDeadline, ServerEchoes, ServerKeepsConn, ServerLosesConn, ServerReadsAck,
     ServerDispatches
<1>2. CASE \/ ServerDownloads \/ ServerDownloadEnds \/ ServerUploads
           \/ ServerReadsEof \/ ServerDoneOnTcp \/ ServerSendsDone
           \/ ServerSeesClose \/ ServerReadsDone \/ ServerIdles \/ ServerLosesLeg
           \/ ServerDownloadFails \/ ServerFails
  BY Zenon, <1>2 DEF ServerDownloads, ServerDownloadEnds, ServerUploads, ServerReadsEof,
     ServerDoneOnTcp, ServerSendsDone, ServerSeesClose, ServerReadsDone, ServerIdles,
     ServerLosesLeg, ServerDownloadFails, ServerFails
<1> QED BY Zenon, <1>1, <1>2 DEF ServerStep

\* Two fresh ends and empty connections satisfy Body.
LEMMA InitBody == Init => Body
<1> SUFFICES ASSUME Init PROVE Body
  BY Zenon
<1>0. Chunks \in Nat /\ Chunks > 0 /\ ByteLimit \in Nat
  BY SessionAssumption
<1>1. Shape
  BY Zenon DEF Init, Shape, Codec0, IsCodec
<1>2. ClientAt /\ ServerAt
  <2>1. ClientAt
    BY <1>0 DEF Init, ClientAt, Codec0
  <2>2. ServerAt
    BY <1>0 DEF Init, ServerAt, Codec0
  <2> QED BY Zenon, <2>1, <2>2
<1>3. In(<<>>) = {}
  BY Zenon, Nothing
<1>4. /\ ServerOpened = 0 /\ ClientSealed = 0 /\ ServerSealed = 0 /\ ClientOpened = 0
  BY Zenon DEF Init, ServerOpened, ClientSealed, ServerSealed, ClientOpened, Idx, Codec0
<1>5. ASSUME NEW k \in Nat, NEW link, NEW reader PROVE Flow(<<>>, k, k, link, reader)
  <2>1. Partial(<<>>, k, k) /\ Whole(<<>>, k, k)
    BY NoneLeft
  <2> QED BY Zenon, <2>1 DEF Flow
<1>6. UpOrder /\ DownOrder
  BY Zenon, <1>4, <1>5 DEF Init, UpOrder, DownOrder
<1>7. UpSays /\ DownSays
  BY Zenon, <1>3 DEF Init, UpSays, DownSays
<1>8. BidiUp /\ BidiDown
  <2>1. /\ quic.up = <<>> /\ quic.dn = <<>> /\ up.sent = 0 /\ up.got = 0 /\ dn.sent = 0 /\ dn.got = 0
    BY Zenon DEF Init
  <2>2. Chunks + 3 + 0 \in Nat /\ Chunks + Chunks + 1 + 0 \in Nat
    BY <1>0
  <2> QED BY Zenon, <1>3, <1>5, <2>1, <2>2 DEF BidiUp, BidiDown
<1>9. Agreed /\ Counted /\ Heard
  BY Zenon DEF Init, Agreed, Unoffered, Counted, Heard
<1>10. Residual
  <2>1. s2c = <<>> /\ cli.skipped = 0 /\ srv.fwd = 0 /\ Len(<<>>) = 0
    BY Zenon DEF Init
  <2> QED BY <1>0, <1>3, <2>1 DEF Residual, Tolerable
<1> QED BY Zenon, <1>1, <1>2, <1>6, <1>7, <1>8, <1>9, <1>10 DEF Body

\* The invariant holds initially.
LEMMA InitInv == Init => IInv
<1> SUFFICES ASSUME Init PROVE IInv
  BY Zenon
<1>1. Guarded
  BY Zenon DEF Init, Guarded, Accepted
<1>2. Verdicts
  BY Zenon DEF Init, Verdicts, SequenceAligned
<1> QED BY Zenon, <1>1, <1>2, InitBody DEF IInv

\* Every step keeps the invariant.
LEMMA StepInv == IInv /\ [Next]_vars => IInv'
<1> SUFFICES ASSUME IInv, [Next]_vars PROVE IInv'
  BY Zenon
<1>0. Body /\ Guarded /\ Verdicts
  BY Zenon DEF IInv
<1>1. Body'
  BY Zenon, <1>0, BodyStep
<1>2. CASE ClientStep
  <2>1. Held' => Held
    BY Zenon, <1>0, <1>2, ClientHolds
  <2>2. srv' = srv
    BY Zenon, <1>0, <1>2, ClientHolds
  <2>3. Guarded'
    BY Zenon, <1>0, <2>1, <2>2 DEF Guarded, Held, Accepted
  <2>4. \/ cli'.end = cli.end
        \/ cli'.end \in {"done", "idle", "gone"}
        \/ cli'.end = "desynced" /\ RecordUnits # 1
    BY Zenon, <1>0, <1>2, ClientVerdict
  <2>5. Verdicts'
    BY Zenon, <1>0, <2>2, <2>4 DEF Verdicts, SequenceAligned
  <2> QED BY Zenon, <1>1, <2>3, <2>5 DEF IInv
<1>3. CASE ServerStep
  <2>1. Guarded'
    BY Zenon, <1>0, <1>3, ServerGuarded
  <2>2. cli' = cli
    BY Zenon, <1>0, <1>3, ServerLeft
  <2>3. srv'.end = srv.end \/ srv'.end \in {"done", "idle", "gone"}
    BY Zenon, <1>0, <1>3, ServerVerdict
  <2>4. Verdicts'
    BY Zenon, <1>0, <2>2, <2>3 DEF Verdicts, SequenceAligned
  <2> QED BY Zenon, <1>1, <2>1, <2>4 DEF IInv
<1>4. CASE TcpCut \/ QuicLost \/ UNCHANGED vars
  <2>1. cli' = cli /\ srv' = srv
    BY Zenon, <1>4 DEF TcpCut, QuicLost, vars
  <2>2. Held' => Held
    BY Zenon, <1>0, <1>4 DEF TcpCut, QuicLost, vars, Held, Accepted, Body, Shape
  <2>3. Guarded'
    BY Zenon, <1>0, <2>1, <2>2 DEF Guarded, Held, Accepted
  <2>4. Verdicts'
    BY Zenon, <1>0, <2>1 DEF Verdicts, SequenceAligned
  <2> QED BY Zenon, <1>1, <2>3, <2>4 DEF IInv
<1> QED BY Zenon, <1>2, <1>3, <1>4 DEF Next

\* The invariant holds in every state of every session, for any number of
\* chunks, units of data and camouflage.
THEOREM InvariantHolds == Spec => []IInv
BY InitInv, StepInv, PTL DEF Spec

\* Two honest ends never meet a record they cannot open: the sequence
\* numbers of the sealing and the opening codec stay in step through the
\* rekey, the negotiation, the relay on either plane and the DONE exchange
\* (DataRecordCodec, server_exchange_quic_done).
THEOREM SequencesStayAligned == Spec => []SequenceAligned
<1>1. IInv => SequenceAligned
  BY Zenon DEF IInv, Verdicts
<1> QED BY <1>1, InvariantHolds, PTL

\* However the server's task leaves a session, its offer is unregistered,
\* and a connection it accepted is closed (OfferRegistrationGuard,
\* SessionQuicCloseGuard).
THEOREM ServerAlwaysReleases == Spec => []ServerReleases
<1>1. IInv => ServerReleases
  BY Zenon DEF IInv, Guarded, ServerReleases
<1> QED BY <1>1, InvariantHolds, PTL

\* If the origin's records arrive whole, the client never gives up on the
\* key exchange because of camouflage that the server forwarded
\* (apply_server_key_exchange_after_residuals). The run session_residual
\* shows that the assumption is needed.
THEOREM ResidualsAlwaysTolerated ==
  ASSUME RecordUnits = 1 PROVE Spec => []ResidualsTolerated
<1>1. IInv => ResidualsTolerated
  BY Zenon DEF IInv, Verdicts, ResidualsTolerated
<1> QED BY <1>1, InvariantHolds, PTL

\* Whether they arrive whole or not, the forwarded camouflage never exceeds
\* the client's budget: both are MAX_PRE_KEY_EXCHANGE_CAMOUFLAGE_BYTES.
THEOREM NeverOverBudget == Spec => [](cli.end # "overbudget")
<1>1. IInv => cli.end # "overbudget"
  BY Zenon DEF IInv, Verdicts
<1> QED BY <1>1, InvariantHolds, PTL

-----------------------------------------------------------------------------
(* The session implements its promise *)

\* A step that leaves the upload alone, in the terms of SessionPromise.
SameUp == up'.sent = up.sent /\ up'.got = up.got /\ cli'.up = cli.up

\* A step that leaves the download alone.
SameDn == dn'.sent = dn.sent /\ dn'.got = dn.got /\ srv'.dn = srv.dn

\* A step that chooses no plane.
SamePlanes == cli'.plane = cli.plane /\ srv'.plane = srv.plane

\* A step that ends neither task.
SameEnds == cli'.end = cli.end /\ srv'.end = srv.end

\* The initial state is one of the promise.
LEMMA MapsInit == Init => Promise!Init
BY DEF Init, Promise!Init, Promise!Fresh, EndOf

\* A step that changes nothing the promise speaks of is a stutter.
LEMMA MapsStutter ==
  ASSUME SameUp, SameDn, SamePlanes, SameEnds, srv'.spent = srv.spent
  PROVE  UNCHANGED Promise!vars
BY Zenon DEF SameUp, SameDn, SamePlanes, SameEnds, Promise!vars, EndOf

\* The commit in the replay cache (commit_pending_replay_entry) is Spend.
LEMMA MapsSpend ==
  ASSUME SameUp, SameDn, SamePlanes, SameEnds, ~srv.spent, srv'.spent = TRUE
  PROVE  Promise!Spend
BY Zenon DEF SameUp, SameDn, SamePlanes, SameEnds, Promise!Spend, EndOf

\* The client's choice of a plane comes after the handshake was spent.
LEMMA MapsChoice ==
  ASSUME SameUp, SameDn, SameEnds, srv'.plane = srv.plane, srv'.spent = srv.spent,
         srv.spent, cli.plane = "none", cli'.plane \in {"tcp", "quic"}
  PROVE  Promise!ClientChooses
BY Zenon DEF SameUp, SameDn, SameEnds, Promise!ClientChooses, EndOf

\* The server's dispatch follows the client's choice.
LEMMA MapsFollow ==
  ASSUME SameUp, SameDn, SameEnds, cli'.plane = cli.plane, srv'.spent = srv.spent,
         cli.plane # "none", srv.plane = "none", srv'.plane = cli.plane
  PROVE  Promise!ServerFollows
BY Zenon DEF SameUp, SameDn, SameEnds, Promise!ServerFollows, EndOf

\* The three moves of a direction, field by field.
LEMMA Moved ==
  ASSUME NEW s \in Nat, NEW g \in Nat, NEW f \in BOOLEAN, NEW new,
         \/ ~f /\ new = [sent |-> s + 1, got |-> g, fin |-> f]
         \/ ~f /\ new = [sent |-> s, got |-> g, fin |-> TRUE]
         \/ g < s /\ new = [sent |-> s, got |-> g + 1, fin |-> f]
  PROVE  Promise!Moves([sent |-> s, got |-> g, fin |-> f], new)
<1> DEFINE d == [sent |-> s, got |-> g, fin |-> f]
<1>1. [d EXCEPT !.sent = @ + 1] = [sent |-> s + 1, got |-> g, fin |-> f]
  OBVIOUS
<1>2. [d EXCEPT !.fin = TRUE] = [sent |-> s, got |-> g, fin |-> TRUE]
  <2> DEFINE x == TRUE
  <2>1. x = TRUE
    BY Zenon
  <2> HIDE DEF x
  <2>2. [d EXCEPT !.fin = x] = [sent |-> s, got |-> g, fin |-> x]
    OBVIOUS
  <2> QED BY <2>1, <2>2, Zenon
<1>3. [d EXCEPT !.got = @ + 1] = [sent |-> s, got |-> g + 1, fin |-> f]
  OBVIOUS
<1>4. d.fin = f /\ d.got = g /\ d.sent = s
  BY Zenon
<1> HIDE DEF d
<1>5. Promise!Moves(d, new)
  BY <1>1, <1>2, <1>3, <1>4, Zenon DEF Promise!Moves
<1> QED BY Zenon, <1>5 DEF d

\* A unit or an end from the local application, or a unit to the target.
LEMMA MapsUpload ==
  ASSUME SameDn, SamePlanes, SameEnds, srv'.spent = srv.spent, cli.plane # "none",
         up.sent \in Nat, up.got \in Nat, cli.up \in BOOLEAN,
         \/ /\ cli.end = "open" /\ ~cli.up /\ up'.got = up.got
            /\ \/ up'.sent = up.sent + 1 /\ cli'.up = cli.up
               \/ up'.sent = up.sent /\ cli'.up = TRUE
         \/ /\ srv.end = "open" /\ srv.plane # "none" /\ up.got < up.sent
            /\ up'.got = up.got + 1 /\ up'.sent = up.sent /\ cli'.up = cli.up
  PROVE  Promise!Upload
<1> DEFINE old == [sent |-> up.sent, got |-> up.got, fin |-> cli.up]
           new == [sent |-> up'.sent, got |-> up'.got, fin |-> cli'.up]
<1>1. \/ ~cli.up /\ new = [sent |-> up.sent + 1, got |-> up.got, fin |-> cli.up]
      \/ ~cli.up /\ new = [sent |-> up.sent, got |-> up.got, fin |-> TRUE]
      \/ up.got < up.sent /\ new = [sent |-> up.sent, got |-> up.got + 1, fin |-> cli.up]
  BY Zenon
<1>2. Promise!Moves(old, new)
  BY Zenon, <1>1, Moved
<1>3. /\ new.got > old.got => srv.plane # "none" /\ srv.end = "open"
      /\ new.got = old.got => cli.end = "open"
  OBVIOUS
<1>4. EndOf(cli)' = EndOf(cli) /\ EndOf(srv)' = EndOf(srv) /\ (srv.end = "open" => EndOf(srv) = "open")
      /\ (cli.end = "open" => EndOf(cli) = "open")
  BY Zenon DEF EndOf, SameEnds
<1> QED BY Zenon, <1>2, <1>3, <1>4 DEF SameDn, SamePlanes, Promise!Upload

\* A unit or an end from the target, or a unit to the local application.
LEMMA MapsDownload ==
  ASSUME SameUp, SamePlanes, SameEnds, srv'.spent = srv.spent, srv.plane # "none",
         dn.sent \in Nat, dn.got \in Nat, srv.dn \in BOOLEAN,
         \/ /\ srv.end = "open" /\ ~srv.dn /\ dn'.got = dn.got
            /\ \/ dn'.sent = dn.sent + 1 /\ srv'.dn = srv.dn
               \/ dn'.sent = dn.sent /\ srv'.dn = TRUE
         \/ /\ cli.end = "open" /\ dn.got < dn.sent
            /\ dn'.got = dn.got + 1 /\ dn'.sent = dn.sent /\ srv'.dn = srv.dn
  PROVE  Promise!Download
<1> DEFINE old == [sent |-> dn.sent, got |-> dn.got, fin |-> srv.dn]
           new == [sent |-> dn'.sent, got |-> dn'.got, fin |-> srv'.dn]
<1>1. \/ ~srv.dn /\ new = [sent |-> dn.sent + 1, got |-> dn.got, fin |-> srv.dn]
      \/ ~srv.dn /\ new = [sent |-> dn.sent, got |-> dn.got, fin |-> TRUE]
      \/ dn.got < dn.sent /\ new = [sent |-> dn.sent, got |-> dn.got + 1, fin |-> srv.dn]
  BY Zenon
<1>2. Promise!Moves(old, new)
  BY Zenon, <1>1, Moved
<1>3. /\ new.got > old.got => cli.end = "open"
      /\ new.got = old.got => srv.end = "open"
  OBVIOUS
<1>4. EndOf(cli)' = EndOf(cli) /\ EndOf(srv)' = EndOf(srv) /\ (srv.end = "open" => EndOf(srv) = "open")
      /\ (cli.end = "open" => EndOf(cli) = "open")
  BY Zenon DEF EndOf, SameEnds
<1> QED BY Zenon, <1>2, <1>3, <1>4 DEF SameUp, SamePlanes, Promise!Download

\* The client ends as the promise allows.
LEMMA MapsClientEnd ==
  ASSUME SameUp, SameDn, SamePlanes, srv'.spent = srv.spent, srv'.end = srv.end,
         cli.end = "open", cli'.end # "open",
         cli'.end = "idle" => cli.plane # "none",
         cli'.end = "done" =>
           \/ /\ cli.plane = "quic" /\ cli.up /\ srv.dn /\ up.got = up.sent /\ dn.got = dn.sent
           \/ cli.plane = "tcp" /\ ((srv.dn /\ dn.got = dn.sent) \/ srv.end # "open")
  PROVE  Promise!ClientEnds
BY Zenon
   DEF SameUp, SameDn, SamePlanes, Promise!ClientEnds, Promise!MayBeDone, Promise!Delivered, EndOf

\* The server ends as the promise allows.
LEMMA MapsServerEnd ==
  ASSUME SameUp, SameDn, SamePlanes, srv'.spent = srv.spent, cli'.end = cli.end,
         srv.end = "open", srv'.end # "open",
         srv'.end = "idle" => srv.plane # "none",
         srv'.end = "done" =>
           \/ /\ srv.plane = "quic" /\ cli.up /\ srv.dn /\ up.got = up.sent /\ dn.got = dn.sent
           \/ srv.plane = "tcp" /\ ((cli.up /\ up.got = up.sent) \/ cli.end # "open")
  PROVE  Promise!ServerEnds
BY Zenon
   DEF SameUp, SameDn, SamePlanes, Promise!ServerEnds, Promise!MayBeDone, Promise!Delivered, EndOf

\* Every step of the client is a step of the promise or a stutter.
LEMMA ClientMaps ==
  ASSUME Body, ClientStep PROVE [Promise!Next]_(Promise!vars)
<1>ends. Shape /\ ClientAt /\ ServerAt
  BY Zenon DEF Body
<1>know. Agreed /\ Counted /\ Heard
  BY Zenon DEF Body
<1>0. srv' = srv
  BY Zenon, ClientHolds
<1>1. ASSUME NEW how, how # "open", ClientLeaves(how), how = "idle" => cli.plane # "none",
             how = "done" =>
               \/ /\ cli.plane = "quic" /\ cli.up /\ srv.dn /\ up.got = up.sent /\ dn.got = dn.sent
               \/ cli.plane = "tcp" /\ ((srv.dn /\ dn.got = dn.sent) \/ srv.end # "open")
      PROVE  Promise!ClientEnds
  <2>1. /\ cli'.end = how /\ cli.end = "open" /\ cli'.up = cli.up /\ cli'.plane = cli.plane
        /\ srv' = srv /\ up' = up /\ dn' = dn
    BY Zenon, <1>1, <1>ends DEF ClientLeaves, ClientEndsAs, Shape
  <2> QED BY Zenon, <1>1, <2>1, MapsClientEnd DEF SameUp, SameDn, SamePlanes
<1>2. CASE ClientDoneOnTcp \/ ClientReadsDone \/ ClientIdles \/ ClientLosesLeg \/ ClientFails
  <2>1. PICK how \in {"done", "idle", "gone"} :
           /\ ClientLeaves(how)
           /\ how = "done" => ClientDoneOnTcp \/ ClientReadsDone
           /\ how = "idle" => cli.plane # "none"
    BY Zenon, <1>2, ClientGoes
  <2>2. how # "open"
    BY Zenon
  <2>3. how = "done" =>
           \/ /\ cli.plane = "quic" /\ cli.up /\ srv.dn /\ up.got = up.sent /\ dn.got = dn.sent
           \/ cli.plane = "tcp" /\ ((srv.dn /\ dn.got = dn.sent) \/ srv.end # "open")
    <3>1. ClientDoneOnTcp => cli.plane = "tcp" /\ cli.dn
      BY Zenon DEF ClientDoneOnTcp, Joined
    <3>2. ClientDoneOnTcp => (srv.dn /\ dn.got = dn.sent) \/ srv.end # "open"
      BY Zenon, <3>1, <1>know DEF Heard
    <3> QED BY Zenon, <2>1, <3>1, <3>2, DoneDown
  <2> QED BY Zenon, <1>1, <2>1, <2>2, <2>3 DEF Promise!Next
<1>3. CASE ClientSkipsResidual
  <2>1. CASE FrontIsTorn
    <3>1. ClientLeaves("desynced") /\ "desynced" # "open" /\ "desynced" # "idle" /\ "desynced" # "done"
      BY Zenon, <1>3, <2>1, ClientTorn
    <3> QED BY Zenon, <1>1, <3>1 DEF Promise!Next
  <2>2. CASE ~FrontIsTorn
    <3>1. ResidualTolerated(cli.skipped)
      BY Zenon, <1>3, ResidualHead DEF ClientSkipsResidual
    <3>2. cli' = [cli EXCEPT !.skipped = @ + FrontRecord] /\ up' = up /\ dn' = dn
      BY Zenon, <1>3, <2>2, <3>1 DEF ClientSkipsResidual
    <3>3. cli'.up = cli.up /\ cli'.plane = cli.plane /\ cli'.end = cli.end
      BY Zenon, <3>2, <1>ends DEF Shape
    <3> QED BY Zenon, <1>0, <3>2, <3>3, MapsStutter DEF SameUp, SameDn, SamePlanes, SameEnds
  <2> QED BY Zenon, <2>1, <2>2
<1>4. CASE ClientSkipsUdp \/ ClientAcks
  <2>0. cli.pc \in {"verified", "probe"}
    BY Zenon, <1>4 DEF ClientSkipsUdp, ClientAcks
  <2>1. cli.plane = "none" /\ srv.spent
    BY Zenon, <2>0, Ahead, <1>ends DEF ClientAt, ServerAt
  <2>2. /\ cli'.plane \in {"tcp", "quic"} /\ cli'.up = cli.up /\ cli'.end = cli.end /\ up' = up /\ dn' = dn
    BY Zenon, <1>4, <1>ends DEF ClientSkipsUdp, ClientAcks, PlaneFor, Shape
  <2> QED BY Zenon, <1>0, <2>1, <2>2, MapsChoice DEF SameUp, SameDn, SameEnds, Promise!Next
<1>5. CASE ClientReadsAnswer
  <2>0. cli.pc = "answer" /\ s2c # <<>>
    BY Zenon, <1>5 DEF ClientReadsAnswer, ClientReads
  <2>1. cli.plane = "none" /\ srv.spent /\ cli.seal.e = 1
    BY Zenon, <2>0, Ahead, <1>ends DEF ClientAt, ServerAt
  <2>2. Opens(cli.open, Head(s2c))
    BY Zenon, <2>0, <2>1, ControlOpensDown
  <2>3. /\ cli'.plane \in {"none", "tcp"} /\ cli'.up = cli.up /\ cli'.end = cli.end /\ up' = up /\ dn' = dn
    BY Zenon, <1>5, <2>1, <2>2, <1>ends DEF ClientReadsAnswer, ClientReads, Shape
  <2>4. CASE cli'.plane = "none"
    BY Zenon, <1>0, <2>1, <2>3, <2>4, MapsStutter DEF SameUp, SameDn, SamePlanes, SameEnds
  <2>5. CASE cli'.plane = "tcp"
    BY Zenon, <1>0, <2>1, <2>3, <2>5, MapsChoice DEF SameUp, SameDn, SameEnds, Promise!Next
  <2> QED BY Zenon, <2>3, <2>4, <2>5
<1>6. CASE ClientReadsIdentity
  <2>0. cli.pc = "identity" /\ s2c # <<>>
    BY Zenon, <1>6 DEF ClientReadsIdentity, ClientReads
  <2>2. Opens(cli.open, Head(s2c))
    BY Zenon, <2>0, ControlOpensDown, <1>ends DEF ClientAt
  <2>3. /\ cli'.plane = cli.plane /\ cli'.up = cli.up /\ cli'.end = cli.end /\ up' = up /\ dn' = dn
    BY Zenon, <1>6, <2>2, <1>ends DEF ClientReadsIdentity, ClientReads, Shape
  <2> QED BY Zenon, <1>0, <2>3, MapsStutter DEF SameUp, SameDn, SamePlanes, SameEnds
<1>7. CASE \/ ClientSendsCamo \/ ClientReadsCamo \/ ClientSendsPx1q \/ ClientReadsPx1k
           \/ ClientRequestsUdp \/ ClientCommands \/ ClientReadsEof \/ ClientSendsDone \/ ClientSeesClose
  <2>1. /\ cli'.plane = cli.plane /\ cli'.up = cli.up /\ cli'.end = cli.end /\ up' = up /\ dn' = dn
    BY Zenon, <1>7, <1>ends
       DEF ClientSendsCamo, ClientReadsCamo, ClientSendsPx1q, ClientReadsPx1k, ClientRequestsUdp, ClientCommands, ClientReadsEof, ClientSendsDone, ClientSeesClose, Shape
  <2> QED BY Zenon, <1>0, <2>1, MapsStutter DEF SameUp, SameDn, SamePlanes, SameEnds
<1>8. CASE ClientUploads \/ ClientUploadEnds
  <2>0. cli.pc = "relay" /\ ~cli.up /\ up.sent \in Nat /\ up.got \in Nat /\ cli.up \in BOOLEAN
    BY Zenon, <1>8, <1>ends DEF ClientUploads, ClientUploadEnds, Shape
  <2>1. cli.plane # "none" /\ cli.end = "open"
    BY Zenon, <2>0, <1>ends DEF ClientAt
  <2>2. /\ cli'.plane = cli.plane /\ cli'.end = cli.end /\ dn' = dn /\ up'.got = up.got
        /\ \/ up'.sent = up.sent + 1 /\ cli'.up = cli.up
           \/ up'.sent = up.sent /\ cli'.up = TRUE
    BY Zenon, <1>8, <1>ends DEF ClientUploads, ClientUploadEnds, Shape
  <2> QED BY Zenon, <1>0, <2>0, <2>1, <2>2, MapsUpload
             DEF SameDn, SamePlanes, SameEnds, Promise!Next
<1>9. CASE ClientDownloads
  <2>0. /\ cli.pc = "relay" /\ ~cli.dn /\ dn.sent \in Nat /\ dn.got \in Nat /\ up' = up
        /\ srv.dn \in BOOLEAN
    BY Zenon, <1>9, <1>ends DEF ClientDownloads, Shape
  <2>1. cli.plane \in {"tcp", "quic"} /\ cli.end = "open" /\ cli.open.e = 1
    BY Zenon, <2>0, <1>ends DEF ClientAt, Shape
  <2>2. CASE Head(DownLeg) = Fin
    <3>1. ~Opens(cli.open, Head(DownLeg))
      BY <2>1, <2>2, FinIs DEF Opens, Plain
    <3>2. cli' = [cli EXCEPT !.dn = TRUE] /\ dn' = dn
      BY Zenon, <1>9, <2>2, <3>1 DEF ClientDownloads
    <3>3. cli'.up = cli.up /\ cli'.plane = cli.plane /\ cli'.end = cli.end
      BY Zenon, <3>2, <1>ends DEF Shape
    <3> QED BY Zenon, <1>0, <2>0, <3>2, <3>3, MapsStutter DEF SameUp, SameDn, SamePlanes, SameEnds
  <2>3. CASE Head(DownLeg) # Fin
    <3>1. cli' = [cli EXCEPT !.open = After(@, 1)] /\ dn' = [dn EXCEPT !.got = @ + 1]
      BY Zenon, <1>9, <2>3, DownloadOpens DEF ClientDownloads
    <3>2. /\ cli'.up = cli.up /\ cli'.plane = cli.plane /\ cli'.end = cli.end
          /\ dn'.got = dn.got + 1 /\ dn'.sent = dn.sent
      BY Zenon, <3>1, <1>ends DEF Shape
    <3>3. dn.got < dn.sent /\ srv.plane # "none"
      <4>1. CASE cli.plane = "tcp"
        <5>1. dn.got + 1 <= dn.sent
          BY Zenon, <1>9, <2>0, <2>3, <4>1, DownloadMeetsTcp DEF ClientDownloads, DownLeg
        <5>2. dn.got < dn.sent /\ dn.sent # 0
          BY <2>0, <5>1
        <5> QED BY Zenon, <5>2, <1>ends DEF ServerAt
      <4>2. CASE cli.plane = "quic"
        <5>1. /\ srv.plane = "quic"
              /\ Flow(Tail(quic.dn), Chunks + Chunks + 1 + (dn.got + 1), Chunks + Chunks + 1 + dn.sent,
                      Leg(srv.plane), quic.close)
          BY Zenon, <1>9, <2>0, <2>3, <4>2, DownloadMeetsQuic DEF ClientDownloads, DownLeg
        <5>2. Chunks + Chunks + 1 + (dn.got + 1) \in Nat /\ Chunks + Chunks + 1 + dn.sent \in Nat /\ Chunks \in Nat
          BY <2>0, Positions, <1>ends
        <5>3. Chunks + Chunks + 1 + (dn.got + 1) <= Chunks + Chunks + 1 + dn.sent
          BY Zenon, <5>1, <5>2, FlowIs
        <5> QED BY <2>0, <5>1, <5>2, <5>3
      <4> QED BY Zenon, <2>1, <4>1, <4>2
    <3> QED BY Zenon, <1>0, <2>0, <2>1, <3>2, <3>3, MapsDownload
               DEF SameUp, SamePlanes, SameEnds, Promise!Next
  <2> QED BY Zenon, <2>2, <2>3
<1> QED BY Zenon, <1>2, <1>3, <1>4, <1>5, <1>6, <1>7, <1>8, <1>9 DEF ClientStep

\* Every step of the server is a step of the promise or a stutter.
LEMMA ServerMaps ==
  ASSUME Body, ServerStep PROVE [Promise!Next]_(Promise!vars)
<1>ends. Shape /\ ClientAt /\ ServerAt
  BY Zenon DEF Body
<1>know. Agreed /\ Counted /\ Heard
  BY Zenon DEF Body
<1>0. cli' = cli
  BY Zenon, ServerLeft
<1>1. ASSUME NEW how, how # "open", ServerEndsAs(how), srv.end = "open", up' = up, dn' = dn,
             how = "idle" => srv.plane # "none",
             how = "done" =>
               \/ /\ srv.plane = "quic" /\ cli.up /\ srv.dn /\ up.got = up.sent /\ dn.got = dn.sent
               \/ srv.plane = "tcp" /\ ((cli.up /\ up.got = up.sent) \/ cli.end # "open")
      PROVE  Promise!ServerEnds
  <2>1. /\ srv'.end = how /\ srv'.dn = srv.dn /\ srv'.plane = srv.plane /\ srv'.spent = srv.spent
    BY Zenon, <1>1, <1>ends DEF ServerEndsAs, Shape
  <2> QED BY Zenon, <1>0, <1>1, <2>1, MapsServerEnd DEF SameUp, SameDn, SamePlanes
<1>2. CASE ServerDoneOnTcp \/ ServerReadsDone \/ ServerIdles \/ ServerLosesLeg \/ ServerFails
  <2>1. PICK how \in {"done", "idle", "gone"} :
           /\ ServerLeaves(how)
           /\ how = "done" => ServerDoneOnTcp \/ ServerReadsDone
           /\ how = "idle" => srv.plane # "none"
    BY Zenon, <1>2, ServerGoes
  <2>2. how # "open" /\ ServerEndsAs(how) /\ srv.end = "open" /\ up' = up /\ dn' = dn
    BY Zenon, <2>1 DEF ServerLeaves
  <2>3. how = "done" =>
           \/ /\ srv.plane = "quic" /\ cli.up /\ srv.dn /\ up.got = up.sent /\ dn.got = dn.sent
           \/ srv.plane = "tcp" /\ ((cli.up /\ up.got = up.sent) \/ cli.end # "open")
    <3>1. ServerDoneOnTcp => srv.plane = "tcp" /\ srv.up
      BY Zenon DEF ServerDoneOnTcp, Joined
    <3>2. ServerDoneOnTcp => (cli.up /\ up.got = up.sent) \/ cli.end # "open"
      BY Zenon, <3>1, <1>know DEF Heard
    <3> QED BY Zenon, <2>1, <3>1, <3>2, DoneUp
  <2> QED BY Zenon, <1>1, <2>1, <2>2, <2>3 DEF Promise!Next
<1>3. CASE ServerDownloadFails
  <2>1. ServerEndsAs("gone") /\ srv.end = "open" /\ up' = up /\ dn' = dn
    BY Zenon, <1>3, <1>ends DEF ServerDownloadFails, ServerAt
  <2> QED BY Zenon, <1>1, <2>1 DEF Promise!Next
<1>4. ASSUME NEW d, d = srv', d.plane = srv.plane, d.dn = srv.dn, d.end = srv.end, d.spent = srv.spent,
             up' = up, dn' = dn
      PROVE  UNCHANGED Promise!vars
  BY Zenon, <1>0, <1>4, MapsStutter DEF SameUp, SameDn, SamePlanes, SameEnds
<1>5. CASE ServerReadsCamo
  <2>1. srv.end = "open" /\ up' = up /\ dn' = dn
    BY Zenon, <1>5, <1>ends DEF ServerReadsCamo, ServerAt
  <2>2. CASE ServerEndsAs("gone")
    BY Zenon, <1>1, <2>1, <2>2 DEF Promise!Next
  <2>3. CASE srv' = [srv EXCEPT !.camo = @ + 1]
    <3>1. srv'.plane = srv.plane /\ srv'.dn = srv.dn /\ srv'.end = srv.end /\ srv'.spent = srv.spent
      BY Zenon, <2>3, <1>ends DEF Shape
    <3> QED BY Zenon, <1>4, <2>1, <3>1
  <2> QED BY Zenon, <1>5, <2>2, <2>3 DEF ServerReadsCamo
<1>6. CASE ServerCommits
  <2>1. /\ srv'.plane = srv.plane /\ srv'.dn = srv.dn /\ srv'.end = srv.end /\ up' = up /\ dn' = dn
        /\ ~srv.spent /\ srv'.spent = TRUE
    BY Zenon, <1>6, <1>ends DEF ServerCommits, ServerAt, Shape
  <2> QED BY Zenon, <1>0, <2>1, MapsSpend DEF SameUp, SameDn, SamePlanes, SameEnds, Promise!Next
<1>7. CASE \/ OriginCloses \/ ProbeDeadline \/ ServerTakesConn \/ ServerEchoes
           \/ ServerKeepsConn \/ ServerLosesConn \/ ServerReadsEof \/ ServerSeesClose
  <2>1. /\ srv'.plane = srv.plane /\ srv'.dn = srv.dn /\ srv'.end = srv.end /\ srv'.spent = srv.spent
        /\ up' = up /\ dn' = dn
    <3>1. CASE OriginCloses
      BY Zenon, <3>1, <1>ends DEF OriginCloses, Shape
    <3>2. CASE ProbeDeadline
      BY Zenon, <3>2, <1>ends DEF ProbeDeadline, Shape
    <3>3. CASE ServerTakesConn
      BY Zenon, <3>3, <1>ends DEF ServerTakesConn, Shape
    <3>4. CASE ServerEchoes
      BY Zenon, <3>4, <1>ends DEF ServerEchoes, Shape
    <3>5. CASE ServerKeepsConn
      BY Zenon, <3>5, <1>ends DEF ServerKeepsConn, Shape
    <3>6. CASE ServerLosesConn
      BY Zenon, <3>6, <1>ends DEF ServerLosesConn, Shape
    <3>7. CASE ServerReadsEof
      BY Zenon, <3>7, <1>ends DEF ServerReadsEof, Shape
    <3>8. CASE ServerSeesClose
      BY Zenon, <3>8, <1>ends DEF ServerSeesClose, Shape
    <3> QED BY Zenon, <1>7, <3>1, <3>2, <3>3, <3>4, <3>5, <3>6, <3>7, <3>8
  <2> QED BY Zenon, <1>4, <2>1
<1>8. CASE ServerForwardsOrigin \/ ServerReadsPx1q \/ ServerSendsPx1k \/ ServerSendsIdentity \/ ServerSendsDone
  <2>1. /\ srv'.plane = srv.plane /\ srv'.dn = srv.dn /\ srv'.end = srv.end /\ srv'.spent = srv.spent
        /\ up' = up /\ dn' = dn
    BY Zenon, <1>8, <1>ends
       DEF ServerForwardsOrigin, ServerReadsPx1q, ServerSendsPx1k, ServerSendsIdentity, ServerSendsDone, Shape
  <2> QED BY Zenon, <1>4, <2>1
<1>9. CASE ServerDownloads \/ ServerDownloadEnds
  <2>0. /\ srv.pc = "relay" /\ ~srv.dn /\ dn.sent \in Nat /\ dn.got \in Nat /\ srv.dn \in BOOLEAN
    BY Zenon, <1>9, <1>ends DEF ServerDownloads, ServerDownloadEnds, Shape
  <2>1. srv.plane # "none" /\ srv.end = "open"
    BY Zenon, <2>0, <1>ends DEF ServerAt
  <2>2. /\ srv'.plane = srv.plane /\ srv'.end = srv.end /\ srv'.spent = srv.spent
        /\ up' = up /\ dn'.got = dn.got
        /\ \/ dn'.sent = dn.sent + 1 /\ srv'.dn = srv.dn
           \/ dn'.sent = dn.sent /\ srv'.dn = TRUE
    BY Zenon, <1>9, <1>ends DEF ServerDownloads, ServerDownloadEnds, Shape
  <2> QED BY Zenon, <1>0, <2>0, <2>1, <2>2, MapsDownload
             DEF SameUp, SamePlanes, SameEnds, Promise!Next
<1>10. CASE ServerUploads
  <2>0. /\ srv.pc = "relay" /\ up.sent \in Nat /\ up.got \in Nat /\ dn' = dn
        /\ cli.up \in BOOLEAN /\ srv.dn \in BOOLEAN
    BY Zenon, <1>10, <1>ends DEF ServerUploads, Shape
  <2>1. srv.plane \in {"tcp", "quic"} /\ srv.end = "open" /\ srv.open.e = 1 /\ cli.plane = srv.plane
    BY Zenon, <2>0, <1>ends, <1>know DEF ServerAt, Agreed, Shape
  <2>2. CASE Head(UpLeg) = Fin
    <3>1. ~Opens(srv.open, Head(UpLeg))
      BY <2>1, <2>2, FinIs DEF Opens, Plain
    <3>2. srv' = [srv EXCEPT !.up = TRUE] /\ up' = up
      BY Zenon, <1>10, <2>2, <3>1 DEF ServerUploads
    <3>3. srv'.plane = srv.plane /\ srv'.dn = srv.dn /\ srv'.end = srv.end /\ srv'.spent = srv.spent
      BY Zenon, <3>2, <1>ends DEF Shape
    <3> QED BY Zenon, <1>4, <2>0, <3>2, <3>3
  <2>3. CASE Head(UpLeg) # Fin
    <3>1. srv' = [srv EXCEPT !.open = After(@, 1)] /\ up' = [up EXCEPT !.got = @ + 1]
      BY Zenon, <1>10, <2>3, UploadOpens DEF ServerUploads
    <3>2. /\ srv'.plane = srv.plane /\ srv'.dn = srv.dn /\ srv'.end = srv.end /\ srv'.spent = srv.spent
          /\ up'.got = up.got + 1 /\ up'.sent = up.sent
      BY Zenon, <3>1, <1>ends DEF Shape
    <3>3. up.got < up.sent
      <4>1. CASE srv.plane = "tcp"
        <5>1. up.got + 1 <= up.sent
          BY Zenon, <1>10, <2>0, <2>3, <4>1, UploadMeetsTcp DEF ServerUploads, UpLeg
        <5> QED BY <2>0, <5>1
      <4>2. CASE srv.plane = "quic"
        <5>1. Flow(Tail(quic.up), Chunks + 3 + (up.got + 1), Chunks + 3 + up.sent,
                   Leg(cli.plane), quic.close)
          BY Zenon, <1>10, <2>0, <2>3, <4>2, UploadMeetsQuic DEF ServerUploads, UpLeg
        <5>2. Chunks + 3 + (up.got + 1) \in Nat /\ Chunks + 3 + up.sent \in Nat /\ Chunks \in Nat
          BY <2>0, Positions, <1>ends
        <5>3. Chunks + 3 + (up.got + 1) <= Chunks + 3 + up.sent
          BY Zenon, <5>1, <5>2, FlowIs
        <5> QED BY <2>0, <5>2, <5>3
      <4> QED BY Zenon, <2>1, <4>1, <4>2
    <3> QED BY Zenon, <1>0, <2>0, <2>1, <3>2, <3>3, MapsUpload
               DEF SameDn, SamePlanes, SameEnds, Promise!Next
  <2> QED BY Zenon, <2>2, <2>3
<1>11. CASE ServerAnswersUdp \/ ServerReadsAck \/ ServerDispatches
  <2>1. c2s # <<>> /\ srv.pc \in {"first", "ack", "command"} /\ Head(c2s).m \notin Last
    BY Zenon, <1>11 DEF ServerAnswersUdp, ServerReadsAck, ServerDispatches, ServerReads, Last
  <2>2. Opens(srv.open, Head(c2s)) /\ srv.end = "open"
    BY Zenon, <2>1, ControlOpensUp
  <2>3. CASE ServerAnswersUdp
    <3>1. /\ srv'.plane = srv.plane /\ srv'.dn = srv.dn /\ srv'.end = srv.end /\ srv'.spent = srv.spent
          /\ up' = up /\ dn' = dn
      BY Zenon, <2>2, <2>3, <1>ends DEF ServerAnswersUdp, ServerReads, Shape
    <3> QED BY Zenon, <1>4, <3>1
  <2>4. CASE ServerDispatches
    <3>1. /\ srv'.plane # "none" /\ srv'.dn = srv.dn /\ srv'.end = srv.end /\ srv'.spent = srv.spent
          /\ up' = up /\ dn' = dn
      BY Zenon, <2>2, <2>4, <1>ends DEF ServerDispatches, ServerReads, ServerPlane, Shape
    <3>2. srv'.plane = cli'.plane
      <4>1. Agreed'
        BY Zenon, <2>4, Dispatches DEF Body
      <4> QED BY Zenon, <3>1, <4>1 DEF Agreed
    <3>3. srv.plane = "none"
      BY Zenon, <2>1, <1>ends DEF ServerAt
    <3> QED BY Zenon, <1>0, <3>1, <3>2, <3>3, MapsFollow DEF SameUp, SameDn, SameEnds, Promise!Next
  <2>5. CASE ServerReadsAck
    <3>1. \/ ServerEndsAs("gone")
          \/ srv'.plane = srv.plane /\ srv'.dn = srv.dn /\ srv'.end = srv.end /\ srv'.spent = srv.spent
      BY Zenon, <2>2, <2>5, <1>ends DEF ServerReadsAck, ServerReads, Shape
    <3>2. up' = up /\ dn' = dn
      BY Zenon, <2>5 DEF ServerReadsAck
    <3>3. CASE ServerEndsAs("gone")
      BY Zenon, <1>1, <2>2, <3>2, <3>3 DEF Promise!Next
    <3> QED BY Zenon, <1>4, <3>1, <3>2, <3>3
  <2> QED BY Zenon, <1>11, <2>3, <2>4, <2>5
<1> QED BY Zenon, <1>2, <1>3, <1>5, <1>6, <1>7, <1>8, <1>9, <1>10, <1>11 DEF ServerStep

\* Every step of the session is a step of the promise or a stutter.
LEMMA StepMaps == IInv /\ [Next]_vars => [Promise!Next]_(Promise!vars)
<1> SUFFICES ASSUME IInv, [Next]_vars PROVE [Promise!Next]_(Promise!vars)
  BY Zenon
<1>0. Body
  BY Zenon DEF IInv
<1>1. CASE ClientStep
  BY Zenon, <1>0, <1>1, ClientMaps
<1>2. CASE ServerStep
  BY Zenon, <1>0, <1>2, ServerMaps
<1>3. CASE TcpCut \/ QuicLost \/ UNCHANGED vars
  <2>1. cli' = cli /\ srv' = srv /\ up' = up /\ dn' = dn
    BY Zenon, <1>3 DEF TcpCut, QuicLost, vars
  <2> QED BY Zenon, <2>1, MapsStutter DEF SameUp, SameDn, SamePlanes, SameEnds
<1> QED BY Zenon, <1>1, <1>2, <1>3 DEF Next

\* The session implements SessionPromise: nothing is carried before the
\* handshake is spent, both ends relay on the plane the client chose, each
\* direction delivers a prefix of what was sent, and an end reported as done
\* means delivered (commit_pending_replay_entry, udp_retention_decision,
\* client_exchange_quic_done, server_exchange_quic_done).
THEOREM SessionKeepsPromise == Spec => KeepsPromise
BY MapsInit, StepMaps, InvariantHolds, PTL DEF Spec, KeepsPromise, Promise!Spec
=============================================================================
