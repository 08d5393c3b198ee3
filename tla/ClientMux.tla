------------------------------ MODULE ClientMux ------------------------------
(***************************************************************************)
(* One TCP mux session of the client: the connection tasks that use it,    *)
(* their upload loops and download tasks, the shared reader with its       *)
(* dead-carrier watchdog, the shared writer, and the supervisor that ends  *)
(* one when the other ends.  The tasks run on any thread; a step ends at   *)
(* an await or at an atomic another task reads.                            *)
(*                                                                         *)
(* A connection stands for its stream id.  A Data frame from the server    *)
(* is one unit; the upload counts units.  Ages are counted in ticks up to  *)
(* DeadAfter, after which a longer silence makes no difference.            *)
(***************************************************************************)
EXTENDS Integers, Sequences, FiniteSets, SequencesExt

CONSTANTS Conn,          \* connections that were given a slot of this session
          FrameCap,      \* depth of the frame channel
          ControlCap,    \* depth of the registration channel
          StreamCap,     \* CLIENT_MUX_STREAM_CHANNEL
          SuspectAfter,  \* MUX_CARRIER_SUSPECT_AFTER
          DeadAfter,     \* MUX_CARRIER_DEAD_AFTER
          MaxUp,         \* bound: units an application uploads
          MaxDown,       \* bound: units the server sends on a stream
          DownCap,       \* bound: frames in flight from the server
          NoAge          \* no unanswered Open

ASSUME MuxAssumption ==
  /\ {FrameCap, ControlCap, StreamCap, SuspectAfter, DownCap} \subseteq Nat \ {0}
  /\ {MaxUp, MaxDown} \subseteq Nat
  /\ DeadAfter \in Nat /\ DeadAfter > SuspectAfter
  /\ NoAge \notin Int

VARIABLES
  pc,          \* where each connection task is
  upload,      \* its upload loop: reading, eof, failing, done, failed
  tail,        \* units read and held back
  taken,       \* units read from the application
  outcome,     \* what outcome_rx has: pending, Fin, Reset, dropped
  frames,      \* the frame channel
  control,     \* the registration channel
  known,       \* keys of local_writes
  chan,        \* units queued to each download task
  task,        \* the download task: none, running, ended
  terminal,    \* StreamTerminal: None, Fin, Reset
  delivered,   \* units written to the application
  unanswered,  \* age of each unanswered Open, or NoAge
  reader,      \* select, verdict, batch, grace, ended
  batch,       \* decrypted frames still to dispatch
  sawWrite,    \* the write flag the verdict read
  writer,      \* recv, writing, waited, quick, marked, ended
  wbatch,      \* frames of the write in progress
  aliveAge,    \* age of last_alive_ms
  suspect,
  writeFlag,   \* write_in_flight
  proofAge,    \* ghost: age of the last record, or drain that had to wait
  srv,         \* the server's view of a stream: none, open, answered, ended
  sent, got, gotFin,   \* units it sent and received, and whether a Fin came
  down,        \* records in flight from the server
  closed       \* no more records will come: the server closed, or nobody reads

conns == <<pc, upload, tail, taken>>
streams == <<known, chan, task, terminal, delivered, outcome>>
server == <<srv, sent, got, gotFin>>
health == <<aliveAge, suspect, writeFlag, proofAge>>
writing == <<writer, wbatch>>
reading == <<reader, batch, sawWrite>>
link == <<down, closed>>
vars == <<conns, streams, server, health, writing, reading, link, frames, control, unanswered>>

Frame(c, k, n) == [stream |-> c, kind |-> k, units |-> n]
Control(c, k) == [stream |-> c, kind |-> k]

Init ==
  /\ pc = [c \in Conn |-> "start"] /\ upload = [c \in Conn |-> "reading"]
  /\ tail = [c \in Conn |-> 0] /\ taken = [c \in Conn |-> 0]
  /\ outcome = [c \in Conn |-> "pending"]
  /\ frames = <<>> /\ control = <<>>
  /\ known = {} /\ chan = [c \in Conn |-> 0] /\ task = [c \in Conn |-> "none"]
  /\ terminal = [c \in Conn |-> "None"] /\ delivered = [c \in Conn |-> 0]
  /\ unanswered = [c \in Conn |-> NoAge]
  /\ reader = "select" /\ batch = <<>> /\ sawWrite = FALSE
  /\ writer = "recv" /\ wbatch = <<>>
  /\ aliveAge = 0 /\ suspect = FALSE /\ writeFlag = FALSE /\ proofAge = DeadAfter
  /\ srv = [c \in Conn |-> "none"] /\ sent = [c \in Conn |-> 0]
  /\ got = [c \in Conn |-> 0] /\ gotFin = [c \in Conn |-> FALSE]
  /\ down = <<>> /\ closed = FALSE

ReaderGone == reader = "ended"
WriterGone == writer = "ended"

-----------------------------------------------------------------------------
(* A connection task: handle_local_mux_connection_with_cid. *)

Goto(c, where) == pc' = [pc EXCEPT ![c] = where]

(* A permit reserved for the Open occupies the channel until it is used. *)
Reserved == {c \in Conn : pc[c] \in {"reserved", "announce"}}
HasRoom == Len(frames) + Cardinality(Reserved) < FrameCap
Queue(f) == frames' = IF WriterGone THEN frames ELSE Append(frames, f)

Reserve(c) ==
  /\ pc[c] = "start"
  /\ \/ ~WriterGone /\ HasRoom /\ Goto(c, "reserved")
     \/ WriterGone /\ Goto(c, "done")
  /\ UNCHANGED <<upload, tail, taken, streams, server, health, writing, reading,
                 link, frames, control, unanswered>>

Register(c) ==
  /\ pc[c] = "reserved"
  /\ \/ /\ ~ReaderGone /\ Len(control) < ControlCap
        /\ control' = Append(control, Control(c, "Register"))
        /\ Goto(c, "announce")
     \/ /\ ReaderGone
        /\ Goto(c, "done") /\ UNCHANGED control
  /\ UNCHANGED <<upload, tail, taken, streams, server, health, writing, reading,
                 link, frames, unanswered>>

(* The Open goes into the reserved slot; a writer that is gone is noticed.   *)
Announce(c) ==
  /\ pc[c] = "announce"
  /\ Queue(Frame(c, "Open", 0))
  /\ Goto(c, IF WriterGone THEN "leaving" ELSE "relay")
  /\ UNCHANGED <<upload, tail, taken, streams, server, health, writing, reading,
                 link, control, unanswered>>

(* try_join!: the first error cancels the other half, success needs both.    *)
Joined(c) ==
  /\ pc[c] = "relay"
  /\ \/ /\ upload[c] = "failed" \/ outcome[c] = "Reset"
        /\ Goto(c, "resetting")
        /\ tail' = [tail EXCEPT ![c] = 0]
     \/ /\ upload[c] = "done" /\ outcome[c] \in {"Fin", "dropped"}
        /\ Goto(c, "leaving") /\ UNCHANGED tail
  /\ UNCHANGED <<upload, taken, streams, server, health, writing, reading, link,
                 frames, control, unanswered>>

(* Faulty: the task waits for room although the writer has gone. *)
SendResetBlocking(c) ==
  /\ pc[c] = "resetting" /\ HasRoom /\ ~WriterGone
  /\ Queue(Frame(c, "Reset", 0))
  /\ Goto(c, "leaving")
  /\ UNCHANGED <<upload, tail, taken, streams, server, health, writing, reading,
                 link, control, unanswered>>

SendReset(c) ==
  /\ pc[c] = "resetting" /\ (HasRoom \/ WriterGone)
  /\ Queue(Frame(c, "Reset", 0))
  /\ Goto(c, "leaving")
  /\ UNCHANGED <<upload, tail, taken, streams, server, health, writing, reading,
                 link, control, unanswered>>

Leave(c) ==
  /\ pc[c] = "leaving" /\ (Len(control) < ControlCap \/ ReaderGone)
  /\ control' = IF ReaderGone THEN control ELSE Append(control, Control(c, "Deregister"))
  /\ Goto(c, "done")
  /\ UNCHANGED <<upload, tail, taken, streams, server, health, writing, reading,
                 link, frames, unanswered>>

-----------------------------------------------------------------------------
(* client_mux_upload_loop and its held tail. *)

UploadStays == <<pc, streams, server, health, writing, reading, link, control, unanswered>>

UploadRead(c) ==
  /\ pc[c] = "relay" /\ upload[c] = "reading"
  /\ \/ /\ taken[c] < MaxUp
        /\ taken' = [taken EXCEPT ![c] = @ + 1] /\ tail' = [tail EXCEPT ![c] = @ + 1]
        /\ UNCHANGED upload
     \/ /\ upload' \in {[upload EXCEPT ![c] = "eof"], [upload EXCEPT ![c] = "failing"]}
        /\ UNCHANGED <<taken, tail>>
  /\ UNCHANGED <<UploadStays, frames>>

(* The hold is over, the payload is full, or the loop is about to end. *)
Flush(c) ==
  /\ pc[c] = "relay" /\ tail[c] > 0 /\ upload[c] \in {"reading", "eof", "failing"}
  /\ \/ /\ ~WriterGone /\ HasRoom
        /\ Queue(Frame(c, "Data", tail[c]))
        /\ tail' = [tail EXCEPT ![c] = 0] /\ UNCHANGED upload
     \/ /\ WriterGone
        /\ upload' = [upload EXCEPT ![c] = "failed"] /\ UNCHANGED <<tail, frames>>
  /\ UNCHANGED <<UploadStays, taken>>

(* Faulty: the held tail is not flushed first. *)
FinAtOnce(c) == upload[c] = "eof"

FinReady(c) == upload[c] = "eof" /\ tail[c] = 0

UploadEnd(c) ==
  /\ pc[c] = "relay"
  /\ \/ /\ FinReady(c) /\ ~WriterGone /\ HasRoom
        /\ Queue(Frame(c, "Fin", 0))
        /\ upload' = [upload EXCEPT ![c] = "done"]
     \/ /\ FinReady(c) /\ WriterGone
        /\ upload' = [upload EXCEPT ![c] = "failed"] /\ UNCHANGED frames
     \/ /\ upload[c] = "failing" /\ tail[c] = 0
        /\ upload' = [upload EXCEPT ![c] = "failed"] /\ UNCHANGED frames
  /\ UNCHANGED <<UploadStays, tail, taken>>

-----------------------------------------------------------------------------
(* client_mux_download_loop: one task per registered stream. *)

DownloadStays == <<conns, server, health, writing, reading, link, frames, control,
                   unanswered, known, terminal>>

Ends(c, o) ==
  /\ task' = [task EXCEPT ![c] = "ended"]
  /\ chan' = [chan EXCEPT ![c] = 0]
  /\ outcome' = [outcome EXCEPT ![c] = o]

(* The application takes a unit, or is gone or stuck for the idle window. *)
DownloadWrite(c) ==
  /\ task[c] = "running" /\ chan[c] > 0
  /\ \/ /\ chan' = [chan EXCEPT ![c] = @ - 1]
        /\ delivered' = [delivered EXCEPT ![c] = @ + 1]
        /\ UNCHANGED <<task, outcome>>
     \/ Ends(c, "Reset") /\ UNCHANGED delivered
  /\ UNCHANGED DownloadStays


TerminalOutcome(c) == IF terminal[c] = "Fin" THEN "Fin" ELSE "Reset"

DownloadEnd(c) ==
  /\ task[c] = "running" /\ chan[c] = 0 /\ c \notin known
  /\ Ends(c, TerminalOutcome(c))
  /\ UNCHANGED <<DownloadStays, delivered>>

-----------------------------------------------------------------------------
(* client_mux_reader_loop. *)

(* First writer wins. *)
Stamp(S, o) == terminal' = [c \in Conn |-> IF c \in S /\ terminal[c] = "None" THEN o ELSE terminal[c]]

Queued(kind) == {control[i].stream : i \in {j \in DOMAIN control : control[j].kind = kind}}

(* The reader returns: its map, its channel and its half of the socket are   *)
(* dropped, and nobody looks at the carrier's age any more.  A registration  *)
(* still queued loses its outcome sender.                                    *)
ReaderReturns ==
  /\ down' = <<>> /\ closed' = TRUE
  /\ aliveAge' = 0 /\ proofAge' = 0 /\ suspect' = FALSE
  /\ reader' = "ended" /\ batch' = <<>> /\ sawWrite' = FALSE
  /\ known' = {} /\ control' = <<>>
  /\ unanswered' = [c \in Conn |-> NoAge]
  /\ outcome' = [c \in Conn |-> IF c \in Queued("Register") THEN "dropped" ELSE outcome[c]]
  /\ UNCHANGED <<chan, task, delivered>>

Shutdown(o) == Stamp(known, o) /\ ReaderReturns

(* apply_client_stream_control and track_unanswered_open, for the first n    *)
(* messages of the channel.  A stream is registered and deregistered once.   *)
Absorb(n) ==
  LET head == SubSeq(control, 1, n)
      In(kind) == {head[i].stream : i \in {j \in DOMAIN head : head[j].kind = kind}}
      now == In("Register")
      gone == In("Deregister")
  IN  /\ control' = SubSeq(control, n + 1, Len(control))
      /\ known' = (known \cup now) \ gone
      /\ task' = [c \in Conn |-> IF c \in now THEN "running" ELSE task[c]]
      /\ unanswered' = [c \in Conn |-> IF c \in gone THEN NoAge
                                       ELSE IF c \in now THEN 0 ELSE unanswered[c]]
  /\ UNCHANGED <<chan, terminal, delivered, outcome>>

ReaderControl ==
  /\ reader = "select" /\ control # <<>>
  /\ Absorb(1)
  /\ UNCHANGED <<conns, server, health, writing, reading, link, frames>>

MarkAlive == aliveAge' = 0 /\ suspect' = FALSE

(* Faulty: no registration is applied before a batch is dispatched. *)
AbsorbedNone == 0

(* How many control messages are applied before a batch is dispatched. *)
Absorbed == Len(control)

(* A record, and whatever else is buffered; then all the control messages.   *)
ReaderRecord ==
  /\ reader = "select" /\ down # <<>>
  /\ MarkAlive /\ proofAge' = 0
  /\ \E n \in 1..Len(down) :
       /\ batch' = SubSeq(down, 1, n) /\ down' = SubSeq(down, n + 1, Len(down))
  /\ Absorb(Absorbed)
  /\ reader' = "batch"
  /\ UNCHANGED <<conns, server, writeFlag, writing, sawWrite, closed, frames>>

NextFrame == /\ batch' = Tail(batch)
             /\ reader' = IF Len(batch) = 1 THEN "select" ELSE "batch"

DispatchStays == <<conns, server, health, writing, link, frames, control, sawWrite,
                   task, delivered, outcome>>

HasSlot(c) == chan[c] < StreamCap
Deliver(c) == chan' = [chan EXCEPT ![c] = @ + 1] /\ UNCHANGED <<known, terminal>>
Forgotten(c) == known' = known \ {c}

(* dispatch_client_mux_frame; a frame answers the Open of its stream. *)
Dispatch ==
  /\ reader = "batch"
  /\ LET c == Head(batch).stream
         k == Head(batch).kind
     IN  /\ unanswered' = [unanswered EXCEPT ![c] = NoAge]
         /\ \/ /\ k = "Receipt" \/ c \notin known
               /\ NextFrame /\ UNCHANGED <<known, chan, terminal>>
            \/ /\ k = "Data" /\ c \in known /\ task[c] = "ended"
               /\ Forgotten(c) /\ NextFrame /\ UNCHANGED <<chan, terminal>>
            \/ /\ k = "Data" /\ c \in known /\ task[c] # "ended" /\ HasSlot(c)
               /\ Deliver(c) /\ NextFrame
            \/ /\ k = "Data" /\ c \in known /\ task[c] # "ended" /\ ~HasSlot(c)
               /\ reader' = "grace" /\ UNCHANGED <<batch, known, chan, terminal>>
            \/ /\ k \in {"Fin", "Reset"} /\ c \in known
               /\ Stamp({c}, k) /\ Forgotten(c) /\ NextFrame /\ UNCHANGED chan
  /\ UNCHANGED DispatchStays

(* The bounded wait for room in a full stream channel. *)
Grace ==
  /\ reader = "grace"
  /\ LET c == Head(batch).stream
     IN  \/ task[c] # "ended" /\ HasSlot(c) /\ Deliver(c)
         \/ task[c] = "ended" /\ Forgotten(c) /\ UNCHANGED <<chan, terminal>>
         \/ task[c] # "ended" /\ ~HasSlot(c)
              /\ Stamp({c}, "Reset") /\ Forgotten(c) /\ UNCHANGED chan
  /\ NextFrame
  /\ UNCHANGED <<DispatchStays, unanswered>>

ReaderEnd ==
  /\ \/ reader = "select" /\ down = <<>> /\ closed /\ Shutdown("Fin")
     \/ reader \in {"select", "batch"} /\ Shutdown("Reset")
  /\ UNCHANGED <<conns, server, writeFlag, writing, frames>>

(* No business frame in either direction for the idle window. *)
ReaderIdle ==
  /\ reader = "select" /\ down = <<>> /\ frames = <<>> /\ writer = "recv"
  /\ Shutdown("Fin")
  /\ UNCHANGED <<conns, server, writeFlag, writing, frames>>

-----------------------------------------------------------------------------
(* The dead-carrier watchdog, and the health cell it shares with the writer. *)

Waiting == {c \in Conn : unanswered[c] # NoAge}
Oldest == CHOOSE a \in {unanswered[c] : c \in Waiting} : \A c \in Waiting : unanswered[c] <= a
Silence == IF aliveAge < Oldest THEN aliveAge ELSE Oldest
Due == Silence >= (IF suspect THEN DeadAfter ELSE SuspectAfter)

(* The verdict loads the write flag first, then the proof of life. *)
VerdictFlag ==
  /\ reader = "select" /\ control = <<>> /\ down = <<>>
  /\ Waiting # {} /\ Due
  /\ reader' = "verdict" /\ sawWrite' = writeFlag
  /\ UNCHANGED <<conns, streams, server, health, writing, batch, link, frames, control,
                 unanswered>>

Verdict ==
  /\ reader = "verdict"
  /\ \/ /\ Silence >= DeadAfter /\ ~sawWrite
        /\ Shutdown("Reset")
     \/ /\ ~(Silence >= DeadAfter /\ ~sawWrite)
        /\ suspect' = (suspect \/ Silence >= SuspectAfter)
        /\ reader' = "select" /\ sawWrite' = FALSE
        /\ UNCHANGED <<streams, control, unanswered, batch, aliveAge, proofAge, link>>
  /\ UNCHANGED <<conns, server, writeFlag, writing, frames>>

Older(a) == IF a = NoAge \/ a = DeadAfter THEN a ELSE a + 1

(* Ages count while an Open waits: silence starts at the Open anyway. *)
Tick ==
  /\ Waiting # {}
  /\ aliveAge' = Older(aliveAge) /\ proofAge' = Older(proofAge)
  /\ unanswered' = [c \in Conn |-> Older(unanswered[c])]
  /\ UNCHANGED <<conns, streams, server, suspect, writeFlag, writing, reading, link,
                 frames, control>>

-----------------------------------------------------------------------------
(* client_mux_writer_loop and bounded_client_mux_write. *)

WriterStays == <<conns, streams, reading, link, control, unanswered>>

WriterTake ==
  /\ writer = "recv" /\ frames # <<>>
  /\ wbatch' = frames /\ frames' = <<>>
  /\ writeFlag' = TRUE /\ writer' = "writing"
  /\ UNCHANGED <<WriterStays, server, aliveAge, suspect, proofAge>>

(* What the server makes of the frames it reads. *)
Sees(c, k) == \E i \in DOMAIN wbatch : wbatch[i].stream = c /\ wbatch[i].kind = k
UnitsFor(c) == FoldLeft(LAMBDA n, f : IF f.stream = c THEN n + f.units ELSE n, 0, wbatch)
Received ==
  /\ srv' = [c \in Conn |-> IF Sees(c, "Reset") THEN "ended"
                            ELSE IF Sees(c, "Open") THEN "open" ELSE srv[c]]
  /\ got' = [c \in Conn |-> got[c] + UnitsFor(c)]
  /\ gotFin' = [c \in Conn |-> gotFin[c] \/ Sees(c, "Fin")]
  /\ UNCHANGED sent

(* The write drains, with or without having waited for the socket. *)
WriterDrain ==
  /\ writer = "writing"
  /\ Received
  /\ wbatch' = <<>>
  /\ \/ writer' = "waited" /\ proofAge' = 0
     \/ writer' = "quick" /\ UNCHANGED proofAge
  /\ UNCHANGED <<WriterStays, aliveAge, suspect, writeFlag, frames>>

(* Faulty: the flag is cleared before the proof of life is stored. *)
ProofAfterClear ==
  \/ writer = "waited" /\ writer' = "marked" /\ writeFlag' = FALSE /\ UNCHANGED <<aliveAge, suspect>>
  \/ writer = "marked" /\ writer' = "recv" /\ MarkAlive /\ UNCHANGED writeFlag
  \/ writer = "quick" /\ writer' = "recv" /\ writeFlag' = FALSE /\ UNCHANGED <<aliveAge, suspect>>

(* The proof of life is stored before the flag is cleared. *)
ProofBeforeClear ==
  \/ writer = "waited" /\ writer' = "marked" /\ MarkAlive /\ UNCHANGED writeFlag
  \/ writer \in {"marked", "quick"} /\ writer' = "recv" /\ writeFlag' = FALSE
       /\ UNCHANGED <<aliveAge, suspect>>

WriterFinish ==
  /\ ProofBeforeClear
  /\ UNCHANGED <<WriterStays, server, wbatch, proofAge, frames>>

(* The write failed or stalled. *)
WriterEnds ==
  /\ writer' = "ended" /\ wbatch' = <<>> /\ frames' = <<>> /\ writeFlag' = FALSE
  /\ UNCHANGED <<WriterStays, server, aliveAge, suspect, proofAge>>
WriterFails == writer = "writing" /\ WriterEnds

(* The pool dropped the session and no connection is left. *)
WriterDone ==
  /\ writer = "recv" /\ frames = <<>> /\ \A c \in Conn : pc[c] = "done"
  /\ WriterEnds

(* supervise_client_mux_session: whoever ends first, the other is aborted.   *)
SuperviseWriter == ReaderGone /\ ~WriterGone /\ WriterEnds

SuperviseReader ==
  /\ WriterGone /\ ~ReaderGone
  /\ ReaderReturns /\ UNCHANGED terminal
  /\ UNCHANGED <<conns, server, writeFlag, writing, frames>>

-----------------------------------------------------------------------------
(* The server, as the frames of its mux allow it, while somebody reads them. *)

ServerSends(c) ==
  /\ srv[c] \in {"open", "answered"} /\ Len(down) < DownCap /\ ~closed
  /\ \E k \in {"Receipt", "Data", "Fin", "Reset"} :
       /\ k = "Receipt" => srv[c] = "open"
       /\ k = "Data" => sent[c] < MaxDown
       /\ down' = Append(down, Frame(c, k, 0))
       /\ sent' = [sent EXCEPT ![c] = @ + (IF k = "Data" THEN 1 ELSE 0)]
       /\ srv' = [srv EXCEPT ![c] = IF k \in {"Receipt", "Data"} THEN "answered" ELSE "ended"]
  /\ UNCHANGED <<conns, streams, got, gotFin, health, writing, reading, closed, frames,
                 control, unanswered>>

ServerCloses ==
  /\ ~closed /\ closed' = TRUE
  /\ UNCHANGED <<conns, streams, server, health, writing, reading, down, frames,
                 control, unanswered>>

-----------------------------------------------------------------------------
ConnStep(c) ==
  \/ Reserve(c) \/ Register(c) \/ Announce(c) \/ Joined(c) \/ SendReset(c) \/ Leave(c)
  \/ Flush(c) \/ UploadEnd(c)
DownloadStep(c) == DownloadWrite(c) \/ DownloadEnd(c)
ReaderStep == ReaderControl \/ ReaderRecord \/ Dispatch \/ Grace \/ Verdict
WriterStep == WriterTake \/ WriterDrain \/ WriterFinish \/ WriterFails
Supervise == SuperviseWriter \/ SuperviseReader

Next ==
  \/ \E c \in Conn : ConnStep(c) \/ UploadRead(c) \/ DownloadStep(c) \/ ServerSends(c)
  \/ ReaderStep \/ ReaderEnd \/ ReaderIdle \/ VerdictFlag
  \/ WriterStep \/ WriterDone \/ Supervise
  \/ ServerCloses \/ Tick

(* Woken tasks are polled; a write to the application and one to the socket  *)
(* end within their bounds, in success or in failure.                        *)
Fairness ==
  /\ \A c \in Conn : WF_vars(ConnStep(c)) /\ WF_vars(DownloadStep(c))
  /\ WF_vars(ReaderStep) /\ WF_vars(WriterStep) /\ WF_vars(Supervise)

Spec == Init /\ [][Next]_vars /\ Fairness

-----------------------------------------------------------------------------

(* A Fin the server reads follows all the bytes taken from the application,  *)
(* the held tail included (runtime.rs:3654).                                 *)
UploadComplete == \A c \in Conn : gotFin[c] => got[c] = taken[c]

(* No frame is dropped for want of a registration: a frame dispatched for a  *)
(* stream that is not in the map belongs to one that was there and has ended *)
(* (runtime.rs:1499).                                                        *)
RegisteredFirst ==
  [][reader = "batch" /\ batch' # batch => task[Head(batch).stream] # "none"]_vars

(* The carrier is not declared dead within DeadAfter of a record, or of a    *)
(* write that drained after waiting, which proves that the server            *)
(* acknowledges, from the moment the writer says so (runtime.rs:692, 4259).  *)
NoFalseDeath ==
  [][reader = "verdict" /\ reader' = "ended" /\ writer \notin {"waited", "ended"}
       => proofAge >= DeadAfter]_vars

(* Once a stream is stamped Reset, or its session has ended under it, its    *)
(* connection task ends and gives its slot back, whatever the channels hold  *)
(* (runtime.rs:1537).                                                        *)
ResetEnds == \A c \in Conn : (terminal[c] = "Reset" \/ outcome[c] = "Reset") ~> pc[c] = "done"

==============================================================================
