------------------------------ MODULE ServerMux ------------------------------
(***************************************************************************)
(* One authenticated mux connection of the server over TCP: the shared     *)
(* reader that routes the client's frames, a supervisor task per substream *)
(* with its own bounded download queue, and the writer that serves the     *)
(* queues round-robin.                                                     *)
(*                                                                         *)
(* A substream incarnation is the number of the Open that created it, so   *)
(* that a reused stream id can be told from its predecessor.  Reader and   *)
(* writer are polled by one task and interleave at their awaits; a         *)
(* supervisor runs on any thread and interleaves with every step.          *)
(***************************************************************************)
EXTENDS Naturals, Sequences, FiniteSets, SequencesExt

CONSTANTS Id,           \* stream ids
          MaxOpens,     \* bound: substreams created in one behaviour
          MaxStreams,   \* context.max_streams
          Depth,        \* stream_queue_depth
          ControlCap,   \* SERVER_MUX_CONTROL_CHANNEL
          UploadCap,    \* SERVER_MUX_UPLOAD_CHANNEL
          BatchFrames,  \* SERVER_MUX_FRAME_BATCH_LIMIT
          MaxData,      \* bound: reads that return data, per substream
          WithUploads,  \* bound: whether the client sends Data frames
          WithReceipts  \* bound: whether receipt deadlines pass

ASSUME MuxAssumption ==
  /\ MaxOpens \in Nat /\ MaxStreams \in Nat /\ MaxData \in Nat
  /\ Depth \in Nat \ {0} /\ ControlCap \in Nat \ {0}
  /\ UploadCap \in Nat \ {0} /\ BatchFrames \in Nat \ {0}
  /\ WithUploads \in BOOLEAN /\ WithReceipts \in BOOLEAN

Inc == 1..MaxOpens

VARIABLES reader,   \* server_mux_client_reader_loop
          uploads,  \* streams.uploads: the incarnation a stream id sends to, or 0
          tasks,    \* streams.tasks: the incarnation whose handle is kept, or 0
          task,     \* the supervisor task of each incarnation
          upload,   \* payloads in each incarnation's upload channel
          queue,    \* each incarnation's download queue
          control,  \* the control channel, reader to writer
          sched,    \* ServerMuxScheduler
          writer,   \* server_mux_writer_loop
          wake,     \* the permit stored in the Notify
          wire      \* ghost: what the client was sent, per incarnation

vars == <<reader, uploads, tasks, task, upload, queue, control, sched, writer,
          wake, wire>>

-----------------------------------------------------------------------------
(* Frames, control messages and the supervisor's own state. *)

(* A Fin is told apart by what sent it: the end of the target's stream, with *)
(* the amount read from it, or the idle backstop ("Cut").                    *)
Kind == {"Data", "Fin", "Cut", "Reset", "Receipt"}

(* A frame refused to an Open belongs to no incarnation: inc = 0. *)
ResetFrame(i, n) == [id |-> i, inc |-> n, kind |-> "Reset", size |-> 0]

NoTask(i) == [id |-> i, pc |-> "none", aborted |-> FALSE, up |-> "open", down |-> "open",
              tail |-> 0, read |-> 0, published |-> FALSE, receipt |-> "armed"]

(* The upstream future is dropped with all it holds. *)
Dropped(t) == [NoTask(t.id) EXCEPT !.pc = "drop"]

Running(n) == task[n].pc \in {"setup", "relay", "resetting", "finning"}
Opened == {n \in Inc : task[n].pc # "none"}

(* The upload receiver lives in the upstream future, or in its drain. *)
UploadOpen(n) ==
  \/ task[n].pc \in {"setup", "resetting"}
  \/ task[n].pc = "relay" /\ task[n].up # "done"

(* Every clone of the upload sender: the map's, and the one a grace holds. *)
UploadSender(n) ==
  \/ uploads[task[n].id] = n
  \/ reader.pc = "grace" /\ reader.inc = n

(* The download receiver, in the control channel or with the scheduler. *)
Attached(n) ==
  \/ n \in Range(sched.queues)
  \/ \E i \in DOMAIN control : control[i].op = "register" /\ control[i].inc = n

Disconnected(n) == task[n].pc = "done"

-----------------------------------------------------------------------------
(* The reader. *)

(* Reader and writer are polled by one task: the reader runs while the       *)
(* writer is at an await.                                                    *)
Parked == writer.pc \notin {"top", "fill"}

Reading == reader.pc = "read" /\ Parked

Sending(todo, spawn) ==
  reader' = [pc |-> "send", todo |-> todo, inc |-> spawn, ok |-> TRUE]

(* abort() on the handle the map holds; a finished task does not notice. *)
AbortTask(i) ==
  IF tasks[i] # 0 /\ Running(tasks[i]) THEN [task EXCEPT ![tasks[i]].aborted = TRUE] ELSE task

Shed(i) ==
  /\ uploads' = [uploads EXCEPT ![i] = 0]
  /\ task' = AbortTask(i)
  /\ Sending(<<[op |-> "purge", id |-> i, inc |-> 0],
               [op |-> "frame", id |-> i, inc |-> uploads[i]]>>, 0)

PrunedTasks == [i \in Id |-> IF tasks[i] # 0 /\ task[tasks[i]].pc = "done"
                             THEN 0 ELSE tasks[i]]

RecvOpen(i) ==
  LET kept == PrunedTasks
      routed == [j \in Id |-> IF kept[j] = 0 THEN 0 ELSE uploads[j]]
      refused == \/ routed[i] # 0 \/ kept[i] # 0
                 \/ Cardinality({j \in Id : kept[j] # 0}) >= MaxStreams
      next == Cardinality(Opened) + 1
  IN /\ Reading
     /\ tasks' = kept /\ uploads' = routed
     /\ \/ /\ refused
           /\ Sending(<<[op |-> "frame", id |-> i, inc |-> 0]>>, 0)
        \/ /\ ~refused /\ next \in Inc
           /\ Sending(<<[op |-> "register", id |-> i, inc |-> next]>>, next)
     /\ UNCHANGED <<task, upload, queue, control, sched, writer, wake, wire>>

RecvData(i) ==
  LET n == uploads[i] IN
  /\ WithUploads /\ Reading /\ n # 0
  /\ \/ /\ ~UploadOpen(n)
        /\ Shed(i) /\ UNCHANGED upload
     \/ /\ UploadOpen(n) /\ upload[n] < UploadCap
        /\ upload' = [upload EXCEPT ![n] = @ + 1]
        /\ UNCHANGED <<reader, uploads, task>>
     \/ /\ UploadOpen(n) /\ upload[n] = UploadCap
        /\ reader' = [reader EXCEPT !.pc = "grace", !.inc = n]
        /\ UNCHANGED <<uploads, task, upload>>
  /\ UNCHANGED <<tasks, queue, control, sched, writer, wake, wire>>

(* The bounded wait for a slot in a full upload channel. *)
Grace ==
  LET n == reader.inc
      i == task[n].id
  IN /\ reader.pc = "grace" /\ Parked
     /\ \/ /\ UploadOpen(n) /\ upload[n] < UploadCap
           /\ upload' = [upload EXCEPT ![n] = @ + 1]
           /\ reader' = [reader EXCEPT !.pc = "read", !.inc = 0]
           /\ UNCHANGED <<uploads, task>>
        \/ Shed(i) /\ UNCHANGED upload
     /\ UNCHANGED <<tasks, queue, control, sched, writer, wake, wire>>

RecvFin(i) ==
  /\ Reading /\ uploads[i] # 0
  /\ uploads' = [uploads EXCEPT ![i] = 0]
  /\ UNCHANGED <<reader, tasks, task, upload, queue, control, sched, writer, wake, wire>>

(* Faulty: the slot is free as soon as the task is aborted. *)
HandleForgotten(i) == [tasks EXCEPT ![i] = 0]

(* The slot of a reset substream stays charged until its task has ended. *)
HandleKept(i) == tasks

RecvReset(i) ==
  /\ Reading
  /\ uploads' = [uploads EXCEPT ![i] = 0]
  /\ tasks' = HandleKept(i)
  /\ task' = AbortTask(i)
  /\ Sending(<<[op |-> "purge", id |-> i, inc |-> 0]>>, 0)
  /\ UNCHANGED <<upload, queue, control, sched, writer, wake, wire>>

(* One control message enters the channel; after the last one the reader     *)
(* spawns the supervisor it registered, if any, and reads on.                *)
SendControl ==
  LET n == reader.inc
      c == Head(reader.todo)
      last == Len(reader.todo) = 1
      spawns == last /\ n # 0
  IN /\ reader.pc = "send" /\ Parked /\ Len(control) < ControlCap
     /\ control' = Append(control, c)
     /\ reader' = IF last THEN [pc |-> "read", todo |-> <<>>, inc |-> 0, ok |-> TRUE]
                  ELSE [reader EXCEPT !.todo = Tail(@)]
     /\ task' = IF spawns THEN [task EXCEPT ![n] = [NoTask(c.id) EXCEPT !.pc = "setup"]]
                ELSE task
     /\ uploads' = IF spawns THEN [uploads EXCEPT ![c.id] = n] ELSE uploads
     /\ tasks' = IF spawns THEN [tasks EXCEPT ![c.id] = n] ELSE tasks
     /\ UNCHANGED <<upload, queue, sched, writer, wake, wire>>

Aborted(held) == [n \in Inc |-> IF n \in held /\ Running(n) THEN [task[n] EXCEPT !.aborted = TRUE]
                                ELSE task[n]]
NoStreams == [i \in Id |-> 0]

(* The client closed, stayed silent or failed to read: teardown. *)
Teardown(ok) ==
  /\ Reading
  /\ uploads' = NoStreams
  /\ task' = Aborted(Range(tasks))
  /\ reader' = [reader EXCEPT !.pc = "join", !.ok = ok]
  /\ UNCHANGED <<tasks, upload, queue, control, sched, writer, wake, wire>>

(* Faulty: teardown does not wait for the tasks it aborted. *)
TasksAbortedOnly == TRUE

(* Every aborted task has been awaited: the reader returns and drops the     *)
(* control sender.                                                           *)
TasksJoined == \A i \in Id : tasks[i] # 0 => task[tasks[i]].pc = "done"

Joined ==
  /\ reader.pc = "join" /\ reader.ok /\ TasksJoined /\ Parked
  /\ reader' = [reader EXCEPT !.pc = "gone"]
  /\ tasks' = NoStreams
  /\ UNCHANGED <<uploads, task, upload, queue, control, sched, writer, wake, wire>>

NothingWritten ==
  [n \in Inc |-> [seen |-> FALSE, data |-> 0, reset |-> FALSE]]

(* An error of either half drops both: the handles abort their tasks, the    *)
(* receivers and what they hold are gone (and the ghosts say no more).       *)
SessionFails ==
  /\ \/ Reading                                     \* a record or frame that does not decode
     \/ reader.pc = "join" /\ ~reader.ok /\ TasksJoined /\ Parked
     \/ writer.pc = "write"                         \* the client stopped reading
  /\ reader' = [pc |-> "gone", todo |-> <<>>, inc |-> 0, ok |-> FALSE]
  /\ task' = Aborted(Range(tasks))
  /\ uploads' = NoStreams /\ tasks' = NoStreams
  /\ queue' = [n \in Inc |-> <<>>]
  /\ control' = <<>>
  /\ sched' = [open |-> FALSE, queues |-> <<>>, unqueued |-> <<>>]
  /\ writer' = [pc |-> "failed", batch |-> <<>>]
  /\ wire' = NothingWritten
  /\ UNCHANGED <<upload, wake>>

-----------------------------------------------------------------------------
(* A supervisor task. *)

TaskOnly == UNCHANGED <<reader, uploads, tasks, queue, control, sched, writer, wire>>

(* Resolve, connect, tune and write the initial payload. *)
Setup(n) ==
  /\ task[n].pc = "setup"
  /\ \E pc \in {"relay", "resetting"} : task' = [task EXCEPT ![n].pc = pc]
  /\ UNCHANGED <<upload, wake>> /\ TaskOnly

(* The target reader: data joins the held tail, or the target ends. *)
TargetRead(n) ==
  /\ task[n].pc = "relay" /\ task[n].down = "open"
  /\ \/ /\ task[n].read < MaxData
        /\ task' = [task EXCEPT ![n].read = @ + 1, ![n].tail = @ + 1]
     \/ task' = [task EXCEPT ![n].down = "eof"]
  /\ UNCHANGED <<upload, wake>> /\ TaskOnly

(* The upload drain: a payload is written to the target; a closed and empty  *)
(* channel half-closes it.                                                   *)
UploadDrain(n) ==
  /\ task[n].pc = "relay" /\ task[n].up = "open"
  /\ \/ /\ upload[n] > 0
        /\ upload' = [upload EXCEPT ![n] = @ - 1]
        /\ UNCHANGED task
     \/ /\ upload[n] = 0 /\ ~UploadSender(n)
        /\ task' = [task EXCEPT ![n] = IF @.down = "done" THEN Dropped(@)
                                       ELSE [@ EXCEPT !.up = "done"]]
        /\ UNCHANGED upload
  /\ UNCHANGED wake /\ TaskOnly

(* A read from the target, or a write to it, fails or stalls.  What the other *)
(* direction publishes until the Reset is queued it may as well publish      *)
(* before the failure, so the task only has the Reset left to send.          *)
TargetFails(n) ==
  /\ task[n].pc = "relay" /\ "open" \in {task[n].up, task[n].down}
  /\ task' = [task EXCEPT ![n].pc = "resetting", ![n].tail = 0]
  /\ UNCHANGED <<upload, wake>> /\ TaskOnly

(* relay_idle_watchdog ends the substream: both directions are dropped. *)
Idle(n) ==
  /\ task[n].pc = "relay"
  /\ task' = [task EXCEPT ![n] = [@ EXCEPT !.pc = "finning", !.tail = 0, !.read = 0,
                                                    !.up = "done", !.down = "done"]]
  /\ upload' = [upload EXCEPT ![n] = 0]
  /\ UNCHANGED wake /\ TaskOnly

(* The receipt deadline passes; nothing was published at that moment. *)
ReceiptDue(n) ==
  /\ WithReceipts /\ Running(n) /\ task[n].receipt = "armed"
  /\ task' = [task EXCEPT ![n].receipt = IF task[n].published THEN "settled" ELSE "waiting"]
  /\ UNCHANGED <<upload, wake>> /\ TaskOnly

(* Faulty: the held tail is not flushed first. *)
FinAtOnce(t) == t.down = "eof"

(* The target has ended and the held tail is flushed. *)
FinReady(t) == t.down = "eof" /\ t.tail = 0

(* What the supervisor's futures wait to put into the download queue. *)
Wants(n) ==
  LET t == task[n]
      relay == t.pc = "relay"
  IN {k \in Kind :
        \/ k = "Data" /\ relay /\ t.tail > 0
        \/ k = "Fin" /\ relay /\ FinReady(t)
        \/ k = "Cut" /\ t.pc = "finning"
        \/ k = "Reset" /\ t.pc = "resetting"
        \/ k = "Receipt" /\ Running(n) /\ t.receipt = "waiting"}

(* The supervisor once the frame is in the queue. *)
Published(t, k) ==
  LET p == [t EXCEPT !.published = TRUE] IN
  CASE k = "Data" -> [p EXCEPT !.tail = 0]
    [] k = "Receipt" -> [p EXCEPT !.receipt = "settled"]
    [] k = "Fin" ->
         IF t.up = "done" THEN Dropped(p) ELSE [p EXCEPT !.down = "done", !.read = 0]
    [] OTHER -> Dropped(p)

HasRoom(n) == Len(queue[n]) < Depth

(* Faulty: the receipt is sent whatever was published. *)
ClaimIgnored(n, k) == FALSE

(* claim_mux_publication lets only a receipt down. *)
LosesClaim(n, k) == k = "Receipt" /\ task[n].published


Notified == TRUE

(* Capacity is reserved, the first publication claimed and the frame sent    *)
(* without another await; a receipt that lost the claim sends nothing.       *)
Send(n) ==
  /\ Attached(n) /\ HasRoom(n)
  /\ \E k \in Wants(n) :
       IF LosesClaim(n, k)
       THEN /\ task' = [task EXCEPT ![n].receipt = "settled"]
            /\ UNCHANGED <<queue, wake>>
       ELSE /\ queue' = [queue EXCEPT ![n] =
                 Append(@, [id |-> task[n].id, inc |-> n, kind |-> k,
                            size |-> CASE k = "Data" -> task[n].tail
                                       [] k = "Fin" -> task[n].read
                                       [] OTHER -> 0])]
            /\ task' = [task EXCEPT ![n] = Published(@, k)]
            /\ wake' = Notified
  /\ upload' = IF Running(n)' THEN upload ELSE [upload EXCEPT ![n] = 0]
  /\ UNCHANGED <<reader, uploads, tasks, control, sched, writer, wire>>

(* The queue's receiver is gone: every send fails and ends the task. *)
SendFails(n) ==
  /\ ~Attached(n) /\ Wants(n) # {}
  /\ task' = [task EXCEPT ![n] = Dropped(@)]
  /\ upload' = [upload EXCEPT ![n] = 0]
  /\ UNCHANGED wake /\ TaskOnly

Cancel(n) ==
  /\ Running(n) /\ task[n].aborted
  /\ task' = [task EXCEPT ![n] = Dropped(@)]
  /\ upload' = [upload EXCEPT ![n] = 0]
  /\ UNCHANGED wake /\ TaskOnly

(* Dropping the last ServerMuxStreamTx wakes the writer, and only then drops *)
(* the sender inside it.                                                     *)
DropTx(n) ==
  \/ /\ task[n].pc = "drop"
     /\ task' = [task EXCEPT ![n].pc = "release"]
     /\ wake' = TRUE
     /\ UNCHANGED upload /\ TaskOnly
  \/ /\ task[n].pc = "release"
     /\ task' = [task EXCEPT ![n].pc = "done"]
     /\ UNCHANGED <<upload, wake>> /\ TaskOnly

-----------------------------------------------------------------------------
(* The writer and its scheduler. *)

(* ServerMuxScheduler::purge drops the receivers and what they hold. *)
Purge(st, i) ==
  [st EXCEPT !.s.queues = SelectSeq(@, LAMBDA n : st.of[n] # i),
             !.q = [n \in Inc |-> IF n \in Range(st.s.queues) /\ st.of[n] = i
                                  THEN <<>> ELSE @[n]]]

(* Faulty: the queue of the old incarnation of a reused id stays. *)
OldQueueKept(st, i) == st

(* A registered id never sees its old incarnation's tail. *)
OldQueueGone(st, i) == Purge(st, i)

(* ServerMuxScheduler::apply, on the scheduler s, the queues q and the id of *)
(* each registered incarnation.                                              *)
Apply(st, c) ==
  CASE c.op = "register" ->
         LET p == OldQueueGone(st, c.id) IN
         [p EXCEPT !.s.queues = Append(@, c.inc), !.of[c.inc] = c.id]
    [] c.op = "purge" -> Purge(st, c.id)
    [] c.op = "frame" -> [st EXCEPT !.s.unqueued = Append(@, ResetFrame(c.id, c.inc))]

Applied(cs) ==
  FoldLeft(Apply, [s |-> sched, q |-> queue, of |-> [n \in Inc |-> task[n].id]], cs)

WriterOnly == UNCHANGED <<reader, uploads, tasks, task, upload>>

(* drain_control, then the queue-less frames at the head of the batch. *)
DrainControl ==
  LET st == Applied(control)
      u == st.s.unqueued
      k == IF Len(u) < BatchFrames THEN Len(u) ELSE BatchFrames
  IN /\ writer.pc = "top"
     /\ sched' = [st.s EXCEPT !.open = @ /\ reader.pc # "gone",
                              !.unqueued = SubSeq(u, k + 1, Len(u))]
     /\ queue' = st.q
     /\ control' = <<>>
     /\ writer' = [pc |-> "fill", batch |-> SubSeq(u, 1, k)]
     /\ UNCHANGED <<wake, wire>> /\ WriterOnly

Connected(s) == SelectSeq(s, LAMBDA n : ~Disconnected(n))

(* The turns of fill up to the next frame: queues that are empty go to the   *)
(* back, or are dropped when no sender is left, and so does the one that     *)
(* gives a frame.                                                            *)
FillFrame ==
  LET qs == sched.queues
      ready == {i \in DOMAIN qs : queue[qs[i]] # <<>>}
      i == Min(ready)
      n == qs[i]
  IN /\ writer.pc = "fill" /\ Len(writer.batch) < BatchFrames /\ ready # {}
     /\ writer' = [writer EXCEPT !.batch = Append(@, Head(queue[n]))]
     /\ queue' = [queue EXCEPT ![n] = Tail(@)]
     /\ sched' = [sched EXCEPT !.queues =
                    SubSeq(qs, i + 1, Len(qs)) \o Connected(SubSeq(qs, 1, i - 1)) \o <<n>>]
     /\ UNCHANGED <<control, wake, wire>> /\ WriterOnly

(* The batch is full, or over the byte ceiling of a link-bound writer, or a  *)
(* whole pass gave nothing; an empty batch ends the connection or waits.     *)
FillDone ==
  LET b == writer.batch
      idle == \A i \in DOMAIN sched.queues : queue[sched.queues[i]] = <<>>
      left == IF idle /\ Len(b) < BatchFrames THEN Connected(sched.queues) ELSE sched.queues
      finished == ~sched.open /\ left = <<>> /\ sched.unqueued = <<>>
  IN /\ writer.pc = "fill"
     /\ idle \/ Len(b) = BatchFrames \/ \E i \in DOMAIN b : b[i].kind = "Data"
     /\ sched' = [sched EXCEPT !.queues = left]
     /\ writer' = [writer EXCEPT !.pc = IF b # <<>> THEN "write"
                                       ELSE IF finished THEN "done" ELSE "wait"]
     /\ UNCHANGED <<queue, control, wake, wire>> /\ WriterOnly

(* The client is sent the batch. *)
OnWire(w, f) ==
  IF f.inc = 0 THEN w
  ELSE [w EXCEPT ![f.inc] = 
         [seen |-> TRUE, data |-> IF f.kind = "Data" THEN @.data + f.size ELSE 0,
          reset |-> @.reset \/ f.kind = "Reset"]]

WriteBatch ==
  /\ writer.pc = "write"
  /\ wire' = FoldLeft(OnWire, wire, writer.batch)
  /\ writer' = [pc |-> "top", batch |-> <<>>]
  /\ UNCHANGED <<queue, control, sched, wake>> /\ WriterOnly

(* Nothing to write: the select over the control channel and the Notify. *)
AwaitWork ==
  /\ writer.pc = "wait"
  /\ \/ LET st == Applied(<<Head(control)>>) IN
        /\ sched.open /\ control # <<>>
        /\ control' = Tail(control) /\ sched' = st.s /\ queue' = st.q
        /\ UNCHANGED wake
     \/ /\ sched.open /\ control = <<>> /\ reader.pc = "gone"
        /\ sched' = [sched EXCEPT !.open = FALSE]
        /\ UNCHANGED <<control, queue, wake>>
     \/ /\ wake /\ wake' = FALSE
        /\ UNCHANGED <<control, sched, queue>>
  /\ writer' = [writer EXCEPT !.pc = "top"]
  /\ UNCHANGED wire /\ WriterOnly

-----------------------------------------------------------------------------
(* The connection. *)

Init ==
  /\ reader = [pc |-> "read", todo |-> <<>>, inc |-> 0, ok |-> TRUE]
  /\ uploads = NoStreams /\ tasks = NoStreams
  /\ task = [n \in Inc |-> NoTask(CHOOSE i \in Id : TRUE)]
  /\ upload = [n \in Inc |-> 0]
  /\ queue = [n \in Inc |-> <<>>]
  /\ control = <<>>
  /\ sched = [open |-> TRUE, queues |-> <<>>, unqueued |-> <<>>]
  /\ writer = [pc |-> "wait", batch |-> <<>>]
  /\ wake = FALSE
  /\ wire = NothingWritten

(* What the reader must do next whatever the client does. *)
ReaderContinues == Grace \/ SendControl \/ Joined
ReaderReads ==
  \/ \E i \in Id : RecvOpen(i) \/ RecvData(i) \/ RecvFin(i) \/ RecvReset(i)
  \/ \E ok \in BOOLEAN : Teardown(ok)

(* What a task must do next whatever its target does. *)
TaskContinues(n) == Send(n) \/ SendFails(n) \/ Cancel(n) \/ DropTx(n)
TargetActs(n) == Setup(n) \/ TargetRead(n) \/ UploadDrain(n) \/ TargetFails(n) \/ Idle(n) \/ ReceiptDue(n)

Writer == DrainControl \/ FillFrame \/ FillDone \/ WriteBatch \/ AwaitWork

(* The session is over and every task has ended. *)
Over ==
  /\ writer.pc \in {"done", "failed"} /\ \A n \in Opened : task[n].pc = "done"
  /\ UNCHANGED vars

Next ==
  \/ ReaderReads \/ ReaderContinues \/ SessionFails \/ Writer \/ Over
  \/ \E n \in Inc : TaskContinues(n) \/ TargetActs(n)

Fairness ==
  /\ WF_vars(Writer) /\ WF_vars(ReaderContinues)
  /\ \A n \in Inc : WF_vars(TaskContinues(n))

Spec == Init /\ [][Next]_vars /\ Fairness

-----------------------------------------------------------------------------
(* Properties. *)

(* The substreams that may hold a target descriptor never exceed             *)
(* max_streams while the session runs: an aborted supervisor keeps its slot  *)
(* until it has really ended, so a Reset-then-Open loop cannot outrun it.    *)
TargetsBounded ==
  Cardinality({n \in Opened : task[n].pc # "done"}) <= MaxStreams

(* The frames on the wire before the j-th of the batch being written. *)
Writes == writer.pc = "write" /\ writer'.pc = "top"
Earlier(j, n) == {k \in 1..(j - 1) : writer.batch[k].inc = n}
SeenBefore(j, n) == wire[n].seen \/ Earlier(j, n) # {}
ResetBefore(j, n) ==
  wire[n].reset \/ \E k \in Earlier(j, n) : writer.batch[k].kind = "Reset"

(* What the client reads on one stream id is well ordered: no frame of an    *)
(* incarnation follows a frame of a later one, and after the Reset of an     *)
(* incarnation nothing but another Reset of it follows.                      *)
WireOrder ==
  [][Writes => \A j \in DOMAIN writer.batch :
       LET f == writer.batch[j] IN
       f.inc # 0 =>
         /\ \A m \in Inc : m > f.inc /\ task[m].id = f.id => ~SeenBefore(j, m)
         /\ ResetBefore(j, f.inc) => f.kind = "Reset"]_vars

(* The receipt of an Open is only ever the first frame of its incarnation:   *)
(* it never follows a response, and there is at most one.                    *)
ReceiptIsFirst ==
  [][Writes => \A j \in DOMAIN writer.batch :
       LET f == writer.batch[j] IN f.kind = "Receipt" => ~SeenBefore(j, f.inc)]_vars

(* The Fin of a target that ended reaches the client only after every byte   *)
(* read from that target, the held tail included, and nothing twice.         *)
FinIsComplete ==
  [][Writes => \A j \in DOMAIN writer.batch :
       LET f == writer.batch[j]
           data == {k \in Earlier(j, f.inc) : writer.batch[k].kind = "Data"}
       IN f.kind = "Fin" =>
            f.size = wire[f.inc].data + MapThenSumSet(LAMBDA k : writer.batch[k].size, data)]_vars


(* Once the reader has returned, the writer flushes what is queued and ends  *)
(* the connection: teardown waits for the senders it needs gone.             *)
WriterEnds == reader.pc = "gone" ~> writer.pc \in {"done", "failed"}

=============================================================================
