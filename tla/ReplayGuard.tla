----------------------------- MODULE ReplayGuard -----------------------------
(***************************************************************************)
(* The two guards that keep a ReplayCache behind a mutex shared with       *)
(* spawn_blocking workers: ReplayCacheGuard for 0-RTT tickets              *)
(* (transport/udp/zero_rtt.rs) and MarkerReplayGuard for origin-splice     *)
(* markers (transport/udp/marker_replay.rs).  The decision is made in      *)
(* memory; a worker takes the cache out of its slot, writes the journal    *)
(* with the mutex released, and puts it back.  The slot is empty exactly   *)
(* while ReplayJournal's pc is inside an operation.                        *)
(***************************************************************************)
EXTENDS ReplayJournal

VARIABLE spawned   \* persist tasks spawned that have not locked the slot yet

guardVars == <<vars, spawned>>

(* accept_ticket and first_sighting: refused while the slot is empty.  A      *)
(* marker is recorded at its own time, a ticket at the present one, which is  *)
(* the case e.ts = now.                                                       *)
Accept(e) ==
  /\ InsertNewOutcomeDeferred(e)
  /\ spawned' = IF granted' # granted THEN spawned + 1 ELSE spawned

(* persist_checked_out: a worker that finds the slot empty returns at once. *)
PersistCheckedOut ==
  /\ spawned > 0 /\ spawned' = spawned - 1
  /\ pc # "down"
  /\ IF pc = "idle" THEN PersistPending ELSE UNCHANGED vars

GuardInit == Init /\ spawned = 0

Worker == PersistCheckedOut \/ ((DrainNext \/ Persist) /\ UNCHANGED spawned)

GuardNext ==
  \/ \E e \in Entry : Accept(e)
  \/ Worker
  \/ (Load \/ Tick \/ ClockRollback) /\ UNCHANGED spawned
  \/ (Kill \/ PowerLoss) /\ spawned' = 0

(* A spawned blocking task runs, and the system calls it makes return. *)
GuardSpec == GuardInit /\ [][GuardNext]_guardVars /\ WF_guardVars(Worker)

-----------------------------------------------------------------------------
(* The claim persist_checked_out makes when it finds the slot empty: no      *)
(* queued entry is left without a worker that will write it, unless a write  *)
(* has failed.                                                               *)
NoStrandedEntry ==
  pc = "idle" /\ cache.pending # <<>> /\ faults = 0 => spawned > 0

(* Once writes stop failing and no worker is in the middle of one, the worker *)
(* an accepted entry spawns brings the whole queue to the journal, the        *)
(* entries an earlier worker failed on included.                              *)
RetryDrainsQueue ==
  (spawned > 0 /\ pc = "idle" /\ faults = MaxFaults)
    ~> (cache.pending = <<>> \/ pc = "down")

=============================================================================
