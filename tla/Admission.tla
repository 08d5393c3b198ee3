------------------------------ MODULE Admission ------------------------------
(***************************************************************************)
(* The accept loop of the server (handshake/server.rs, run) with the      *)
(* three budgets it draws on: the per-source limiter, the semaphore of    *)
(* connection slots, and the cap-shed slots a refused connection waits    *)
(* for inside the loop.  The loop handles one socket at a time; every     *)
(* admitted socket becomes a task that runs concurrently with it.         *)
(*                                                                        *)
(* The drop of a source permit reads the clock before it takes the        *)
(* limiter's lock, so it is two steps and drops may take the lock in      *)
(* another order than they read the clock.  A connection slot is an Arc   *)
(* that detached work of the connection (the release of a pre-dialled     *)
(* origin, the tasks of mux streams) may hold beyond the end of the task. *)
(***************************************************************************)
EXTENDS SourceLimiter

CONSTANTS
  Conn,             \* names for the sockets alive at one time
  ConnectionLimit,  \* connection_limit
  ShedSlots,        \* MAX_CONCURRENT_CAP_SHED_FALLBACKS
  MaxDetached,      \* bound: clones of one connection's slot
  MaxTime           \* bound: instants of the clock

ASSUME AdmissionAssumption ==
  /\ IsFiniteSet(Conn) /\ None \notin Conn
  /\ ConnectionLimit \in Nat /\ ShedSlots \in Nat
  /\ MaxDetached \in Nat /\ MaxTime \in Nat

VARIABLES
  inner,     \* SourceLimiter::inner
  clock,     \* Instant::now()
  loop,      \* where the accept loop stands when it holds no socket
  cur,       \* the socket the accept loop is handling, or None
  phase,     \* [Conn -> Phase]
  src,       \* [Conn -> the source of the socket]
  stamp,     \* [Conn -> the instant the drop of its source permit read]
  detached,  \* [Conn -> clones of its slot's Arc in detached tasks]
  slots,     \* available permits of connection_slots
  shedFree   \* available permits of CAP_SHED_FALLBACK_SLOTS

vars == <<inner, clock, loop, cur, phase, src, stamp, detached, slots, shedFree>>

(***************************************************************************)
(* none      no such socket                                               *)
(* accepted  accept() returned it                                         *)
(* admitted  the loop holds its source permit                             *)
(* refused   no connection slot; the loop is dropping the source permit   *)
(* shedwait  the loop awaits a cap-shed slot for it                       *)
(* shedding  cap_shed_fallback runs with a cap-shed slot                  *)
(* serving   its task holds the source permit and the slot                *)
(* closing   the task ended and is dropping the source permit             *)
(* closed    the source permit is dropped, the task's Arc not yet         *)
(* lingering only detached tasks hold the slot                            *)
(***************************************************************************)
Phase == {"none", "accepted", "admitted", "refused", "shedwait", "shedding",
          "serving", "closing", "closed", "lingering"}

TypeOK ==
  /\ IsInner(inner)
  /\ clock \in Instant
  /\ loop \in {"accept", "backoff", "stopped"}
  /\ cur \in Conn \cup {None}
  /\ phase \in [Conn -> Phase]
  /\ src \in [Conn -> Source \cup {None}]
  /\ stamp \in [Conn -> Instant]
  /\ detached \in [Conn -> Nat]
  /\ slots \in Nat
  /\ shedFree \in Nat

Init ==
  /\ inner = EmptyInner
  /\ clock = 0
  /\ loop = "accept"
  /\ cur = None
  /\ phase = [c \in Conn |-> "none"]
  /\ src = [c \in Conn |-> None]
  /\ stamp = [c \in Conn |-> 0]
  /\ detached = [c \in Conn |-> 0]
  /\ slots = ConnectionLimit
  /\ shedFree = ShedSlots

Goto(c, p) == phase' = [phase EXCEPT ![c] = p]

\* The socket is gone, and its name may be used for another one.
Forget(c) ==
  /\ Goto(c, "none")
  /\ src' = [src EXCEPT ![c] = None]
  /\ stamp' = [stamp EXCEPT ![c] = 0]

-----------------------------------------------------------------------------
\* The accept loop.

Accept(c, s) ==
  /\ loop = "accept" /\ cur = None /\ phase[c] = "none"
  /\ cur' = c
  /\ Goto(c, "accepted")
  /\ src' = [src EXCEPT ![c] = s]
  /\ UNCHANGED <<inner, clock, loop, stamp, detached, slots, shedFree>>

\* accept() failed: for want of descriptors (the loop sleeps 100 ms) or with an
\* error of the listener itself (run returns).  A transient error changes nothing.
AcceptFails ==
  /\ loop = "accept" /\ cur = None
  /\ loop' \in {"backoff", "stopped"}
  /\ UNCHANGED <<inner, clock, cur, phase, src, stamp, detached, slots, shedFree>>

BackoffOver ==
  /\ loop = "backoff"
  /\ loop' = "accept"
  /\ UNCHANGED <<inner, clock, cur, phase, src, stamp, detached, slots, shedFree>>

AdmitSource(c) ==
  /\ phase[c] = "accepted"
  /\ inner' = TryAdmit(inner, src[c], clock)
  /\ Goto(c, IF AtCap(PruneLocked(inner, clock), src[c]) THEN "shedwait" ELSE "admitted")
  /\ UNCHANGED <<clock, loop, cur, src, stamp, detached, slots, shedFree>>

\* Faulty: AcquireSlot without the drop of the unused source permit.
ShedKeepingPermit(c) ==
  /\ phase[c] = "admitted"
  /\ IF slots > 0
       THEN /\ slots' = slots - 1
            /\ cur' = None
            /\ Goto(c, "serving")
       ELSE /\ Goto(c, "shedwait")
            /\ UNCHANGED <<slots, cur>>
  /\ UNCHANGED <<inner, clock, loop, src, stamp, detached, shedFree>>

\* connection_slots.try_acquire_owned(); without a permit the drop of the source
\* permit begins with its read of the clock.
AcquireSlot(c) ==
  /\ phase[c] = "admitted"
  /\ IF slots > 0
       THEN /\ slots' = slots - 1
            /\ cur' = None
            /\ Goto(c, "serving")
            /\ UNCHANGED stamp
       ELSE /\ stamp' = [stamp EXCEPT ![c] = clock]
            /\ Goto(c, "refused")
            /\ UNCHANGED <<slots, cur>>
  /\ UNCHANGED <<inner, clock, loop, src, detached, shedFree>>

ReturnSourcePermit(c) ==
  /\ phase[c] = "refused"
  /\ inner' = Released(inner, src[c], stamp[c])
  /\ Goto(c, "shedwait")
  /\ UNCHANGED <<clock, loop, cur, src, stamp, detached, slots, shedFree>>

\* spawn_cap_shed_fallback: the loop waits here while every slot is taken.
SpawnCapShed(c) ==
  /\ phase[c] = "shedwait" /\ shedFree > 0
  /\ shedFree' = shedFree - 1
  /\ cur' = None
  /\ Goto(c, "shedding")
  /\ UNCHANGED <<inner, clock, loop, src, stamp, detached, slots>>

-----------------------------------------------------------------------------
\* The tasks.

\* cap_shed_fallback returns, on any of its paths.
EndCapShed(c) ==
  /\ phase[c] = "shedding"
  /\ shedFree' = shedFree + 1
  /\ Forget(c)
  /\ UNCHANGED <<inner, clock, loop, cur, detached, slots>>

Detach(c) ==
  /\ phase[c] = "serving" /\ detached[c] < MaxDetached
  /\ detached' = [detached EXCEPT ![c] = @ + 1]
  /\ UNCHANGED <<inner, clock, loop, cur, phase, src, stamp, slots, shedFree>>

\* The last holder of the slot's Arc gives the permit back to the semaphore.
DropArc(c, last) ==
  IF last THEN slots' = slots + 1 /\ Forget(c) ELSE UNCHANGED <<phase, src, stamp, slots>>

EndDetached(c) ==
  /\ detached[c] > 0
  /\ detached' = [detached EXCEPT ![c] = @ - 1]
  /\ DropArc(c, phase[c] = "lingering" /\ detached[c] = 1)
  /\ UNCHANGED <<inner, clock, loop, cur, shedFree>>

\* The task ends; its locals are dropped in reverse order, the source permit first.
EndConnection(c) ==
  /\ phase[c] = "serving"
  /\ stamp' = [stamp EXCEPT ![c] = clock]
  /\ Goto(c, "closing")
  /\ UNCHANGED <<inner, clock, loop, cur, src, detached, slots, shedFree>>

DropSourcePermit(c) ==
  /\ phase[c] = "closing"
  /\ inner' = Released(inner, src[c], stamp[c])
  /\ Goto(c, "closed")
  /\ UNCHANGED <<clock, loop, cur, src, stamp, detached, slots, shedFree>>

DropConnectionPermit(c) ==
  /\ phase[c] = "closed"
  /\ IF detached[c] = 0
       THEN DropArc(c, TRUE)
       ELSE Goto(c, "lingering") /\ UNCHANGED <<src, stamp, slots>>
  /\ UNCHANGED <<inner, clock, loop, cur, detached, shedFree>>

Tick ==
  /\ clock < MaxTime
  /\ clock' = clock + 1
  /\ UNCHANGED <<inner, loop, cur, phase, src, stamp, detached, slots, shedFree>>

LoopStep(c) ==
  AdmitSource(c) \/ AcquireSlot(c) \/ ReturnSourcePermit(c) \/ SpawnCapShed(c)

TaskStep(c) ==
  \/ EndCapShed(c) \/ Detach(c) \/ EndDetached(c) \/ EndConnection(c)
  \/ DropSourcePermit(c) \/ DropConnectionPermit(c)

Next ==
  \/ \E c \in Conn, s \in Source : Accept(c, s)
  \/ \E c \in Conn : LoopStep(c) \/ TaskStep(c)
  \/ AcceptFails \/ BackoffOver \/ Tick

Spec == Init /\ [][Next]_vars

-----------------------------------------------------------------------------

HoldsSource(c) == phase[c] \in {"admitted", "refused", "serving", "closing"}

\* Some task has the Arc of the connection's slot: its own or a detached one.
HoldsSlot(c) == phase[c] \in {"serving", "closing", "closed"} \/ detached[c] > 0

PermitsOf(s) == {c \in Conn : HoldsSource(c) /\ src[c] = s}

PermitsIn(p) ==
  {c \in Conn : HoldsSource(c) /\ src[c] \in V6Source /\ AggKey[src[c]] = p}

\* The counters of the limiter and of both semaphores agree with the permits that
\* are really out, whatever order tasks end in (try_admit, Drop for SourcePermit,
\* the Arc of a connection slot): no admission is lost and none is counted twice, and
\* no source and no /48 holds more of them at once than its cap.
CountersMatchPermits ==
  /\ \A s \in Source : ActiveOf(inner, s) = Cardinality(PermitsOf(s))
  /\ \A p \in Prefix : AggOf(inner, p) = Cardinality(PermitsIn(p))
  /\ slots + Cardinality({c \in Conn : HoldsSlot(c)}) = ConnectionLimit
  /\ shedFree + Cardinality({c \in Conn : phase[c] = "shedding"}) = ShedSlots
  /\ \A s \in Source : Cardinality(PermitsOf(s)) <= CapFor(s)
  /\ \A p \in Prefix : Cardinality(PermitsIn(p)) <= CapV6 * AggFanout

\* The limiter's memory is bounded whatever the churn, and what a source leaves behind
\* never stays for good: the log is bounded by max_entries and the map by that plus the
\* connections that can be admitted at once (the slots and the one socket in the accept
\* loop), an idle entry always has the log record that will evict it, and an aggregate
\* is never kept at zero (Permit::drop, and the comment in try_admit about entries that
\* are never pruned).
LimiterIsBounded ==
  /\ Len(inner.idleLog) <= MaxEntries
  /\ Cardinality(DOMAIN inner.map) <= MaxEntries + ConnectionLimit + 1
  /\ Cardinality(DOMAIN inner.aggV6) <= ConnectionLimit + 1
  /\ \A s \in DOMAIN inner.map :
       IF inner.map[s].active = 0
         THEN \E i \in DOMAIN inner.idleLog : inner.idleLog[i] = <<s, inner.map[s].idleSince>>
         ELSE inner.map[s].idleSince = None
  /\ \A p \in DOMAIN inner.aggV6 : inner.aggV6[p] > 0

\* An entry leaves the map only while its source holds no permit, and only when it
\* has been idle for the grace period, the map is over its bound or the log is full:
\* eviction cannot reset the count of a source that is connected.
EvictionIsSafe ==
  [][\A s \in DOMAIN inner.map \ DOMAIN inner'.map :
       /\ PermitsOf(s)' = {}
       /\ \/ Len(inner.idleLog) = MaxEntries
          \/ Cardinality(DOMAIN inner.map) > MaxEntries
          \/ PermitsOf(s) = {} /\ clock - inner.map[s].idleSince >= IdleGrace]_vars
=============================================================================
