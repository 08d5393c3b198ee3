----------------------------- MODULE ClientPool -----------------------------
(***************************************************************************)
(* The client's pool of mux sessions: connection tasks that acquire a      *)
(* substream slot, the warm keeper, session builds that run off the pool   *)
(* lock, and the UDP circuit breaker that every build consults.            *)
(*                                                                         *)
(* The code between taking the pool mutex and dropping it has no await, so *)
(* it is one action.  Time is counted in keeper intervals; the clock read  *)
(* and the breaker's lock, which are adjacent, are one step.               *)
(***************************************************************************)
EXTENDS Integers, Sequences, FiniteSets, SequencesExt

CONSTANTS Conn,              \* local connections, one task each
          Keeper,            \* the warm-keeper task
          Session,           \* bound: sessions that exist at a time
          None,              \* no session, no time
          StreamLimit,       \* traffic.max_concurrent_streams
          MaxBuilds,         \* MUX_MAX_CONCURRENT_SESSION_BUILDS
          MaxBuildAttempts,  \* MUX_ACQUIRE_MAX_BUILD_ATTEMPTS
          MaxIdleSessions,   \* MUX_POOL_MAX_IDLE_SESSIONS
          MaxFailures,       \* MUX_WARM_KEEPER_MAX_REBUILD_FAILURES
          ActiveWindow,      \* MUX_WARM_KEEPER_ACTIVE_WINDOW
          MaxBackoff,        \* MUX_WARM_KEEPER_MAX_BACKOFF
          Ttl,               \* UDP_BLACKHOLE_TTL
          Starts,            \* bound: the time the client starts and the acquires to come
          MaxTime            \* bound: the clock

ASSUME PoolAssumption ==
  /\ {StreamLimit, MaxBuilds, MaxBuildAttempts, MaxFailures, MaxBackoff, Ttl}
       \subseteq Nat \ {0}
  /\ {MaxIdleSessions, ActiveWindow, MaxTime} \subseteq Nat
  /\ Starts \subseteq [time : 0..MaxTime, acquires : [Conn -> Nat]]
  /\ Keeper \notin Conn

Task == Conn \cup {Keeper}

VARIABLES sessions,      \* MuxPoolState.sessions, in order
          free,          \* available permits of each session's stream_slots
          dead,          \* sessions that are not is_reusable any more
          suspect,       \* sessions whose health.suspect is set
          building,      \* builds_in_flight
          hasNotify,     \* build_notify is Some
          lastActivity,  \* last_activity: the time plus one, or zero
          pc,            \* where each task is
          held,          \* the session whose permit a connection holds
          attempts,      \* build_attempts of the acquire in progress
          acquires,      \* acquires each connection has yet to begin
          keeper,        \* the keeper's local variables
          blockedSince,  \* UdpReachability.blocked_since
          now,
          warmStarts,    \* ghost: keeper builds since the last activity or success
          lastTrial      \* ghost: when a half-open trial was last claimed

pool == <<sessions, free, building, hasNotify>>
carriers == <<dead, suspect>>
ghosts == <<warmStarts, lastTrial>>
vars == <<pool, carriers, lastActivity, pc, held, attempts, acquires, keeper,
          blockedSince, now, ghosts>>

(* A build in flight; a build that has been counted out, with a Notify to    *)
(* fire or without; and the rest of acquire and ensure_warm.                 *)
Building == {"establish", "probe", "noprobe"}
Notifying == {"notifyOk", "notifyErr"}
Quiet == {"quietOk", "quietErr"}

Init ==
  /\ sessions = <<>> /\ free = [s \in Session |-> StreamLimit]
  /\ dead = {} /\ suspect = {}
  /\ building = 0 /\ hasNotify = FALSE /\ lastActivity = 0
  /\ pc = [t \in Task |-> "idle"] /\ held = [c \in Conn |-> None]
  /\ \E start \in Starts : now = start.time /\ acquires = start.acquires
  /\ attempts = [c \in Conn |-> 0]
  /\ keeper = [wake |-> now + 1, failures |-> 0, next |-> 0, dormant |-> None, act |-> 0]
  /\ blockedSince = None
  /\ warmStarts = 0 /\ lastTrial = None

-----------------------------------------------------------------------------
(* The pool under its lock. *)

(* An idle session has every slot free; only the first few of them are kept. *)
Idle(s) == free[s] = StreamLimit

Reaped ==
  LET alive == SelectSeq(sessions, LAMBDA s : s \notin dead)
      IdleUpTo(i) == Cardinality({j \in 1..i : Idle(alive[j])})
      keep == {alive[i] : i \in {j \in 1..Len(alive) :
                 ~Idle(alive[j]) \/ IdleUpTo(j) <= MaxIdleSessions}}
  IN  SelectSeq(alive, LAMBDA s : s \in keep)

(* The first session, in pool order, that is not suspect and has a slot. *)
FirstFree(pooled) ==
  SelectInSeq(pooled, LAMBDA s : s \notin suspect /\ free[s] > 0)

BuildsAllowed(pooled) == IF pooled = <<>> THEN 1 ELSE MaxBuilds

(* A session nobody refers to, in the pool or in a connection, is dropped.   *)
(* Names are reused, so its flags are cleared then.                          *)
Known(pooled, h) == ToSet(pooled) \cup Range(h)
Forget(pooled, h) ==
  /\ dead' = dead \cap Known(pooled, h)
  /\ suspect' = suspect \cap Known(pooled, h)
Fresh == CHOOSE s \in Session : s \notin Known(sessions, held)

RecentActivity ==
  lastActivity # 0 /\ now - (lastActivity - 1) <= ActiveWindow

-----------------------------------------------------------------------------
(* Connections: ClientMuxPool::acquire. *)

BeginAcquire(c) ==
  /\ pc[c] = "idle" /\ acquires[c] > 0
  /\ lastActivity' = now + 1
  /\ acquires' = [acquires EXCEPT ![c] = @ - 1]
  /\ pc' = [pc EXCEPT ![c] = "lock"]
  /\ warmStarts' = 0
  /\ UNCHANGED <<pool, carriers, held, attempts, keeper, blockedSince, now, lastTrial>>

(* The Notified is created and enabled before the lock is dropped, so from   *)
(* this step on a notify_waiters reaches the task.                           *)
Parked(t, p) == [p EXCEPT ![t] = "parked"]

Acquire(c) ==
  /\ pc[c] = "lock"
  /\ LET pooled == Reaped
         i == FirstFree(pooled)
     IN  /\ sessions' = pooled
         /\ \/ /\ i > 0
               /\ free' = [free EXCEPT ![pooled[i]] = @ - 1]
               /\ held' = [held EXCEPT ![c] = pooled[i]]
               /\ attempts' = [attempts EXCEPT ![c] = 0]
               /\ pc' = [pc EXCEPT ![c] = "using"]
               /\ UNCHANGED <<building, hasNotify>>
            \/ /\ i = 0 /\ building < BuildsAllowed(pooled)
               /\ building' = building + 1
               /\ pc' = [pc EXCEPT ![c] = "establish"]
               /\ UNCHANGED <<free, held, attempts, hasNotify>>
            \/ /\ i = 0 /\ building >= BuildsAllowed(pooled)
               /\ hasNotify' = TRUE
               /\ pc' = Parked(c, pc)
               /\ UNCHANGED <<free, held, attempts, building>>
         /\ Forget(pooled, held')
  /\ UNCHANGED <<lastActivity, acquires, keeper, blockedSince,
                 now, ghosts>>

(* The connection ends and drops its permit. *)
Release(c) ==
  /\ pc[c] = "using"
  /\ free' = [free EXCEPT ![held[c]] = @ + 1]
  /\ held' = [held EXCEPT ![c] = None]
  /\ Forget(sessions, held')
  /\ pc' = [pc EXCEPT ![c] = "idle"]
  /\ UNCHANGED <<sessions, building, hasNotify, lastActivity, attempts,
                 acquires, keeper, blockedSince, now, ghosts>>

(* acquire returned the last build's error. *)
GiveUp(c) ==
  /\ pc[c] = "refused"
  /\ pc' = [pc EXCEPT ![c] = "idle"]
  /\ UNCHANGED <<pool, carriers, lastActivity, held, attempts, acquires, keeper,
                 blockedSince, now, ghosts>>

-----------------------------------------------------------------------------
(* Builds: start_session up to its breaker check, the probe, and the lock.   *)

(* should_attempt_at claims the half-open trial by moving the stamp. *)
TtlExpired == blockedSince # None /\ now - blockedSince >= Ttl
ShouldAttempt == blockedSince = None \/ TtlExpired


TrialClaimed == IF TtlExpired THEN now ELSE blockedSince

Negotiate(t) ==
  /\ pc[t] = "establish"
  /\ blockedSince' = TrialClaimed
  /\ lastTrial' = IF TtlExpired THEN now ELSE lastTrial
  /\ pc' = [pc EXCEPT ![t] = IF ShouldAttempt THEN "probe" ELSE "noprobe"]
  /\ UNCHANGED <<pool, carriers, lastActivity, held, attempts, acquires, keeper, now,
                 warmStarts>>

(* What the probe tells the breaker: usable, unusable, or nothing when the   *)
(* establishment deadline ends the build first.                              *)
ProbeRecorded(t) ==
  blockedSince' \in {blockedSince} \cup (IF pc[t] = "probe" THEN {None, now} ELSE {})

(* Faulty: a failed build stays counted. *)
CountedOutOnSuccess(t, loud, quiet) ==
  /\ building' = IF loud = "notifyOk" THEN building - 1 ELSE building
  /\ pc' = [pc EXCEPT ![t] = IF hasNotify THEN loud ELSE quiet]

(* build_and_reserve and ensure_warm take the lock again, count the build    *)
(* out and read build_notify; the wake-up itself comes after the unlock.     *)
CountedOut(t, loud, quiet) ==
  /\ building' = building - 1
  /\ pc' = [pc EXCEPT ![t] = IF hasNotify THEN loud ELSE quiet]

LandOk(t) ==
  LET s == Fresh
  IN  /\ pc[t] \in {"probe", "noprobe"}
      /\ CountedOut(t, "notifyOk", "quietOk")
      /\ sessions' = Append(sessions, s)
      /\ free' = [free EXCEPT ![s] = IF t = Keeper THEN StreamLimit ELSE StreamLimit - 1]
      /\ held' = IF t = Keeper THEN held ELSE [held EXCEPT ![t] = s]
      /\ warmStarts' = 0

(* Connecting, the handshake, the identity check or a write may fail, the    *)
(* deadline may pass, the task may panic: all of them are an error here.     *)
LandErr(t) ==
  /\ pc[t] \in Building
  /\ CountedOut(t, "notifyErr", "quietErr")
  /\ UNCHANGED <<sessions, free, held, warmStarts>>

Land(t) ==
  /\ LandOk(t) \/ LandErr(t)
  /\ ProbeRecorded(t)
  /\ UNCHANGED <<hasNotify, carriers, lastActivity, attempts, acquires, keeper, now,
                 lastTrial>>

(* Faulty: a failed build wakes nobody. *)
WokenOnSuccess(t, p) ==
  [u \in Task |-> IF p[u] = "parked" /\ p[t] = "notifyOk" THEN "lock" ELSE p[u]]

(* notify_waiters, if a Notify existed when the lock was held. *)
Woken(t, p) ==
  [u \in Task |-> IF p[u] = "parked" /\ p[t] \in Notifying THEN "lock" ELSE p[u]]

ConnNotify(c) ==
  LET woken == Woken(c, pc)
      tried == attempts[c] + 1
      out == tried >= MaxBuildAttempts
  IN  /\ \/ /\ pc[c] \in {"notifyOk", "quietOk"}
            /\ pc' = [woken EXCEPT ![c] = "using"]
            /\ attempts' = [attempts EXCEPT ![c] = 0]
         \/ /\ pc[c] \in {"notifyErr", "quietErr"}
            /\ pc' = [woken EXCEPT ![c] = IF out THEN "refused" ELSE "lock"]
            /\ attempts' = [attempts EXCEPT ![c] = IF out THEN 0 ELSE tried]
      /\ UNCHANGED <<pool, carriers, lastActivity, held, acquires, keeper,
                     blockedSince, now, ghosts>>

-----------------------------------------------------------------------------
(* The warm keeper: start_keeper and ensure_warm. *)

Sleeping(k) == [k EXCEPT !.wake = now + 1, !.act = 0]
Reset(k) == [k EXCEPT !.failures = 0, !.next = 0]
Forgotten(k) == [Reset(k) EXCEPT !.dormant = None]

(* Faulty: an arrival at the time of giving up wakes the keeper. *)
DormantStrictly(k) == k.dormant # None /\ lastActivity < k.dormant

(* Gave up, and no connection has come since. *)
Dormant(k) == k.dormant # None /\ lastActivity <= k.dormant

(* One turn of the keeper's loop, up to ensure_warm. *)
KeeperTick ==
  LET k == IF keeper.dormant # None THEN Forgotten(keeper) ELSE keeper
  IN  /\ pc[Keeper] = "idle" /\ now >= keeper.wake
      /\ sessions' = Reaped /\ Forget(sessions', held)
      /\ \/ /\ sessions' # <<>> \/ ~RecentActivity
            /\ keeper' = Sleeping(Forgotten(keeper)) /\ UNCHANGED pc
         \/ /\ sessions' = <<>> /\ RecentActivity
            /\ Dormant(keeper)
            /\ keeper' = Sleeping(keeper) /\ UNCHANGED pc
         \/ /\ sessions' = <<>> /\ RecentActivity
            /\ ~Dormant(keeper) /\ now < k.next
            /\ keeper' = Sleeping(k) /\ UNCHANGED pc
         \/ /\ sessions' = <<>> /\ RecentActivity
            /\ ~Dormant(keeper) /\ now >= k.next
            /\ keeper' = [k EXCEPT !.act = lastActivity]
            /\ pc' = [pc EXCEPT ![Keeper] = "lock"]
      /\ UNCHANGED <<free, building, hasNotify, lastActivity, held, attempts,
                     acquires, blockedSince, now, ghosts>>

EnsureWarm ==
  /\ pc[Keeper] = "lock"
  /\ \/ /\ ~RecentActivity
        /\ keeper' = Sleeping(Reset(keeper))
        /\ pc' = [pc EXCEPT ![Keeper] = "idle"]
        /\ UNCHANGED <<pool, carriers, warmStarts>>
     \/ /\ RecentActivity
        /\ sessions' = Reaped /\ Forget(sessions', held)
        /\ \/ /\ sessions' # <<>>
              /\ keeper' = Sleeping(Reset(keeper))
              /\ pc' = [pc EXCEPT ![Keeper] = "idle"]
              /\ UNCHANGED <<building, hasNotify, warmStarts>>
           \/ /\ sessions' = <<>> /\ building = 0
              /\ building' = 1
              /\ pc' = [pc EXCEPT ![Keeper] = "establish"]
              /\ warmStarts' = IF keeper.act = lastActivity THEN warmStarts + 1 ELSE 0
              /\ UNCHANGED <<hasNotify, keeper>>
           \/ /\ sessions' = <<>> /\ building > 0
              /\ hasNotify' = TRUE
              /\ pc' = Parked(Keeper, pc)
              /\ UNCHANGED <<building, keeper, warmStarts>>
        /\ UNCHANGED free
  /\ UNCHANGED <<lastActivity, held, attempts, acquires, blockedSince, now,
                 lastTrial>>

(* Exponential back-off in intervals, with jitter of a quarter either way:   *)
(* the ticks after which the back-off is over.                               *)
Least(a, b) == IF a < b THEN a ELSE b
Backoff(failures) == Least(2 ^ Least(failures, 4), MaxBackoff)
Jittered(b) == ((3 * b + 3) \div 4)..((5 * b + 3) \div 4)

Failed(k, wait) ==
  [k EXCEPT !.failures = @ + 1, !.next = now + wait,
            !.dormant = IF k.failures + 1 >= MaxFailures THEN k.act ELSE @]

KeeperNotify ==
  /\ pc[Keeper] \in Notifying \cup Quiet
  /\ pc' = [Woken(Keeper, pc) EXCEPT ![Keeper] = "idle"]
  /\ \/ /\ pc[Keeper] \in {"notifyOk", "quietOk"}
        /\ keeper' = Sleeping(Reset(keeper))
     \/ /\ pc[Keeper] \in {"notifyErr", "quietErr"}
        /\ \E wait \in Jittered(Backoff(keeper.failures + 1)) :
             keeper' = Sleeping(Failed(keeper, wait))
  /\ UNCHANGED <<pool, carriers, lastActivity, held, attempts, acquires, blockedSince,
                 now, ghosts>>

-----------------------------------------------------------------------------
(* The carriers, and time. *)

CarrierDies(s) ==
  /\ s \in Known(sessions, held) \ dead
  /\ dead' = dead \cup {s}
  /\ UNCHANGED <<pool, suspect, lastActivity, pc, held, attempts, acquires,
                 keeper, blockedSince, now, ghosts>>

(* The reader's watchdog marks a silent carrier; a proof of life clears it.  *)
CarrierSuspect(s) ==
  /\ s \in ToSet(sessions) \ dead
  /\ \/ s \notin suspect /\ ~Idle(s) /\ suspect' = suspect \cup {s}
     \/ s \in suspect /\ suspect' = suspect \ {s}
  /\ UNCHANGED <<pool, dead, lastActivity, pc, held, attempts, acquires,
                 keeper, blockedSince, now, ghosts>>

Tick ==
  /\ now < MaxTime /\ now' = now + 1
  /\ UNCHANGED <<pool, carriers, lastActivity, pc, held, attempts, acquires, keeper,
                 blockedSince, ghosts>>

ConnStep(c) == Acquire(c) \/ Negotiate(c) \/ Land(c) \/ ConnNotify(c)
KeeperStep == EnsureWarm \/ Negotiate(Keeper) \/ Land(Keeper) \/ KeeperNotify

Next ==
  \/ \E c \in Conn : BeginAcquire(c) \/ ConnStep(c) \/ Release(c) \/ GiveUp(c)
  \/ KeeperTick \/ KeeperStep
  \/ \E s \in Session : CarrierDies(s) \/ CarrierSuspect(s)
  \/ Tick

(* Woken tasks are polled, and an establishment ends within its deadline.    *)
Fairness == (\A c \in Conn : WF_vars(ConnStep(c))) /\ WF_vars(KeeperStep)

Spec == Init /\ [][Next]_vars /\ Fairness

-----------------------------------------------------------------------------
(* A task parked on build_notify is always waiting for a build that is in    *)
(* flight, or for a notification about to be sent (runtime.rs:1005, 1021): the   *)
(* count of builds is exact, and no wake-up is lost between the unlock and   *)
(* the await, whether the build succeeds, fails or panics.                   *)
NoStrandedWaiter ==
  LET inFlight == {t \in Task : pc[t] \in Building}
  IN  /\ building = Cardinality(inFlight)
      /\ (\E t \in Task : pc[t] = "parked") =>
           \/ hasNotify /\ inFlight # {}
           \/ \E t \in Task : pc[t] \in Notifying

(* After its attempts have failed, the keeper stays silent until a           *)
(* connection arrives: between two arrivals or successes it starts at most   *)
(* MaxFailures handshakes knowing of the last arrival (runtime.rs:1184).     *)
KeeperGivesUp == warmStarts <= MaxFailures


(* Every acquire ends, in a slot or in an error: nobody waits for a slot     *)
(* that no build will bring (runtime.rs:943).  Connections begin finitely    *)
(* many acquires, so in the end none is under way.                           *)
AcquireEnds ==
  <>[](\A c \in Conn :
         pc[c] \notin {"lock", "parked"} \cup Building \cup Notifying \cup Quiet)

=============================================================================
