--------------------------- MODULE SourceLimiter ---------------------------
(***************************************************************************)
(* The per-source concurrency limiter of handshake/source_limit.rs: the   *)
(* data behind its mutex and the two critical sections that change it,    *)
(* try_admit and the drop of a SourcePermit.  Each is an operator on the  *)
(* guarded record, so that a module which composes the limiter with the   *)
(* accept loop takes one lock per step, as the code does.                 *)
(*                                                                        *)
(* An address is represented by the key key_for masks it to; AggKey gives *)
(* the /48 roll-up of an IPv6 key.                                        *)
(***************************************************************************)
EXTENDS Integers, Sequences, FiniteSets

CONSTANTS
  Source,       \* the source keys: IPv4 addresses and masked IPv6 prefixes
  Prefix,       \* the /48 aggregates
  AggKey,       \* [the IPv6 keys -> Prefix], agg_key_for
  CapV4,        \* max_concurrent_per_source_v4
  CapV6,        \* max_concurrent_per_source_v6
  AggFanout,    \* AGG_V6_FANOUT
  MaxEntries,   \* max_entries
  IdleGrace,    \* SOURCE_IDLE_GRACE
  PruneBudget,  \* PRUNE_BUDGET
  None

V6Source == DOMAIN AggKey

ASSUME SourceAssumption ==
  /\ IsFiniteSet(Source) /\ IsFiniteSet(Prefix)
  /\ AggKey \in [V6Source -> Prefix] /\ V6Source \subseteq Source
  /\ CapV4 \in Nat /\ CapV6 \in Nat /\ AggFanout \in Nat
  /\ MaxEntries \in Nat \ {0} /\ IdleGrace \in Nat /\ PruneBudget \in Nat
  /\ None \notin Nat

Instant == Nat

\* struct Entry
Entry == [active : Nat, idleSince : Instant \cup {None}]

\* struct Inner; the two hash maps are functions on the keys they hold.
IsInner(inner) ==
  /\ inner = [map |-> inner.map, idleLog |-> inner.idleLog, aggV6 |-> inner.aggV6]
  /\ DOMAIN inner.map \subseteq Source /\ inner.map \in [DOMAIN inner.map -> Entry]
  /\ inner.idleLog \in Seq(Source \X Instant)
  /\ DOMAIN inner.aggV6 \subseteq Prefix /\ inner.aggV6 \in [DOMAIN inner.aggV6 -> Nat]

EmptyInner == [map |-> [s \in {} |-> None], idleLog |-> <<>>, aggV6 |-> [p \in {} |-> 0]]

CapFor(s) == IF s \in V6Source THEN CapV6 ELSE CapV4

ActiveOf(inner, s) == IF s \in DOMAIN inner.map THEN inner.map[s].active ELSE 0

AggOf(inner, p) == IF p \in DOMAIN inner.aggV6 THEN inner.aggV6[p] ELSE 0

-----------------------------------------------------------------------------

\* Faulty: EvictedBy, as if a record evicted whatever entry its key has by now.
EvictedByKey(inner, j) ==
  {s \in DOMAIN inner.map : \E i \in 1..j : inner.idleLog[i][1] = s}

\* The keys drain_front_idle_record evicts when it is called j times: an entry
\* goes when it is idle since the very instant one of the popped records names.
EvictedBy(inner, j) ==
  {s \in DOMAIN inner.map :
      /\ inner.map[s].active = 0
      /\ \E i \in 1..j : inner.idleLog[i] = <<s, inner.map[s].idleSince>>}

\* `inner` after j calls of drain_front_idle_record.
DrainFront(inner, j) ==
  [map |-> [s \in DOMAIN inner.map \ EvictedBy(inner, j) |-> inner.map[s]],
   idleLog |-> SubSeq(inner.idleLog, j + 1, Len(inner.idleLog)),
   aggV6 |-> inner.aggV6]

\* The loop of prune_locked leaves off after j records: the next one is neither
\* expired nor is the map still over its bound.
StopsAt(inner, j, now) ==
  /\ now - inner.idleLog[j + 1][2] < IdleGrace
  /\ Cardinality(DOMAIN DrainFront(inner, j).map) <= MaxEntries

PruneLocked(inner, now) ==
  LET most == IF Len(inner.idleLog) < PruneBudget THEN Len(inner.idleLog) ELSE PruneBudget
      last == {j \in 0..most : j = most \/ StopsAt(inner, j, now)}
  IN  DrainFront(inner, CHOOSE j \in last : \A i \in last : j <= i)

\* try_admit refuses the source: its /48 aggregate or the source is at its cap.
AtCap(inner, s) ==
  \/ s \in V6Source /\ AggOf(inner, AggKey[s]) >= CapV6 * AggFanout
  \/ ActiveOf(inner, s) >= CapFor(s)

\* f with f[x] = v, whether or not x was in its domain.
Put(f, x, v) == [y \in DOMAIN f \cup {x} |-> IF y = x THEN v ELSE f[y]]

\* The admitted branch of try_admit.
Admitted(inner, s) ==
  [map |-> Put(inner.map, s, [active |-> ActiveOf(inner, s) + 1, idleSince |-> None]),
   idleLog |-> inner.idleLog,
   aggV6 |-> IF s \in V6Source THEN Put(inner.aggV6, AggKey[s], AggOf(inner, AggKey[s]) + 1)
             ELSE inner.aggV6]

\* Faulty: TryAdmit creating the entry before the cap is checked.
TryAdmitInsertingFirst(inner, s, now) ==
  LET pruned == PruneLocked(inner, now)
      entered == IF s \in DOMAIN pruned.map THEN pruned
                 ELSE [pruned EXCEPT !.map = Put(@, s, [active |-> 0, idleSince |-> None])]
  IN  IF AtCap(pruned, s) THEN entered ELSE Admitted(pruned, s)

\* try_admit, for a connection from source s; it refuses exactly when AtCap.
TryAdmit(inner, s, now) ==
  LET pruned == PruneLocked(inner, now)
  IN  IF AtCap(pruned, s) THEN pruned ELSE Admitted(pruned, s)

\* The aggregate after a drop: decremented, and removed when it reaches zero.
AggReleased(inner, s) ==
  LET agg == inner.aggV6
      p == AggKey[s]
  IN  IF s \notin V6Source \/ p \notin DOMAIN agg THEN agg
      ELSE IF agg[p] <= 1 THEN [q \in DOMAIN agg \ {p} |-> agg[q]]
      ELSE [agg EXCEPT ![p] = @ - 1]

\* Drop for SourcePermit, for the instant `now` it read before taking the lock.
Released(inner, s, now) ==
  LET left == IF ActiveOf(inner, s) > 0 THEN ActiveOf(inner, s) - 1 ELSE 0
      idle == s \in DOMAIN inner.map /\ left = 0
      fewer == [active |-> left, idleSince |-> IF idle THEN now ELSE inner.map[s].idleSince]
      less == [map |-> IF s \in DOMAIN inner.map THEN Put(inner.map, s, fewer) ELSE inner.map,
               idleLog |-> IF idle THEN Append(inner.idleLog, <<s, now>>) ELSE inner.idleLog,
               aggV6 |-> AggReleased(inner, s)]
      over == IF idle /\ Len(less.idleLog) > MaxEntries THEN Len(less.idleLog) - MaxEntries ELSE 0
  IN  DrainFront(less, over)

=============================================================================
