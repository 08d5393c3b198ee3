--------------------------- MODULE AdmissionProofs ---------------------------
(***************************************************************************)
(* The proofs about the accept loop and the limiter.  The first part says *)
(* what each critical section of the limiter does to the counts it keeps; *)
(* the second what a step does to the permits that are out; the third puts *)
(* them together.                                                         *)
(***************************************************************************)
EXTENDS Admission, FiniteSetTheorems, WellFoundedInduction, TLAPS

\* An idle entry has the log record that will evict it, an active one has no
\* idle instant, and no aggregate is kept at zero.
Logged(in) ==
  /\ IsInner(in)
  /\ \A s \in DOMAIN in.map :
       IF in.map[s].active = 0
         THEN \E i \in DOMAIN in.idleLog : in.idleLog[i] = <<s, in.map[s].idleSince>>
         ELSE in.map[s].idleSince = None
  /\ \A p \in DOMAIN in.aggV6 : in.aggV6[p] > 0

\* A record with the three fields of Inner is one when the fields have their types.
LEMMA InnerIs ==
  ASSUME NEW m, NEW l, NEW a,
         DOMAIN m \subseteq Source, m \in [DOMAIN m -> Entry],
         l \in Seq(Source \X Instant),
         DOMAIN a \subseteq Prefix, a \in [DOMAIN a -> Nat]
  PROVE  IsInner([map |-> m, idleLog |-> l, aggV6 |-> a])
BY DEF IsInner

\* drain_front_idle_record evicts idle entries only, so no count changes, and the
\* records it keeps are those of the entries it keeps.
LEMMA DrainKeeps ==
  ASSUME NEW in, Logged(in), NEW j \in 0..Len(in.idleLog)
  PROVE  /\ Logged(DrainFront(in, j))
         /\ Len(DrainFront(in, j).idleLog) = Len(in.idleLog) - j
         /\ DOMAIN DrainFront(in, j).map = DOMAIN in.map \ EvictedBy(in, j)
         /\ \A s : ActiveOf(DrainFront(in, j), s) = ActiveOf(in, s)
         /\ \A p : AggOf(DrainFront(in, j), p) = AggOf(in, p)
<1> DEFINE d == DrainFront(in, j)
           m == [s \in DOMAIN in.map \ EvictedBy(in, j) |-> in.map[s]]
           l == SubSeq(in.idleLog, j + 1, Len(in.idleLog))
<1>1. IsInner(in)
  BY DEF Logged
<1>3. /\ in.idleLog \in Seq(Source \X Instant)
      /\ DOMAIN in.map \subseteq Source /\ in.map \in [DOMAIN in.map -> Entry]
      /\ DOMAIN in.aggV6 \subseteq Prefix /\ in.aggV6 \in [DOMAIN in.aggV6 -> Nat]
  BY <1>1 DEF IsInner
<1>j. j \in Nat
  BY <1>3
<1>d. d = [map |-> m, idleLog |-> l, aggV6 |-> in.aggV6]
  BY DEF DrainFront
<1>2. d.map = m /\ d.idleLog = l /\ d.aggV6 = in.aggV6
  BY <1>d
<1>4. /\ l \in Seq(Source \X Instant) /\ Len(l) = Len(in.idleLog) - j
      /\ \A i \in 1..Len(l) : l[i] = in.idleLog[j + i]
  BY <1>3
<1>5. DOMAIN m \subseteq Source /\ m \in [DOMAIN m -> Entry]
  BY <1>3
<1>6. IsInner(d)
  <2> HIDE DEF d, m, l
  <2>1. IsInner([map |-> m, idleLog |-> l, aggV6 |-> in.aggV6])
    BY <1>3, <1>4, <1>5, InnerIs
  <2> QED
    BY <2>1, <1>d
<1>7. ASSUME NEW s \in DOMAIN d.map
      PROVE  IF d.map[s].active = 0
               THEN \E i \in DOMAIN d.idleLog : d.idleLog[i] = <<s, d.map[s].idleSince>>
               ELSE d.map[s].idleSince = None
  <2>1. s \in DOMAIN in.map /\ s \notin EvictedBy(in, j) /\ d.map[s] = in.map[s]
    BY <1>2
  <2>2. CASE in.map[s].active = 0
    <3>1. PICK i \in DOMAIN in.idleLog : in.idleLog[i] = <<s, in.map[s].idleSince>>
      BY Zenon, <2>1, <2>2 DEF Logged
    <3>2. i \in 1..Len(in.idleLog)
      BY <1>3
    <3>3. i > j
      BY <2>1, <2>2, <3>1, <3>2 DEF EvictedBy
    <3>4. (i - j) \in 1..Len(l) /\ l[i - j] = in.idleLog[i]
      BY SMTT(30), <1>4, <3>2, <3>3
    <3>5. DOMAIN l = 1..Len(l)
      BY <1>4
    <3> HIDE DEF l
    <3>6. (i - j) \in DOMAIN d.idleLog /\ d.idleLog[i - j] = <<s, d.map[s].idleSince>>
      BY <1>2, <2>1, <3>1, <3>4, <3>5
    <3> HIDE DEF d
    <3> QED
      BY <2>1, <2>2, <3>6
  <2>3. CASE in.map[s].active # 0
    BY <2>1, <2>3 DEF Logged
  <2> QED
    BY <2>2, <2>3
<1>8. Logged(d)
  BY Zenon, <1>2, <1>6, <1>7 DEF Logged
<1>9. \A s : ActiveOf(d, s) = ActiveOf(in, s)
  BY <1>2 DEF ActiveOf, EvictedBy
<1>10. \A p : AggOf(d, p) = AggOf(in, p)
  BY <1>2 DEF AggOf
<1> QED
  BY <1>2, <1>4, <1>8, <1>9, <1>10

\* A set of naturals that is not empty has a least element.
LEMMA LeastExists ==
  ASSUME NEW S, S \subseteq Nat, S # {}
  PROVE  \E k \in S : \A i \in S : k <= i
<1>1. PICK k \in S : \A i \in S : ~(<<i, k>> \in OpToRel(<, Nat))
  BY WFMin, NatLessThanWellFounded, Zenon
<1>2. ASSUME NEW i \in S PROVE k <= i
  <2>1. <<i, k>> \in OpToRel(<, Nat) <=> i < k
    BY DEF OpToRel
  <2>2. ~(i < k)
    BY <1>1, <2>1, Zenon
  <2> QED
    BY <2>2
<1> QED
  BY <1>2

\* prune_locked is some number j of calls of drain_front_idle_record, and it made
\* the one that popped record i because the record was expired or the map still
\* over its bound.
LEMMA PruneIs ==
  ASSUME NEW in, Logged(in), NEW now \in Instant
  PROVE  \E j \in 0..Len(in.idleLog) :
           /\ PruneLocked(in, now) = DrainFront(in, j)
           /\ \A i \in 1..j :
                \/ now - in.idleLog[i][2] >= IdleGrace
                \/ Cardinality(DOMAIN DrainFront(in, i - 1).map) > MaxEntries
<1> DEFINE most == IF Len(in.idleLog) < PruneBudget THEN Len(in.idleLog) ELSE PruneBudget
           last == {j \in 0..most : j = most \/ StopsAt(in, j, now)}
           j == CHOOSE k \in last : \A i \in last : k <= i
<1>1. in.idleLog \in Seq(Source \X Instant) /\ IsInner(in)
  BY DEF Logged, IsInner
<1>2. most \in Nat /\ most <= Len(in.idleLog)
  BY <1>1, SourceAssumption
<1> HIDE DEF most
<1>3. last \subseteq Nat /\ last # {}
  <2>1. most \in 0..most /\ 0..most \subseteq Nat
    BY <1>2
  <2>2. most \in last
    BY <2>1, Zenon
  <2> HIDE DEF last
  <2>3. last \subseteq 0..most
    BY DEF last
  <2> QED
    BY <2>1, <2>2, <2>3
<1>4. \E k \in last : \A i \in last : k <= i
  BY <1>3, LeastExists, Zenon
<1>5. j \in last /\ \A i \in last : j <= i
  BY <1>4
<1>6. j \in 0..most
  BY <1>5
<1>7. PruneLocked(in, now) = DrainFront(in, j)
  BY DEF PruneLocked, most
<1> HIDE DEF j
<1>8. ASSUME NEW i \in 1..j
      PROVE  \/ now - in.idleLog[i][2] >= IdleGrace
             \/ Cardinality(DOMAIN DrainFront(in, i - 1).map) > MaxEntries
  <2>1. (i - 1) \in 0..most /\ i - 1 < j /\ i \in 1..Len(in.idleLog) /\ (i - 1) + 1 = i
    BY <1>2, <1>6, <1>1
  <2>2. ~StopsAt(in, i - 1, now)
    <3>1. (i - 1) \notin last
      BY <1>5, <1>6, <2>1, <1>2
    <3> QED
      BY <3>1, <2>1
  <2>3. now - in.idleLog[i][2] \in Int
    BY <1>1, <2>1 DEF Instant
  <2>4. Cardinality(DOMAIN DrainFront(in, i - 1).map) \in Nat
    <3>1. DOMAIN DrainFront(in, i - 1).map \subseteq Source
      BY <1>1 DEF DrainFront, IsInner
    <3> QED
      BY <3>1, SourceAssumption, FS_Subset, FS_CardinalityType
  <2> DEFINE lag == now - in.idleLog[i][2]
             size == Cardinality(DOMAIN DrainFront(in, i - 1).map)
  <2>5. ~(lag < IdleGrace /\ size <= MaxEntries)
    BY <2>1, <2>2 DEF StopsAt
  <2> HIDE DEF lag, size
  <2>6. lag >= IdleGrace \/ size > MaxEntries
    BY <2>3, <2>4, <2>5, SourceAssumption DEF lag, size
  <2> QED
    BY <2>6 DEF lag, size
<1> QED
  BY <1>2, <1>6, <1>7, <1>8, <1>1

\* Put gives a function into S when f and v are.
LEMMA PutType ==
  ASSUME NEW S, NEW f, f \in [DOMAIN f -> S], NEW x, NEW v \in S
  PROVE  Put(f, x, v) \in [DOMAIN Put(f, x, v) -> S]
BY DEF Put

\* The admitted branch of try_admit counts one more connection of the source and
\* of its /48.
LEMMA AdmitKeeps ==
  ASSUME NEW in, Logged(in), NEW s \in Source
  PROVE  /\ Logged(Admitted(in, s))
         /\ Admitted(in, s).idleLog = in.idleLog
         /\ DOMAIN Admitted(in, s).map = DOMAIN in.map \cup {s}
         /\ ActiveOf(Admitted(in, s), s) = ActiveOf(in, s) + 1
         /\ \A t : t # s => ActiveOf(Admitted(in, s), t) = ActiveOf(in, t)
         /\ \A p : AggOf(Admitted(in, s), p) =
                   IF s \in V6Source /\ p = AggKey[s] THEN AggOf(in, p) + 1 ELSE AggOf(in, p)
<1> DEFINE e == [active |-> ActiveOf(in, s) + 1, idleSince |-> None]
           m == Put(in.map, s, e)
           a == IF s \in V6Source THEN Put(in.aggV6, AggKey[s], AggOf(in, AggKey[s]) + 1)
                ELSE in.aggV6
           d == Admitted(in, s)
<1>d. d = [map |-> m, idleLog |-> in.idleLog, aggV6 |-> a]
  BY DEF Admitted
<1>1. IsInner(in)
  BY DEF Logged
<1>2. /\ in.idleLog \in Seq(Source \X Instant)
      /\ DOMAIN in.map \subseteq Source /\ in.map \in [DOMAIN in.map -> Entry]
      /\ DOMAIN in.aggV6 \subseteq Prefix /\ in.aggV6 \in [DOMAIN in.aggV6 -> Nat]
  BY <1>1 DEF IsInner
<1>3. ActiveOf(in, s) \in Nat
  BY <1>2 DEF ActiveOf, Entry
<1>4. e \in Entry /\ e.active = ActiveOf(in, s) + 1 /\ e.active # 0 /\ e.idleSince = None
  BY <1>3 DEF Entry
<1> HIDE DEF e
<1>5. DOMAIN m = DOMAIN in.map \cup {s} /\ m[s] = e /\ \A t \in DOMAIN in.map : t # s => m[t] = in.map[t]
  BY DEF Put
<1>6. DOMAIN m \subseteq Source /\ m \in [DOMAIN m -> Entry]
  <2>1. m \in [DOMAIN m -> Entry]
    BY <1>2, <1>4, PutType, Zenon
  <2> QED
    BY <2>1, <1>2, <1>5
<1>7. /\ DOMAIN a \subseteq Prefix /\ a \in [DOMAIN a -> Nat]
      /\ \A p \in DOMAIN a : a[p] > 0
      /\ \A p : (IF p \in DOMAIN a THEN a[p] ELSE 0) =
               IF s \in V6Source /\ p = AggKey[s] THEN AggOf(in, p) + 1 ELSE AggOf(in, p)
  <2>0. \A p \in DOMAIN in.aggV6 : in.aggV6[p] > 0
    BY DEF Logged
  <2>1. CASE s \in V6Source
    <3> DEFINE v == AggOf(in, AggKey[s]) + 1
    <3>1. AggOf(in, AggKey[s]) \in Nat /\ AggKey[s] \in Prefix
      BY <1>2, <2>1, SourceAssumption DEF AggOf
    <3>2. v \in Nat /\ v > 0
      BY <3>1
    <3>3. a = Put(in.aggV6, AggKey[s], v)
      BY <2>1
    <3>v. v = AggOf(in, AggKey[s]) + 1
      OBVIOUS
    <3> HIDE DEF v, a
    <3>4. /\ DOMAIN a = DOMAIN in.aggV6 \cup {AggKey[s]} /\ a[AggKey[s]] = v
          /\ \A q \in DOMAIN in.aggV6 : q # AggKey[s] => a[q] = in.aggV6[q]
      BY <3>3 DEF Put
    <3>5. DOMAIN a \subseteq Prefix /\ a \in [DOMAIN a -> Nat] /\ \A p \in DOMAIN a : a[p] > 0
      <4>1. \A q \in DOMAIN a : a[q] \in Nat /\ a[q] > 0
        BY <1>2, <2>0, <3>2, <3>4
      <4>2. a \in [DOMAIN a -> Nat]
        BY <1>2, <3>2, <3>3, PutType, Zenon
      <4> QED
        BY <4>1, <4>2, <3>4, <3>1, <1>2
    <3> QED
      BY <3>4, <3>5, <3>v, <2>1 DEF AggOf
  <2>2. CASE s \notin V6Source
    BY <1>2, <2>2, <2>0 DEF AggOf
  <2> QED
    BY <2>1, <2>2
<1> HIDE DEF m, a, d
<1>8. d.map = m /\ d.idleLog = in.idleLog /\ d.aggV6 = a
  BY <1>d
<1>9. IsInner(d)
  <2>1. IsInner([map |-> m, idleLog |-> in.idleLog, aggV6 |-> a])
    BY <1>2, <1>6, <1>7, InnerIs
  <2> QED
    BY <2>1, <1>d
<1>10. Logged(d)
  <2>1. ASSUME NEW t \in DOMAIN m
        PROVE  IF m[t].active = 0
                 THEN \E i \in DOMAIN in.idleLog : in.idleLog[i] = <<t, m[t].idleSince>>
                 ELSE m[t].idleSince = None
    <3>1. CASE t = s
      BY <1>4, <1>5, <3>1
    <3>2. CASE t # s
      BY <1>5, <3>2 DEF Logged
    <3> QED
      BY <3>1, <3>2
  <2> QED
    BY Zenon, <1>7, <1>8, <1>9, <2>1 DEF Logged
<1>11. ActiveOf(d, s) = ActiveOf(in, s) + 1 /\ \A t : t # s => ActiveOf(d, t) = ActiveOf(in, t)
  BY <1>8, <1>5, <1>4 DEF ActiveOf
<1>12. \A p : AggOf(d, p) =
            IF s \in V6Source /\ p = AggKey[s] THEN AggOf(in, p) + 1 ELSE AggOf(in, p)
  BY <1>7, <1>8 DEF AggOf
<1> QED
  BY <1>5, <1>8, <1>10, <1>11, <1>12 DEF d

\* The aggregate of a /48 after the drop of one of its permits.
LEMMA AggReleasedIs ==
  ASSUME NEW in, Logged(in), NEW s \in Source,
         s \in V6Source => AggOf(in, AggKey[s]) > 0
  PROVE  LET a == AggReleased(in, s)
         IN  /\ DOMAIN a \subseteq Prefix /\ a \in [DOMAIN a -> Nat]
             /\ \A p \in DOMAIN a : a[p] > 0
             /\ \A p : (IF p \in DOMAIN a THEN a[p] ELSE 0) =
                  IF s \in V6Source /\ p = AggKey[s] THEN AggOf(in, p) - 1 ELSE AggOf(in, p)
<1> DEFINE g == in.aggV6
           a == AggReleased(in, s)
           q == AggKey[s]
<1>1. DOMAIN g \subseteq Prefix /\ g \in [DOMAIN g -> Nat] /\ \A p \in DOMAIN g : g[p] > 0
  BY DEF Logged, IsInner
<1>2. \A p : AggOf(in, p) = IF p \in DOMAIN g THEN g[p] ELSE 0
  BY DEF AggOf
<1>3. a = IF s \notin V6Source \/ q \notin DOMAIN g THEN g
          ELSE IF g[q] <= 1 THEN [p \in DOMAIN g \ {q} |-> g[p]]
          ELSE [g EXCEPT ![q] = @ - 1]
  BY DEF AggReleased
<1> HIDE DEF g, a, q
<1>4. CASE s \notin V6Source
  BY <1>1, <1>2, <1>3, <1>4 DEF a
<1>5. CASE s \in V6Source
  <2>1. q \in DOMAIN g /\ g[q] \in Nat /\ AggOf(in, q) = g[q]
    BY <1>1, <1>2, <1>5 DEF q
  <2>2. CASE g[q] <= 1
    <3>1. a = [p \in DOMAIN g \ {q} |-> g[p]]
      BY <1>3, <1>5, <2>1, <2>2
    <3>2. g[q] = 1
      BY <1>1, <2>1, <2>2
    <3> QED
      BY <1>1, <1>2, <1>5, <2>1, <3>1, <3>2 DEF q, a
  <2>3. CASE ~(g[q] <= 1)
    <3>1. a = [g EXCEPT ![q] = g[q] - 1] /\ g[q] - 1 \in Nat /\ g[q] - 1 > 0
      BY <1>3, <1>5, <2>1, <2>3
    <3>2. DOMAIN a = DOMAIN g /\ a[q] = g[q] - 1 /\ \A p \in DOMAIN g : p # q => a[p] = g[p]
      BY <3>1, <2>1, <1>1
    <3>3. a \in [DOMAIN a -> Nat]
      BY <3>1, <3>2, <1>1
    <3> QED
      BY <1>1, <1>2, <1>5, <2>1, <3>1, <3>2, <3>3 DEF q, a
  <2> QED
    BY <2>2, <2>3
<1> QED
  BY <1>4, <1>5

\* The drop of a SourcePermit counts one connection of the source and of its /48
\* less.  It evicts an entry only when the log was full.
LEMMA ReleaseKeeps ==
  ASSUME NEW in, Logged(in), Len(in.idleLog) <= MaxEntries,
         NEW s \in Source, NEW now \in Instant, ActiveOf(in, s) > 0,
         s \in V6Source => AggOf(in, AggKey[s]) > 0
  PROVE  LET r == Released(in, s, now)
         IN  /\ Logged(r) /\ Len(r.idleLog) <= MaxEntries
             /\ ActiveOf(r, s) = ActiveOf(in, s) - 1
             /\ \A t : t # s => ActiveOf(r, t) = ActiveOf(in, t)
             /\ \A p : AggOf(r, p) =
                  IF s \in V6Source /\ p = AggKey[s] THEN AggOf(in, p) - 1 ELSE AggOf(in, p)
             /\ DOMAIN in.map \subseteq DOMAIN r.map \/ Len(in.idleLog) = MaxEntries
<1> DEFINE left == ActiveOf(in, s) - 1
           idle == left = 0
           fewer == [active |-> left, idleSince |-> IF idle THEN now ELSE in.map[s].idleSince]
           m == Put(in.map, s, fewer)
           l == IF idle THEN Append(in.idleLog, <<s, now>>) ELSE in.idleLog
           a == AggReleased(in, s)
           less == [map |-> m, idleLog |-> l, aggV6 |-> a]
           over == IF idle /\ Len(l) > MaxEntries THEN Len(l) - MaxEntries ELSE 0
           r == Released(in, s, now)
<1>1. /\ in.idleLog \in Seq(Source \X Instant) /\ Len(in.idleLog) \in Nat
      /\ DOMAIN in.map \subseteq Source /\ in.map \in [DOMAIN in.map -> Entry]
  BY DEF Logged, IsInner
<1>2. s \in DOMAIN in.map /\ in.map[s] \in Entry /\ ActiveOf(in, s) = in.map[s].active
  BY <1>1 DEF ActiveOf
<1>3. in.map[s].active \in Nat /\ in.map[s].idleSince = None
  <2>1. in.map[s].active \in Nat
    BY <1>2 DEF Entry
  <2> QED
    BY <1>2, <2>1 DEF Logged
<1>4. left \in Nat /\ ActiveOf(in, s) > 0 /\ ActiveOf(in, s) \in Nat
  BY <1>2, <1>3
<1>5. r = DrainFront(less, over)
  BY Zenon, <1>2, <1>4 DEF Released
<1>6. fewer \in Entry /\ fewer.active = left /\ fewer.idleSince = IF idle THEN now ELSE None
  BY <1>3, <1>4 DEF Entry
<1> HIDE DEF fewer
<1>7. /\ DOMAIN m = DOMAIN in.map /\ m[s] = fewer
      /\ \A t \in DOMAIN in.map : t # s => m[t] = in.map[t]
  BY <1>2 DEF Put
<1>8. DOMAIN m \subseteq Source /\ m \in [DOMAIN m -> Entry]
  <2>1. m \in [DOMAIN m -> Entry]
    BY <1>1, <1>6, PutType, Zenon
  <2> QED
    BY <2>1, <1>1, <1>7
<1>9. /\ l \in Seq(Source \X Instant) /\ Len(l) \in Nat
      /\ \A i \in DOMAIN in.idleLog : i \in DOMAIN l /\ l[i] = in.idleLog[i]
      /\ idle => Len(l) = Len(in.idleLog) + 1 /\ \E i \in DOMAIN l : l[i] = <<s, now>>
      /\ ~idle => Len(l) = Len(in.idleLog)
  <2>1. CASE idle
    <3> DEFINE x == <<s, now>>
    <3>1. x \in Source \X Instant
      OBVIOUS
    <3> HIDE DEF x
    <3>2. l = Append(in.idleLog, x)
      BY <2>1 DEF x
    <3> HIDE DEF l
    <3>3. /\ l \in Seq(Source \X Instant) /\ Len(l) = Len(in.idleLog) + 1
          /\ DOMAIN l = 1..(Len(in.idleLog) + 1) /\ DOMAIN in.idleLog = 1..Len(in.idleLog)
          /\ l[Len(in.idleLog) + 1] = x
          /\ \A i \in 1..Len(in.idleLog) : l[i] = in.idleLog[i]
      BY <1>1, <3>1, <3>2
    <3>4. Len(in.idleLog) + 1 \in DOMAIN l
      BY <1>1, <3>3
    <3>5. \A i \in DOMAIN in.idleLog : i \in DOMAIN l /\ l[i] = in.idleLog[i]
      BY <1>1, <3>3
    <3>6. \E i \in DOMAIN l : l[i] = <<s, now>>
      BY <3>3, <3>4 DEF x
    <3>7. Len(l) \in Nat
      BY <1>1, <3>3
    <3> HIDE DEF idle
    <3> QED
      BY <2>1, <3>3, <3>5, <3>6, <3>7
  <2>2. CASE ~idle
    BY <1>1, <2>2
  <2> QED
    BY Zenon, <2>1, <2>2
<1>10. /\ DOMAIN a \subseteq Prefix /\ a \in [DOMAIN a -> Nat]
       /\ \A p \in DOMAIN a : a[p] > 0
       /\ \A p : (IF p \in DOMAIN a THEN a[p] ELSE 0) =
            IF s \in V6Source /\ p = AggKey[s] THEN AggOf(in, p) - 1 ELSE AggOf(in, p)
  BY AggReleasedIs
<1>11. over \in 0..Len(l) /\ Len(l) - over <= MaxEntries
       /\ (over > 0 => Len(in.idleLog) = MaxEntries)
  BY <1>1, <1>9, SourceAssumption
<1> HIDE DEF m, l, a, left, idle, over
<1>12. less.map = m /\ less.idleLog = l /\ less.aggV6 = a
  OBVIOUS
<1>13. IsInner(less)
  BY <1>8, <1>9, <1>10, InnerIs
<1> HIDE DEF less
<1>14. Logged(less)
  <2>1. ASSUME NEW t \in DOMAIN m
        PROVE  IF m[t].active = 0
                 THEN \E i \in DOMAIN l : l[i] = <<t, m[t].idleSince>>
                 ELSE m[t].idleSince = None
    <3>1. CASE t = s
      BY <1>6, <1>7, <1>9, <3>1 DEF idle
    <3>2. CASE t # s
      <4>1. t \in DOMAIN in.map /\ m[t] = in.map[t]
        BY <1>7, <3>2
      <4>2. IF in.map[t].active = 0
              THEN \E i \in DOMAIN in.idleLog : in.idleLog[i] = <<t, in.map[t].idleSince>>
              ELSE in.map[t].idleSince = None
        BY Zenon, <4>1 DEF Logged
      <4> QED
        BY <4>1, <4>2, <1>9
    <3> QED
      BY <3>1, <3>2
  <2> QED
    BY <1>10, <1>12, <1>13, <2>1 DEF Logged
<1>15. /\ ActiveOf(less, s) = ActiveOf(in, s) - 1
       /\ \A t : t # s => ActiveOf(less, t) = ActiveOf(in, t)
  BY <1>2, <1>6, <1>7, <1>12 DEF ActiveOf, left
<1>16. \A p : AggOf(less, p) =
            IF s \in V6Source /\ p = AggKey[s] THEN AggOf(in, p) - 1 ELSE AggOf(in, p)
  BY <1>10, <1>12 DEF AggOf
<1>17. /\ Logged(r) /\ Len(r.idleLog) = Len(l) - over
       /\ DOMAIN r.map = DOMAIN m \ EvictedBy(less, over)
       /\ \A t : ActiveOf(r, t) = ActiveOf(less, t)
       /\ \A p : AggOf(r, p) = AggOf(less, p)
  BY Zenon, <1>5, <1>11, <1>12, <1>14, DrainKeeps
<1>18. DOMAIN in.map \subseteq DOMAIN r.map \/ Len(in.idleLog) = MaxEntries
  <2>1. CASE over > 0
    BY <1>11, <2>1
  <2>2. CASE over = 0
    <3>1. EvictedBy(less, over) = {}
      BY <2>2 DEF EvictedBy
    <3> QED
      BY <3>1, <1>7, <1>17
  <2> QED
    BY <2>1, <2>2, <1>11, <1>9
<1> HIDE DEF r
<1> QED
  BY <1>11, <1>15, <1>16, <1>17, <1>18 DEF r

-----------------------------------------------------------------------------
\* The state of the loop and of the tasks.

InLoop == {"accepted", "admitted", "refused", "shedwait"}

HasTask == {"serving", "closing", "closed"}

\* The types of all but the limiter; a socket the loop has not handed over is the
\* one it is handling; a socket has a source; and the clones of a slot's Arc are
\* those of a connection that has one, lingering when only clones are left.
Shape ==
  /\ clock \in Instant
  /\ loop \in {"accept", "backoff", "stopped"}
  /\ cur \in Conn \cup {None}
  /\ phase \in [Conn -> Phase]
  /\ src \in [Conn -> Source \cup {None}]
  /\ stamp \in [Conn -> Instant]
  /\ detached \in [Conn -> Nat]
  /\ \A c \in Conn :
       /\ phase[c] \in InLoop => cur = c
       /\ phase[c] # "none" => src[c] \in Source
       /\ detached[c] > 0 => phase[c] \in HasTask \cup {"lingering"}
       /\ phase[c] = "lingering" => detached[c] > 0

\* Shape holds when the server starts.
LEMMA ShapeInit == Init => Shape
BY AdmissionAssumption DEF Init, Shape, Instant, Phase, InLoop

\* The steps of the accept loop keep Shape.
LEMMA ShapeLoop ==
  ASSUME Shape, NEW c \in Conn,
         LoopStep(c) \/ \E s \in Source : Accept(c, s)
  PROVE  Shape'
<1>1. CASE \E s \in Source : Accept(c, s)
  BY <1>1, AdmissionAssumption DEF Shape, Accept, Goto, Phase, InLoop, HasTask, Instant
<1>2. CASE AdmitSource(c)
  BY <1>2 DEF Shape, AdmitSource, Goto, Phase, InLoop, HasTask, Instant
<1>3. CASE AcquireSlot(c)
  BY <1>3 DEF Shape, AcquireSlot, Goto, Phase, InLoop, HasTask, Instant
<1>4. CASE ReturnSourcePermit(c)
  BY <1>4 DEF Shape, ReturnSourcePermit, Goto, Phase, InLoop, HasTask, Instant
<1>5. CASE SpawnCapShed(c)
  BY <1>5 DEF Shape, SpawnCapShed, Goto, Phase, InLoop, HasTask, Instant
<1> QED
  BY <1>1, <1>2, <1>3, <1>4, <1>5 DEF LoopStep

\* The steps of the tasks keep Shape.
LEMMA ShapeTask ==
  ASSUME Shape, NEW c \in Conn, TaskStep(c)
  PROVE  Shape'
<1>1. CASE EndCapShed(c)
  BY <1>1 DEF Shape, EndCapShed, Forget, Goto, Phase, InLoop, HasTask, Instant
<1>2. CASE Detach(c)
  BY <1>2 DEF Shape, Detach, Phase, InLoop, HasTask, Instant
<1>3. CASE EndDetached(c)
  BY <1>3 DEF Shape, EndDetached, DropArc, Forget, Goto, Phase, InLoop, HasTask, Instant
<1>4. CASE EndConnection(c)
  BY <1>4 DEF Shape, EndConnection, Goto, Phase, InLoop, HasTask, Instant
<1>5. CASE DropSourcePermit(c)
  BY <1>5 DEF Shape, DropSourcePermit, Goto, Phase, InLoop, HasTask, Instant
<1>6. CASE DropConnectionPermit(c)
  BY <1>6 DEF Shape, DropConnectionPermit, DropArc, Forget, Goto, Phase, InLoop, HasTask, Instant
<1> QED
  BY <1>1, <1>2, <1>3, <1>4, <1>5, <1>6 DEF TaskStep

\* Every step keeps Shape.
LEMMA ShapeStep ==
  ASSUME Shape, [Next]_vars
  PROVE  Shape'
<1>1. CASE \E c \in Conn, s \in Source : Accept(c, s)
  BY <1>1, ShapeLoop
<1>2. CASE \E c \in Conn : LoopStep(c) \/ TaskStep(c)
  BY <1>2, ShapeLoop, ShapeTask
<1>3. CASE AcceptFails \/ BackoffOver \/ Tick
  BY <1>3 DEF Shape, AcceptFails, BackoffOver, Tick, Instant
<1>4. CASE UNCHANGED vars
  BY <1>4 DEF Shape, vars
<1> QED
  BY <1>1, <1>2, <1>3, <1>4 DEF Next

-----------------------------------------------------------------------------
\* The permits that are out.

\* A permit more counts one more.
LEMMA OneMore ==
  ASSUME NEW S, IsFiniteSet(S), NEW x, x \notin S
  PROVE  Cardinality(S \cup {x}) = Cardinality(S) + 1
BY FS_AddElement

\* A permit dropped counts one less, and there was one.
LEMMA OneLess ==
  ASSUME NEW S, IsFiniteSet(S), NEW x \in S
  PROVE  Cardinality(S \ {x}) = Cardinality(S) - 1 /\ Cardinality(S) > 0
<1>1. Cardinality(S \ {x}) = Cardinality(S) - 1
  BY FS_RemoveElement
<1>2. Cardinality(S) \in Nat /\ Cardinality(S) # 0
  BY FS_CardinalityType, FS_EmptySet
<1> QED
  BY <1>1, <1>2

\* Sets of sockets are finite.
LEMMA ConnFinite ==
  ASSUME NEW S, S \subseteq Conn
  PROVE  IsFiniteSet(S) /\ Cardinality(S) \in Nat
BY AdmissionAssumption, FS_Subset, FS_CardinalityType

\* The semaphores' counters and the permits that are out.
SlotCount == slots \in Nat /\ slots + Cardinality({c \in Conn : HoldsSlot(c)}) = ConnectionLimit

ShedCount == shedFree \in Nat /\ shedFree + Cardinality({c \in Conn : phase[c] = "shedding"}) = ShedSlots

\* A step takes a slot for one socket, returns one, or does neither.
LEMMA SlotMoves ==
  ASSUME Shape, Next
  PROVE  LET H == {c \in Conn : HoldsSlot(c)}
         IN  \/ slots' = slots /\ H' = H
             \/ slots > 0 /\ slots' = slots - 1 /\ \E c \in Conn \ H : H' = H \cup {c}
             \/ slots' = slots + 1 /\ \E c \in H : H' = H \ {c}
<1> USE DEF HoldsSlot
<1> DEFINE H == {c \in Conn : HoldsSlot(c)}
<1>1. CASE \E c \in Conn, s \in Source : Accept(c, s)
  BY <1>1 DEF Shape, Accept, Goto, HasTask
<1>2. CASE AcceptFails \/ BackoffOver \/ Tick
  BY <1>2 DEF AcceptFails, BackoffOver, Tick
<1>3. ASSUME NEW c \in Conn, LoopStep(c) \/ TaskStep(c)
      PROVE  \/ slots' = slots /\ H' = H
             \/ slots > 0 /\ slots' = slots - 1 /\ \E d \in Conn \ H : H' = H \cup {d}
             \/ slots' = slots + 1 /\ \E d \in H : H' = H \ {d}
  <2>1. CASE AdmitSource(c)
    BY <2>1 DEF Shape, AdmitSource, Goto
  <2>2. CASE AcquireSlot(c)
    <3>1. CASE slots > 0
      <4>1. c \in Conn \ H /\ H' = H \cup {c} /\ slots' = slots - 1
        BY <2>2, <3>1 DEF Shape, AcquireSlot, Goto, HasTask
      <4> QED
        BY <3>1, <4>1
    <3>2. CASE ~(slots > 0)
      BY <2>2, <3>2 DEF Shape, AcquireSlot, Goto
    <3> QED
      BY <3>1, <3>2
  <2>3. CASE ReturnSourcePermit(c)
    BY <2>3 DEF Shape, ReturnSourcePermit, Goto
  <2>4. CASE SpawnCapShed(c)
    BY <2>4 DEF Shape, SpawnCapShed, Goto
  <2>5. CASE EndCapShed(c)
    BY <2>5 DEF Shape, EndCapShed, Forget, Goto
  <2>6. CASE Detach(c)
    BY <2>6 DEF Shape, Detach
  <2>7. CASE EndDetached(c)
    <3>1. CASE phase[c] = "lingering" /\ detached[c] = 1
      <4>1. c \in H /\ H' = H \ {c} /\ slots' = slots + 1
        BY <2>7, <3>1 DEF Shape, EndDetached, DropArc, Forget, Goto
      <4> QED
        BY <4>1
    <3>2. CASE ~(phase[c] = "lingering" /\ detached[c] = 1)
      BY <2>7, <3>2 DEF Shape, EndDetached, DropArc, HasTask
    <3> QED
      BY <3>1, <3>2
  <2>8. CASE EndConnection(c)
    BY <2>8 DEF Shape, EndConnection, Goto
  <2>9. CASE DropSourcePermit(c)
    BY <2>9 DEF Shape, DropSourcePermit, Goto
  <2>10. CASE DropConnectionPermit(c)
    <3>1. CASE detached[c] = 0
      <4>1. c \in H /\ H' = H \ {c} /\ slots' = slots + 1
        BY <2>10, <3>1 DEF Shape, DropConnectionPermit, DropArc, Forget, Goto
      <4> QED
        BY <4>1
    <3>2. CASE ~(detached[c] = 0)
      BY <2>10, <3>2 DEF Shape, DropConnectionPermit, Goto
    <3> QED
      BY <3>1, <3>2
  <2> QED
    BY Zenon, <1>3, <2>1, <2>2, <2>3, <2>4, <2>5, <2>6, <2>7, <2>8, <2>9, <2>10
       DEF LoopStep, TaskStep
<1> QED
  BY <1>1, <1>2, <1>3 DEF Next

\* A step takes a cap-shed slot for one socket, returns one, or does neither.
LEMMA ShedMoves ==
  ASSUME Shape, Next
  PROVE  LET S == {c \in Conn : phase[c] = "shedding"}
         IN  \/ shedFree' = shedFree /\ S' = S
             \/ shedFree > 0 /\ shedFree' = shedFree - 1 /\ \E c \in Conn \ S : S' = S \cup {c}
             \/ shedFree' = shedFree + 1 /\ \E c \in S : S' = S \ {c}
<1> DEFINE S == {c \in Conn : phase[c] = "shedding"}
<1>1. CASE \E c \in Conn, s \in Source : Accept(c, s)
  BY <1>1 DEF Shape, Accept, Goto
<1>2. CASE AcceptFails \/ BackoffOver \/ Tick
  BY <1>2 DEF AcceptFails, BackoffOver, Tick
<1>3. ASSUME NEW c \in Conn, LoopStep(c) \/ TaskStep(c)
      PROVE  \/ shedFree' = shedFree /\ S' = S
             \/ shedFree > 0 /\ shedFree' = shedFree - 1 /\ \E d \in Conn \ S : S' = S \cup {d}
             \/ shedFree' = shedFree + 1 /\ \E d \in S : S' = S \ {d}
  <2>1. CASE AdmitSource(c) \/ AcquireSlot(c) \/ ReturnSourcePermit(c)
    BY <2>1 DEF Shape, AdmitSource, AcquireSlot, ReturnSourcePermit, Goto
  <2>2. CASE SpawnCapShed(c)
    <3>1. c \in Conn \ S /\ S' = S \cup {c} /\ shedFree > 0 /\ shedFree' = shedFree - 1
      BY <2>2 DEF Shape, SpawnCapShed, Goto
    <3> QED
      BY <3>1
  <2>3. CASE EndCapShed(c)
    <3>1. c \in S /\ S' = S \ {c} /\ shedFree' = shedFree + 1
      BY <2>3 DEF Shape, EndCapShed, Forget, Goto
    <3> QED
      BY <3>1
  <2>4. CASE Detach(c) \/ EndConnection(c) \/ DropSourcePermit(c)
    BY <2>4 DEF Shape, Detach, EndConnection, DropSourcePermit, Goto
  <2>5. CASE EndDetached(c)
    BY <2>5 DEF Shape, EndDetached, DropArc, Forget, Goto
  <2>6. CASE DropConnectionPermit(c)
    BY <2>6 DEF Shape, DropConnectionPermit, DropArc, Forget, Goto
  <2> QED
    BY Zenon, <1>3, <2>1, <2>2, <2>3, <2>4, <2>5, <2>6 DEF LoopStep, TaskStep
<1> QED
  BY <1>1, <1>2, <1>3 DEF Next

\* A counter of free permits that moves with the set of their holders keeps their
\* sum.
LEMMA SumKept ==
  ASSUME NEW free \in Nat, NEW total, NEW free2, NEW H, NEW H2,
         H \subseteq Conn, free + Cardinality(H) = total,
         \/ free2 = free /\ H2 = H
         \/ free > 0 /\ free2 = free - 1 /\ \E c \in Conn \ H : H2 = H \cup {c}
         \/ free2 = free + 1 /\ \E c \in H : H2 = H \ {c}
  PROVE  free2 \in Nat /\ free2 + Cardinality(H2) = total
<1>1. IsFiniteSet(H) /\ Cardinality(H) \in Nat
  BY ConnFinite
<1>2. CASE free2 = free /\ H2 = H
  BY <1>2
<1>3. CASE free > 0 /\ free2 = free - 1 /\ \E c \in Conn \ H : H2 = H \cup {c}
  <2>1. Cardinality(H2) = Cardinality(H) + 1
    BY <1>1, <1>3, OneMore
  <2> QED
    BY <1>1, <1>3, <2>1
<1>4. CASE free2 = free + 1 /\ \E c \in H : H2 = H \ {c}
  <2>1. Cardinality(H2) = Cardinality(H) - 1
    BY <1>1, <1>4, OneLess
  <2> QED
    BY <1>1, <1>4, <2>1
<1> QED
  BY <1>2, <1>3, <1>4

\* Both semaphores: the free permits and the held ones add up to the limit.
LEMMA SemaphoresStep ==
  ASSUME Shape, SlotCount, ShedCount, [Next]_vars
  PROVE  SlotCount' /\ ShedCount'
<1>1. CASE UNCHANGED vars
  BY <1>1 DEF vars, SlotCount, ShedCount, HoldsSlot
<1>2. CASE Next
  <2> DEFINE H == {c \in Conn : HoldsSlot(c)}
             S == {c \in Conn : phase[c] = "shedding"}
  <2>1. \/ slots' = slots /\ H' = H
        \/ slots > 0 /\ slots' = slots - 1 /\ \E c \in Conn \ H : H' = H \cup {c}
        \/ slots' = slots + 1 /\ \E c \in H : H' = H \ {c}
    BY <1>2, SlotMoves
  <2>2. \/ shedFree' = shedFree /\ S' = S
        \/ shedFree > 0 /\ shedFree' = shedFree - 1 /\ \E c \in Conn \ S : S' = S \cup {c}
        \/ shedFree' = shedFree + 1 /\ \E c \in S : S' = S \ {c}
    BY <1>2, ShedMoves
  <2>3. /\ slots \in Nat /\ H \subseteq Conn /\ slots + Cardinality(H) = ConnectionLimit
        /\ shedFree \in Nat /\ S \subseteq Conn /\ shedFree + Cardinality(S) = ShedSlots
    BY DEF SlotCount, ShedCount
  <2>4. SlotCount' <=> slots' \in Nat /\ slots' + Cardinality(H') = ConnectionLimit
    BY DEF SlotCount
  <2>5. ShedCount' <=> shedFree' \in Nat /\ shedFree' + Cardinality(S') = ShedSlots
    BY DEF ShedCount
  <2> HIDE DEF H, S
  <2>6. slots' \in Nat /\ slots' + Cardinality(H') = ConnectionLimit
    BY <2>1, <2>3, SumKept
  <2>7. shedFree' \in Nat /\ shedFree' + Cardinality(S') = ShedSlots
    BY <2>2, <2>3, SumKept
  <2> QED
    BY <2>4, <2>5, <2>6, <2>7
<1> QED
  BY <1>1, <1>2

\* The permits of sources stay, one is handed out, or one is dropped.
SamePermits ==
  /\ \A s : PermitsOf(s)' = PermitsOf(s)
  /\ \A p : PermitsIn(p)' = PermitsIn(p)

NewPermit(c) ==
  /\ c \in Conn /\ ~HoldsSource(c) /\ src[c] \in Source
  /\ \A s : PermitsOf(s)' = IF s = src[c] THEN PermitsOf(s) \cup {c} ELSE PermitsOf(s)
  /\ \A p : PermitsIn(p)' = IF src[c] \in V6Source /\ p = AggKey[src[c]]
                           THEN PermitsIn(p) \cup {c} ELSE PermitsIn(p)

PermitDropped(c) ==
  /\ c \in Conn /\ HoldsSource(c) /\ src[c] \in Source
  /\ \A s : PermitsOf(s)' = IF s = src[c] THEN PermitsOf(s) \ {c} ELSE PermitsOf(s)
  /\ \A p : PermitsIn(p)' = IF src[c] \in V6Source /\ p = AggKey[src[c]]
                           THEN PermitsIn(p) \ {c} ELSE PermitsIn(p)

\* What a step does to the limiter and to the permits.
LEMMA SourceMoves ==
  ASSUME Shape, Next
  PROVE  \/ inner' = inner /\ SamePermits
         \/ \E c \in Conn :
              /\ src[c] \in Source /\ inner' = TryAdmit(inner, src[c], clock)
              /\ IF AtCap(PruneLocked(inner, clock), src[c]) THEN SamePermits ELSE NewPermit(c)
         \/ \E c \in Conn :
              inner' = Released(inner, src[c], stamp[c]) /\ PermitDropped(c)
<1> USE DEF HoldsSource
<1>1. CASE \E c \in Conn, s \in Source : Accept(c, s)
  BY <1>1 DEF Shape, Accept, Goto, SamePermits, PermitsOf, PermitsIn
<1>2. CASE AcceptFails \/ BackoffOver \/ Tick
  BY Zenon, <1>2 DEF AcceptFails, BackoffOver, Tick, SamePermits, PermitsOf, PermitsIn
<1>3. ASSUME NEW c \in Conn, LoopStep(c) \/ TaskStep(c)
      PROVE  \/ inner' = inner /\ SamePermits
             \/ /\ src[c] \in Source /\ inner' = TryAdmit(inner, src[c], clock)
                /\ IF AtCap(PruneLocked(inner, clock), src[c]) THEN SamePermits ELSE NewPermit(c)
             \/ inner' = Released(inner, src[c], stamp[c]) /\ PermitDropped(c)
  <2>1. CASE AdmitSource(c)
    <3>1. inner' = TryAdmit(inner, src[c], clock) /\ src[c] \in Source /\ ~HoldsSource(c)
      BY <2>1 DEF AdmitSource, Shape
    <3>2. CASE AtCap(PruneLocked(inner, clock), src[c])
      <4>1. SamePermits
        BY <2>1, <3>2 DEF AdmitSource, Goto, Shape, SamePermits, PermitsOf, PermitsIn
      <4> QED
        BY <3>1, <3>2, <4>1
    <3>3. CASE ~AtCap(PruneLocked(inner, clock), src[c])
      <4>1. phase' = [phase EXCEPT ![c] = "admitted"] /\ src' = src
        BY <2>1, <3>3 DEF AdmitSource, Goto
      <4>2. NewPermit(c)
        BY <3>1, <4>1 DEF Shape, NewPermit, PermitsOf, PermitsIn
      <4> QED
        BY <3>1, <3>3, <4>2
    <3> QED
      BY <3>2, <3>3
  <2>2. CASE AcquireSlot(c)
    BY <2>2 DEF Shape, AcquireSlot, Goto, SamePermits, PermitsOf, PermitsIn
  <2>3. CASE ReturnSourcePermit(c)
    BY <2>3 DEF Shape, ReturnSourcePermit, Goto, PermitDropped, PermitsOf, PermitsIn
  <2>4. CASE SpawnCapShed(c)
    BY <2>4 DEF Shape, SpawnCapShed, Goto, SamePermits, PermitsOf, PermitsIn
  <2>5. CASE EndCapShed(c)
    BY <2>5 DEF Shape, EndCapShed, Forget, Goto, SamePermits, PermitsOf, PermitsIn
  <2>6. CASE Detach(c)
    BY <2>6 DEF Shape, Detach, SamePermits, PermitsOf, PermitsIn
  <2>7. CASE EndDetached(c)
    BY <2>7 DEF Shape, EndDetached, DropArc, Forget, Goto, SamePermits, PermitsOf, PermitsIn
  <2>8. CASE EndConnection(c)
    BY <2>8 DEF Shape, EndConnection, Goto, SamePermits, PermitsOf, PermitsIn
  <2>9. CASE DropSourcePermit(c)
    BY <2>9 DEF Shape, DropSourcePermit, Goto, PermitDropped, PermitsOf, PermitsIn
  <2>10. CASE DropConnectionPermit(c)
    BY <2>10
       DEF Shape, DropConnectionPermit, DropArc, Forget, Goto, SamePermits, PermitsOf, PermitsIn
  <2> QED
    BY Zenon, <1>3, <2>1, <2>2, <2>3, <2>4, <2>5, <2>6, <2>7, <2>8, <2>9, <2>10
       DEF LoopStep, TaskStep
<1> QED
  BY <1>1, <1>2, <1>3 DEF Next

\* The limiter's counts are those of the permits, and within the caps.
SourceCount ==
  /\ Logged(inner) /\ Len(inner.idleLog) <= MaxEntries
  /\ \A s \in Source : /\ ActiveOf(inner, s) = Cardinality(PermitsOf(s))
                       /\ Cardinality(PermitsOf(s)) <= CapFor(s)
  /\ \A p \in Prefix : /\ AggOf(inner, p) = Cardinality(PermitsIn(p))
                       /\ Cardinality(PermitsIn(p)) <= CapV6 * AggFanout

\* The sets of permits are finite, and the caps are numbers.
LEMMA PermitsFinite ==
  /\ \A s : IsFiniteSet(PermitsOf(s)) /\ Cardinality(PermitsOf(s)) \in Nat
  /\ \A p : IsFiniteSet(PermitsIn(p)) /\ Cardinality(PermitsIn(p)) \in Nat
  /\ \A s : CapFor(s) \in Nat
  /\ CapV6 * AggFanout \in Nat
<1>1. \A s : PermitsOf(s) \subseteq Conn
  BY DEF PermitsOf
<1>2. \A p : PermitsIn(p) \subseteq Conn
  BY DEF PermitsIn
<1>3. \A s : CapFor(s) \in Nat
  BY SourceAssumption DEF CapFor
<1>4. CapV6 * AggFanout \in Nat
  BY SourceAssumption
<1> QED
  BY <1>1, <1>2, <1>3, <1>4, ConnFinite

\* prune_locked changes no count.
LEMMA PruneKeeps ==
  ASSUME NEW in, Logged(in), Len(in.idleLog) <= MaxEntries, NEW now \in Instant
  PROVE  LET q == PruneLocked(in, now)
         IN  /\ Logged(q) /\ Len(q.idleLog) <= MaxEntries
             /\ \A s : ActiveOf(q, s) = ActiveOf(in, s)
             /\ \A p : AggOf(q, p) = AggOf(in, p)
<1>1. PICK j \in 0..Len(in.idleLog) : PruneLocked(in, now) = DrainFront(in, j)
  BY PruneIs
<1>2. Len(in.idleLog) \in Nat
  BY DEF Logged, IsInner
<1>3. Len(in.idleLog) - j <= MaxEntries
  BY <1>2, SourceAssumption
<1> QED
  BY Zenon, <1>1, <1>3, DrainKeeps

\* try_admit and the drop of a permit keep the limiter's counts those of the permits.
LEMMA SourceStep ==
  ASSUME Shape, SourceCount, [Next]_vars
  PROVE  SourceCount'
<1>1. CASE UNCHANGED vars
  BY <1>1 DEF vars, SourceCount, PermitsOf, PermitsIn, HoldsSource
<1>2. CASE inner' = inner /\ SamePermits
  BY <1>2 DEF SourceCount, SamePermits
<1>3. ASSUME NEW c \in Conn, src[c] \in Source, inner' = TryAdmit(inner, src[c], clock),
             IF AtCap(PruneLocked(inner, clock), src[c]) THEN SamePermits ELSE NewPermit(c)
      PROVE  SourceCount'
  <2> DEFINE q == PruneLocked(inner, clock)
             s == src[c]
  <2>1. /\ Logged(q) /\ Len(q.idleLog) <= MaxEntries
        /\ \A t : ActiveOf(q, t) = ActiveOf(inner, t)
        /\ \A p : AggOf(q, p) = AggOf(inner, p)
    BY PruneKeeps DEF SourceCount, Shape
  <2>2. inner' = IF AtCap(q, s) THEN q ELSE Admitted(q, s)
    BY <1>3 DEF TryAdmit
  <2>3. IF AtCap(q, s) THEN SamePermits ELSE NewPermit(c)
    BY <1>3
  <2>4. s \in Source
    BY <1>3
  <2> HIDE DEF q, s
  <2>5. CASE AtCap(q, s)
    BY <2>1, <2>2, <2>3, <2>5 DEF SourceCount, SamePermits
  <2>6. CASE ~AtCap(q, s)
    <3>1. /\ Logged(inner') /\ inner'.idleLog = q.idleLog
          /\ ActiveOf(inner', s) = ActiveOf(q, s) + 1
          /\ \A t : t # s => ActiveOf(inner', t) = ActiveOf(q, t)
          /\ \A p : AggOf(inner', p) =
                    IF s \in V6Source /\ p = AggKey[s] THEN AggOf(q, p) + 1 ELSE AggOf(q, p)
      <4>1. inner' = Admitted(q, s)
        BY <2>2, <2>6
      <4>2. /\ Logged(Admitted(q, s)) /\ Admitted(q, s).idleLog = q.idleLog
            /\ ActiveOf(Admitted(q, s), s) = ActiveOf(q, s) + 1
            /\ \A t : t # s => ActiveOf(Admitted(q, s), t) = ActiveOf(q, t)
            /\ \A p : AggOf(Admitted(q, s), p) =
                      IF s \in V6Source /\ p = AggKey[s] THEN AggOf(q, p) + 1 ELSE AggOf(q, p)
        BY Zenon, <2>1, <2>4, AdmitKeeps
      <4> QED
        BY Zenon, <4>1, <4>2
    <3>2. /\ c \notin PermitsOf(s) /\ \A p : c \notin PermitsIn(p)
          /\ \A t : PermitsOf(t)' = IF t = s THEN PermitsOf(t) \cup {c} ELSE PermitsOf(t)
          /\ \A p : PermitsIn(p)' = IF s \in V6Source /\ p = AggKey[s]
                                   THEN PermitsIn(p) \cup {c} ELSE PermitsIn(p)
      BY <2>3, <2>6 DEF NewPermit, PermitsOf, PermitsIn, s
    <3>3. Cardinality(PermitsOf(s) \cup {c}) = Cardinality(PermitsOf(s)) + 1
      BY <3>2, PermitsFinite, OneMore
    <3>4. \A p : Cardinality(PermitsIn(p) \cup {c}) = Cardinality(PermitsIn(p)) + 1
      BY <3>2, PermitsFinite, OneMore
    <3>5. ASSUME NEW t \in Source
          PROVE  /\ ActiveOf(inner', t) = Cardinality(PermitsOf(t)')
                 /\ Cardinality(PermitsOf(t)') <= CapFor(t)
      <4>1. ActiveOf(q, t) = Cardinality(PermitsOf(t)) /\ Cardinality(PermitsOf(t)) <= CapFor(t)
        BY <2>1 DEF SourceCount
      <4>2. CASE t = s
        <5>1. ~(ActiveOf(q, s) >= CapFor(s))
          BY <2>6 DEF AtCap
        <5>2. CapFor(s) \in Nat /\ Cardinality(PermitsOf(s)) \in Nat
          BY PermitsFinite
        <5>3. PermitsOf(t)' = PermitsOf(s) \cup {c} /\ ActiveOf(q, s) = Cardinality(PermitsOf(s))
          BY <3>2, <4>1, <4>2
        <5>4. Cardinality(PermitsOf(s)) + 1 <= CapFor(s)
          BY <5>1, <5>2, <5>3
        <5>5. Cardinality(PermitsOf(t)') = Cardinality(PermitsOf(s)) + 1
          BY <3>3, <5>3
        <5>6. ActiveOf(inner', t) = Cardinality(PermitsOf(s)) + 1
          BY <3>1, <4>2, <5>3
        <5> QED
          BY <4>2, <5>4, <5>5, <5>6
      <4>3. CASE t # s
        BY <3>1, <3>2, <4>1, <4>3
      <4> QED
        BY <4>2, <4>3
    <3>6. ASSUME NEW p \in Prefix
          PROVE  /\ AggOf(inner', p) = Cardinality(PermitsIn(p)')
                 /\ Cardinality(PermitsIn(p)') <= CapV6 * AggFanout
      <4> DEFINE cap == CapV6 * AggFanout
      <4>1. AggOf(q, p) = Cardinality(PermitsIn(p)) /\ Cardinality(PermitsIn(p)) <= cap
        BY <2>1 DEF SourceCount
      <4>2. CASE s \in V6Source /\ p = AggKey[s]
        <5>1. ~(AggOf(q, p) >= cap)
          BY <2>6, <4>2 DEF AtCap
        <5>2. cap \in Nat /\ Cardinality(PermitsIn(p)) \in Nat
          BY PermitsFinite
        <5> HIDE DEF cap
        <5>3. Cardinality(PermitsIn(p)) + 1 <= cap
          BY <4>1, <5>1, <5>2
        <5>4. Cardinality(PermitsIn(p)') = Cardinality(PermitsIn(p)) + 1
          BY <3>2, <3>4, <4>2
        <5>5. AggOf(inner', p) = Cardinality(PermitsIn(p)) + 1
          BY <3>1, <4>1, <4>2
        <5> QED
          BY <5>3, <5>4, <5>5 DEF cap
      <4>3. CASE ~(s \in V6Source /\ p = AggKey[s])
        BY <3>1, <3>2, <4>1, <4>3
      <4> QED
        BY <4>2, <4>3
    <3> QED
      BY <2>1, <3>1, <3>5, <3>6 DEF SourceCount
  <2> QED
    BY <2>5, <2>6
<1>4. ASSUME NEW c \in Conn, inner' = Released(inner, src[c], stamp[c]), PermitDropped(c)
      PROVE  SourceCount'
  <2> DEFINE s == src[c]
  <2>1. /\ s \in Source /\ c \in PermitsOf(s)
        /\ s \in V6Source => c \in PermitsIn(AggKey[s]) /\ AggKey[s] \in Prefix
        /\ \A t : PermitsOf(t)' = IF t = s THEN PermitsOf(t) \ {c} ELSE PermitsOf(t)
        /\ \A p : PermitsIn(p)' = IF s \in V6Source /\ p = AggKey[s]
                                 THEN PermitsIn(p) \ {c} ELSE PermitsIn(p)
    BY Zenon, <1>4, SourceAssumption DEF PermitDropped, PermitsOf, PermitsIn
  <2>2. stamp[c] \in Instant
    BY DEF Shape
  <2>3. inner' = Released(inner, s, stamp[c])
    BY <1>4
  <2> HIDE DEF s
  <2>4. /\ Cardinality(PermitsOf(s) \ {c}) = Cardinality(PermitsOf(s)) - 1
        /\ Cardinality(PermitsOf(s)) > 0
    BY <2>1, PermitsFinite, OneLess
  <2>5. s \in V6Source =>
          /\ Cardinality(PermitsIn(AggKey[s]) \ {c}) = Cardinality(PermitsIn(AggKey[s])) - 1
          /\ Cardinality(PermitsIn(AggKey[s])) > 0
    BY <2>1, PermitsFinite, OneLess
  <2>6. ActiveOf(inner, s) > 0 /\ (s \in V6Source => AggOf(inner, AggKey[s]) > 0)
    BY <2>1, <2>4, <2>5 DEF SourceCount
  <2>7. /\ Logged(inner') /\ Len(inner'.idleLog) <= MaxEntries
        /\ ActiveOf(inner', s) = ActiveOf(inner, s) - 1
        /\ \A t : t # s => ActiveOf(inner', t) = ActiveOf(inner, t)
        /\ \A p : AggOf(inner', p) =
             IF s \in V6Source /\ p = AggKey[s] THEN AggOf(inner, p) - 1 ELSE AggOf(inner, p)
    <3>1. Logged(inner) /\ Len(inner.idleLog) <= MaxEntries
      BY DEF SourceCount
    <3>2. s \in Source
      BY <2>1
    <3> QED
      BY <2>2, <2>3, <2>6, <3>1, <3>2, ReleaseKeeps
  <2>8. ASSUME NEW t \in Source
        PROVE  /\ ActiveOf(inner', t) = Cardinality(PermitsOf(t)')
               /\ Cardinality(PermitsOf(t)') <= CapFor(t)
    <3>1. ActiveOf(inner, t) = Cardinality(PermitsOf(t)) /\ Cardinality(PermitsOf(t)) <= CapFor(t)
      BY DEF SourceCount
    <3>2. CapFor(t) \in Nat /\ Cardinality(PermitsOf(t)) \in Nat
      BY PermitsFinite
    <3>3. CASE t = s
      <4>1. Cardinality(PermitsOf(t)') = Cardinality(PermitsOf(t)) - 1
        BY <2>1, <2>4, <3>3
      <4>2. ActiveOf(inner', t) = Cardinality(PermitsOf(t)) - 1
        BY <2>7, <3>1, <3>3
      <4> QED
        BY <3>1, <3>2, <4>1, <4>2
    <3>4. CASE t # s
      BY <2>1, <2>7, <3>1, <3>4
    <3> QED
      BY <3>3, <3>4
  <2>9. ASSUME NEW p \in Prefix
        PROVE  /\ AggOf(inner', p) = Cardinality(PermitsIn(p)')
               /\ Cardinality(PermitsIn(p)') <= CapV6 * AggFanout
    <3> DEFINE cap == CapV6 * AggFanout
    <3>1. AggOf(inner, p) = Cardinality(PermitsIn(p)) /\ Cardinality(PermitsIn(p)) <= cap
      BY DEF SourceCount
    <3>2. cap \in Nat /\ Cardinality(PermitsIn(p)) \in Nat
      BY PermitsFinite
    <3> HIDE DEF cap
    <3>3. AggOf(inner', p) = Cardinality(PermitsIn(p)') /\ Cardinality(PermitsIn(p)') <= cap
      <4>1. CASE s \in V6Source /\ p = AggKey[s]
        <5>1. Cardinality(PermitsIn(p)') = Cardinality(PermitsIn(p)) - 1
          BY <2>1, <2>5, <4>1
        <5>2. AggOf(inner', p) = Cardinality(PermitsIn(p)) - 1
          BY <2>7, <3>1, <4>1
        <5> QED
          BY <3>1, <3>2, <5>1, <5>2
      <4>2. CASE ~(s \in V6Source /\ p = AggKey[s])
        BY <2>1, <2>7, <3>1, <4>2
      <4> QED
        BY <4>1, <4>2
    <3> QED
      BY <3>3 DEF cap
  <2> QED
    BY <2>7, <2>8, <2>9 DEF SourceCount
<1> QED
  BY <1>1, <1>2, <1>3, <1>4, SourceMoves

-----------------------------------------------------------------------------
\* The theorems.

\* What f takes every value of T on is no smaller than T.
LEMMA Covered ==
  ASSUME NEW X, IsFiniteSet(X), NEW f, NEW T, \A t \in T : \E x \in X : f[x] = t
  PROVE  IsFiniteSet(T) /\ Cardinality(T) <= Cardinality(X)
<1> DEFINE g == [t \in T |-> CHOOSE x \in X : f[x] = t]
<1>1. \A t \in T : g[t] \in X /\ f[g[t]] = t
  OBVIOUS
<1>2. g \in Injection(T, X)
  BY <1>1 DEF Injection, IsInjective
<1> HIDE DEF g
<1> QED
  BY <1>2, FS_Injection

\* The inductive invariant: the state of the sockets, and every counter equal to
\* the permits that are out.
IInv == Shape /\ SlotCount /\ ShedCount /\ SourceCount

\* Nothing is held when the server starts.
LEMMA IInvInit == Init => IInv
<1> SUFFICES ASSUME Init PROVE IInv
  OBVIOUS
<1>1. Shape
  BY ShapeInit
<1>2. /\ {c \in Conn : HoldsSlot(c)} = {} /\ {c \in Conn : phase[c] = "shedding"} = {}
      /\ \A s : PermitsOf(s) = {}
      /\ \A p : PermitsIn(p) = {}
  BY DEF Init, HoldsSlot, HoldsSource, PermitsOf, PermitsIn
<1>3. SlotCount /\ ShedCount
  BY <1>2, FS_EmptySet, AdmissionAssumption DEF Init, SlotCount, ShedCount
<1>4. Logged(inner) /\ inner.idleLog = <<>>
  BY DEF Init, EmptyInner, Logged, IsInner
<1>5. \A s : ActiveOf(inner, s) = 0 /\ AggOf(inner, s) = 0
  BY DEF Init, EmptyInner, ActiveOf, AggOf
<1>6. SourceCount
  <2>1. Cardinality({}) = 0
    BY FS_EmptySet
  <2>2. Len(inner.idleLog) <= MaxEntries
    BY <1>4, SourceAssumption
  <2>3. /\ \A s : ActiveOf(inner, s) = Cardinality(PermitsOf(s))
        /\ \A p : AggOf(inner, p) = Cardinality(PermitsIn(p))
    BY <1>2, <1>5, <2>1
  <2>4. (\A s : 0 <= CapFor(s)) /\ 0 <= CapV6 * AggFanout
    BY PermitsFinite
  <2>5. /\ \A s : Cardinality(PermitsOf(s)) <= CapFor(s)
        /\ \A p : Cardinality(PermitsIn(p)) <= CapV6 * AggFanout
    BY <1>2, <2>1, <2>4
  <2> QED
    BY <1>4, <2>2, <2>3, <2>5 DEF SourceCount
<1> QED
  BY <1>1, <1>3, <1>6 DEF IInv

\* Every step keeps the inductive invariant.
LEMMA IInvStep == IInv /\ [Next]_vars => IInv'
BY ShapeStep, SemaphoresStep, SourceStep DEF IInv

\* The invariant holds throughout.
LEMMA IInvHolds == Spec => []IInv
BY IInvInit, IInvStep, PTL DEF Spec

\* Every variable of the accept loop, the limiter's record included, keeps its type.
THEOREM TypesKept == Spec => []TypeOK
<1>1. IInv => TypeOK
  BY DEF IInv, Shape, SlotCount, ShedCount, SourceCount, Logged, TypeOK
<1> QED
  BY <1>1, IInvHolds, PTL

\* At most the connections with a slot and the one socket in the accept loop hold a
\* source permit.
LEMMA HoldersBounded ==
  ASSUME IInv
  PROVE  LET P == {c \in Conn : HoldsSource(c)}
         IN  IsFiniteSet(P) /\ Cardinality(P) \in Nat /\ Cardinality(P) <= ConnectionLimit + 1
<1> DEFINE P == {c \in Conn : HoldsSource(c)}
           H == {c \in Conn : HoldsSlot(c)}
<1>1. P \subseteq H \cup {cur}
  BY DEF IInv, Shape, HoldsSource, HoldsSlot, InLoop
<1>2. IsFiniteSet(H) /\ Cardinality(H) \in Nat /\ IsFiniteSet(P) /\ Cardinality(P) \in Nat
  BY ConnFinite
<1>3. slots \in Nat /\ slots + Cardinality(H) = ConnectionLimit
  BY DEF IInv, SlotCount
<1> HIDE DEF P, H
<1>4. IsFiniteSet(H \cup {cur}) /\ Cardinality(H \cup {cur}) \in Nat
      /\ Cardinality(H \cup {cur}) <= Cardinality(H) + 1
  <2>1. IsFiniteSet(H \cup {cur})
        /\ Cardinality(H \cup {cur}) = IF cur \in H THEN Cardinality(H) ELSE Cardinality(H) + 1
    BY <1>2, FS_AddElement
  <2> QED
    BY <1>2, <2>1
<1>5. Cardinality(P) <= Cardinality(H \cup {cur})
  BY <1>1, <1>4, FS_Subset
<1> QED
  BY <1>2, <1>3, <1>4, <1>5, AdmissionAssumption DEF P

\* The counters of the limiter and of both semaphores always equal the permits that
\* are out, and no source and no /48 is over its cap, for any number of sockets,
\* sources, slots and clones of a slot (try_admit, Drop for SourcePermit, the Arc of
\* a connection slot).
THEOREM PermitsCounted == Spec => []CountersMatchPermits
<1>1. IInv => CountersMatchPermits
  BY DEF IInv, SlotCount, ShedCount, SourceCount, CountersMatchPermits
<1> QED
  BY <1>1, IInvHolds, PTL

\* The limiter's maps and its log stay within their bounds, and every idle entry has
\* the record that will evict it, for any number of sources (Drop for SourcePermit
\* and prune_locked).
THEOREM LimiterBounded == Spec => []LimiterIsBounded
<1>1. IInv => LimiterIsBounded
  <2> SUFFICES ASSUME IInv PROVE LimiterIsBounded
    OBVIOUS
  <2> DEFINE P == {c \in Conn : HoldsSource(c)}
             m == inner.map
             l == inner.idleLog
             a == inner.aggV6
             idle == {s \in DOMAIN m : m[s].active = 0}
             busy == {s \in DOMAIN m : m[s].active # 0}
  <2>1. IsFiniteSet(P) /\ Cardinality(P) \in Nat /\ Cardinality(P) <= ConnectionLimit + 1
    BY HoldersBounded
  <2>2. /\ l \in Seq(Source \X Instant) /\ Len(l) \in Nat /\ Len(l) <= MaxEntries
        /\ DOMAIN m \subseteq Source /\ m \in [DOMAIN m -> Entry]
        /\ DOMAIN a \subseteq Prefix /\ a \in [DOMAIN a -> Nat]
    BY DEF IInv, SourceCount, Logged, IsInner
  <2>3. /\ \A s \in DOMAIN m :
             IF m[s].active = 0 THEN \E i \in DOMAIN l : l[i] = <<s, m[s].idleSince>>
             ELSE m[s].idleSince = None
        /\ \A p \in DOMAIN a : a[p] > 0
    BY Zenon DEF IInv, SourceCount, Logged
  <2>4. IsFiniteSet(idle) /\ Cardinality(idle) \in Nat /\ Cardinality(idle) <= MaxEntries
    <3> DEFINE f == [i \in 1..Len(l) |-> l[i][1]]
    <3>1. ASSUME NEW s \in idle PROVE \E i \in 1..Len(l) : f[i] = s
      <4>1. PICK i \in DOMAIN l : l[i] = <<s, m[s].idleSince>>
        BY <2>3
      <4>2. i \in 1..Len(l)
        BY <2>2
      <4>3. l[i][1] = s
        BY <4>1
      <4>4. f[i] = s
        BY <4>2, <4>3
      <4> QED
        BY <4>2, <4>4
    <3>2. IsFiniteSet(1..Len(l)) /\ Cardinality(1..Len(l)) = Len(l)
      <4>1. ASSUME NEW n \in Nat PROVE IsFiniteSet(1..n) /\ Cardinality(1..n) = n
        BY FS_Interval
      <4> QED
        BY <2>2, <4>1
    <3> HIDE DEF f, idle
    <3>3. IsFiniteSet(idle) /\ Cardinality(idle) <= Len(l)
      BY <3>1, <3>2, Covered
    <3>4. Cardinality(idle) \in Nat
      BY <3>3, FS_CardinalityType
    <3>5. Len(l) \in Nat /\ Len(l) <= MaxEntries /\ MaxEntries \in Nat
      BY <2>2, SourceAssumption
    <3> QED
      BY <3>3, <3>4, <3>5
  <2>5. IsFiniteSet(busy) /\ Cardinality(busy) \in Nat /\ Cardinality(busy) <= Cardinality(P)
    <3>1. \A s \in busy : \E c \in P : src[c] = s
      <4> SUFFICES ASSUME NEW s \in busy PROVE \E c \in P : src[c] = s
        OBVIOUS
      <4>1. s \in Source /\ ActiveOf(inner, s) # 0
        BY <2>2 DEF ActiveOf
      <4>2. Cardinality(PermitsOf(s)) # 0
        BY <4>1 DEF IInv, SourceCount
      <4>3. PermitsOf(s) # {}
        BY <4>2, FS_EmptySet
      <4> QED
        BY <4>3 DEF PermitsOf
    <3> HIDE DEF busy, P
    <3> QED
      BY <2>1, <3>1, Covered, FS_CardinalityType
  <2>6. Cardinality(DOMAIN m) <= MaxEntries + ConnectionLimit + 1
    <3>1. DOMAIN m = idle \cup busy /\ idle \cap busy = {}
      OBVIOUS
    <3> HIDE DEF idle, busy, P, m
    <3>2. Cardinality(DOMAIN m) = Cardinality(idle) + Cardinality(busy)
      BY <2>4, <2>5, <3>1, FS_Union, FS_EmptySet
    <3> QED
      BY <2>1, <2>4, <2>5, <3>2, SourceAssumption, AdmissionAssumption
  <2>7. Cardinality(DOMAIN a) <= ConnectionLimit + 1
    <3> DEFINE f == [c \in Conn |-> AggKey[src[c]]]
    <3>1. \A p \in DOMAIN a : \E c \in P : f[c] = p
      <4> SUFFICES ASSUME NEW p \in DOMAIN a PROVE \E c \in P : f[c] = p
        OBVIOUS
      <4>1. p \in Prefix /\ AggOf(inner, p) # 0
        BY <2>2, <2>3 DEF AggOf
      <4>2. Cardinality(PermitsIn(p)) # 0
        BY <4>1 DEF IInv, SourceCount
      <4>3. PermitsIn(p) # {}
        BY <4>2, FS_EmptySet
      <4> QED
        BY <4>3 DEF PermitsIn
    <3> HIDE DEF f, P, a
    <3>2. IsFiniteSet(DOMAIN a) /\ Cardinality(DOMAIN a) <= Cardinality(P)
      BY <2>1, <3>1, Covered
    <3> QED
      BY <2>1, <3>2, FS_CardinalityType, AdmissionAssumption
  <2> QED
    BY <2>2, <2>3, <2>6, <2>7 DEF LimiterIsBounded
<1> QED
  BY <1>1, IInvHolds, PTL

\* prune_locked evicts an entry only after its grace period or when the map is over
\* its bound.
LEMMA PruneEvicts ==
  ASSUME NEW in, Logged(in), NEW now \in Instant,
         NEW s \in DOMAIN in.map, s \notin DOMAIN PruneLocked(in, now).map
  PROVE  /\ in.map[s].active = 0
         /\ \/ Cardinality(DOMAIN in.map) > MaxEntries
            \/ now - in.map[s].idleSince >= IdleGrace
<1>1. PICK j \in 0..Len(in.idleLog) :
        /\ PruneLocked(in, now) = DrainFront(in, j)
        /\ \A i \in 1..j :
             \/ now - in.idleLog[i][2] >= IdleGrace
             \/ Cardinality(DOMAIN DrainFront(in, i - 1).map) > MaxEntries
  BY PruneIs
<1>d. DOMAIN DrainFront(in, j).map = DOMAIN in.map \ EvictedBy(in, j)
  BY DEF DrainFront
<1>2. s \in EvictedBy(in, j)
  BY <1>1, <1>d
<1>3. in.map[s].active = 0 /\ \E i \in 1..j : in.idleLog[i] = <<s, in.map[s].idleSince>>
  BY <1>2 DEF EvictedBy
<1>4. PICK i \in 1..j : in.idleLog[i] = <<s, in.map[s].idleSince>>
  BY <1>3
<1>5. in.idleLog[i][2] = in.map[s].idleSince
  BY <1>4
<1>6. CASE now - in.idleLog[i][2] >= IdleGrace
  BY <1>3, <1>5, <1>6
<1>7. CASE Cardinality(DOMAIN DrainFront(in, i - 1).map) > MaxEntries
  <2> DEFINE D == DOMAIN DrainFront(in, i - 1).map
             E == DOMAIN in.map
  <2>1. D \subseteq E
    BY DEF DrainFront
  <2>2. E \subseteq Source
    BY DEF Logged, IsInner
  <2> HIDE DEF D, E
  <2>3. IsFiniteSet(E) /\ Cardinality(E) \in Nat
    BY <2>2, SourceAssumption, FS_Subset, FS_CardinalityType
  <2>4. IsFiniteSet(D) /\ Cardinality(D) \in Nat /\ Cardinality(D) <= Cardinality(E)
    BY Zenon, <2>1, <2>3, FS_Subset, FS_CardinalityType
  <2>5. Cardinality(D) > MaxEntries
    BY <1>7 DEF D
  <2>6. Cardinality(E) > MaxEntries
    BY <2>3, <2>4, <2>5, SourceAssumption
  <2> QED
    BY <1>3, <2>6 DEF E
<1> QED
  BY <1>1, <1>6, <1>7

\* The entry of a source is never evicted while the source holds a permit, and never
\* without one of the reasons the code has for it (drain_front_idle_record).
THEOREM EvictionSafe == Spec => EvictionIsSafe
<1> DEFINE Evicts ==
      \A s \in DOMAIN inner.map \ DOMAIN inner'.map :
        /\ PermitsOf(s)' = {}
        /\ \/ Len(inner.idleLog) = MaxEntries
           \/ Cardinality(DOMAIN inner.map) > MaxEntries
           \/ PermitsOf(s) = {} /\ clock - inner.map[s].idleSince >= IdleGrace
<1>1. ASSUME IInv, IInv', Next
      PROVE  Evicts
  <2> SUFFICES ASSUME NEW s \in DOMAIN inner.map \ DOMAIN inner'.map
               PROVE  /\ PermitsOf(s)' = {}
                      /\ \/ Len(inner.idleLog) = MaxEntries
                         \/ Cardinality(DOMAIN inner.map) > MaxEntries
                         \/ PermitsOf(s) = {} /\ clock - inner.map[s].idleSince >= IdleGrace
    OBVIOUS
  <2>1. Shape /\ SourceCount /\ SourceCount' /\ Logged(inner)
    BY <1>1 DEF IInv, SourceCount
  <2>2. s \in Source
    BY <2>1 DEF Logged, IsInner
  <2>3. PermitsOf(s)' = {}
    <3>1. ActiveOf(inner', s) = 0
      BY DEF ActiveOf
    <3>2. ActiveOf(inner', s) = Cardinality(PermitsOf(s)')
      BY <2>1, <2>2 DEF SourceCount
    <3>3. PermitsOf(s)' \subseteq Conn
      BY DEF PermitsOf
    <3> QED
      BY <3>1, <3>2, <3>3, ConnFinite, FS_EmptySet
  <2>4. inner.map[s].active = 0 => PermitsOf(s) = {}
    <3>1. ActiveOf(inner, s) = inner.map[s].active
      BY DEF ActiveOf
    <3>2. ActiveOf(inner, s) = Cardinality(PermitsOf(s))
      BY <2>1, <2>2 DEF SourceCount
    <3> QED
      BY Zenon, <3>1, <3>2, PermitsFinite, FS_EmptySet
  <2>5. CASE inner' = inner
    BY <2>5
  <2>6. ASSUME NEW c \in Conn, src[c] \in Source, inner' = TryAdmit(inner, src[c], clock)
        PROVE  \/ Cardinality(DOMAIN inner.map) > MaxEntries
               \/ PermitsOf(s) = {} /\ clock - inner.map[s].idleSince >= IdleGrace
    <3> DEFINE q == PruneLocked(inner, clock)
    <3>1. clock \in Instant
      BY <2>1 DEF Shape
    <3>2. Logged(q)
      BY <2>1, <3>1, PruneKeeps DEF SourceCount
    <3>3. inner' = q \/ inner' = Admitted(q, src[c])
      BY <2>6 DEF TryAdmit
    <3> HIDE DEF q
    <3>4. DOMAIN Admitted(q, src[c]).map = DOMAIN q.map \cup {src[c]}
      BY DEF Admitted, Put
    <3>5. DOMAIN q.map \subseteq DOMAIN inner'.map
      BY <3>3, <3>4
    <3>6. s \notin DOMAIN q.map
      BY <3>5
    <3> QED
      BY <2>1, <2>4, <3>1, <3>6, PruneEvicts DEF q
  <2>7. ASSUME NEW c \in Conn, inner' = Released(inner, src[c], stamp[c]), PermitDropped(c)
        PROVE  Len(inner.idleLog) = MaxEntries
    <3> DEFINE t == src[c]
    <3>1. /\ t \in Source /\ c \in PermitsOf(t) /\ stamp[c] \in Instant
          /\ t \in V6Source => c \in PermitsIn(AggKey[t]) /\ AggKey[t] \in Prefix
      BY Zenon, <2>1, <2>7, SourceAssumption DEF PermitDropped, PermitsOf, PermitsIn, Shape
    <3>2. inner' = Released(inner, t, stamp[c])
      BY <2>7
    <3> HIDE DEF t
    <3>3. /\ Cardinality(PermitsOf(t)) > 0
          /\ t \in V6Source => Cardinality(PermitsIn(AggKey[t])) > 0
      BY Zenon, <3>1, PermitsFinite, OneLess
    <3>4. ActiveOf(inner, t) > 0 /\ (t \in V6Source => AggOf(inner, AggKey[t]) > 0)
      BY Zenon, <2>1, <3>1, <3>3 DEF SourceCount
    <3>5. DOMAIN inner.map \subseteq DOMAIN inner'.map \/ Len(inner.idleLog) = MaxEntries
      BY Zenon, <2>1, <3>1, <3>2, <3>4, ReleaseKeeps DEF SourceCount
    <3> QED
      BY <3>5
  <2>8. \/ inner' = inner
        \/ \E c \in Conn : src[c] \in Source /\ inner' = TryAdmit(inner, src[c], clock)
        \/ \E c \in Conn : inner' = Released(inner, src[c], stamp[c]) /\ PermitDropped(c)
    BY Zenon, <1>1, <2>1, SourceMoves
  <2> QED
    BY <2>3, <2>5, <2>6, <2>7, <2>8
<1>2. IInv /\ IInv' /\ [Next]_vars => [Evicts]_vars
  BY <1>1
<1> HIDE DEF Evicts
<1>3. Spec => [][Evicts]_vars
  BY <1>2, IInvHolds, PTL DEF Spec
<1> QED
  BY <1>3 DEF EvictionIsSafe, Evicts
=============================================================================
