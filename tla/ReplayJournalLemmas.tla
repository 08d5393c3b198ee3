------------------------- MODULE ReplayJournalLemmas -------------------------
(***************************************************************************)
(* Lemmas about ReplayJournal: what retaining, pruning, tearing,           *)
(* truncating, committing and compacting do to what a file commits and     *)
(* whether it loads; and that the inductive invariant IInv survives the    *)
(* operations up to their first system call, a load, a clock step and a    *)
(* death of the process.                                                   *)
(***************************************************************************)
EXTENDS ReplayJournalInvariant, TLAPS, FiniteSetTheorems

-----------------------------------------------------------------------------
(* Facts about the operators. *)

(* Two sequences with the same elements in the same places are the same. *)
LEMMA SameLines ==
  ASSUME NEW S, NEW s \in Seq(S), NEW t \in Seq(S), Len(s) = Len(t),
         \A i \in 1..Len(s) : s[i] = t[i]
  PROVE  s = t
<1>1. s = [i \in 1..Len(s) |-> s[i]] /\ t = [i \in 1..Len(t) |-> t[i]]
  OBVIOUS
<1> QED BY Zenon, <1>1

(* Retain keeps exactly the entries the replay window still covers. *)
LEMMA RetainKeepsUnexpired ==
  ASSUME NEW s \in Seq(Entry), NEW t \in Nat
  PROVE  /\ Retain(s, t) \in Seq(Entry)
         /\ Elements(Retain(s, t)) = {e \in Elements(s) : Unexpired(e, t)}
<1> DEFINE kept == {i \in DOMAIN s : Unexpired(s[i], t)}
           n == Cardinality(kept)
           enum == CHOOSE f \in Bijection(1..n, kept) : TRUE
<1>1. IsFiniteSet(kept)
  <2>1. DOMAIN s = 1..Len(s) /\ Len(s) \in Nat
    OBVIOUS
  <2>2. IsFiniteSet(1..Len(s))
    BY <2>1, FS_Interval
  <2> QED BY Zenon, <2>1, <2>2, FS_Subset
<1>2. n \in Nat /\ \E f : f \in Bijection(1..n, kept)
  BY Zenon, <1>1, FS_CardinalityType DEF ExistsBijection
<1>3. enum \in Bijection(1..n, kept)
  BY Zenon, <1>2
<1> HIDE DEF n, enum
<1>4. /\ enum \in [1..n -> kept]
      /\ \A i \in kept : \E j \in 1..n : enum[j] = i
  BY Zenon, <1>3 DEF Bijection, Injection, Surjection
<1>5. Retain(s, t) = [j \in 1..n |-> s[enum[j]]]
  BY Zenon DEF Retain, n, enum
<1>6. \A j \in 1..n : s[enum[j]] \in Entry
  <2> TAKE j \in 1..n
  <2>1. enum[j] \in DOMAIN s
    BY Zenon, <1>4
  <2> QED BY <2>1
<1>7. Retain(s, t) \in Seq(Entry)
  BY <1>2, <1>5, <1>6
<1>8. Elements(Retain(s, t)) = {s[enum[j]] : j \in 1..n}
  BY <1>5 DEF Elements
<1>9. {s[enum[j]] : j \in 1..n} = {e \in Elements(s) : Unexpired(e, t)}
  BY <1>4 DEF Elements
<1> QED BY Zenon, <1>7, <1>8, <1>9

(* A nonempty set of natural numbers has a least element. *)
LEMMA NatMin ==
  ASSUME NEW T, T \subseteq Nat, T # {}
  PROVE  \E t \in T : \A u \in T : t <= u
<1>1. PICK t \in T : \A u \in T : ~(<<u, t>> \in OpToRel(<, Nat))
  BY WFMin, NatLessThanWellFounded, Zenon
<1>2. ASSUME NEW u \in T PROVE t <= u
  <2>1. <<u, t>> \in OpToRel(<, Nat) <=> u < t
    BY Zenon DEF OpToRel
  <2>2. ~(u < t)
    BY <1>1, <2>1, Zenon
  <2> QED BY <2>2
<1> QED BY Zenon, <1>2

(* The cached oldest timestamp exists: a nonempty queue has an earliest entry. *)
LEMMA MinTsType ==
  ASSUME NEW s \in Seq(Entry)
  PROVE  MinTs(s) \in Nat \cup {None}
<1> DEFINE T == {e.ts : e \in Elements(s)}
<1>1. CASE s = <<>>
  BY Zenon, <1>1 DEF MinTs
<1>2. CASE s # <<>>
  <2>1. T \subseteq Nat /\ T # {}
    BY <1>2, ConstantsAssumption DEF Elements
  <2>4. \E t \in T : \A u \in T : t <= u
    BY Zenon, <2>1, NatMin
  <2>5. \E x \in T : \A e \in Elements(s) : x <= e.ts
    BY Zenon, <2>4
  <2>6. MinTs(s) = CHOOSE x \in T : \A e \in Elements(s) : x <= e.ts
    BY Zenon, <1>2 DEF MinTs
  <2>7. MinTs(s) \in T
    BY Zenon, <2>5, <2>6
  <2> QED BY Zenon, <2>1, <2>7
<1> QED BY Zenon, <1>1, <1>2

(* prune_expired forgets nothing the window still covers, held or queued. *)
LEMMA PruneSafe ==
  ASSUME NEW c \in Cache, NEW t \in Nat
  PROVE  LET p == PruneExpired(c, t) IN
         /\ p \in Cache
         /\ p.journal = c.journal
         /\ Indexed(c) => Indexed(p)
         /\ \A e \in Elements(c.order) : Unexpired(e, t) => e \in Elements(p.order)
         /\ Elements(p.order) \subseteq Elements(c.order)
         /\ \A e \in Elements(c.pending) : Unexpired(e, t) => e \in Elements(p.pending)
         /\ c.pending = <<>> => p.pending = <<>>
<1> DEFINE p == PruneExpired(c, t)
           keep == Retain(c.order, t)
           pend == Retain(c.pending, t)
<1>1. c.order \in Seq(Entry) /\ c.pending \in Seq(Entry)
  BY Zenon DEF Cache
<1>2. /\ keep \in Seq(Entry)
      /\ Elements(keep) = {e \in Elements(c.order) : Unexpired(e, t)}
  BY Zenon, <1>1, RetainKeepsUnexpired
<1>3. /\ pend \in Seq(Entry)
      /\ Elements(pend) = {e \in Elements(c.pending) : Unexpired(e, t)}
  BY Zenon, <1>1, RetainKeepsUnexpired
<1>4. MinTs(keep) \in Nat \cup {None}
  BY Zenon, <1>2, MinTsType
<1> HIDE DEF keep, pend
<1>5. c.pending = <<>> => pend = <<>>
  <2> SUFFICES ASSUME c.pending = <<>>, pend # <<>> PROVE FALSE
    OBVIOUS
  <2>1. Elements(c.pending) = {}
    BY DEF Elements
  <2>2. 1 \in DOMAIN pend
    BY <1>3
  <2>3. pend[1] \in Elements(pend)
    BY Zenon, <2>2 DEF Elements
  <2> QED BY Zenon, <1>3, <2>1, <2>3
<1>6. \/ p = c
      \/ p = [c EXCEPT !.order = keep,
                       !.nonces = {e.nonce : e \in Elements(keep)},
                       !.transcripts = {e.transcript : e \in Elements(keep)},
                       !.oldest = MinTs(keep),
                       !.pending = pend]
  BY Zenon DEF PruneExpired, keep, pend
<1>7. CASE p = c
  BY Zenon, <1>7
<1>8. CASE p # c
  <2>1. /\ DOMAIN p = DOMAIN c
        /\ p.order = keep /\ p.pending = pend /\ p.journal = c.journal
        /\ p.nonces = {e.nonce : e \in Elements(keep)}
        /\ p.transcripts = {e.transcript : e \in Elements(keep)}
        /\ p.oldest = MinTs(keep)
    BY Zenon, <1>6, <1>8 DEF Cache
  <2>2. Elements(keep) \subseteq Entry
    BY <1>2 DEF Elements
  <2>3. p \in Cache
    <3>1. p.nonces \in SUBSET Nat /\ p.transcripts \in SUBSET Nat
      BY <2>1, <2>2, ConstantsAssumption
    <3> QED BY Zenon, <1>2, <1>3, <1>4, <1>6, <1>8, <2>1, <3>1 DEF Cache
  <2>4. Indexed(p)
    BY Zenon, <2>1 DEF Indexed
  <2> QED BY Zenon, <1>2, <1>3, <1>5, <2>1, <2>3, <2>4
<1> QED BY Zenon, <1>7, <1>8

(* A committed header is a header. *)
LEMMA CommittedType ==
  ASSUME NEW f \in File
  PROVE  /\ ActiveSlot(f) \in 0..1 /\ Committed(f) \in Header
         /\ Committed(f).gen \in Nat /\ Committed(f).count \in Nat
         /\ Committed(f).tail \in Seq(Entry)
<1>1. f.slots \in [0..1 -> Header] /\ ActiveSlot(f) \in 0..1
  BY DEF File, ActiveSlot
<1>2. Committed(f) \in Header
  BY Zenon, <1>1 DEF Committed
<1> QED BY Zenon, <1>1, <1>2 DEF Header

(* The position a file's committed header stands for. *)
LEMMA JournalOfType ==
  ASSUME NEW f \in File
  PROVE  /\ JournalOf(f) \in Journal
         /\ JournalOf(f).count = Committed(f).count
         /\ JournalOf(f).tail = Committed(f).tail
         /\ JournalOf(f).slot = ActiveSlot(f)
         /\ f.kind = "v4" => JournalOf(f).gen = Committed(f).gen
BY Zenon, CommittedType DEF JournalOf, Journal

(* The cache of a process that has read nothing. *)
LEMMA EmptyCacheType ==
  /\ NoFile \in File /\ Loads(NoFile)
  /\ EmptyCache \in Cache /\ EmptyCache.order = <<>> /\ EmptyCache.pending = <<>>
  /\ EmptyCache.journal = JournalOf(NoFile) /\ EmptyCache.journal.count = 0
<1>1. NoFile \in File /\ Loads(NoFile)
  BY DEF NoFile, File, TornHeader, Header, Loads
<1>2. JournalOf(NoFile) \in Journal /\ JournalOf(NoFile).count = 0
  <2>1. Committed(NoFile).count = 0
    BY DEF NoFile, Committed, ActiveSlot, TornHeader
  <2> QED BY Zenon, <1>1, <2>1, JournalOfType
<1>3. <<>> \in Seq(Entry) /\ Elements(<<>>) = {} /\ MinTs(<<>>) = None
  BY DEF Elements, MinTs
<1> QED BY Zenon, <1>1, <1>2, <1>3 DEF EmptyCache, Loaded, Cache

(* Two v4 files with the same header slots and the same committed lines      *)
(* commit the same entries.                                                  *)
LEMMA SameCommittedLines ==
  ASSUME NEW f \in File, NEW g \in File, f.kind = "v4", g.kind = "v4",
         g.slots = f.slots, Loads(f), Committed(f).count <= Len(g.body),
         \A i \in 1..Committed(f).count : g.body[i] = f.body[i]
  PROVE  /\ Loads(g) /\ Committed(g) = Committed(f) /\ ActiveSlot(g) = ActiveSlot(f)
         /\ JournalEntries(g) = JournalEntries(f)
<1> DEFINE h == Committed(f)
<1>1. ActiveSlot(g) = ActiveSlot(f) /\ Committed(g) = h
  BY Zenon DEF ActiveSlot, Committed
<1>2. h \in Header /\ h.count \in Nat
  BY Zenon, CommittedType
<1>3. BodyVerifies(f) /\ h.gen > 0
  BY Zenon DEF Loads
<1> HIDE DEF h
<1>4. \A i \in 1..h.count : g.body[i] = f.body[i]
  BY Zenon DEF h
<1>5. \A i \in 1..h.count : Chained(g.body, i)
  <2> TAKE i \in 1..h.count
  <2>1. Chained(f.body, i)
    BY Zenon, <1>3 DEF BodyVerifies, h
  <2>2. g.body[i] = f.body[i] /\ (i # 1 => g.body[i - 1] = f.body[i - 1])
    BY <1>2, <1>4
  <2> QED BY Zenon, <2>1, <2>2 DEF Chained
<1>6. h.tail = IF h.count = 0 THEN <<>> ELSE g.body[h.count]
  BY <1>2, <1>3, <1>4 DEF BodyVerifies, h
<1>7. BodyVerifies(g)
  <2>1. h.count <= Len(g.body)
    BY Zenon DEF h
  <2> QED BY Zenon, <1>1, <1>5, <1>6, <2>1 DEF BodyVerifies
<1>8. JournalEntries(g) = JournalEntries(f)
  <2>1. /\ JournalEntries(g) = [i \in 1..h.count |-> g.body[i][Len(g.body[i])]]
        /\ JournalEntries(f) = [i \in 1..h.count |-> f.body[i][Len(f.body[i])]]
    BY Zenon, <1>1 DEF JournalEntries, h
  <2> QED BY Zenon, <1>4, <2>1
<1> QED BY Zenon, <1>1, <1>3, <1>7, <1>8 DEF Loads, h

(* A torn line appended behind the committed ones, or a whole one, changes   *)
(* neither what the file commits nor whether it loads.                       *)
LEMMA WriteLineSafe ==
  ASSUME NEW f \in File, f.kind = "v4", Loads(f), NEW n \in Nat,
         Committed(f).count <= n, n <= Len(f.body), NEW line \in Seq(Entry)
  PROVE  LET g == WriteLine(f, n, line) IN
         /\ g \in File /\ g.kind = "v4" /\ g.slots = f.slots /\ Loads(g)
         /\ Len(g.body) = n + 1 /\ g.body[n + 1] = line
         /\ \A i \in 1..n : g.body[i] = f.body[i]
         /\ Committed(g) = Committed(f) /\ ActiveSlot(g) = ActiveSlot(f)
         /\ JournalEntries(g) = JournalEntries(f)
<1> DEFINE g == WriteLine(f, n, line)
           b == Append(SubSeq(f.body, 1, n), line)
<1>1. f.body \in Seq(Seq(Entry)) /\ Len(f.body) \in Nat
  BY DEF File
<1>2. /\ SubSeq(f.body, 1, n) \in Seq(Seq(Entry))
      /\ Len(SubSeq(f.body, 1, n)) = n
      /\ \A i \in 1..n : SubSeq(f.body, 1, n)[i] = f.body[i]
  <2>1. \A i \in 1..n : f.body[i] \in Seq(Entry)
    BY <1>1
  <2> QED BY <1>1, <2>1
<1>3. /\ b \in Seq(Seq(Entry)) /\ Len(b) = n + 1 /\ b[n + 1] = line
      /\ \A i \in 1..n : b[i] = f.body[i]
  BY <1>2
<1> HIDE DEF b
<1>4. g = [f EXCEPT !.body = b]
  BY <1>1 DEF WriteLine, b
<1>5. g \in File /\ g.kind = "v4" /\ g.slots = f.slots /\ g.body = b
  BY Zenon, <1>3, <1>4 DEF File
<1> HIDE DEF g
<1>6. Committed(f).count \in Nat
  BY Zenon, CommittedType
<1>7. /\ Loads(g) /\ Committed(g) = Committed(f) /\ ActiveSlot(g) = ActiveSlot(f)
      /\ JournalEntries(g) = JournalEntries(f)
  <2>1. /\ Committed(f).count <= Len(g.body)
        /\ \A i \in 1..Committed(f).count : g.body[i] = f.body[i]
    BY <1>3, <1>5, <1>6
  <2> QED BY Zenon, <1>5, <2>1, SameCommittedLines
<1> QED BY Zenon, <1>3, <1>5, <1>7 DEF g

(* Cutting the file back to a length that holds every committed line. *)
LEMMA TruncateSafe ==
  ASSUME NEW f \in File, f.kind = "v4", Loads(f), NEW n \in Nat,
         Committed(f).count <= n, n <= Len(f.body)
  PROVE  LET g == Truncate(f, n) IN
         /\ g \in File /\ g.kind = "v4" /\ Loads(g) /\ Len(g.body) = n
         /\ Committed(g) = Committed(f) /\ ActiveSlot(g) = ActiveSlot(f)
         /\ JournalEntries(g) = JournalEntries(f)
<1> DEFINE g == Truncate(f, n)
           b == SubSeq(f.body, 1, n)
<1>1. f.body \in Seq(Seq(Entry)) /\ Len(f.body) \in Nat
  BY DEF File
<1>2. b \in Seq(Seq(Entry)) /\ Len(b) = n /\ \A i \in 1..n : b[i] = f.body[i]
  <2>1. \A i \in 1..n : f.body[i] \in Seq(Entry)
    BY <1>1
  <2> QED BY <1>1, <2>1
<1> HIDE DEF b
<1>3. g = [f EXCEPT !.body = b]
  BY <1>1 DEF Truncate, b
<1>4. g \in File /\ g.kind = "v4" /\ g.slots = f.slots /\ g.body = b
  BY Zenon, <1>2, <1>3 DEF File
<1> HIDE DEF g
<1>5. Committed(f).count \in Nat
  BY Zenon, CommittedType
<1>6. /\ Loads(g) /\ Committed(g) = Committed(f) /\ ActiveSlot(g) = ActiveSlot(f)
      /\ JournalEntries(g) = JournalEntries(f)
  <2>1. /\ Committed(f).count <= Len(g.body)
        /\ \A i \in 1..Committed(f).count : g.body[i] = f.body[i]
    BY <1>2, <1>4, <1>5
  <2> QED BY Zenon, <1>4, <2>1, SameCommittedLines
<1> QED BY Zenon, <1>2, <1>4, <1>6 DEF g

(* A torn write to the slot that is not the committed one. *)
LEMMA TornSlotSafe ==
  ASSUME NEW f \in File, f.kind = "v4", Loads(f), NEW i \in 0..1, i # ActiveSlot(f)
  PROVE  LET g == WriteSlot(f, i, TornHeader) IN
         /\ g \in File /\ g.kind = "v4" /\ Loads(g) /\ g.body = f.body
         /\ Committed(g) = Committed(f) /\ ActiveSlot(g) = ActiveSlot(f)
         /\ JournalEntries(g) = JournalEntries(f)
<1> DEFINE g == WriteSlot(f, i, TornHeader)
<1>1. f.slots \in [0..1 -> Header] /\ f.body \in Seq(Seq(Entry))
  BY Zenon DEF File
<1>2. TornHeader \in Header /\ TornHeader.gen = 0
  BY DEF TornHeader, Header
<1>3. g = [f EXCEPT !.slots = [f.slots EXCEPT ![i] = TornHeader]]
  BY Zenon DEF WriteSlot
<1>4. /\ g \in File /\ g.kind = "v4" /\ g.body = f.body
      /\ g.slots = [f.slots EXCEPT ![i] = TornHeader]
  BY <1>1, <1>2, <1>3 DEF File
<1> HIDE DEF g
<1>5. f.slots[0].gen \in Nat /\ f.slots[1].gen \in Nat
  BY <1>1 DEF Header
<1>6. Committed(f).gen > 0
  BY Zenon DEF Loads
<1>7. ActiveSlot(g) = ActiveSlot(f)
  BY <1>1, <1>2, <1>4, <1>5, <1>6 DEF ActiveSlot, Committed
<1>8. Committed(g) = Committed(f)
  BY Zenon, <1>1, <1>4, <1>7, CommittedType DEF Committed
<1>9. BodyVerifies(g)
  <2>1. BodyVerifies(f)
    BY Zenon DEF Loads
  <2> QED BY Zenon, <1>4, <1>8, <2>1 DEF BodyVerifies
<1>10. JournalEntries(g) = JournalEntries(f)
  BY Zenon, <1>4, <1>8 DEF JournalEntries
<1> QED BY Zenon, <1>4, <1>6, <1>7, <1>8, <1>9, <1>10 DEF Loads, g

(* The header commit: the file now selects the new slot, which commits one   *)
(* entry more.                                                               *)
LEMMA CommitSlotSafe ==
  ASSUME NEW f \in File, f.kind = "v4", Loads(f), NEW e \in Entry,
         NEW i \in 0..1, i # ActiveSlot(f), NEW h \in Header,
         Committed(f).count > 0,
         h.gen = Committed(f).gen + 1, h.count = Committed(f).count + 1,
         h.tail = Append(Committed(f).tail, e),
         Len(f.body) = h.count, f.body[h.count] = h.tail
  PROVE  LET g == WriteSlot(f, i, h) IN
         /\ g \in File /\ g.kind = "v4" /\ Loads(g) /\ g.body = f.body
         /\ Committed(g) = h /\ ActiveSlot(g) = i
         /\ Elements(JournalEntries(g)) = Elements(JournalEntries(f)) \cup {e}
<1> DEFINE g == WriteSlot(f, i, h)
           n == Committed(f).count
<1>1. f.slots \in [0..1 -> Header] /\ f.body \in Seq(Seq(Entry))
  BY Zenon DEF File
<1>3. g = [f EXCEPT !.slots = [f.slots EXCEPT ![i] = h]]
  BY Zenon DEF WriteSlot
<1>2. [f.slots EXCEPT ![i] = h] \in [0..1 -> Header]
  BY Zenon, <1>1
<1> HIDE DEF g
<1>4. /\ g \in File /\ g.kind = "v4" /\ g.body = f.body
      /\ g.slots = [f.slots EXCEPT ![i] = h]
  BY Zenon, <1>2, <1>3 DEF File
<1>5. f.slots[0].gen \in Nat /\ f.slots[1].gen \in Nat /\ h.gen \in Nat
  BY <1>1 DEF Header
<1>6. n \in Nat /\ n > 0 /\ h.count = n + 1 /\ Committed(f).tail \in Seq(Entry)
  BY Zenon, CommittedType
<1>7. ActiveSlot(g) = i
  <2>1. h.gen = f.slots[ActiveSlot(f)].gen + 1
    BY Zenon DEF Committed
  <2>2. CASE i = 0
    <3>1. ActiveSlot(f) = 1
      BY <2>2, CommittedType
    <3>2. g.slots[0] = h /\ g.slots[1] = f.slots[1]
      BY <1>1, <1>4, <2>2
    <3> QED BY <1>4, <1>5, <2>1, <2>2, <3>1, <3>2 DEF ActiveSlot
  <2>3. CASE i = 1
    <3>1. ActiveSlot(f) = 0
      BY <2>3, CommittedType
    <3>2. g.slots[1] = h /\ g.slots[0] = f.slots[0]
      BY SMTT(30), <1>1, <1>4, <2>3
    <3> QED BY <1>4, <1>5, <2>1, <2>3, <3>1, <3>2 DEF ActiveSlot
  <2> QED BY <2>2, <2>3
<1>8. Committed(g) = h
  BY Zenon, <1>1, <1>4, <1>7 DEF Committed
<1>9. /\ BodyVerifies(f)
      /\ n = Committed(f).count
  BY Zenon DEF Loads
<1> HIDE DEF n
<1>10. Chained(g.body, n + 1)
  <2>1. Committed(f).tail = f.body[n]
    BY <1>6, <1>9 DEF BodyVerifies
  <2>2. f.body[n + 1] = Append(f.body[n], e)
    BY Zenon, <1>6, <2>1
  <2>3. n + 1 # 1 /\ (n + 1) - 1 = n
    BY <1>6
  <2> QED BY Zenon, <1>4, <2>2, <2>3 DEF Chained
<1>11. \A j \in 1..n : Chained(g.body, j)
  BY Zenon, <1>4, <1>9 DEF BodyVerifies
<1>12. BodyVerifies(g)
  <2>1. \A j \in 1..(n + 1) : Chained(g.body, j)
    BY <1>6, <1>10, <1>11
  <2>2. h.tail = g.body[n + 1] /\ Len(g.body) = n + 1
    BY Zenon, <1>4, <1>6
  <2> QED BY <1>6, <1>8, <2>1, <2>2 DEF BodyVerifies
<1>13. Loads(g)
  <2>1. h.gen > 0
    BY CommittedType
  <2> QED BY Zenon, <1>4, <1>8, <1>12, <2>1 DEF Loads
<1>14. Elements(JournalEntries(g)) = Elements(JournalEntries(f)) \cup {e}
  <2> DEFINE last(j) == f.body[j][Len(f.body[j])]
  <2>1. Elements(JournalEntries(f)) = {last(j) : j \in 1..n}
    BY Zenon, <1>9 DEF Elements, JournalEntries
  <2>2. Elements(JournalEntries(g)) = {last(j) : j \in 1..(n + 1)}
    <3>1. JournalEntries(g) = [j \in 1..h.count |-> g.body[j][Len(g.body[j])]]
      BY Zenon, <1>4, <1>8 DEF JournalEntries
    <3>2. JournalEntries(g) = [j \in 1..(n + 1) |-> last(j)]
      BY Zenon, <1>4, <1>6, <3>1
    <3> QED BY <3>2 DEF Elements
  <2>3. last(n + 1) = e
    <3>1. f.body[n + 1] = Append(Committed(f).tail, e)
      BY Zenon, <1>6
    <3> QED BY <1>6, <3>1
  <2> HIDE DEF last
  <2>4. {last(j) : j \in 1..(n + 1)} = {last(j) : j \in 1..n} \cup {last(n + 1)}
    BY <1>6
  <2> QED BY Zenon, <2>1, <2>2, <2>3, <2>4
<1> QED BY Zenon, <1>4, <1>7, <1>8, <1>13, <1>14 DEF g

(* A compacted journal loads and lists exactly the entries it was made from. *)
LEMMA SerializedSafe ==
  ASSUME NEW s \in Seq(Entry)
  PROVE  LET f == Serialized(s) IN
         /\ f \in File /\ f.kind = "v4" /\ Loads(f) /\ ActiveSlot(f) = 0
         /\ Committed(f) = [gen |-> 1, count |-> Len(s), tail |-> s]
         /\ Len(f.body) = Len(s)
         /\ Elements(JournalEntries(f)) = Elements(s)
<1> DEFINE f == Serialized(s)
           n == Len(s)
           h == [gen |-> 1, count |-> n, tail |-> s]
           b == [i \in 1..n |-> SubSeq(s, 1, i)]
<1>1. n \in Nat /\ h \in Header /\ h.gen = 1 /\ h.count = n /\ h.tail = s
  BY DEF Header
<1>2. \A i \in 1..n : /\ SubSeq(s, 1, i) \in Seq(Entry)
                      /\ Len(SubSeq(s, 1, i)) = i
                      /\ \A j \in 1..i : SubSeq(s, 1, i)[j] = s[j]
  <2> TAKE i \in 1..n
  <2>1. \A j \in 1..i : s[j] \in Entry
    BY <1>1
  <2>2. i \in Int /\ i >= 1
    BY <1>1
  <2> HIDE DEF n
  <2> QED BY <2>1, <2>2
<1>3. b \in Seq(Seq(Entry)) /\ Len(b) = n
  BY <1>1, <1>2
<1>4. /\ f \in File /\ f.kind = "v4" /\ f.body = b
      /\ f.slots = [i \in 0..1 |-> h]
  <2>1. f = [kind |-> "v4", slots |-> [i \in 0..1 |-> h], body |-> b]
    BY Zenon DEF Serialized
  <2> HIDE DEF f, b, h
  <2>2. [i \in 0..1 |-> h] \in [0..1 -> Header]
    BY Zenon, <1>1
  <2> QED BY Zenon, <1>3, <2>1, <2>2 DEF File
<1> HIDE DEF f, h
<1>5. ActiveSlot(f) = 0 /\ Committed(f) = h
  BY <1>1, <1>4 DEF ActiveSlot, Committed
<1>6. \A i \in 1..n : Chained(b, i)
  <2> TAKE i \in 1..n
  <2>1. s[i] \in Entry /\ i \in Nat
    BY <1>1
  <2> DEFINE q == IF i = 1 THEN <<>> ELSE b[i - 1]
  <2>2. q \in Seq(Entry) /\ Len(q) = i - 1 /\ \A j \in 1..(i - 1) : q[j] = s[j]
    BY <1>1, <1>2, <2>1
  <2>3. b[i] \in Seq(Entry) /\ Len(b[i]) = i /\ \A j \in 1..i : b[i][j] = s[j]
    BY Zenon, <1>2
  <2> HIDE DEF q, b
  <2>4. /\ Append(q, s[i]) \in Seq(Entry) /\ Len(Append(q, s[i])) = i
        /\ \A j \in 1..i : Append(q, s[i])[j] = s[j]
    BY <2>1, <2>2
  <2>5. b[i] = Append(q, s[i])
    BY <2>3, <2>4, SameLines
  <2> QED BY Zenon, <2>1, <2>5 DEF Chained, q
<1>7. s = IF n = 0 THEN <<>> ELSE b[n]
  <2>1. CASE n = 0
    BY <2>1
  <2>2. CASE n # 0
    <3>1. b[n] \in Seq(Entry) /\ Len(b[n]) = n /\ \A j \in 1..n : b[n][j] = s[j]
      BY <1>1, <1>2, <2>2
    <3> QED BY Zenon, <2>2, <3>1, SameLines
  <2> QED BY Zenon, <2>1, <2>2
<1>8. Loads(f)
  <2> HIDE DEF b
  <2>1. BodyVerifies(f)
    BY <1>1, <1>3, <1>4, <1>5, <1>6, <1>7 DEF BodyVerifies
  <2> QED BY <1>1, <1>4, <1>5, <2>1 DEF Loads
<1>9. Elements(JournalEntries(f)) = Elements(s)
  <2>1. JournalEntries(f) = [i \in 1..n |-> b[i][Len(b[i])]]
    BY Zenon, <1>1, <1>4, <1>5 DEF JournalEntries
  <2>2. \A i \in 1..n : b[i][Len(b[i])] = s[i]
    BY <1>1, <1>2
  <2>3. Elements(JournalEntries(f)) = {s[i] : i \in 1..n}
    <3> HIDE DEF b, n
    <3>1. DOMAIN JournalEntries(f) = 1..n /\ \A i \in 1..n : JournalEntries(f)[i] = s[i]
      BY Zenon, <2>1, <2>2
    <3> QED BY Zenon, <3>1 DEF Elements
  <2>4. Elements(s) = {s[i] : i \in 1..n}
    BY DEF Elements
  <2> QED BY Zenon, <2>3, <2>4
<1> QED BY Zenon, <1>3, <1>4, <1>5, <1>8, <1>9 DEF f, h

-----------------------------------------------------------------------------
(* How an operation ends. *)

(* pop_pushed_entry undoes the push: what was held besides the tentative     *)
(* entry is still held and indexed.                                          *)
LEMMA PopSafe ==
  ASSUME NEW c \in Cache, c.order # <<>>, Indexed(c),
         \A i \in 1..(Len(c.order) - 1) : ~SameHandshake(c.order[i], c.order[Len(c.order)])
  PROVE  LET p == PopPushedEntry(c) IN
         /\ p \in Cache /\ p.journal = c.journal /\ p.pending = c.pending
         /\ Elements(p.order) = {c.order[i] : i \in 1..(Len(c.order) - 1)}
         /\ Indexed(p)
<1> DEFINE p == PopPushedEntry(c)
           n == Len(c.order)
           e == c.order[n]
           rest == SubSeq(c.order, 1, n - 1)
<1>1. c.order \in Seq(Entry) /\ n \in Nat /\ n > 0
  BY DEF Cache
<1>2. \A i \in 1..(n - 1) : c.order[i] \in Entry
  BY <1>1
<1>3. /\ rest \in Seq(Entry) /\ Len(rest) = n - 1
      /\ \A i \in 1..(n - 1) : rest[i] = c.order[i]
  <2>1. n - 1 \in Int
    BY <1>1
  <2>2. /\ rest \in Seq(Entry) /\ Len(rest) = IF 1 <= n - 1 THEN (n - 1) - 1 + 1 ELSE 0
        /\ \A i \in 1..((n - 1) - 1 + 1) : rest[i] = c.order[1 + i - 1]
    BY <1>2, <2>1
  <2> HIDE DEF n, rest
  <2> QED BY <1>1, <2>2
<1>4. Elements(rest) = {c.order[i] : i \in 1..(n - 1)}
  <2> HIDE DEF rest
  <2> QED BY <1>1, <1>3 DEF Elements
<1>5. MinTs(rest) \in Nat \cup {None}
  BY Zenon, <1>3, MinTsType
<1> HIDE DEF rest
<1>6. p = [c EXCEPT !.order = rest, !.nonces = @ \ {e.nonce},
                    !.transcripts = @ \ {e.transcript},
                    !.oldest = IF @ = e.ts THEN MinTs(rest) ELSE @]
  BY Zenon DEF PopPushedEntry, rest
<1>7. /\ p.order = rest /\ p.journal = c.journal /\ p.pending = c.pending
      /\ p.nonces = c.nonces \ {e.nonce}
      /\ p.transcripts = c.transcripts \ {e.transcript}
  BY Zenon, <1>6 DEF Cache
<1>8. p \in Cache
  BY Zenon, <1>3, <1>5, <1>6 DEF Cache
<1>9. Indexed(p)
  <2> SUFFICES ASSUME NEW x \in Elements(rest)
               PROVE  x.nonce \in p.nonces /\ x.transcript \in p.transcripts
    BY Zenon, <1>7 DEF Indexed
  <2>1. PICK i \in 1..(n - 1) : x = c.order[i]
    BY Zenon, <1>4
  <2>2. x \in Elements(c.order) /\ ~SameHandshake(x, e)
    BY <1>1, <2>1 DEF Elements
  <2> QED BY Zenon, <1>7, <2>2 DEF Indexed, SameHandshake
<1> QED BY Zenon, <1>4, <1>7, <1>8, <1>9

(* An error return keeps the invariant when the disk still loads, still      *)
(* lists what it listed, and the position kept in memory still fits it.      *)
LEMMA FailPreserves ==
  ASSUME IInv, NEW c, c = cache \/ c = NoJournal(cache), pc \in InPersist, Fail(c),
         faults' \in Nat, committedLen' \in Nat,
         file' \in File, inode' \subseteq File, oldPath' \subseteq File,
         InodeInv', JournalAlwaysLoads',
         \A e \in Live : (\A f \in Contents : e \in Elements(JournalEntries(f)))
                         => \A f \in Contents' : e \in Elements(JournalEntries(f)),
         c.journal # None /\ c.journal.count > 0 =>
           /\ file'.kind = "v4" /\ JournalOf(file') = c.journal
           /\ Len(file'.body) = c.journal.count
  PROVE  IInv'
<1> USE DEF IInv
<1>1. Live' = Live /\ NoReplay' /\ now' <= highWater'
  BY Zenon DEF Fail, Live, ghost, clock, NoReplay
<1>2. c \in Cache /\ c.order = cache.order /\ c.pending = cache.pending /\ Indexed(c)
  <2>1. cache \in Cache /\ Indexed(cache)
    BY Zenon DEF TypeOK, LiveHeld, InPersist, InAppend
  <2>2. CASE c = NoJournal(cache)
    <3>1. /\ c \in Cache /\ c.order = cache.order /\ c.pending = cache.pending
          /\ c.nonces = cache.nonces /\ c.transcripts = cache.transcripts
      BY Zenon, <2>1, <2>2 DEF NoJournal, Cache
    <3> QED BY Zenon, <2>1, <3>1 DEF Indexed
  <2> QED BY Zenon, <2>1, <2>2
<1>3. /\ op' = op /\ entry' = entry /\ granted' = granted /\ lost' = lost
      /\ now' = now /\ highWater' = highWater /\ crashes' = crashes
      /\ pc' = IF op = "load" THEN "down" ELSE "idle"
  BY Zenon DEF Fail, ghost, clock
<1>4. CASE op = "load"
  <2>1. cache' = EmptyCache /\ pc' = "down" /\ cache.pending = <<>>
    BY Zenon, <1>3, <1>4 DEF Fail, OpInv
  <2>2. EmptyCache \in Cache /\ EmptyCache.pending = <<>>
    BY Zenon, EmptyCacheType
  <2>3. TypeOK'
    BY Zenon, <1>3, <2>1, <2>2 DEF TypeOK
  <2>4. OpInv' /\ LiveHeld' /\ PositionInv'
    BY Zenon, <2>1, <2>2 DEF OpInv, LiveHeld, PositionInv, InPersist, InAppend
  <2>5. AcceptedIsDurable'
    <3>1. \A e \in Live : \A f \in Contents : e \in Elements(JournalEntries(f))
      BY <2>1 DEF AcceptedIsDurable, Elements, Contents
    <3> QED BY Zenon, <1>1, <3>1 DEF AcceptedIsDurable, Contents
  <2> QED BY Zenon, <1>1, <2>3, <2>4, <2>5
<1>5. CASE op # "load"
  <2>1. /\ cache' \in Cache /\ cache'.journal = c.journal
        /\ cache'.pending = cache.pending /\ Indexed(cache')
        /\ Live \subseteq Elements(cache'.order)
    <3>1. CASE op = "insert"
      <4>1. cache' = PopPushedEntry(c)
        BY Zenon, <3>1 DEF Fail
      <4>2. /\ c.order # <<>> /\ c.order[Len(c.order)] = entry
            /\ \A i \in 1..(Len(c.order) - 1) : ~SameHandshake(c.order[i], entry)
        BY Zenon, <1>2, <3>1 DEF OpInv
      <4>3. Live \subseteq {c.order[i] : i \in 1..(Len(c.order) - 1)}
        BY Zenon, <1>2, <3>1 DEF LiveHeld, Held, InPersist, InAppend
      <4> QED BY Zenon, <1>2, <4>1, <4>2, <4>3, PopSafe
    <3>2. CASE op = "drain"
      <4>1. cache' = c
        BY Zenon, <3>2 DEF Fail
      <4>2. Live \subseteq Elements(c.order)
        BY Zenon, <1>2, <3>2 DEF LiveHeld, Held, InPersist, InAppend
      <4> QED BY Zenon, <1>2, <4>1, <4>2
    <3> QED BY Zenon, <1>5, <3>1, <3>2 DEF TypeOK
  <2>2. pc' = "idle"
    BY Zenon, <1>3, <1>5
  <2>3. TypeOK'
    BY Zenon, <1>3, <2>1, <2>2 DEF TypeOK
  <2>4. OpInv'
    BY Zenon, <2>2 DEF OpInv, InPersist, InAppend
  <2>5. LiveHeld'
    BY Zenon, <1>1, <2>1, <2>2 DEF LiveHeld, Held, InPersist, InAppend
  <2>6. PositionInv'
    BY Zenon, <2>1, <2>2 DEF PositionInv, InAppend
  <2>7. AcceptedIsDurable'
    BY Zenon, <1>1, <2>1 DEF AcceptedIsDurable, Contents
  <2> QED BY Zenon, <1>1, <2>3, <2>4, <2>5, <2>6, <2>7
<1> QED BY Zenon, <1>4, <1>5

(* A successful journal write ends with a single possible content on disk,    *)
(* which the new position describes and which lists what must be durable.     *)
LEMMA SucceedPreserves ==
  ASSUME IInv, pc \in {"synchdr", "dirsync"}, NEW j \in Journal, NEW compacted \in BOOLEAN,
         Succeed([cache EXCEPT !.journal = j], compacted), committedLen' \in Nat,
         file' = file, inode' = {file}, oldPath' = {},
         file.kind = "v4", JournalOf(file) = j, Len(file.body) = j.count,
         op = "insert" \/ (op = "drain" /\ ~compacted) =>
           entry \in Elements(JournalEntries(file)),
         compacted => Held \subseteq Elements(JournalEntries(file))
  PROVE  IInv'
<1> USE DEF IInv
<1> DEFINE c == [cache EXCEPT !.journal = j]
<1>1. /\ cache \in Cache /\ Indexed(cache) /\ pc \in InPersist
      /\ Live \subseteq Held /\ file \in File
  BY Zenon DEF TypeOK, LiveHeld, InPersist, InAppend
<1>2. /\ c \in Cache /\ c.order = cache.order /\ c.pending = cache.pending
      /\ c.journal = j /\ c.nonces = cache.nonces /\ c.transcripts = cache.transcripts
  BY Zenon, <1>1 DEF Cache
<1>3. /\ op' = op /\ entry' = entry /\ lost' = lost /\ now' = now
      /\ highWater' = highWater /\ faults' = faults /\ crashes' = crashes
      /\ pc' = IF op = "drain" THEN "drain" ELSE "idle"
      /\ granted' = IF op = "insert" THEN [granted EXCEPT ![entry] = @ + 1] ELSE granted
  BY Zenon DEF Succeed, clock
<1>4. op = "drain" => cache.pending # <<>> /\ Head(cache.pending) = entry
  BY Zenon, <1>1 DEF OpInv
<1>5. /\ cache' \in Cache /\ cache'.order = cache.order /\ cache'.journal = j
      /\ cache'.nonces = cache.nonces /\ cache'.transcripts = cache.transcripts
      /\ cache'.pending = IF op # "drain" THEN cache.pending
                          ELSE IF compacted THEN <<>> ELSE Tail(cache.pending)
  <2>1. cache' = IF op # "drain" THEN c
                 ELSE [c EXCEPT !.pending = IF compacted THEN <<>> ELSE Tail(@)]
    BY Zenon DEF Succeed
  <2>2. CASE op # "drain"
    BY Zenon, <1>2, <2>1, <2>2
  <2>3. CASE op = "drain"
    <3> DEFINE t == IF compacted THEN <<>> ELSE Tail(cache.pending)
    <3>1. t \in Seq(Entry)
      BY <1>1, <1>4, <2>3 DEF Cache
    <3>2. cache' = [c EXCEPT !.pending = t]
      BY Zenon, <1>2, <2>1, <2>3
    <3> HIDE DEF t, c
    <3>3. /\ cache' \in Cache /\ cache'.order = c.order /\ cache'.journal = c.journal
          /\ cache'.nonces = c.nonces /\ cache'.transcripts = c.transcripts
          /\ cache'.pending = t
      BY Zenon, <1>2, <3>1, <3>2 DEF Cache
    <3> QED BY Zenon, <1>2, <2>3, <3>3 DEF t
  <2> QED BY Zenon, <2>2, <2>3
<1> HIDE DEF c
<1>6. granted' \in [Entry -> Nat]
  <2>1. op = "insert" => entry \in Entry
    BY Zenon, <1>1 DEF OpInv
  <2> QED BY <1>3, <2>1 DEF TypeOK
<1>7. /\ op # "insert" => Live' = Live
      /\ op = "insert" => Live' \subseteq Live \cup {entry}
  BY Zenon, <1>3 DEF Live, TypeOK
<1>8. TypeOK'
  BY Zenon, <1>1, <1>3, <1>5, <1>6 DEF TypeOK
<1>9. OpInv'
  BY Zenon, <1>3 DEF OpInv, InPersist, InAppend
<1>10. LiveHeld'
  <2>1. Indexed(cache')
    BY Zenon, <1>1, <1>5 DEF Indexed
  <2>2. Held' = Elements(cache.order)
    BY Zenon, <1>3, <1>5 DEF Held, InPersist, InAppend
  <2>3. CASE op = "insert"
    <3>1. cache.order \in Seq(Entry) /\ cache.order # <<>>
          /\ entry = cache.order[Len(cache.order)]
      BY Zenon, <1>1, <2>3 DEF Cache, OpInv
    <3>2. Len(cache.order) \in Nat /\ Len(cache.order) > 0
      BY <3>1
    <3>3. entry \in Elements(cache.order) /\ Held \subseteq Elements(cache.order)
      BY <1>1, <2>3, <3>1, <3>2 DEF Elements, Held
    <3> QED BY Zenon, <1>1, <1>7, <2>1, <2>2, <2>3, <3>3 DEF LiveHeld
  <2>4. CASE op # "insert"
    BY Zenon, <1>1, <1>7, <2>1, <2>2, <2>4 DEF LiveHeld, Held
  <2> QED BY Zenon, <2>3, <2>4
<1>11. InodeInv'
  BY CommittedType DEF InodeInv, JournalOf
<1>12. PositionInv'
  BY Zenon, <1>3, <1>5 DEF PositionInv, InAppend
<1>13. JournalAlwaysLoads'
  BY Zenon DEF JournalAlwaysLoads
<1>14. AcceptedIsDurable'
  <2> SUFFICES ASSUME NEW e \in Live', e \notin Elements(cache'.pending)
               PROVE  e \in Elements(JournalEntries(file))
    BY Zenon DEF AcceptedIsDurable
  <2>1. CASE e = entry /\ (op = "insert" \/ (op = "drain" /\ ~compacted))
    BY Zenon, <2>1
  <2>2. CASE ~(e = entry /\ (op = "insert" \/ (op = "drain" /\ ~compacted)))
    <3>1. e \in Live
      BY Zenon, <1>7, <2>2
    <3>2. CASE compacted
      BY Zenon, <1>1, <3>1, <3>2
    <3>3. CASE ~compacted
      <4>1. e \notin Elements(cache.pending)
        <5>1. CASE op = "drain"
          <6>1. cache.pending \in Seq(Entry) /\ cache.pending # <<>>
            BY Zenon, <1>1, <1>4, <5>1 DEF Cache
          <6>2. e # cache.pending[1]
            BY <1>4, <2>2, <3>3, <5>1, <6>1
          <6>3. e \notin Elements(Tail(cache.pending))
            BY Zenon, <1>5, <3>3, <5>1
          <6>4. \A i \in 1..Len(cache.pending) : i # 1 => e # cache.pending[i]
            <7> TAKE i \in 1..Len(cache.pending)
            <7> HAVE i # 1
            <7>1. i - 1 \in 1..Len(Tail(cache.pending))
                  /\ Tail(cache.pending)[i - 1] = cache.pending[i]
              BY <6>1
            <7>2. Tail(cache.pending)[i - 1] \in Elements(Tail(cache.pending))
              BY <6>1, <7>1 DEF Elements
            <7> QED BY Zenon, <6>3, <7>1, <7>2
          <6> QED BY <6>1, <6>2, <6>4 DEF Elements
        <5>2. CASE op # "drain"
          BY Zenon, <1>5, <5>2
        <5> QED BY Zenon, <5>1, <5>2
      <4> QED BY Zenon, <3>1, <4>1 DEF AcceptedIsDurable
    <3> QED BY Zenon, <3>2, <3>3
  <2> QED BY Zenon, <2>1, <2>2
<1>15. NoReplay'
  <2>1. CASE op # "insert"
    BY Zenon, <1>3, <1>7, <2>1 DEF NoReplay
  <2>2. CASE op = "insert"
    <3>1. \A f \in Live : ~SameHandshake(f, entry) /\ ~SameHandshake(entry, f)
      BY Zenon, <1>1, <2>2 DEF Held, OpInv, SameHandshake
    <3>2. entry \in Entry /\ entry \notin Live
      BY Zenon, <1>1, <2>2, <3>1 DEF OpInv, SameHandshake
    <3>3. \A e \in Live : granted'[e] = granted[e]
      BY Zenon, <1>3, <2>2, <3>2 DEF Live, TypeOK
    <3>4. entry \in Live' => granted'[entry] = 1
      BY <1>3, <2>2, <3>2 DEF Live, TypeOK
    <3> QED BY <1>7, <2>2, <3>1, <3>3, <3>4 DEF NoReplay
  <2> QED BY Zenon, <2>1, <2>2
<1> QED BY Zenon, <1>3, <1>8, <1>9, <1>10, <1>11, <1>12, <1>13, <1>14, <1>15

-----------------------------------------------------------------------------
(* The operations in memory. *)

(* push_loaded_entry holds and indexes the new entry and keeps the others. *)
LEMMA PushSafe ==
  ASSUME NEW c \in Cache, Indexed(c), NEW e \in Entry
  PROVE  LET p == PushLoadedEntry(c, e) IN
         /\ p \in Cache /\ p.order = Append(c.order, e) /\ Indexed(p)
         /\ p.journal = c.journal /\ p.pending = c.pending
         /\ Len(p.order) = Len(c.order) + 1 /\ Len(c.order) \in Nat
         /\ p.order[Len(p.order)] = e
         /\ \A i \in 1..Len(c.order) : p.order[i] = c.order[i]
         /\ Elements(p.order) = Elements(c.order) \cup {e}
<1> DEFINE p == PushLoadedEntry(c, e)
           s == Append(c.order, e)
<1>1. c.order \in Seq(Entry) /\ Len(c.order) \in Nat
  BY DEF Cache
<1>2. /\ s \in Seq(Entry) /\ Len(s) = Len(c.order) + 1
      /\ \A i \in 1..Len(c.order) : s[i] = c.order[i]
      /\ s[Len(c.order) + 1] = e
  BY <1>1
<1>3. Elements(s) = Elements(c.order) \cup {e}
  <2> HIDE DEF s
  <2> QED BY <1>1, <1>2 DEF Elements
<1> HIDE DEF s
<1>4. e.ts \in Nat /\ e.nonce \in Nat /\ e.transcript \in Nat
  BY Zenon, ConstantsAssumption
<1>5. p = [c EXCEPT !.order = s, !.nonces = @ \cup {e.nonce},
                    !.transcripts = @ \cup {e.transcript},
                    !.oldest = IF @ = None THEN e.ts ELSE IF e.ts < @ THEN e.ts ELSE @]
  BY Zenon DEF PushLoadedEntry, s
<1>6. /\ p.order = s /\ p.journal = c.journal /\ p.pending = c.pending
      /\ p.nonces = c.nonces \cup {e.nonce}
      /\ p.transcripts = c.transcripts \cup {e.transcript}
  BY Zenon, <1>5 DEF Cache
<1>7. p \in Cache
  <2> DEFINE o == IF c.oldest = None THEN e.ts ELSE IF e.ts < c.oldest THEN e.ts ELSE c.oldest
  <2>1. o \in Nat \cup {None}
    BY Zenon, <1>4 DEF Cache
  <2>2. p = [c EXCEPT !.order = s, !.nonces = c.nonces \cup {e.nonce},
                      !.transcripts = c.transcripts \cup {e.transcript}, !.oldest = o]
    BY Zenon, <1>5
  <2> HIDE DEF o, p
  <2> QED BY Zenon, <1>2, <1>4, <2>1, <2>2 DEF Cache
<1>8. Indexed(p)
  BY Zenon, <1>3, <1>6 DEF Indexed
<1> QED BY Zenon, <1>1, <1>2, <1>3, <1>6, <1>7, <1>8 DEF s

(* What an insert finds after pruning: every live entry, and an entry it may *)
(* push collides with none of them.                                          *)
LEMMA PrunedHoldsLive ==
  ASSUME IInv, pc = "idle"
  PROVE  LET c == PruneExpired(cache, now) IN
         /\ c \in Cache /\ Indexed(c) /\ c.journal = cache.journal
         /\ Live \subseteq Elements(c.order)
         /\ \A x \in Live : x \in Elements(cache.pending) => x \in Elements(c.pending)
         /\ \A e \in Entry : StageOutcome(c, e, now) = "Inserted" =>
              \A x \in Elements(c.order) : ~SameHandshake(x, e)
<1> USE DEF IInv
<1> DEFINE c == PruneExpired(cache, now)
<1>1. cache \in Cache /\ now \in Nat /\ highWater \in Nat
  BY Zenon DEF TypeOK
<1>2. Indexed(cache) /\ Live \subseteq Elements(cache.order)
  BY Zenon DEF LiveHeld, Held, InPersist, InAppend
<1>3. \A x \in Live : Unexpired(x, now)
  <2> TAKE x \in Live
  <2>1. x \in Entry /\ Unexpired(x, highWater)
    BY Zenon DEF Live
  <2>2. x.ts \in Nat /\ Window \in Nat
    BY Zenon, <2>1, ConstantsAssumption
  <2> QED BY <1>1, <2>1, <2>2 DEF Unexpired
<1>4. /\ c \in Cache /\ Indexed(c) /\ c.journal = cache.journal
      /\ \A e \in Elements(cache.order) : Unexpired(e, now) => e \in Elements(c.order)
      /\ \A e \in Elements(cache.pending) : Unexpired(e, now) => e \in Elements(c.pending)
  BY Zenon, <1>1, <1>2, PruneSafe
<1> HIDE DEF c
<1>5. \A e \in Entry : StageOutcome(c, e, now) = "Inserted" =>
         \A x \in Elements(c.order) : ~SameHandshake(x, e)
  <2> TAKE e \in Entry
  <2> HAVE StageOutcome(c, e, now) = "Inserted"
  <2>1. e.nonce \notin c.nonces /\ e.transcript \notin c.transcripts
    BY Zenon DEF StageOutcome
  <2> QED BY Zenon, <1>4, <2>1 DEF Indexed, SameHandshake
<1> QED BY Zenon, <1>2, <1>3, <1>4, <1>5 DEF c

(* insert_new_outcome. *)
LEMMA InsertPreserves ==
  ASSUME IInv, NEW e \in Entry, InsertNewOutcome(e)
  PROVE  IInv'
<1> USE DEF IInv
<1> DEFINE c == PruneExpired(cache, now)
<1>1. /\ pc = "idle" /\ UNCHANGED <<committedLen, disk, clock, ghost, faults, crashes>>
      /\ IF StageOutcome(c, e, now) = "Inserted"
         THEN /\ cache' = PushLoadedEntry(c, e)
              /\ op' = "insert" /\ entry' = e /\ pc' = PersistRoute(cache')
         ELSE cache' = c /\ UNCHANGED <<op, entry, pc>>
  BY Zenon DEF InsertNewOutcome
<1>2. /\ c \in Cache /\ Indexed(c) /\ c.journal = cache.journal
      /\ Live \subseteq Elements(c.order)
      /\ \A x \in Live : x \in Elements(cache.pending) => x \in Elements(c.pending)
      /\ StageOutcome(c, e, now) = "Inserted" =>
              \A x \in Elements(c.order) : ~SameHandshake(x, e)
  BY Zenon, <1>1, PrunedHoldsLive
<1> HIDE DEF c
<1>3. /\ file' = file /\ inode' = inode /\ oldPath' = oldPath /\ now' = now
      /\ highWater' = highWater /\ granted' = granted /\ lost' = lost
      /\ committedLen' = committedLen /\ faults' = faults /\ crashes' = crashes
  BY Zenon, <1>1 DEF disk, clock, ghost
<1>4. Live' = Live /\ NoReplay' /\ JournalAlwaysLoads' /\ InodeInv'
  BY Zenon, <1>3 DEF Live, NoReplay, JournalAlwaysLoads, InodeInv
<1>5. /\ cache.journal \in Journal \cup {None}
      /\ cache.journal # None => cache.journal.count \in Nat
  BY Zenon DEF TypeOK, Cache, Journal
<1>6. CASE StageOutcome(c, e, now) = "Inserted"
  <2>1. /\ cache' \in Cache /\ Indexed(cache')
        /\ cache'.journal = cache.journal /\ cache'.pending = c.pending
        /\ Len(cache'.order) = Len(c.order) + 1 /\ Len(c.order) \in Nat
        /\ cache'.order[Len(cache'.order)] = e
        /\ \A i \in 1..Len(c.order) : cache'.order[i] = c.order[i]
    BY <1>1, <1>2, <1>6, PushSafe
  <2>2. pc' = PersistRoute(cache') /\ op' = "insert" /\ entry' = e
    BY Zenon, <1>1, <1>6
  <2>3. pc' \in {"append", "compact"}
    BY Zenon, <2>2 DEF PersistRoute
  <2>4. Elements(c.order) = {cache'.order[i] : i \in 1..(Len(cache'.order) - 1)}
    <3>1. c.order \in Seq(Entry)
      BY Zenon, <1>2 DEF Cache
    <3>2. Elements(c.order) = {c.order[i] : i \in 1..Len(c.order)}
      BY <3>1 DEF Elements
    <3> QED BY <2>1, <3>2
  <2>5. TypeOK'
    BY Zenon, <1>3, <2>1, <2>2, <2>3 DEF TypeOK
  <2>6. OpInv'
    <3>1. cache'.order # <<>>
      BY SMTT(30), <2>1
    <3>2. \A i \in 1..(Len(cache'.order) - 1) : ~SameHandshake(cache'.order[i], e)
      BY Zenon, <1>2, <1>6, <2>4
    <3> QED BY Zenon, <2>1, <2>2, <2>3, <3>1, <3>2 DEF OpInv, InPersist, InAppend
  <2>7. LiveHeld'
    BY Zenon, <1>2, <1>4, <2>1, <2>2, <2>3, <2>4 DEF LiveHeld, Held, InPersist, InAppend
  <2>8. PositionInv'
    <3>1. pc' = "append" => cache.journal # None /\ cache.journal.count > 0
      BY SMTT(30), <1>5, <2>1, <2>2 DEF PersistRoute
    <3> QED BY Zenon, <1>1, <1>3, <2>1, <2>3, <3>1 DEF PositionInv, InAppend
  <2>9. AcceptedIsDurable'
    BY Zenon, <1>2, <1>3, <1>4, <2>1 DEF AcceptedIsDurable
  <2> QED BY Zenon, <1>3, <1>4, <2>5, <2>6, <2>7, <2>8, <2>9
<1>7. CASE StageOutcome(c, e, now) # "Inserted"
  <2>1. cache' = c /\ op' = op /\ entry' = entry /\ pc' = "idle"
    BY Zenon, <1>1, <1>7
  <2>2. TypeOK'
    BY Zenon, <1>2, <1>3, <2>1 DEF TypeOK
  <2>3. OpInv' /\ LiveHeld'
    BY Zenon, <1>2, <1>4, <2>1 DEF OpInv, LiveHeld, Held, InPersist, InAppend
  <2>4. PositionInv'
    BY Zenon, <1>1, <1>2, <1>3, <2>1 DEF PositionInv, InAppend
  <2>5. AcceptedIsDurable'
    BY Zenon, <1>2, <1>3, <1>4, <2>1 DEF AcceptedIsDurable
  <2> QED BY Zenon, <1>3, <1>4, <2>2, <2>3, <2>4, <2>5
<1> QED BY Zenon, <1>6, <1>7

(* insert_new_outcome_deferred: the entry counts at once and waits in the    *)
(* queue for its line.                                                       *)
LEMMA InsertDeferredPreserves ==
  ASSUME IInv, NEW e \in Entry, InsertNewOutcomeDeferred(e)
  PROVE  IInv'
<1> USE DEF IInv
<1> DEFINE c == PruneExpired(cache, now)
           p == PushLoadedEntry(c, e)
<1>1. /\ pc = "idle"
      /\ IF StageOutcome(c, e, now) = "Inserted"
         THEN /\ cache' = [p EXCEPT !.pending = Append(@, e)]
              /\ granted' = [granted EXCEPT ![e] = @ + 1]
         ELSE cache' = c /\ UNCHANGED granted
  BY Zenon DEF InsertNewOutcomeDeferred
<1>2. /\ c \in Cache /\ Indexed(c) /\ c.journal = cache.journal
      /\ Live \subseteq Elements(c.order)
      /\ \A x \in Live : x \in Elements(cache.pending) => x \in Elements(c.pending)
      /\ StageOutcome(c, e, now) = "Inserted" =>
              \A x \in Elements(c.order) : ~SameHandshake(x, e)
  BY Zenon, <1>1, PrunedHoldsLive
<1> HIDE DEF c
<1>3. /\ file' = file /\ inode' = inode /\ oldPath' = oldPath /\ now' = now
      /\ highWater' = highWater /\ lost' = lost /\ pc' = "idle" /\ op' = op
      /\ entry' = entry
      /\ committedLen' = committedLen /\ faults' = faults /\ crashes' = crashes
  BY Zenon, <1>1 DEF InsertNewOutcomeDeferred, disk, clock
<1>4. JournalAlwaysLoads' /\ InodeInv' /\ OpInv'
  BY Zenon, <1>3 DEF JournalAlwaysLoads, InodeInv, OpInv, InPersist, InAppend
<1>5. CASE StageOutcome(c, e, now) = "Inserted"
  <2>1. /\ p \in Cache /\ Indexed(p) /\ p.journal = cache.journal
        /\ p.pending = c.pending /\ Elements(p.order) = Elements(c.order) \cup {e}
    BY Zenon, <1>2, PushSafe
  <2>2. cache' = [p EXCEPT !.pending = Append(p.pending, e)]
    BY Zenon, <1>1, <1>5
  <2> HIDE DEF p
  <2>3. /\ p.pending \in Seq(Entry) /\ Append(p.pending, e) \in Seq(Entry)
        /\ Elements(Append(p.pending, e)) = Elements(p.pending) \cup {e}
    <3>1. p.pending \in Seq(Entry)
      BY Zenon, <2>1 DEF Cache
    <3> DEFINE q == p.pending
    <3>2. q \in Seq(Entry)
      BY <3>1
    <3> HIDE DEF q
    <3>3. /\ Append(q, e) \in Seq(Entry) /\ Len(q) \in Nat /\ Len(Append(q, e)) = Len(q) + 1
          /\ \A i \in 1..Len(q) : Append(q, e)[i] = q[i]
          /\ Append(q, e)[Len(q) + 1] = e
      BY <3>2
    <3>4. Elements(Append(q, e)) = Elements(q) \cup {e}
      BY <3>3 DEF Elements
    <3> QED BY <3>1, <3>3, <3>4 DEF q
  <2>4. /\ cache' \in Cache /\ cache'.journal = cache.journal /\ cache'.order = p.order
        /\ cache'.pending = Append(p.pending, e)
        /\ cache'.nonces = p.nonces /\ cache'.transcripts = p.transcripts
    BY Zenon, <2>1, <2>2, <2>3 DEF Cache
  <2>5. granted' = [granted EXCEPT ![e] = @ + 1] /\ granted \in [Entry -> Nat]
    BY Zenon, <1>1, <1>5 DEF TypeOK
  <2>6. Live' \subseteq Live \cup {e}
    BY Zenon, <1>3, <2>5 DEF Live
  <2>7. TypeOK'
    BY SMTT(30), <1>3, <2>4, <2>5 DEF TypeOK
  <2>8. LiveHeld'
    <3>1. Indexed(cache')
      BY Zenon, <2>1, <2>4 DEF Indexed
    <3> QED BY Zenon, <1>2, <1>3, <2>1, <2>4, <2>6, <3>1 DEF LiveHeld, Held, InPersist, InAppend
  <2>9. PositionInv'
    BY Zenon, <1>1, <1>3, <2>4 DEF PositionInv, InAppend
  <2>10. AcceptedIsDurable'
    BY Zenon, <1>2, <1>3, <2>1, <2>3, <2>4, <2>6 DEF AcceptedIsDurable
  <2>11. NoReplay'
    <3>1. \A f \in Live : ~SameHandshake(f, e) /\ ~SameHandshake(e, f)
      BY Zenon, <1>2, <1>5 DEF SameHandshake
    <3>2. e \notin Live
      BY Zenon, <3>1 DEF SameHandshake
    <3>3. \A x \in Live : granted'[x] = granted[x]
      BY Zenon, <2>5, <3>2 DEF Live
    <3>4. e \in Live' => granted'[e] = 1
      BY <1>3, <2>5, <3>2 DEF Live
    <3> QED BY <2>6, <3>1, <3>3, <3>4 DEF NoReplay
  <2> QED BY Zenon, <1>3, <1>4, <2>7, <2>8, <2>9, <2>10, <2>11
<1>6. CASE StageOutcome(c, e, now) # "Inserted"
  <2>1. cache' = c /\ granted' = granted
    BY Zenon, <1>1, <1>6
  <2>2. Live' = Live /\ NoReplay'
    BY Zenon, <1>3, <2>1 DEF Live, NoReplay
  <2>3. TypeOK'
    BY Zenon, <1>2, <1>3, <2>1 DEF TypeOK
  <2>4. LiveHeld'
    BY Zenon, <1>2, <1>3, <2>1, <2>2 DEF LiveHeld, Held, InPersist, InAppend
  <2>5. PositionInv'
    BY Zenon, <1>1, <1>2, <1>3, <2>1 DEF PositionInv, InAppend
  <2>6. AcceptedIsDurable'
    BY Zenon, <1>2, <1>3, <2>1, <2>2 DEF AcceptedIsDurable
  <2> QED BY Zenon, <1>3, <1>4, <2>2, <2>3, <2>4, <2>5, <2>6
<1> QED BY Zenon, <1>5, <1>6

(* persist_pending: the start of the loop and each of its turns. *)
LEMMA DrainPreserves ==
  ASSUME IInv, PersistPending \/ DrainNext
  PROVE  IInv'
<1> USE DEF IInv
<1>1. /\ file' = file /\ inode' = inode /\ oldPath' = oldPath /\ now' = now
      /\ highWater' = highWater /\ granted' = granted /\ lost' = lost
      /\ committedLen' = committedLen /\ faults' = faults /\ crashes' = crashes
      /\ pc \in {"idle", "drain"}
  BY Zenon DEF PersistPending, DrainNext, disk, clock, ghost
<1>2. Live' = Live /\ NoReplay' /\ JournalAlwaysLoads' /\ InodeInv'
  BY Zenon, <1>1 DEF Live, NoReplay, JournalAlwaysLoads, InodeInv
<1>3. /\ cache \in Cache /\ Indexed(cache) /\ Live \subseteq Elements(cache.order)
      /\ cache.pending \in Seq(Entry)
  BY Zenon, <1>1 DEF TypeOK, Cache, LiveHeld, Held, InPersist, InAppend
<1>4. CASE cache' = cache /\ pc' \in {"idle", "drain"} /\ op' = op /\ entry' = entry
  <2>1. TypeOK' /\ OpInv' /\ LiveHeld' /\ AcceptedIsDurable'
    BY Zenon, <1>1, <1>2, <1>3, <1>4
       DEF TypeOK, OpInv, LiveHeld, Held, AcceptedIsDurable, InPersist, InAppend
  <2>2. PositionInv'
    BY Zenon, <1>1, <1>4 DEF PositionInv, InAppend
  <2> QED BY Zenon, <1>1, <1>2, <2>1, <2>2
<1>5. CASE /\ cache.pending # <<>> /\ Head(cache.pending).nonce \notin cache.nonces
           /\ cache' = [cache EXCEPT !.pending = Tail(@)]
           /\ pc' = "drain" /\ op' = op /\ entry' = entry
  <2>1. Tail(cache.pending) \in Seq(Entry)
    BY <1>3, <1>5
  <2>2. /\ cache' \in Cache /\ cache'.order = cache.order /\ cache'.journal = cache.journal
        /\ cache'.nonces = cache.nonces /\ cache'.transcripts = cache.transcripts
        /\ cache'.pending = Tail(cache.pending)
    BY Zenon, <1>3, <1>5, <2>1 DEF Cache
  <2>3. \A x \in Live : x \in Elements(cache.pending) => x \in Elements(Tail(cache.pending))
    <3> TAKE x \in Live
    <3> HAVE x \in Elements(cache.pending)
    <3>1. x.nonce \in cache.nonces
      BY Zenon, <1>3 DEF Indexed
    <3>2. PICK i \in 1..Len(cache.pending) : x = cache.pending[i]
      BY <1>3 DEF Elements
    <3>3. i # 1
      BY <1>3, <1>5, <3>1, <3>2
    <3>4. /\ Len(Tail(cache.pending)) = Len(cache.pending) - 1
          /\ \A j \in 1..Len(Tail(cache.pending)) :
               Tail(cache.pending)[j] = cache.pending[j + 1]
      BY <1>3, <1>5
    <3>5. Len(cache.pending) \in Nat /\ i - 1 \in 1..(Len(cache.pending) - 1)
      BY <1>3, <3>2, <3>3
    <3>6. Tail(cache.pending)[i - 1] = x
      BY <3>2, <3>4, <3>5
    <3>7. DOMAIN Tail(cache.pending) = 1..(Len(cache.pending) - 1)
      BY <2>1, <3>4
    <3> QED BY Zenon, <3>5, <3>6, <3>7 DEF Elements
  <2>4. TypeOK' /\ OpInv' /\ LiveHeld'
    BY Zenon, <1>1, <1>2, <1>3, <1>5, <2>2
       DEF TypeOK, OpInv, LiveHeld, Held, Indexed, InPersist, InAppend
  <2>5. PositionInv'
    BY Zenon, <1>1, <1>5, <2>2 DEF PositionInv, InAppend
  <2>6. AcceptedIsDurable'
    BY Zenon, <1>1, <1>2, <2>2, <2>3 DEF AcceptedIsDurable
  <2> QED BY Zenon, <1>1, <1>2, <2>4, <2>5, <2>6
<1>6. CASE /\ cache.pending # <<>> /\ Head(cache.pending).nonce \in cache.nonces
           /\ op' = "drain" /\ entry' = Head(cache.pending) /\ pc = "drain"
           /\ pc' = PersistRoute(cache) /\ cache' = cache
  <2>1. Head(cache.pending) \in Entry
    BY <1>3, <1>6
  <2>2. pc' \in {"append", "compact"}
    BY Zenon, <1>6 DEF PersistRoute
  <2>3. TypeOK'
    BY Zenon, <1>1, <1>6, <2>1, <2>2 DEF TypeOK
  <2>4. OpInv'
    BY Zenon, <1>6, <2>1, <2>2 DEF OpInv, InPersist, InAppend
  <2>5. LiveHeld' /\ AcceptedIsDurable'
    BY Zenon, <1>1, <1>2, <1>3, <1>6, <2>2 DEF LiveHeld, Held, AcceptedIsDurable
  <2>6. PositionInv'
    <3>1. cache.journal # None => cache.journal.count \in Nat
      BY Zenon, <1>3 DEF Cache, Journal
    <3>2. pc' = "append" => cache.journal # None /\ cache.journal.count > 0
      BY <1>6, <3>1 DEF PersistRoute
    <3> QED BY Zenon, <1>1, <1>6, <2>2, <3>2 DEF PositionInv, InAppend
  <2> QED BY Zenon, <1>1, <1>2, <2>3, <2>4, <2>5, <2>6
<1> QED BY Zenon, <1>4, <1>5, <1>6 DEF PersistPending, DrainNext

-----------------------------------------------------------------------------
(* Loading, the clock and crashes. *)

(* A journal that loads lists entries. *)
LEMMA JournalEntriesType ==
  ASSUME NEW f \in File, Loads(f)
  PROVE  JournalEntries(f) \in Seq(Entry)
<1>1. CASE f.kind \in {"none", "empty"}
  BY <1>1 DEF JournalEntries
<1>2. CASE f.kind \notin {"none", "empty"}
  <2> DEFINE n == Committed(f).count
             last(i) == f.body[i][Len(f.body[i])]
  <2>1. n \in Nat /\ n <= Len(f.body) /\ \A i \in 1..n : Chained(f.body, i)
    BY Zenon, <1>2, CommittedType DEF Loads, BodyVerifies
  <2>2. f.body \in Seq(Seq(Entry))
    BY Zenon DEF File
  <2>3. \A i \in 1..n : last(i) \in Entry
    <3> TAKE i \in 1..n
    <3> DEFINE q == IF i = 1 THEN <<>> ELSE f.body[i - 1]
    <3>1. PICK e \in Entry : f.body[i] = Append(q, e)
      BY Zenon, <2>1 DEF Chained
    <3>2. q \in Seq(Entry)
      BY <2>1, <2>2
    <3> HIDE DEF q
    <3>3. Append(q, e)[Len(Append(q, e))] = e
      BY <3>2
    <3> QED BY Zenon, <3>1, <3>3
  <2>4. JournalEntries(f) = [i \in 1..n |-> last(i)]
    BY Zenon, <1>2 DEF JournalEntries
  <2> HIDE DEF n, last
  <2> QED BY SMTT(30), <2>1, <2>3, <2>4
<1> QED BY Zenon, <1>1, <1>2

(* load_authenticated_with_window restores every accepted entry in force. *)
LEMMA LoadPreserves ==
  ASSUME IInv, Load
  PROVE  IInv'
<1> USE DEF IInv
<1>1. /\ file' = file /\ inode' = inode /\ oldPath' = oldPath /\ now' = now
      /\ highWater' = highWater /\ granted' = granted /\ lost' = lost
      /\ committedLen' = committedLen /\ faults' = faults /\ crashes' = crashes
      /\ entry' = entry /\ op' = "load" /\ pc = "down" /\ Loads(file)
      /\ pc' \in {"idle", "compact"}
  BY Zenon DEF Load, disk, clock, ghost
<1>2. /\ Live' = Live /\ NoReplay' /\ JournalAlwaysLoads' /\ InodeInv'
      /\ cache.pending = <<>> /\ Live \subseteq Elements(JournalEntries(file))
  <2>1. cache.pending = <<>>
    BY Zenon, <1>1 DEF OpInv
  <2>2. Elements(cache.pending) = {}
    BY <2>1 DEF Elements
  <2> QED BY Zenon, <1>1, <2>1, <2>2 DEF Live, NoReplay, JournalAlwaysLoads, InodeInv, AcceptedIsDurable
<1>3. file \in File /\ now \in Nat
  BY Zenon DEF TypeOK
<1>4. SUFFICES /\ cache' \in Cache /\ Live \subseteq Elements(cache'.order)
               /\ Indexed(cache') /\ cache'.pending = <<>> /\ PositionInv'
  <2>1. cache' \in Cache /\ Live \subseteq Elements(cache'.order) /\ Indexed(cache')
    BY Zenon, <1>4
  <2>2. cache'.pending = <<>> /\ PositionInv'
    BY Zenon, <1>4
  <2>3. TypeOK' /\ OpInv'
    BY Zenon, <1>1, <2>1, <2>2 DEF TypeOK, OpInv, InPersist, InAppend
  <2>4. LiveHeld'
    BY Zenon, <1>1, <1>2, <2>1 DEF LiveHeld, Held
  <2>5. AcceptedIsDurable'
    <3>1. Elements(cache.pending) = {}
      BY <1>2 DEF Elements
    <3> QED BY Zenon, <1>1, <1>2, <3>1 DEF AcceptedIsDurable
  <2> QED BY Zenon, <1>1, <1>2, <2>2, <2>3, <2>4, <2>5
<1>5. CASE file.kind \in {"none", "empty"}
  <2>1. cache' = EmptyCache /\ pc' = "idle"
    BY Zenon, <1>5 DEF Load
  <2>2. Elements(JournalEntries(file)) = {} /\ Elements(EmptyCache.order) = {}
    <3>1. JournalEntries(file) = <<>>
      BY Zenon, <1>5 DEF JournalEntries
    <3>2. EmptyCache.order = <<>>
      BY Zenon, EmptyCacheType
    <3>3. Elements(<<>>) = {}
      BY DEF Elements
    <3> QED BY Zenon, <3>1, <3>2, <3>3
  <2>3. PositionInv'
    <3>1. ~(cache'.journal.count > 0)
      BY <2>1, EmptyCacheType
    <3>2. pc' \notin InAppend /\ pc' # "dirsync"
      BY Zenon, <2>1 DEF InAppend
    <3> QED BY Zenon, <2>1, <3>1, <3>2 DEF PositionInv, InAppend
  <2>4. EmptyCache \in Cache /\ EmptyCache.pending = <<>> /\ EmptyCache.order = <<>>
    BY Zenon, EmptyCacheType
  <2>5. Indexed(EmptyCache)
    BY Zenon, <2>2 DEF Indexed
  <2>6. Live \subseteq Elements(EmptyCache.order)
    BY Zenon, <1>2, <2>2
  <2>7. cache' \in Cache /\ cache'.pending = <<>>
    BY Zenon, <2>1, <2>4
  <2>8. Indexed(cache')
    BY Zenon, <2>1, <2>5
  <2>9. Live \subseteq Elements(cache'.order)
    BY Zenon, <2>1, <2>6
  <2> QED BY Zenon, <2>3, <2>7, <2>8, <2>9
<1>6. CASE file.kind \notin {"none", "empty"}
  <2> DEFINE s == JournalEntries(file)
             c == Loaded(s, JournalOf(file))
  <2>1. cache' = PruneExpired(c, now) /\ pc' = IF NeedsRewrite(file) THEN "compact" ELSE "idle"
    BY Zenon, <1>6 DEF Load
  <2>2. s \in Seq(Entry)
    BY Zenon, <1>1, <1>3, JournalEntriesType
  <2>3. JournalOf(file) \in Journal /\ JournalOf(file).count = Committed(file).count
    BY Zenon, <1>3, JournalOfType
  <2>4. MinTs(s) \in Nat \cup {None}
    BY Zenon, <2>2, MinTsType
  <2> HIDE DEF s
  <2>5. c = [order |-> s, nonces |-> {e.nonce : e \in Elements(s)},
             transcripts |-> {e.transcript : e \in Elements(s)}, oldest |-> MinTs(s),
             pending |-> <<>>, journal |-> JournalOf(file)]
    BY Zenon DEF Loaded
  <2> HIDE DEF c
  <2>6. Elements(s) \subseteq Entry
    BY <2>2 DEF Elements
  <2>7. {e.nonce : e \in Elements(s)} \subseteq Nat /\ {e.transcript : e \in Elements(s)} \subseteq Nat
    BY <2>6, ConstantsAssumption
  <2>8. c \in Cache /\ c.order = s /\ c.pending = <<>> /\ c.journal = JournalOf(file)
    BY SMTT(30), <2>2, <2>3, <2>4, <2>5, <2>7 DEF Cache
  <2>9. Indexed(c)
    BY Zenon, <2>5 DEF Indexed
  <2>10. /\ cache' \in Cache /\ Indexed(cache') /\ cache'.pending = <<>>
         /\ cache'.journal = JournalOf(file)
         /\ \A e \in Elements(s) : Unexpired(e, now) => e \in Elements(cache'.order)
    BY Zenon, <1>3, <2>1, <2>8, <2>9, PruneSafe
  <2>11. Live \subseteq Elements(cache'.order)
    <3>1. \A e \in Live : Unexpired(e, now)
      <4> TAKE e \in Live
      <4>1. e.ts \in Nat /\ Unexpired(e, highWater)
        BY Zenon, ConstantsAssumption DEF Live
      <4> QED BY SMTT(30), <4>1, ConstantsAssumption DEF Unexpired, TypeOK
    <3> QED BY Zenon, <1>2, <2>10, <3>1 DEF s
  <2>12. PositionInv'
    <3>1. pc' = "idle" => file.kind = "v4" /\ Len(file.body) = Committed(file).count
      <4> HAVE pc' = "idle"
      <4>1. ~NeedsRewrite(file)
        BY Zenon, <2>1
      <4>2. file.kind = "v4"
        BY Zenon, <1>3, <1>6, <4>1 DEF NeedsRewrite, File
      <4>3. Committed(file).count <= Len(file.body)
        BY Zenon, <1>1, <4>2 DEF Loads, BodyVerifies
      <4>4. Committed(file).count \in Nat /\ Len(file.body) \in Nat
        BY <1>3, CommittedType DEF File
      <4> QED BY <4>1, <4>2, <4>3, <4>4 DEF NeedsRewrite
    <3> QED BY Zenon, <1>1, <2>3, <2>10, <3>1 DEF PositionInv, InAppend
  <2> QED BY Zenon, <2>10, <2>11, <2>12
<1> QED BY Zenon, <1>5, <1>6

(* Time passing, in either direction, revives no entry: Live is measured     *)
(* against the latest clock value.                                           *)
LEMMA ClockPreserves ==
  ASSUME IInv, Tick \/ ClockRollback
  PROVE  IInv'
<1> USE DEF IInv
<1>1. /\ cache' = cache /\ pc' = pc /\ op' = op /\ entry' = entry
      /\ committedLen' = committedLen /\ file' = file /\ inode' = inode
      /\ oldPath' = oldPath /\ granted' = granted /\ lost' = lost /\ crashes' = crashes
  BY Zenon DEF Tick, ClockRollback, memory, disk, ghost
<1>2. /\ now' \in Nat /\ highWater' \in Nat /\ faults' \in Nat
      /\ now' <= highWater' /\ highWater <= highWater'
  BY DEF TypeOK, Tick, ClockRollback, Fault
<1>3. Live' \subseteq Live
  <2> SUFFICES ASSUME NEW e \in Entry, Unexpired(e, highWater')
               PROVE  Unexpired(e, highWater)
    BY Zenon, <1>1 DEF Live
  <2>1. e.ts \in Nat
    BY Zenon, ConstantsAssumption
  <2> QED BY <1>2, <2>1, ConstantsAssumption DEF Unexpired, TypeOK
<1>4. TypeOK' /\ OpInv' /\ InodeInv' /\ JournalAlwaysLoads'
  BY Zenon, <1>1, <1>2 DEF TypeOK, OpInv, InodeInv, JournalAlwaysLoads
<1>5. LiveHeld' /\ AcceptedIsDurable' /\ NoReplay'
  BY SMTT(30), <1>1, <1>3 DEF LiveHeld, Held, AcceptedIsDurable, NoReplay
<1>6. PositionInv'
  BY Zenon, <1>1 DEF PositionInv, NextTail, NextHeader, TargetSlot
<1> QED BY Zenon, <1>2, <1>4, <1>5, <1>6

(* A death forgets the process, and keeps one of the possible disk contents. *)
LEMMA DeathPreserves ==
  ASSUME IInv, Kill \/ PowerLoss
  PROVE  IInv'
<1> USE DEF IInv
<1>1. /\ pc' = "down" /\ cache' = EmptyCache /\ op' = op /\ entry' = entry
      /\ committedLen' = committedLen /\ now' = now /\ highWater' = highWater
      /\ granted' = granted /\ faults' = faults /\ crashes' \in Nat
      /\ lost' = lost \cup Elements(cache.pending)
  BY SMTT(30) DEF Kill, PowerLoss, Die, clock, TypeOK
<1>2. /\ file' \in Contents /\ inode' \subseteq Contents /\ oldPath' \subseteq Contents
      /\ InodeInv'
  <2>1. CASE Kill
    BY Zenon, <2>1 DEF Kill, disk, Contents, InodeInv
  <2>2. CASE PowerLoss
    <3>1. file' \in Contents /\ inode' = {file'} /\ oldPath' = {}
      BY Zenon, <2>2 DEF PowerLoss, Contents
    <3>2. Loads(file') /\ file' \in File
      BY Zenon, <3>1 DEF JournalAlwaysLoads, Contents, TypeOK
    <3>3. /\ Committed(file').count \in Nat /\ Len(file'.body) \in Nat
          /\ file'.kind = "v4" => Committed(file').count <= Len(file'.body)
      BY <3>2, CommittedType DEF Loads, BodyVerifies, File
    <3> QED BY <3>1, <3>3 DEF InodeInv
  <2> QED BY Zenon, <2>1, <2>2
<1>3. cache.pending \in Seq(Entry)
  BY Zenon DEF TypeOK, Cache
<1>4. Live' \subseteq Live /\ Live' \cap Elements(cache.pending) = {}
  BY Zenon, <1>1 DEF Live
<1>5. TypeOK'
  <2>1. Contents \subseteq File
    BY Zenon DEF TypeOK, Contents
  <2>2. Elements(cache.pending) \subseteq Entry
    <3>1. \A i \in DOMAIN cache.pending : cache.pending[i] \in Entry
      BY <1>3
    <3> QED BY Zenon, <3>1 DEF Elements
  <2> QED BY Zenon, <1>1, <1>2, <2>1, <2>2, EmptyCacheType DEF TypeOK
<1>6. OpInv' /\ LiveHeld' /\ PositionInv'
  BY Zenon, <1>1, EmptyCacheType DEF OpInv, LiveHeld, PositionInv, InPersist, InAppend
<1>7. JournalAlwaysLoads' /\ AcceptedIsDurable'
  BY Zenon, <1>2, <1>4 DEF JournalAlwaysLoads, AcceptedIsDurable, Contents
<1>8. NoReplay'
  BY Zenon, <1>1, <1>4 DEF NoReplay
<1> QED BY Zenon, <1>1, <1>2, <1>5, <1>6, <1>7, <1>8

==============================================================================
