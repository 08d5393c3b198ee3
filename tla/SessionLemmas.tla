---------------------------- MODULE SessionLemmas -----------------------------
(***************************************************************************)
(* What the steps of the session rest on: what a write to a connection and *)
(* a read from it make of the records in flight, and what the invariant    *)
(* says of the record an end reads next.                                   *)
(***************************************************************************)
EXTENDS SessionInvariant, TLAPS

-----------------------------------------------------------------------------
(* Records in flight *)

\* What a write appends to a connection (write_all) stands behind what is
\* there.
LEMMA Concat ==
  ASSUME NEW q \in Seq(Rec), NEW us \in Seq(Rec)
  PROVE  /\ q \o us \in Seq(Rec) /\ In(q \o us) = In(q) \cup In(us)
         /\ Len(q \o us) = Len(q) + Len(us)
         /\ \A i \in 1..Len(q) : (q \o us)[i] = q[i]
         /\ \A i \in 1..Len(us) : (q \o us)[Len(q) + i] = us[i]
         /\ \A i \in Len(q)+1..Len(q)+Len(us) : (q \o us)[i] = us[i - Len(q)]
<1>1. /\ q \o us \in Seq(Rec)
      /\ Len(q \o us) = Len(q) + Len(us)
      /\ \A i \in 1..Len(q) : (q \o us)[i] = q[i]
      /\ \A i \in 1..Len(us) : (q \o us)[Len(q) + i] = us[i]
      /\ \A i \in Len(q)+1..Len(q)+Len(us) : (q \o us)[i] = us[i - Len(q)]
  OBVIOUS
<1> DEFINE b == q \o us
<1> HIDE DEF b
<1>2. In(b) \subseteq In(q) \cup In(us)
  <2> SUFFICES ASSUME NEW i \in 1..Len(b) PROVE b[i] \in In(q) \cup In(us)
    BY DEF In
  <2>1. CASE i \in 1..Len(q) BY <1>1, <2>1 DEF b, In
  <2>2. CASE i \in Len(q)+1..Len(q)+Len(us) 
    <3>1. i - Len(q) \in 1..Len(us) BY <2>2
    <3> QED BY <1>1, <2>2, <3>1 DEF b, In
  <2> QED BY <1>1, <2>1, <2>2 DEF b
<1>3. In(q) \cup In(us) \subseteq In(b)
  <2>1. ASSUME NEW i \in 1..Len(q) PROVE q[i] \in In(b)
    <3>1. i \in 1..Len(b) /\ b[i] = q[i] BY <1>1 DEF b
    <3> QED BY <3>1 DEF In
  <2>2. ASSUME NEW i \in 1..Len(us) PROVE us[i] \in In(b)
    <3>1. Len(q) + i \in 1..Len(b) /\ b[Len(q) + i] = us[i] BY <1>1 DEF b
    <3> QED BY <3>1 DEF In
  <2> QED BY Zenon, <2>1, <2>2 DEF In
<1> QED BY <1>1, <1>2, <1>3 DEF b

\* An empty connection holds no record.
LEMMA Nothing == In(<<>>) = {}
BY DEF In

\* A read takes the first record and leaves the others in their order.
LEMMA RestIs ==
  ASSUME NEW q \in Seq(Rec), q # <<>>
  PROVE  /\ Tail(q) \in Seq(Rec) /\ In(Tail(q)) \subseteq In(q) /\ Head(q) \in In(q)
         /\ Len(Tail(q)) = Len(q) - 1 /\ Len(q) > 0 /\ Head(q) = q[1] /\ Head(q) \in Rec
         /\ \A i \in 1..Len(q) - 1 : Tail(q)[i] = q[i + 1]
<1> DEFINE t == Tail(q)
<1>1. /\ t \in Seq(Rec) /\ Len(t) = Len(q) - 1 /\ Len(q) > 0 /\ Head(q) = q[1]
      /\ \A i \in 1..Len(q) - 1 : t[i] = q[i + 1]
  OBVIOUS
<1> HIDE DEF t
<1>2. Len(q) \in Nat /\ 1 \in 1..Len(q) /\ q[1] \in Rec
  BY <1>1
<1>3. ASSUME NEW i \in 1..Len(t) PROVE t[i] \in In(q)
  <2>1. i + 1 \in 1..Len(q) /\ t[i] = q[i + 1]
    BY <1>1
  <2> QED BY <2>1 DEF In
<1>4. In(t) \subseteq In(q) /\ q[1] \in In(q)
  BY <1>2, <1>3 DEF In
<1> QED BY <1>1, <1>2, <1>4 DEF t

\* An empty connection carries nothing from any place on.
LEMMA NoneLeft ==
  ASSUME NEW lo \in Nat, NEW hi \in Nat, lo <= hi
  PROVE  Partial(<<>>, lo, hi) /\ (lo = hi => Whole(<<>>, lo, hi))
<1>1. Chain(<<>>, 0, 0, lo) /\ NoCamo(<<>>)
  BY DEF Chain, NoCamo, In
<1> QED BY <1>1 DEF Whole, Partial

\* The place of a record is a number.
LEMMA IdxNat == ASSUME NEW r \in Rec PROVE Idx(r) \in Nat
BY SessionAssumption DEF Idx, Rec

-----------------------------------------------------------------------------
(* Codecs *)

\* Sealing or opening k records advances the sequence number by k and leaves
\* the epoch alone.
LEMMA AfterIs ==
  ASSUME NEW c, IsCodec(c), NEW k \in Nat
  PROVE  /\ IsCodec(After(c, k)) /\ After(c, k).e = c.e /\ After(c, k).n = c.n + k
         /\ Idx(c) \in Nat /\ Idx(After(c, k)) = Idx(c) + k
<1>1. /\ DOMAIN After(c, k) = {"e", "n"} /\ After(c, k).e = c.e /\ After(c, k).n = c.n + k
  BY DEF After, IsCodec
<1> QED BY <1>1, SessionAssumption DEF IsCodec, Idx

\* The same for one record.
LEMMA AfterOne ==
  ASSUME NEW c, IsCodec(c)
  PROVE  IsCodec(After(c, 1)) /\ After(c, 1).e = c.e /\ After(c, 1).n = c.n + 1
<1>1. ASSUME NEW k \in Nat
      PROVE  IsCodec(After(c, k)) /\ After(c, k).e = c.e /\ After(c, k).n = c.n + k
  BY AfterIs
<1> QED BY <1>1

\* rekey enters epoch 1 and starts at sequence number 0.
LEMMA RekeyedIs ==
  ASSUME NEW c, IsCodec(c), c.e = 0
  PROVE  IsCodec(Rekeyed(c)) /\ Rekeyed(c).e = 1 /\ Rekeyed(c).n = 0
BY DEF Rekeyed, IsCodec

\* The chunks of a handshake message are sealed under consecutive numbers.
LEMMA SealAllIs ==
  ASSUME NEW c, IsCodec(c), NEW k \in Nat, NEW m \in Msg, m \notin Last
  PROVE  /\ SealedFrom(SealAll(c, k, m), Idx(c)) /\ Len(SealAll(c, k, m)) = k
         /\ \A r \in In(SealAll(c, k, m)) :
              r.e = c.e /\ r.m = m /\ r.n \in Nat /\ c.n <= r.n /\ r.n < c.n + k
<1> DEFINE us == SealAll(c, k, m)
<1>1. us = [i \in 1..k |-> [e |-> c.e, n |-> c.n + i - 1, m |-> m]]
  BY DEF SealAll
<1>2. \A i \in 1..k : c.n + i - 1 \in Nat /\ c.n <= c.n + i - 1 /\ c.n + i - 1 < c.n + k
  BY DEF IsCodec
<1> HIDE DEF us
<1>3. us \in Seq(Rec) /\ Len(us) = k
  <2>1. \A i \in 1..k : [e |-> c.e, n |-> c.n + i - 1, m |-> m] \in Rec
    BY <1>2 DEF Rec, IsCodec
  <2>2. us \in [1..k -> Rec]
    BY <1>1, <2>1
  <2> QED BY <2>2
<1>4. ASSUME NEW i \in 1..k
      PROVE  /\ us[i].e = c.e /\ us[i].n = c.n + i - 1 /\ us[i].m = m
             /\ Idx(us[i]) + 1 = Idx(c) + i
  <2>1. us[i].e = c.e /\ us[i].n = c.n + i - 1 /\ us[i].m = m
    BY <1>1
  <2> QED BY <2>1, SessionAssumption DEF Idx, IsCodec
<1>5. SealedFrom(us, Idx(c))
  BY <1>3, <1>4 DEF SealedFrom, IsCodec, Plain
<1>6. \A r \in In(us) : r.e = c.e /\ r.m = m /\ r.n \in Nat /\ c.n <= r.n /\ r.n < c.n + k
  BY <1>2, <1>3, <1>4 DEF In
<1> QED BY <1>3, <1>5, <1>6 DEF us

\* Sealing one record (seal): it carries the epoch and the number of the
\* codec.
LEMMA SealIs ==
  ASSUME NEW c, IsCodec(c), NEW m \in Msg
  PROVE  /\ Seal(c, m) = <<[e |-> c.e, n |-> c.n, m |-> m]>>
         /\ [e |-> c.e, n |-> c.n, m |-> m] \in Rec
         /\ In(Seal(c, m)) = {[e |-> c.e, n |-> c.n, m |-> m]}
<1>1. Seal(c, m) = [i \in 1..1 |-> [e |-> c.e, n |-> c.n, m |-> m]]
  BY DEF Seal, SealAll, IsCodec
<1>2. [e |-> c.e, n |-> c.n, m |-> m] \in Rec
  BY DEF Rec, IsCodec
<1> DEFINE r == [e |-> c.e, n |-> c.n, m |-> m]
<1> HIDE DEF r
<1>3. [i \in 1..1 |-> r] = <<r>>
  OBVIOUS
<1>4. In(<<r>>) = {r}
  BY DEF In
<1> QED BY <1>1, <1>2, <1>3, <1>4 DEF r

-----------------------------------------------------------------------------
(* Connections *)

\* What is in flight are records; the reader is not ahead of the writer.
LEMMA FlowIs ==
  ASSUME NEW q, NEW lo \in Nat, NEW hi \in Nat, NEW link, NEW reader, Flow(q, lo, hi, link, reader)
  PROVE  /\ q \in Seq(Rec) /\ lo <= hi /\ Partial(q, lo, hi)
         /\ lo > 0 => NoCamo(q)
         /\ lo = hi => \A r \in In(q) : r.e = Plain \/ r.m \in Last
\* A connection that lost nothing is a special case of one that may have.
<1>WholeIsPartial. ASSUME NEW p, NEW l \in Nat, NEW h \in Nat, Whole(p, l, h) PROVE Partial(p, l, h)
  <2> USE <1>WholeIsPartial
  <2>1. PICK a \in Nat, z \in Nat : Chain(p, a, z, l) /\ l + z = h + a
    BY Zenon DEF Whole
  <2>2. l + z <= h + a
    BY <2>1
  <2> QED BY <2>1, <2>2 DEF Whole, Partial
\* Nobody opens more than was sealed, and once all of it was opened no
\* sealed record but DONE is left in flight.
<1>Bounds. ASSUME NEW p, NEW l \in Nat, NEW h \in Nat, Partial(p, l, h)
           PROVE  /\ l <= h
                  /\ l = h => \A s \in In(p) : s.e = Plain \/ s.m \in Last
  <2> USE <1>Bounds
  <2>1. PICK a \in Nat, z \in Nat : Chain(p, a, z, l) /\ l + z <= h + a
    BY DEF Partial
  <2>2. l <= h
    BY <2>1 DEF Chain
  <2>3. ASSUME l = h, NEW i \in 1..Len(p) PROVE p[i].e = Plain \/ p[i].m \in Last
    <3>1. z = a
      BY <2>1, <2>3 DEF Chain
    <3>2. i \in 1..a \/ (z < Len(p) /\ i = Len(p))
      BY <2>1, <3>1 DEF Chain, Partial
    <3> QED BY <3>2, <2>1 DEF Chain
  <2> QED BY <2>2, <2>3 DEF In
<1>1. Partial(q, lo, hi)
  BY <1>WholeIsPartial DEF Flow
<1> QED BY <1>1, <1>Bounds DEF Partial

\* Whatever is in flight is a record.
LEMMA FlowRec ==
  ASSUME NEW q, NEW lo \in Nat, NEW hi \in Nat, NEW link, NEW reader, Flow(q, lo, hi, link, reader)
  PROVE  \A r \in In(q) : r \in Rec
<1>1. q \in Seq(Rec)
  BY Zenon, FlowIs
<1> QED BY <1>1 DEF In

\* A write of freshly sealed records (ToServer, ToClient), which a dead link
\* drops.
LEMMA FlowSend ==
  ASSUME NEW q, NEW lo \in Nat, NEW hi \in Nat, NEW link, NEW reader,
         Flow(q, lo, hi, link, reader), Open(q), NEW us, SealedFrom(us, hi), NEW next,
         next = IF link = "up" /\ reader = "open" THEN q \o us ELSE q
  PROVE  /\ Flow(next, lo, hi + Len(us), link, reader)
         /\ In(next) \subseteq In(q) \cup In(us)
\* Sealing the next records and writing them extends an intact run.
<1>PushSealed. ASSUME NEW p, NEW l \in Nat, NEW h \in Nat, Whole(p, l, h), Open(p),
                      NEW vs, SealedFrom(vs, h)
               PROVE  Whole(p \o vs, l, h + Len(vs))
  <2> USE <1>PushSealed
  <2>1. PICK a \in Nat, z \in Nat : Chain(p, a, z, l) /\ l + z = h + a
    BY Zenon DEF Whole
  <2>2. p \in Seq(Rec) /\ vs \in Seq(Rec)
    BY DEF Whole, SealedFrom
  <2>3. z = Len(p)
    BY <2>1, <2>2 DEF Chain, Open, In
  <2> DEFINE b == p \o vs
  <2>4. /\ b \in Seq(Rec) /\ In(b) = In(p) \cup In(vs)
        /\ Len(b) = Len(p) + Len(vs)
        /\ \A i \in 1..Len(p) : b[i] = p[i]
        /\ \A i \in Len(p)+1..Len(p)+Len(vs) : b[i] = vs[i - Len(p)]
    BY <2>2, Concat
  <2> HIDE DEF b
  <2>5. l > 0 => NoCamo(b)
    <3>1. \A s \in In(vs) : s.e # Plain
      BY DEF In, SealedFrom
    <3>2. l > 0 => NoCamo(p)
      BY Zenon DEF Whole
    <3> QED BY Zenon, <2>4, <3>1, <3>2 DEF NoCamo
  <2>8. Len(p) \in Nat /\ Len(vs) \in Nat
    BY <2>2
  <2>9. l + Len(p) = h + a
    BY <2>1, <2>3
  <2>6. Chain(b, a, Len(b), l)
    <3>1. a \in 0..Len(b) /\ Len(b) \in Nat
      BY <2>1, <2>2, <2>3, <2>4 DEF Chain
    <3>2. \A i \in 1..a : b[i].e = Plain /\ b[i].m \notin Last
      <4>1. a \in 0..Len(p)
        BY <2>1, <2>3 DEF Chain
      <4>2. \A i \in 1..a : b[i] = p[i]
        BY <2>4, <2>8, <4>1
      <4> QED BY <2>1, <4>2 DEF Chain
    <3>3. ASSUME NEW i \in (a+1)..Len(b)
          PROVE  b[i].e # Plain /\ b[i].m \notin Last /\ Idx(b[i]) + a + 1 = l + i
      <4>1. CASE i \in (a+1)..Len(p)
        <5>1. i \in 1..Len(p)
          BY <2>8, <4>1
        <5>2. b[i] = p[i]
          BY Zenon, <2>4, <5>1
        <5>3. p[i].e # Plain /\ p[i].m \notin Last /\ Idx(p[i]) + a + 1 = l + i
          BY Zenon, <2>1, <2>3, <4>1 DEF Chain
        <5> QED BY Zenon, <5>2, <5>3
      <4>2. CASE i \in Len(p)+1..Len(p)+Len(vs)
        <5>0. i \in Nat
          BY <3>1
        <5>1. i - Len(p) \in 1..Len(vs) /\ b[i] = vs[i - Len(p)]
          <6>1. i - Len(p) \in 1..Len(vs)
            BY <2>8, <4>2
          <6> QED BY Zenon, <2>4, <4>2, <6>1
        <5>2. /\ vs[i - Len(p)].e # Plain /\ vs[i - Len(p)].m \notin Last
              /\ Idx(vs[i - Len(p)]) + 1 = h + (i - Len(p)) /\ vs[i - Len(p)] \in Rec
          <6>1. vs[i - Len(p)] \in Rec
            BY <5>1, <2>2
          <6> QED BY Zenon, <5>1, <6>1 DEF SealedFrom
        <5>3. Idx(vs[i - Len(p)]) \in Nat
          BY <5>2, IdxNat
        <5>4. Idx(vs[i - Len(p)]) + a + 1 = l + i
          <6> DEFINE x == Idx(vs[i - Len(p)])
          <6> HIDE DEF x
          <6>1. x \in Nat /\ x + 1 = h + (i - Len(p))
            BY <5>2, <5>3 DEF x
          <6>2. x + a + 1 = l + i
            BY <6>1, <5>0, <2>8, <2>9
          <6> QED BY <6>2 DEF x
        <5> QED BY Zenon, <5>1, <5>2, <5>4
      <4> QED BY <4>1, <4>2, <2>4, <2>1, <2>2 DEF Chain
    <3> QED BY <3>1, <3>2, <3>3 DEF Chain
  <2>7. Len(b) \in Nat /\ l + Len(b) = h + Len(vs) + a
    <3>1. Len(b) = Len(p) + Len(vs)
      BY Zenon, <2>4
    <3> DEFINE x == Len(p)
               y == Len(vs)
    <3>2. x \in Nat /\ y \in Nat /\ l + x = h + a
      BY Zenon, <2>8, <2>9
    <3> HIDE DEF x, y
    <3>3. x + y \in Nat /\ l + (x + y) = h + y + a
      BY <3>2
    <3> QED BY Zenon, <3>1, <3>3 DEF x, y
  <2> QED BY Zenon, <2>4, <2>5, <2>6, <2>7 DEF Whole, b
\* Sealing records that a dead connection drops leaves a partial run.
<1>LoseSealed. ASSUME NEW p, NEW l \in Nat, NEW h \in Nat, Partial(p, l, h), Open(p), NEW k \in Nat
               PROVE  Partial(p, l, h + k)
  <2> USE <1>LoseSealed
  <2>1. PICK a \in Nat, z \in Nat : Chain(p, a, z, l) /\ l + z <= h + a
    BY DEF Partial
  <2>2. p \in Seq(Rec)
    BY DEF Partial
  <2>3. z = Len(p)
    BY <2>1, <2>2 DEF Chain, Open, In
  <2>4. l + z <= h + k + a /\ ~(z < Len(p))
    BY <2>1, <2>2, <2>3 DEF Chain
  <2> QED BY <2>1, <2>4 DEF Partial
<1>0. q \in Seq(Rec)
  BY Zenon, FlowIs
<1>1. q \in Seq(Rec) /\ us \in Seq(Rec) /\ Len(us) \in Nat
  BY <1>0 DEF SealedFrom
<1>2. CASE link = "up" /\ reader = "open"
  <2>1. next = q \o us /\ Whole(q, lo, hi)
    BY <1>2 DEF Flow
  <2> QED BY <1>1, <1>2, <2>1, <1>PushSealed, Concat DEF Flow
<1>3. CASE ~(link = "up" /\ reader = "open")
  <2>1. next = q /\ Partial(q, lo, hi)
    BY <1>3 DEF Flow
  <2> QED BY Zenon, <1>1, <1>3, <2>1, <1>LoseSealed DEF Flow
<1> QED BY <1>2, <1>3

\* The same for one record.
LEMMA FlowSeal ==
  ASSUME NEW q, NEW lo \in Nat, NEW hi \in Nat, NEW link, NEW reader,
         Flow(q, lo, hi, link, reader), Open(q),
         NEW c, IsCodec(c), Idx(c) = hi, NEW m \in Msg, m \notin Last, NEW next,
         next = IF link = "up" /\ reader = "open" THEN q \o Seal(c, m) ELSE q
  PROVE  /\ Flow(next, lo, hi + 1, link, reader)
         /\ \A r \in In(next) : r \in In(q) \/ (r.e = c.e /\ r.n = c.n /\ r.m = m)
<1>0. SealedFrom(SealAll(c, 1, m), Idx(c)) /\ Len(SealAll(c, 1, m)) = 1
  <2>1. ASSUME NEW k \in Nat
        PROVE  SealedFrom(SealAll(c, k, m), Idx(c)) /\ Len(SealAll(c, k, m)) = k
    BY SealAllIs
  <2> QED BY Zenon, <2>1
<1>1. SealedFrom(Seal(c, m), hi) /\ Len(Seal(c, m)) = 1
  BY <1>0 DEF Seal
<1>2. \A r \in In(Seal(c, m)) : r.e = c.e /\ r.n = c.n /\ r.m = m
  <2>1. In(Seal(c, m)) = {[e |-> c.e, n |-> c.n, m |-> m]}
    BY Zenon, SealIs
  <2> QED BY <2>1
<1>3. Flow(next, lo, hi + Len(Seal(c, m)), link, reader) /\ In(next) \subseteq In(q) \cup In(Seal(c, m))
  BY Zenon, <1>1, FlowSend
<1> QED BY <1>1, <1>2, <1>3

\* Writing one record adds it to those in flight.
LEMMA OneMore ==
  ASSUME NEW q \in Seq(Rec), NEW x \in Rec
  PROVE  In(q \o <<x>>) = In(q) \cup {x}
<1> DEFINE us == <<x>>
<1>1. us \in Seq(Rec) /\ In(us) = {x}
  BY DEF In
<1> HIDE DEF us
<1>2. In(q \o us) = In(q) \cup In(us)
  BY <1>1, Concat
<1> QED BY <1>1, <1>2 DEF us

\* Whatever is in flight after one sealed record was written was there
\* before or is that record.
LEMMA OneSealed ==
  ASSUME NEW q \in Seq(Rec), NEW c, IsCodec(c), NEW m \in Msg, NEW r \in In(q \o Seal(c, m))
  PROVE  r \in In(q) \/ (r.e = c.e /\ r.n = c.n /\ r.m = m)
<1> DEFINE x == [e |-> c.e, n |-> c.n, m |-> m]
<1>1. Seal(c, m) = <<x>> /\ x \in Rec
  BY SealIs
<1>2. x.e = c.e /\ x.n = c.n /\ x.m = m
  OBVIOUS
<1> HIDE DEF x
<1>3. r \in In(q) \/ r = x
  BY <1>1, OneMore
<1> QED BY <1>2, <1>3

\* A write of the end of the stream or of DONE, which takes no place.
LEMMA FlowLast ==
  ASSUME NEW q, NEW lo \in Nat, NEW hi \in Nat, NEW link, NEW reader,
         Flow(q, lo, hi, link, reader), Open(q),
         NEW r \in Rec, r.m \in Last, r.e = Plain => r.m = "fin", NEW next,
         next = IF link = "up" /\ reader = "open" THEN q \o <<r>> ELSE q
  PROVE  /\ Flow(next, lo, hi, link, reader)
         /\ In(next) \subseteq In(q) \cup {r}
\* The end of a stream is written behind the last sealed record.
<1>PushLast. ASSUME NEW p, NEW l \in Nat, NEW h \in Nat, Whole(p, l, h), Open(p),
                    NEW s \in Rec, s.m \in Last, s.e = Plain => s.m = "fin"
             PROVE  Whole(p \o <<s>>, l, h)
  <2> USE <1>PushLast
  <2>1. PICK a \in Nat, z \in Nat : Chain(p, a, z, l) /\ l + z = h + a
    BY Zenon DEF Whole
  <2>2. p \in Seq(Rec)
    BY DEF Whole
  <2>3. z = Len(p)
    BY <2>1, <2>2 DEF Chain, Open, In
  <2> DEFINE vs == <<s>>
             b == p \o vs
  <2>0. vs \in Seq(Rec) /\ Len(vs) = 1 /\ vs[1] = s
    OBVIOUS
  <2>4. /\ b \in Seq(Rec) /\ In(b) = In(p) \cup In(vs)
        /\ Len(b) = Len(p) + Len(vs)
        /\ \A i \in 1..Len(p) : b[i] = p[i]
        /\ \A i \in Len(p)+1..Len(p)+Len(vs) : b[i] = vs[i - Len(p)]
    <3> HIDE DEF vs
    <3> QED BY Zenon, <2>0, <2>2, Concat
  <2> HIDE DEF b, vs
  <2>5. l > 0 => NoCamo(b)
    <3>1. \A x \in In(vs) : x = s
      BY <2>0 DEF In
    <3>2. l > 0 => NoCamo(p)
      BY Zenon DEF Whole
    <3> QED BY Zenon, <2>4, <3>1, <3>2 DEF NoCamo
  <2>6. b[Len(b)] = s
    BY <2>0, <2>4, <2>2
  <2>7. Chain(b, a, z, l)
    <3>1. Len(p) \in Nat /\ Len(b) = Len(p) + 1 /\ a \in 0..z
      BY <2>0, <2>1, <2>2, <2>4 DEF Chain
    <3>2. /\ \A i \in 1..a : b[i].e = Plain /\ b[i].m \notin Last
          /\ \A i \in (a + 1)..z : b[i].e # Plain /\ b[i].m \notin Last
                                /\ Idx(b[i]) + a + 1 = l + i
      <4>1. \A i \in 1..z : b[i] = p[i]
        BY <2>3, <2>4
      <4>2. \A i \in 1..a : i \in 1..z
        BY <3>1
      <4>3. \A i \in (a + 1)..z : i \in 1..z
        BY <3>1
      <4> QED BY Zenon, <2>1, <4>1, <4>2, <4>3 DEF Chain
    <3> QED BY <3>1, <3>2, <2>3, <2>6 DEF Chain
  <2> QED BY Zenon, <2>4, <2>5, <2>7, <2>1 DEF Whole, b, vs
<1>0. q \in Seq(Rec)
  BY Zenon, FlowIs
<1>1. q \in Seq(Rec) /\ <<r>> \in Seq(Rec) /\ In(<<r>>) = {r}
  BY <1>0 DEF In
<1>2. CASE link = "up" /\ reader = "open"
  <2>1. next = q \o <<r>> /\ Whole(q, lo, hi)
    BY <1>2 DEF Flow
  <2>2. Whole(next, lo, hi)
    BY <2>1, <1>PushLast, Zenon
  <2>3. In(next) = In(q) \cup {r}
    <3> DEFINE us == <<r>>
    <3>1. us \in Seq(Rec) /\ In(us) = {r} /\ next = q \o us
      BY <1>1, <2>1
    <3> HIDE DEF us
    <3>2. In(q \o us) = In(q) \cup In(us)
      BY <1>1, <3>1, Concat
    <3> QED BY Zenon, <3>1, <3>2
  <2> QED BY <1>2, <2>2, <2>3 DEF Flow
<1>3. CASE ~(link = "up" /\ reader = "open")
  BY <1>3
<1> QED BY <1>2, <1>3

\* A write of camouflage, which happens only before anything is sealed.
LEMMA FlowCamo ==
  ASSUME NEW q, NEW link, NEW reader, Flow(q, 0, 0, link, reader), Open(q),
         NEW r \in Rec, r.m \notin Last, r.e = Plain, NEW next,
         next = IF link = "up" /\ reader = "open" THEN q \o <<r>> ELSE q
  PROVE  /\ Flow(next, 0, 0, link, reader)
         /\ In(next) \subseteq In(q) \cup {r}
\* Camouflage is written behind camouflage while nothing is sealed.
<1>PushCamo. ASSUME NEW p, Whole(p, 0, 0), Open(p),
                    NEW s \in Rec, s.m \notin Last, s.e = Plain
             PROVE  Whole(p \o <<s>>, 0, 0)
  <2> USE <1>PushCamo
  <2>1. PICK a \in Nat, z \in Nat : Chain(p, a, z, 0) /\ 0 + z = 0 + a
    BY DEF Whole
  <2>2. p \in Seq(Rec)
    BY DEF Whole
  <2>3. z = Len(p) /\ a = Len(p)
    <3>1. z = Len(p)
      BY <2>1, <2>2 DEF Chain, Open, In
    <3>2. z = a
      BY <2>1
    <3> QED BY <3>1, <3>2
  <2> DEFINE vs == <<s>>
             b == p \o vs
  <2>0. vs \in Seq(Rec) /\ Len(vs) = 1 /\ vs[1] = s
    OBVIOUS
  <2>4. /\ b \in Seq(Rec) 
        /\ Len(b) = Len(p) + Len(vs)
        /\ \A i \in 1..Len(p) : b[i] = p[i]
        /\ \A i \in Len(p)+1..Len(p)+Len(vs) : b[i] = vs[i - Len(p)]
    <3> HIDE DEF vs
    <3> QED BY <2>0, <2>2, Concat
  <2> HIDE DEF b, vs
  <2>6. b[Len(b)] = s
    BY <2>0, <2>4, <2>2
  <2>7. Chain(b, Len(b), Len(b), 0)
    BY <2>1, <2>2, <2>3, <2>4, <2>0, <2>6 DEF Chain
  <2>8. Len(b) \in Nat /\ 0 + Len(b) = 0 + Len(b)
    BY <2>4
  <2> QED BY <2>4, <2>7, <2>8 DEF Whole, b, vs
<1>0. q \in Seq(Rec)
  BY Zenon, FlowIs
<1>1. q \in Seq(Rec) /\ <<r>> \in Seq(Rec) /\ In(<<r>>) = {r}
  BY <1>0 DEF In
<1>2. CASE link = "up" /\ reader = "open"
  <2>1. next = q \o <<r>> /\ Whole(q, 0, 0)
    BY <1>2 DEF Flow
  <2>2. Whole(next, 0, 0)
    BY <2>1, <1>PushCamo
  <2>3. In(next) = In(q) \cup {r}
    <3> DEFINE us == <<r>>
    <3>1. us \in Seq(Rec) /\ In(us) = {r} /\ next = q \o us
      BY <1>1, <2>1
    <3> HIDE DEF us
    <3>2. In(q \o us) = In(q) \cup In(us)
      BY <1>1, <3>1, Concat
    <3> QED BY Zenon, <3>1, <3>2
  <2> QED BY <1>2, <2>2, <2>3 DEF Flow
<1>3. CASE ~(link = "up" /\ reader = "open")
  BY <1>3
<1> QED BY <1>2, <1>3

\* FlowSeal for a write in the form of Sent.
LEMMA SentSeal ==
  ASSUME NEW q, NEW lo \in Nat, NEW hi \in Nat, NEW link, NEW reader,
         Flow(q, lo, hi, link, reader), Open(q),
         NEW c, IsCodec(c), Idx(c) = hi, NEW m \in Msg, m \notin Last
  PROVE  Flow(Sent(q, Seal(c, m), link, reader), lo, hi + 1, link, reader)
<1> DEFINE next == Sent(q, Seal(c, m), link, reader)
<1>1. next = IF link = "up" /\ reader = "open" THEN q \o Seal(c, m) ELSE q
  BY DEF Sent
<1> HIDE DEF next
<1>2. Flow(next, lo, hi + 1, link, reader)
  BY Zenon, <1>1, FlowSeal
<1> QED BY <1>2 DEF next

\* FlowLast for a write in the form of Sent.
LEMMA SentLast ==
  ASSUME NEW q, NEW lo \in Nat, NEW hi \in Nat, NEW link, NEW reader,
         Flow(q, lo, hi, link, reader), Open(q),
         NEW r \in Rec, r.m \in Last, r.e = Plain => r.m = "fin"
  PROVE  Flow(Sent(q, <<r>>, link, reader), lo, hi, link, reader)
<1> DEFINE next == Sent(q, <<r>>, link, reader)
<1>1. next = IF link = "up" /\ reader = "open" THEN q \o <<r>> ELSE q
  BY DEF Sent
<1> HIDE DEF next
<1>2. Flow(next, lo, hi, link, reader)
  BY Zenon, <1>1, FlowLast
<1> QED BY <1>2 DEF next

\* A read of the head of a connection: camouflage, the sealed record the
\* reader expects, or the end of the stream behind the last of them.
LEMMA FlowTake ==
  ASSUME NEW q, q # <<>>, NEW lo \in Nat, NEW hi \in Nat, NEW link, NEW reader,
         Flow(q, lo, hi, link, reader)
  PROVE  /\ Head(q) \in In(q) /\ Head(q) \in Rec /\ In(Tail(q)) \subseteq In(q)
         /\ Head(q).e = Plain /\ Head(q).m \notin Last =>
              lo = 0 /\ Flow(Tail(q), lo, hi, link, reader)
         /\ Head(q).e # Plain /\ Head(q).m \notin Last =>
              Idx(Head(q)) = lo /\ lo < hi /\ Flow(Tail(q), lo + 1, hi, link, reader)
         /\ Head(q).m \in Last =>
              lo = hi /\ Tail(q) = <<>> /\ Flow(Tail(q), lo, hi, link, reader)
\* What a read leaves of a run, by the kind of the record it takes.
<1>ChainRest. ASSUME NEW p \in Seq(Rec), p # <<>>, NEW a \in Nat, NEW z \in Nat, NEW l \in Nat, Chain(p, a, z, l)
              PROVE  /\ Head(p).m \notin Last /\ Head(p).e = Plain =>
                          a > 0 /\ z > 0 /\ Chain(Tail(p), a - 1, z - 1, l)
                     /\ Head(p).m \notin Last /\ Head(p).e # Plain =>
                          a = 0 /\ z > 0 /\ Idx(Head(p)) = l /\ Chain(Tail(p), 0, z - 1, l + 1)
                     /\ Head(p).m \in Last => a = 0 /\ z = 0 /\ Tail(p) = <<>> /\ Len(p) = 1
  <2> USE <1>ChainRest
  <2> DEFINE t == Tail(p)
  <2>1. /\ t \in Seq(Rec) /\ Len(t) = Len(p) - 1 /\ Len(p) > 0 /\ Len(p) \in Nat
        /\ Head(p) = p[1] /\ p[1] \in Rec
        /\ \A i \in 1..Len(p) - 1 : t[i] = p[i + 1]
    BY RestIs
  <2>2. /\ a \in 0..z /\ z \in 0..Len(p) /\ Len(p) <= z + 1
        /\ \A i \in 1..a : p[i].e = Plain /\ p[i].m \notin Last
        /\ \A i \in (a + 1)..z : /\ p[i].e # Plain /\ p[i].m \notin Last
                                /\ Idx(p[i]) + a + 1 = l + i
        /\ z < Len(p) => p[Len(p)].m \in Last /\ (p[Len(p)].e = Plain => p[Len(p)].m = "fin")
    BY DEF Chain
  <2>3. Idx(p[1]) \in Nat
    BY <2>1, IdxNat
  <2>8. a \in 0..z /\ z \in 0..Len(p) /\ Len(p) <= z + 1 /\ Len(p) \in Nat
    BY <2>1, <2>2
  <2>4. \/ Len(t) = 0
        \/ z - 1 < Len(t) => t[Len(t)].m \in Last /\ (t[Len(t)].e = Plain => t[Len(t)].m = "fin")
    BY <2>1, <2>2
  <2> HIDE DEF t
  <2>5. ASSUME p[1].m \notin Last, p[1].e = Plain
        PROVE  a > 0 /\ z > 0 /\ Chain(t, a - 1, z - 1, l)
    <3>1. z > 0 /\ a > 0
      BY <2>1, <2>2, <2>5
    <3>2. ASSUME NEW i \in 1..(a - 1) PROVE t[i].e = Plain /\ t[i].m \notin Last
      <4>1. i + 1 \in 1..a /\ i \in 1..Len(p) - 1
        BY <2>8, <3>1
      <4> QED BY Zenon, <2>1, <2>2, <4>1
    <3>3. ASSUME NEW i \in (a - 1 + 1)..(z - 1)
          PROVE  t[i].e # Plain /\ t[i].m \notin Last /\ Idx(t[i]) + (a - 1) + 1 = l + i
      <4>0. i + 1 \in (a + 1)..z /\ i \in 1..Len(p) - 1
        BY <2>8, <3>1
      <4>1. i + 1 \in (a + 1)..z /\ t[i] = p[i + 1]
        BY <2>1, <4>0
      <4>2. p[i + 1].e # Plain /\ p[i + 1].m \notin Last /\ Idx(p[i + 1]) + a + 1 = l + (i + 1)
        BY <2>2, <4>1
      <4>3. i + 1 \in 1..Len(p)
        BY <4>1, <2>1, <2>2
      <4>4. Idx(p[i + 1]) \in Nat
        <5>1. p[i + 1] \in Rec
          BY <4>3
        <5> QED BY <5>1, IdxNat
      <4> DEFINE x == Idx(p[i + 1])
      <4> HIDE DEF x
      <4>5. x \in Nat /\ x + a + 1 = l + (i + 1)
        BY <4>2, <4>4 DEF x
      <4>6. x + (a - 1) + 1 = l + i
        BY <4>5, <3>1
      <4> QED BY <4>1, <4>2, <4>6 DEF x
    <3> QED BY <2>1, <2>2, <2>4, <3>1, <3>2, <3>3 DEF Chain
  <2>6. ASSUME p[1].m \notin Last, p[1].e # Plain
        PROVE  a = 0 /\ z > 0 /\ Idx(p[1]) = l /\ Chain(t, 0, z - 1, l + 1)
    <3>1. z > 0 /\ a = 0
      BY <2>1, <2>2, <2>6
    <3>2. Idx(p[1]) = l
      BY <2>1, <2>2, <2>3, <3>1
    <3>3. ASSUME NEW i \in (0 + 1)..(z - 1)
          PROVE  t[i].e # Plain /\ t[i].m \notin Last /\ Idx(t[i]) + 0 + 1 = l + 1 + i
      <4>0. i + 1 \in (a + 1)..z /\ i \in 1..Len(p) - 1
        BY <2>8, <3>1
      <4>1. i + 1 \in (a + 1)..z /\ t[i] = p[i + 1]
        BY <2>1, <4>0
      <4>2. p[i + 1].e # Plain /\ p[i + 1].m \notin Last /\ Idx(p[i + 1]) + a + 1 = l + (i + 1)
        BY <2>2, <4>1
      <4>3. i + 1 \in 1..Len(p)
        BY <4>1, <2>1, <2>2
      <4>4. Idx(p[i + 1]) \in Nat
        <5>1. p[i + 1] \in Rec
          BY <4>3
        <5> QED BY <5>1, IdxNat
      <4> DEFINE x == Idx(p[i + 1])
      <4> HIDE DEF x
      <4>5. x \in Nat /\ x + a + 1 = l + (i + 1)
        BY <4>2, <4>4 DEF x
      <4>6. x + 0 + 1 = l + 1 + i
        BY <4>5, <3>1
      <4> QED BY <4>1, <4>2, <4>6 DEF x
    <3>4. 0 \in 0..(z - 1) /\ z - 1 \in 0..Len(t) /\ Len(t) <= z - 1 + 1
      BY <2>1, <2>8, <3>1
    <3>5. z - 1 < Len(t) => t[Len(t)].m \in Last /\ (t[Len(t)].e = Plain => t[Len(t)].m = "fin")
      BY <2>1, <2>4, <2>8, <3>1
    <3>6. \A i \in 1..0 : t[i].e = Plain /\ t[i].m \notin Last
      OBVIOUS
    <3> QED BY Zenon, <3>1, <3>2, <3>3, <3>4, <3>5, <3>6 DEF Chain
  <2>7. ASSUME p[1].m \in Last PROVE a = 0 /\ z = 0 /\ t = <<>> /\ Len(p) = 1
    <3>1. z = 0
      BY <2>1, <2>2, <2>7
    <3> QED BY <2>1, <2>2, <3>1
  <2> QED BY <2>1, <2>5, <2>6, <2>7 DEF t
\* Reading camouflage changes the places at neither end.
<1>TakeCamo. ASSUME NEW p, p # <<>>, NEW l \in Nat, NEW h \in Nat, Head(p).m \notin Last, Head(p).e = Plain
             PROVE  /\ Whole(p, l, h) => Whole(Tail(p), l, h)
                    /\ Partial(p, l, h) => Partial(Tail(p), l, h)
  <2> USE <1>TakeCamo
  <2>1. ASSUME p \in Seq(Rec), NEW a \in Nat, NEW z \in Nat, Chain(p, a, z, l), l > 0 => NoCamo(p)
        PROVE  /\ a - 1 \in Nat /\ z - 1 \in Nat /\ Chain(Tail(p), a - 1, z - 1, l)
               /\ Tail(p) \in Seq(Rec) /\ (l > 0 => NoCamo(Tail(p)))
               /\ Len(Tail(p)) = Len(p) - 1 /\ Len(p) \in Nat
    <3>1. a > 0 /\ z > 0 /\ Chain(Tail(p), a - 1, z - 1, l)
      BY <2>1, <1>ChainRest
    <3>2. Tail(p) \in Seq(Rec) /\ In(Tail(p)) \subseteq In(p) /\ Len(Tail(p)) = Len(p) - 1 /\ Len(p) \in Nat
      BY <2>1, RestIs
    <3> QED BY <2>1, <3>1, <3>2 DEF NoCamo
  <2>2. ASSUME Whole(p, l, h) PROVE Whole(Tail(p), l, h)
    <3>1. PICK a \in Nat, z \in Nat : Chain(p, a, z, l) /\ l + z = h + a
      BY Zenon, <2>2 DEF Whole
    <3>2. /\ a - 1 \in Nat /\ z - 1 \in Nat /\ Chain(Tail(p), a - 1, z - 1, l)
          /\ Tail(p) \in Seq(Rec) /\ (l > 0 => NoCamo(Tail(p)))
      BY <2>1, <2>2, <3>1 DEF Whole
    <3>3. l + (z - 1) = h + (a - 1)
      BY <3>1, <3>2
    <3> QED BY <3>2, <3>3 DEF Whole
  <2>3. ASSUME Partial(p, l, h) PROVE Partial(Tail(p), l, h)
    <3>1. PICK a \in Nat, z \in Nat : Chain(p, a, z, l) /\ l + z <= h + a /\ (z < Len(p) => l + z = h + a)
      BY <2>3 DEF Partial
    <3>2. /\ a - 1 \in Nat /\ z - 1 \in Nat /\ Chain(Tail(p), a - 1, z - 1, l)
          /\ Tail(p) \in Seq(Rec) /\ (l > 0 => NoCamo(Tail(p)))
          /\ Len(Tail(p)) = Len(p) - 1 /\ Len(p) \in Nat
      BY <2>1, <2>3, <3>1 DEF Partial
    <3>3. l + (z - 1) <= h + (a - 1) /\ (z - 1 < Len(Tail(p)) => l + (z - 1) = h + (a - 1))
      BY <3>1, <3>2
    <3> QED BY <3>2, <3>3 DEF Partial
  <2> QED BY <2>2, <2>3
\* The sealed record at the head is the one the reader expects, and what is
\* left starts at the next place.
<1>TakeSealed. ASSUME NEW p, p # <<>>, NEW l \in Nat, NEW h \in Nat, Head(p).m \notin Last, Head(p).e # Plain
               PROVE  /\ Whole(p, l, h) => Idx(Head(p)) = l /\ l < h /\ Whole(Tail(p), l + 1, h)
                      /\ Partial(p, l, h) => Idx(Head(p)) = l /\ l < h /\ Partial(Tail(p), l + 1, h)
  <2> USE <1>TakeSealed
  <2>1. ASSUME p \in Seq(Rec), NEW a \in Nat, NEW z \in Nat, Chain(p, a, z, l)
        PROVE  /\ a = 0 /\ z - 1 \in Nat /\ Chain(Tail(p), 0, z - 1, l + 1) /\ Idx(Head(p)) = l
               /\ Tail(p) \in Seq(Rec) /\ NoCamo(Tail(p))
               /\ Len(Tail(p)) = Len(p) - 1 /\ Len(p) \in Nat
    <3>1. a = 0 /\ z > 0 /\ Chain(Tail(p), 0, z - 1, l + 1) /\ Idx(Head(p)) = l
      BY <2>1, <1>ChainRest
    <3>2. Tail(p) \in Seq(Rec) /\ Len(Tail(p)) = Len(p) - 1 /\ Len(p) \in Nat
      BY <2>1, RestIs
    <3>3. NoCamo(Tail(p))
      <4> DEFINE t == Tail(p)
      <4> HIDE DEF t
      <4> SUFFICES ASSUME NEW i \in 1..Len(t), t[i].e = Plain PROVE t[i].m = "fin"
        BY DEF NoCamo, In, t
      <4>1. i \in (0 + 1)..(z - 1) \/ (z - 1 < Len(t) /\ i = Len(t))
        <5>1. z - 1 \in 0..Len(t) /\ Len(t) <= z - 1 + 1 /\ Len(t) \in Nat
          BY <3>1, <3>2 DEF t, Chain
        <5> QED BY <5>1
      <4> QED BY <3>1, <4>1 DEF t, Chain
    <3> QED BY <3>1, <3>2, <3>3
  <2>2. ASSUME Whole(p, l, h) PROVE Idx(Head(p)) = l /\ l < h /\ Whole(Tail(p), l + 1, h)
    <3>1. PICK a \in Nat, z \in Nat : Chain(p, a, z, l) /\ l + z = h + a
      BY Zenon, <2>2 DEF Whole
    <3>2. /\ a = 0 /\ z - 1 \in Nat /\ Chain(Tail(p), 0, z - 1, l + 1) /\ Idx(Head(p)) = l
          /\ Tail(p) \in Seq(Rec) /\ NoCamo(Tail(p))
      BY <2>1, <2>2, <3>1 DEF Whole
    <3>3. l + 1 + (z - 1) = h + 0 /\ l < h
      BY <3>1, <3>2
    <3> QED BY Zenon, <3>2, <3>3 DEF Whole
  <2>3. ASSUME Partial(p, l, h) PROVE Idx(Head(p)) = l /\ l < h /\ Partial(Tail(p), l + 1, h)
    <3>1. PICK a \in Nat, z \in Nat : Chain(p, a, z, l) /\ l + z <= h + a /\ (z < Len(p) => l + z = h + a)
      BY <2>3 DEF Partial
    <3>2. /\ a = 0 /\ z - 1 \in Nat /\ Chain(Tail(p), 0, z - 1, l + 1) /\ Idx(Head(p)) = l
          /\ Tail(p) \in Seq(Rec) /\ NoCamo(Tail(p))
          /\ Len(Tail(p)) = Len(p) - 1 /\ Len(p) \in Nat
      BY <2>1, <2>3, <3>1 DEF Partial
    <3>3. l + 1 + (z - 1) <= h + 0 /\ (z - 1 < Len(Tail(p)) => l + 1 + (z - 1) = h + 0) /\ l < h
      BY <3>1, <3>2
    <3> QED BY <3>2, <3>3 DEF Partial
  <2> QED BY <2>2, <2>3
\* The end of a stream is met when everything sealed was read.
<1>TakeLast. ASSUME NEW p, p # <<>>, NEW l \in Nat, NEW h \in Nat, Partial(p, l, h), Head(p).m \in Last
             PROVE  l = h /\ Tail(p) = <<>>
  <2> USE <1>TakeLast
  <2>1. PICK a \in Nat, z \in Nat : Chain(p, a, z, l) /\ (z < Len(p) => l + z = h + a)
    BY DEF Partial
  <2>2. a = 0 /\ z = 0 /\ Tail(p) = <<>> /\ Len(p) = 1
    BY <2>1, <1>ChainRest DEF Partial
  <2> QED BY <2>1, <2>2
<1>1. q \in Seq(Rec) /\ Partial(q, lo, hi) /\ (lo > 0 => NoCamo(q))
  BY Zenon, FlowIs
<1>2. Head(q) \in In(q) /\ Head(q) \in Rec /\ In(Tail(q)) \subseteq In(q)
  BY <1>1, RestIs
<1>3. ASSUME Head(q).e = Plain, Head(q).m \notin Last
      PROVE  lo = 0 /\ Flow(Tail(q), lo, hi, link, reader)
  <2>1. lo = 0
    BY <1>1, <1>2, <1>3 DEF NoCamo, Last
  <2> QED BY <1>3, <2>1, <1>TakeCamo DEF Flow
<1>4. ASSUME Head(q).e # Plain, Head(q).m \notin Last
      PROVE  Idx(Head(q)) = lo /\ lo < hi /\ Flow(Tail(q), lo + 1, hi, link, reader)
  BY <1>1, <1>4, <1>TakeSealed DEF Flow
<1>5. ASSUME Head(q).m \in Last
      PROVE  lo = hi /\ Tail(q) = <<>> /\ Flow(Tail(q), lo, hi, link, reader)
  <2>1. lo = hi /\ Tail(q) = <<>>
    BY <1>1, <1>5, <1>TakeLast
  <2>2. Partial(<<>>, lo, hi) /\ Whole(<<>>, lo, hi)
    BY <2>1, NoneLeft
  <2> QED BY Zenon, <2>1, <2>2 DEF Flow
<1> QED BY <1>2, <1>3, <1>4, <1>5

\* When the link is cut or the reader leaves, what is in flight may be lost.
LEMMA FlowStops ==
  ASSUME NEW q, NEW lo \in Nat, NEW hi \in Nat, NEW link, NEW reader, NEW link2, NEW reader2,
         Flow(q, lo, hi, link, reader), ~(link2 = "up" /\ reader2 = "open")
  PROVE  Flow(q, lo, hi, link2, reader2) /\ Flow(<<>>, lo, hi, link2, reader2)
BY Zenon, FlowIs, NoneLeft DEF Flow

\* A piece of camouflage is a record without a key.
LEMMA CamoIs ==
  ASSUME NEW m \in Msg
  PROVE  Camo(m) \in Rec /\ Camo(m).e = Plain /\ Camo(m).m = m
BY DEF Camo, Rec, Plain

\* The end of a stream is a record without a key.
LEMMA FinIs == Fin \in Rec /\ Fin.e = Plain /\ Fin.m = "fin" /\ Fin.m \in Last
BY CamoIs DEF Fin, Msg, Last

\* Taking the first or the first two pieces of a connection is taking its
\* tail once or twice.
LEMMA RestTwo ==
  ASSUME NEW q \in Seq(Rec), Len(q) >= 1
  PROVE  /\ SubSeq(q, 2, Len(q)) = Tail(q)
         /\ Len(q) >= 2 => /\ Tail(q) # <<>> /\ Head(Tail(q)) = q[2]
                           /\ SubSeq(q, 3, Len(q)) = Tail(Tail(q))
<1>1. SubSeq(q, 2, Len(q)) = Tail(q)
  OBVIOUS
<1>2. ASSUME Len(q) >= 2
      PROVE  /\ Tail(q) # <<>> /\ Head(Tail(q)) = q[2]
             /\ SubSeq(q, 3, Len(q)) = Tail(Tail(q))
  <2>1. 2 \in 1..Len(q) /\ Len(q) \in 2..Len(q) /\ q # <<>>
    BY <1>2
  <2>2. Head(SubSeq(q, 2, Len(q))) = q[2] /\ Tail(SubSeq(q, 2, Len(q))) = SubSeq(q, 3, Len(q))
    BY <2>1
  <2>3. Len(Tail(q)) = Len(q) - 1
    BY <2>1, RestIs
  <2>4. Tail(q) # <<>>
    BY <1>2, <2>3
  <2> QED BY Zenon, <1>1, <2>2, <2>4
<1> QED BY Zenon, <1>1, <1>2

-----------------------------------------------------------------------------
(* What writing to a connection and reading from it does *)

\* The places on the control connection are numbers.
LEMMA Positions ==
  ASSUME Shape
  PROVE  /\ ClientSealed \in Nat /\ ServerOpened \in Nat
         /\ ServerSealed \in Nat /\ ClientOpened \in Nat
         /\ Chunks \in Nat /\ Chunks > 0
BY SessionAssumption DEF Shape, IsCodec, Idx, ClientSealed, ServerOpened, ServerSealed, ClientOpened

\* What was sealed is ahead of what was opened; the client has the keys of
\* epoch 1 only if the server has.
LEMMA Ahead ==
  ASSUME Body
  PROVE  /\ c2s \in Seq(Rec) /\ s2c \in Seq(Rec)
         /\ ServerOpened <= ClientSealed /\ ClientOpened <= ServerSealed
         /\ cli.seal.e = 1 => srv.seal.e = 1
         /\ srv.open.n > 0 \/ srv.open.e = 1 => cli.pc # "camo"
<1>1. /\ ClientSealed \in Nat /\ ServerOpened \in Nat
      /\ ServerSealed \in Nat /\ ClientOpened \in Nat
      /\ Chunks \in Nat /\ Chunks > 0
  BY Zenon, Positions DEF Body
<1>a. UpOrder /\ DownOrder
  BY Zenon DEF Body
<1>b. Shape /\ ClientAt /\ ServerAt
  BY Zenon DEF Body
<1>2. c2s \in Seq(Rec) /\ ServerOpened <= ClientSealed
  BY Zenon, <1>1, <1>a, FlowIs DEF UpOrder
<1>3. s2c \in Seq(Rec) /\ ClientOpened <= ServerSealed
  BY Zenon, <1>1, <1>a, FlowIs DEF DownOrder
<1>c. /\ cli.open.e = cli.seal.e /\ cli.open.n \in Nat /\ srv.seal.e \in {0, 1}
      /\ srv.seal.e = 0 => srv.seal.n = 0 /\ srv.plane = "none"
      /\ cli.pc = "camo" => cli.seal.e = 0 /\ cli.seal.n = 0 /\ cli.plane = "none"
      /\ srv.open.n \in Nat /\ srv.open.e \in {0, 1}
  BY Zenon, <1>b DEF Shape, ClientAt, ServerAt, IsCodec
<1>4. cli.seal.e = 1 => srv.seal.e = 1
  <2> SUFFICES ASSUME cli.seal.e = 1, srv.seal.e = 0 PROVE FALSE
    BY <1>c
  <2>1. ServerSealed = 0
    BY Zenon, <1>c DEF ServerSealed, Idx
  <2>2. ClientOpened > 0
    <3>1. Chunks + Chunks + 1 > 0 /\ Chunks + cli.open.n > 0
      BY <1>1, <1>c
    <3>2. cli.open.e # 0
      BY <1>c
    <3> QED BY Zenon, <3>1, <3>2 DEF ClientOpened, Idx
  <2> QED BY <1>1, <1>3, <2>1, <2>2
<1>5. srv.open.n > 0 \/ srv.open.e = 1 => cli.pc # "camo"
  <2> SUFFICES ASSUME cli.pc = "camo", srv.open.n > 0 \/ srv.open.e = 1 PROVE FALSE
    BY Zenon
  <2>1. ClientSealed = 0
    BY Zenon, <1>c DEF ClientSealed, Idx
  <2>2. ServerOpened > 0
    <3>1. Chunks + 3 > 0 /\ Chunks + srv.open.n > 0
      BY <1>1, <1>c
    <3>2. srv.open.e = 0 => srv.open.n > 0
      OBVIOUS
    <3> QED BY <1>c, <3>1, <3>2 DEF ServerOpened, Idx
  <2> QED BY <1>1, <1>2, <2>1, <2>2
<1> QED BY Zenon, <1>2, <1>3, <1>4, <1>5

\* What is in flight from the client to the server on the control
\* connection.
LEMMA UpFlow ==
  ASSUME Body
  PROVE  /\ Flow(c2s, ServerOpened, ClientSealed, tcp, srv.end)
         /\ ServerOpened \in Nat /\ ClientSealed \in Nat
         /\ srv.end # "open" => c2s = <<>>
         /\ c2s \in Seq(Rec) /\ \A r \in In(c2s) : UpRec(r)
BY SMTT(30), Positions, Ahead DEF Body, UpOrder, UpSays

\* What is in flight from the server to the client on the control
\* connection.
LEMMA DownFlow ==
  ASSUME Body
  PROVE  /\ Flow(s2c, ClientOpened, ServerSealed, tcp, cli.end)
         /\ ClientOpened \in Nat /\ ServerSealed \in Nat
         /\ cli.end # "open" => s2c = <<>>
         /\ s2c \in Seq(Rec) /\ \A r \in In(s2c) : DownRec(r)
BY Positions, Ahead DEF Body, DownOrder, DownSays

\* The client writes the records it has just sealed.
LEMMA UpSend ==
  ASSUME Body, Open(c2s), NEW us, SealedFrom(us, ClientSealed), ToServer(us)
  PROVE  /\ Flow(c2s', ServerOpened, ClientSealed + Len(us), tcp, srv.end)
         /\ srv.end # "open" => c2s' = <<>>
         /\ \A r \in In(c2s') : UpRec(r) \/ r \in In(us)
<1>1. c2s' = IF tcp = "up" /\ srv.end = "open" THEN c2s \o us ELSE c2s
  BY DEF ToServer
<1>9. Flow(c2s, ServerOpened, ClientSealed, tcp, srv.end) /\ ServerOpened \in Nat /\ ClientSealed \in Nat
  BY UpFlow
<1>2. /\ Flow(c2s', ServerOpened, ClientSealed + Len(us), tcp, srv.end)
      /\ In(c2s') \subseteq In(c2s) \cup In(us)
  BY Zenon, <1>1, <1>9, FlowSend
<1> QED BY <1>1, <1>2, UpFlow

\* The client seals and writes one record.
LEMMA UpSeal ==
  ASSUME Body, Open(c2s), NEW m \in Msg, m \notin Last,
         ClientSealed = Idx(cli.seal), ToServer(Seal(cli.seal, m))
  PROVE  /\ Flow(c2s', ServerOpened, ClientSealed + 1, tcp, srv.end)
         /\ srv.end # "open" => c2s' = <<>>
         /\ \A r \in In(c2s') : UpRec(r) \/ (r.e = cli.seal.e /\ r.n = cli.seal.n /\ r.m = m)
<1>1. c2s' = IF tcp = "up" /\ srv.end = "open" THEN c2s \o Seal(cli.seal, m) ELSE c2s
  BY DEF ToServer
<1>2. IsCodec(cli.seal)
  BY DEF Body, Shape
<1>9. Flow(c2s, ServerOpened, ClientSealed, tcp, srv.end) /\ ServerOpened \in Nat /\ ClientSealed \in Nat
  BY SMTT(30), UpFlow
<1>3. Flow(c2s', ServerOpened, ClientSealed + 1, tcp, srv.end)
  BY Zenon, <1>1, <1>2, <1>9, FlowSeal
<1>4. \A r \in In(c2s') : r \in In(c2s) \/ (r.e = cli.seal.e /\ r.n = cli.seal.n /\ r.m = m)
  <2>1. c2s \in Seq(Rec)
    BY Zenon, UpFlow
  <2>2. CASE c2s' = c2s \o Seal(cli.seal, m)
    BY ZenonT(30), <1>2, <2>1, <2>2, OneSealed
  <2>3. CASE c2s' = c2s
    BY Zenon, <2>3
  <2> QED BY Zenon, <1>1, <2>2, <2>3
<1> QED BY Zenon, <1>1, <1>3, <1>4, UpFlow

\* The client ends its stream, or sends DONE.
LEMMA UpLast ==
  ASSUME Body, Open(c2s), NEW x \in Rec, x.m \in Last, x.e = Plain => x.m = "fin", ToServer(<<x>>)
  PROVE  /\ Flow(c2s', ServerOpened, ClientSealed, tcp, srv.end)
         /\ srv.end # "open" => c2s' = <<>>
         /\ \A r \in In(c2s') : UpRec(r) \/ r = x
<1>1. c2s' = IF tcp = "up" /\ srv.end = "open" THEN c2s \o <<x>> ELSE c2s
  BY DEF ToServer
<1>9. Flow(c2s, ServerOpened, ClientSealed, tcp, srv.end) /\ ServerOpened \in Nat /\ ClientSealed \in Nat
  BY UpFlow
<1>2. Flow(c2s', ServerOpened, ClientSealed, tcp, srv.end)
  BY Zenon, <1>1, <1>9, FlowLast
<1>3. In(c2s') \subseteq In(c2s) \cup {x}
  BY <1>1, UpFlow, OneMore
<1> QED BY <1>1, <1>2, <1>3, UpFlow

\* A piece of camouflage goes to the server before anything is sealed.
LEMMA UpCamo ==
  ASSUME Body, Open(c2s), NEW m \in Msg, m \notin Last,
         ServerOpened = 0, ClientSealed = 0, ToServer(<<Camo(m)>>)
  PROVE  /\ Flow(c2s', 0, 0, tcp, srv.end)
         /\ srv.end # "open" => c2s' = <<>>
         /\ \A r \in In(c2s') : UpRec(r) \/ r = Camo(m)
<1> DEFINE x == Camo(m)
<1>1. c2s' = IF tcp = "up" /\ srv.end = "open" THEN c2s \o <<x>> ELSE c2s
  BY DEF ToServer
<1>2. x \in Rec /\ x.e = Plain /\ x.m \notin Last
  BY CamoIs
<1>3. Flow(c2s, 0, 0, tcp, srv.end)
  BY UpFlow
<1> HIDE DEF x
<1>4. /\ Flow(c2s', 0, 0, tcp, srv.end)
      /\ In(c2s') \subseteq In(c2s) \cup {x}
  BY Zenon, <1>1, <1>2, <1>3, FlowCamo
<1> QED BY <1>1, <1>4, UpFlow DEF x

\* The server reads the next record of the control connection.
LEMMA UpTake ==
  ASSUME Body, c2s # <<>>
  PROVE  /\ UpRec(Head(c2s)) /\ Head(c2s) \in Rec /\ srv.end = "open"
         /\ \A r \in In(Tail(c2s)) : UpRec(r)
         /\ Head(c2s).e = Plain /\ Head(c2s).m \notin Last =>
              ServerOpened = 0 /\ Flow(Tail(c2s), ServerOpened, ClientSealed, tcp, srv.end)
         /\ Head(c2s).e # Plain /\ Head(c2s).m \notin Last =>
              /\ Idx(Head(c2s)) = ServerOpened /\ ServerOpened < ClientSealed
              /\ Flow(Tail(c2s), ServerOpened + 1, ClientSealed, tcp, srv.end)
         /\ Head(c2s).m \in Last =>
              /\ ServerOpened = ClientSealed /\ Tail(c2s) = <<>>
              /\ Flow(Tail(c2s), ServerOpened, ClientSealed, tcp, srv.end)
<1>1. /\ Head(c2s) \in In(c2s) /\ Head(c2s) \in Rec /\ In(Tail(c2s)) \subseteq In(c2s)
  BY UpFlow, FlowTake
<1>2. UpRec(Head(c2s)) /\ \A r \in In(Tail(c2s)) : UpRec(r)
  BY <1>1, UpFlow
<1> QED BY SMTT(30), <1>1, <1>2, UpFlow, FlowTake

\* A step of the server alone leaves the client where it stands, and a step of
\* the client alone the server.
LEMMA ClientStays ==
  ASSUME ClientAt, cli' = cli, up'.sent = up.sent, dn'.got = dn.got PROVE ClientAt'
BY SMT DEF ClientAt

LEMMA ServerStays ==
  ASSUME ServerAt, srv' = srv, up'.got = up.got, dn'.sent = dn.sent PROVE ServerAt'
BY SMT DEF ServerAt

\* A server that takes the next record and advances by it leaves a control
\* connection in order.
LEMMA UpAdvances ==
  ASSUME Body, c2s # <<>>, cli' = cli, up' = up, tcp' = tcp, c2s' = Tail(c2s),
         srv'.end = srv.end, Flow(Tail(c2s), ServerOpened', ClientSealed', tcp, srv.end)
  PROVE  UpOrder' /\ UpSays'
<1>1. srv.end = "open" /\ \A r \in In(Tail(c2s)) : UpRec(r)
  BY Zenon, UpTake
<1>2. UpOrder'
  BY Zenon, <1>1 DEF UpOrder
<1>3. ASSUME NEW r, UpRec(r) PROVE UpRec(r)'
  BY Zenon, <1>3 DEF UpRec
<1> QED BY Zenon, <1>1, <1>2, <1>3 DEF UpSays

\* The server writes the records it has just sealed.
LEMMA DownSend ==
  ASSUME Body, Open(s2c), NEW us, SealedFrom(us, ServerSealed), ToClient(us)
  PROVE  /\ Flow(s2c', ClientOpened, ServerSealed + Len(us), tcp, cli.end)
         /\ cli.end # "open" => s2c' = <<>>
         /\ \A r \in In(s2c') : (DownRec(r) /\ r \in In(s2c)) \/ r \in In(us)
<1>1. s2c' = IF tcp = "up" /\ cli.end = "open" THEN s2c \o us ELSE s2c
  BY DEF ToClient
<1>9. Flow(s2c, ClientOpened, ServerSealed, tcp, cli.end) /\ ClientOpened \in Nat /\ ServerSealed \in Nat
  BY DownFlow
<1>2. /\ Flow(s2c', ClientOpened, ServerSealed + Len(us), tcp, cli.end)
      /\ In(s2c') \subseteq In(s2c) \cup In(us)
  BY Zenon, <1>1, <1>9, FlowSend
<1> QED BY <1>1, <1>2, DownFlow

\* The server seals and writes one record.
LEMMA DownSeal ==
  ASSUME Body, Open(s2c), NEW m \in Msg, m \notin Last,
         ServerSealed = Idx(srv.seal), ToClient(Seal(srv.seal, m))
  PROVE  /\ Flow(s2c', ClientOpened, ServerSealed + 1, tcp, cli.end)
         /\ cli.end # "open" => s2c' = <<>>
         /\ \A r \in In(s2c') : (DownRec(r) /\ r \in In(s2c)) \/ (r.e = srv.seal.e /\ r.n = srv.seal.n /\ r.m = m)
<1>1. s2c' = IF tcp = "up" /\ cli.end = "open" THEN s2c \o Seal(srv.seal, m) ELSE s2c
  BY DEF ToClient
<1>2. IsCodec(srv.seal)
  BY DEF Body, Shape
<1>9. Flow(s2c, ClientOpened, ServerSealed, tcp, cli.end) /\ ClientOpened \in Nat /\ ServerSealed \in Nat
  BY DownFlow
<1>3. Flow(s2c', ClientOpened, ServerSealed + 1, tcp, cli.end)
  BY Zenon, <1>1, <1>2, <1>9, FlowSeal
<1>4. \A r \in In(s2c') : r \in In(s2c) \/ (r.e = srv.seal.e /\ r.n = srv.seal.n /\ r.m = m)
  <2>1. s2c \in Seq(Rec)
    BY Zenon, DownFlow
  <2>2. CASE s2c' = s2c \o Seal(srv.seal, m)
    BY ZenonT(30), <1>2, <2>1, <2>2, OneSealed
  <2>3. CASE s2c' = s2c
    BY Zenon, <2>3
  <2> QED BY Zenon, <1>1, <2>2, <2>3
<1> QED BY Zenon, <1>1, <1>3, <1>4, DownFlow

\* The server ends its stream, or sends DONE.
LEMMA DownLast ==
  ASSUME Body, Open(s2c), NEW x \in Rec, x.m \in Last, x.e = Plain => x.m = "fin", ToClient(<<x>>)
  PROVE  /\ Flow(s2c', ClientOpened, ServerSealed, tcp, cli.end)
         /\ cli.end # "open" => s2c' = <<>>
         /\ \A r \in In(s2c') : (DownRec(r) /\ r \in In(s2c)) \/ r = x
<1>1. s2c' = IF tcp = "up" /\ cli.end = "open" THEN s2c \o <<x>> ELSE s2c
  BY DEF ToClient
<1>9. Flow(s2c, ClientOpened, ServerSealed, tcp, cli.end) /\ ClientOpened \in Nat /\ ServerSealed \in Nat
  BY DownFlow
<1>2. Flow(s2c', ClientOpened, ServerSealed, tcp, cli.end)
  BY Zenon, <1>1, <1>9, FlowLast
<1>3. In(s2c') \subseteq In(s2c) \cup {x}
  BY <1>1, DownFlow, OneMore
<1> QED BY <1>1, <1>2, <1>3, DownFlow

\* A piece of camouflage goes to the client before anything is sealed.
LEMMA DownCamo ==
  ASSUME Body, Open(s2c), NEW m \in Msg, m \notin Last,
         ClientOpened = 0, ServerSealed = 0, ToClient(<<Camo(m)>>)
  PROVE  /\ Flow(s2c', 0, 0, tcp, cli.end)
         /\ cli.end # "open" => s2c' = <<>>
         /\ \A r \in In(s2c') : (DownRec(r) /\ r \in In(s2c)) \/ r = Camo(m)
<1> DEFINE x == Camo(m)
<1>1. s2c' = IF tcp = "up" /\ cli.end = "open" THEN s2c \o <<x>> ELSE s2c
  BY DEF ToClient
<1>2. x \in Rec /\ x.e = Plain /\ x.m \notin Last
  BY CamoIs
<1>3. Flow(s2c, 0, 0, tcp, cli.end)
  BY DownFlow
<1> HIDE DEF x
<1>4. /\ Flow(s2c', 0, 0, tcp, cli.end)
      /\ In(s2c') \subseteq In(s2c) \cup {x}
  BY Zenon, <1>1, <1>2, <1>3, FlowCamo
<1> QED BY <1>1, <1>4, DownFlow DEF x

\* The client reads the next record of the control connection.
LEMMA DownTake ==
  ASSUME Body, s2c # <<>>
  PROVE  /\ DownRec(Head(s2c)) /\ Head(s2c) \in Rec /\ Head(s2c) \in In(s2c) /\ cli.end = "open"
         /\ In(Tail(s2c)) \subseteq In(s2c) /\ \A r \in In(Tail(s2c)) : DownRec(r)
         /\ Head(s2c).e = Plain /\ Head(s2c).m \notin Last =>
              ClientOpened = 0 /\ Flow(Tail(s2c), ClientOpened, ServerSealed, tcp, cli.end)
         /\ Head(s2c).e # Plain /\ Head(s2c).m \notin Last =>
              /\ Idx(Head(s2c)) = ClientOpened /\ ClientOpened < ServerSealed
              /\ Flow(Tail(s2c), ClientOpened + 1, ServerSealed, tcp, cli.end)
         /\ Head(s2c).m \in Last =>
              /\ ClientOpened = ServerSealed /\ Tail(s2c) = <<>>
              /\ Flow(Tail(s2c), ClientOpened, ServerSealed, tcp, cli.end)
<1>1. /\ Head(s2c) \in In(s2c) /\ Head(s2c) \in Rec /\ In(Tail(s2c)) \subseteq In(s2c)
  BY DownFlow, FlowTake
<1>2. DownRec(Head(s2c)) /\ \A r \in In(Tail(s2c)) : DownRec(r)
  BY <1>1, DownFlow
<1> QED BY <1>1, <1>2, DownFlow, FlowTake

-----------------------------------------------------------------------------
(* What opens *)

\* A sealed record at the head of the control connection opens for the
\* client.
LEMMA HeadOpensDown ==
  ASSUME Body, s2c # <<>>, Head(s2c).e # Plain, Head(s2c).m \notin Last, cli.plane # "quic"
  PROVE  Opens(cli.open, Head(s2c))
<1> DEFINE r == Head(s2c)
<1>1. r \in Rec /\ Idx(r) = ClientOpened /\ DownRec(r) /\ r.e # Plain
  BY Zenon, DownTake
<1>b. Shape /\ ClientAt
  BY Zenon DEF Body
<1>2. Chunks \in Nat /\ IsCodec(cli.open) /\ (cli.open.e = 0 => cli.open.n < Chunks)
  BY Zenon, <1>b, Positions DEF Shape, ClientAt
<1>3. Idx(r) = Idx(cli.open)
  BY <1>1 DEF ClientOpened
<1>4. r.e \in {0, 1} /\ r.n \in Nat /\ (r.e = 0 => r.n < Chunks)
  BY <1>1 DEF Rec, DownRec
<1> HIDE DEF r
<1>5. r.e = cli.open.e /\ r.n = cli.open.n
  BY <1>2, <1>3, <1>4 DEF Idx, IsCodec
<1> QED BY <1>5 DEF r, Opens

\* After the rekey and before a plane is chosen, whatever the client meets
\* opens.
LEMMA ControlOpensDown ==
  ASSUME Body, s2c # <<>>, cli.seal.e = 1, cli.plane = "none"
  PROVE  /\ Opens(cli.open, Head(s2c)) /\ Head(s2c).m \notin Last /\ Head(s2c).e # Plain
         /\ Flow(Tail(s2c), ClientOpened + 1, ServerSealed, tcp, cli.end)
<1>1. ClientOpened # 0
  <2>1. Shape /\ ClientAt
    BY Zenon DEF Body
  <2>2. cli.open.e = 1 /\ cli.open.n \in Nat /\ Chunks \in Nat /\ Chunks > 0
    BY Zenon, <2>1, Positions DEF Shape, ClientAt, IsCodec
  <2> QED BY <2>2 DEF ClientOpened, Idx
<1>2. Head(s2c).m \notin Last
  <2>1. Agreed
    BY Zenon DEF Body
  <2>2. srv.plane = "none"
    BY Zenon, <2>1 DEF Agreed
  <2> QED BY Zenon, <2>2, DownTake DEF DownRec, Last
<1>3. Head(s2c).e # Plain
  BY Zenon, <1>1, <1>2, DownTake
<1>4. Opens(cli.open, Head(s2c))
  BY Zenon, <1>2, <1>3, HeadOpensDown
<1> QED BY Zenon, <1>2, <1>3, <1>4, DownTake

\* A sealed record at the head of the control connection opens for the
\* server.
LEMMA HeadOpensUp ==
  ASSUME Body, c2s # <<>>, Head(c2s).e # Plain, Head(c2s).m \notin Last, srv.plane # "quic",
         srv.open.e = 0 => srv.open.n < Chunks
  PROVE  Opens(srv.open, Head(c2s))
<1> DEFINE r == Head(c2s)
<1>1. r \in Rec /\ Idx(r) = ServerOpened /\ UpRec(r) /\ r.e # Plain
  BY UpTake
<1>2. Chunks \in Nat /\ IsCodec(srv.open)
  BY Positions DEF Body, Shape
<1>3. Idx(r) = Idx(srv.open)
  BY <1>1 DEF ServerOpened
<1>4. r.e \in {0, 1} /\ r.n \in Nat /\ (r.e = 0 => r.n < Chunks)
  BY <1>1 DEF Rec, UpRec
<1> HIDE DEF r
<1>5. r.e = srv.open.e /\ r.n = srv.open.n
  BY <1>2, <1>3, <1>4 DEF Idx, IsCodec
<1> QED BY <1>5 DEF r, Opens

\* After the rekey and before a plane is chosen, whatever the server meets
\* opens.
LEMMA ControlOpensUp ==
  ASSUME Body, c2s # <<>>, Head(c2s).m \notin Last, srv.pc \in {"first", "ack", "command"}
  PROVE  /\ Opens(srv.open, Head(c2s)) /\ Head(c2s).e = 1 /\ Head(c2s).n = srv.open.n
         /\ Flow(Tail(c2s), ServerOpened + 1, ClientSealed, tcp, srv.end)
         /\ srv.plane = "none" /\ srv.open.e = 1 /\ srv.seal.e = 1 /\ srv.end = "open"
         /\ ServerOpened = Idx(srv.open) /\ ServerSealed = Idx(srv.seal)
<1>1. srv.plane = "none" /\ srv.open.e = 1 /\ srv.seal.e = 1 /\ srv.end = "open"
  BY DEF Body, ServerAt
<1>2. ServerOpened = Idx(srv.open) /\ ServerSealed = Idx(srv.seal)
  BY <1>1 DEF ServerOpened, ServerSealed
<1>3. ServerOpened # 0
  BY <1>1, <1>2, Positions DEF Body, Shape, IsCodec, Idx
<1>4. Head(c2s).e # Plain
  BY <1>3, UpTake
<1>5. Opens(srv.open, Head(c2s))
  BY <1>1, <1>4, HeadOpensUp
<1>6. Head(c2s).e = 1 /\ Head(c2s).n = srv.open.n
  BY <1>1, <1>5 DEF Opens
<1> QED BY <1>1, <1>2, <1>4, <1>5, <1>6, UpTake

-----------------------------------------------------------------------------
(* The camouflage still in flight *)

\* Skipping the first piece of camouflage costs at most one unit of the
\* budget.
LEMMA TolerableRest ==
  ASSUME NEW q \in Seq(Rec), q # <<>>, NEW k \in Nat, NEW k2 \in 0..k + 1,
         srv.fwd \in Nat, Tolerable(q, k)
  PROVE  Tolerable(Tail(q), k2)
<1>1. /\ Tail(q) \in Seq(Rec) /\ In(Tail(q)) \subseteq In(q)
      /\ Len(Tail(q)) = Len(q) - 1 /\ Len(q) > 0 /\ Len(q) \in Nat
      /\ \A i \in 1..Len(q) - 1 : Tail(q)[i] = q[i + 1]
  BY RestIs
<1>2. ByteLimit \in Nat
  BY SessionAssumption
<1>3. srv.pc = "prepq" => k2 + Len(Tail(q)) <= srv.fwd /\ srv.fwd <= ByteLimit
  BY <1>1, <1>2 DEF Tolerable
<1>4. ASSUME NEW i \in 1..Len(Tail(q)), Tail(q)[i].e = Plain, Tail(q)[i].m # "fin"
      PROVE  k2 + i <= ByteLimit
  <2>1. Tail(q)[i] = q[i + 1] /\ i + 1 \in 1..Len(q)
    BY <1>1
  <2>2. k + (i + 1) <= ByteLimit
    BY <1>4, <2>1 DEF Tolerable
  <2> QED BY <1>2, <2>2
<1>5. RecordUnits = 1 => \A r \in In(Tail(q)) : r.m # "head"
  BY <1>1 DEF Tolerable
<1> QED BY Zenon, <1>3, <1>4, <1>5 DEF Tolerable

\* A read of the client leaves the rest within the budget.
LEMMA ResidualReads ==
  ASSUME Body, s2c # <<>>, s2c' = Tail(s2c), srv' = srv,
         cli'.skipped \in 0..cli.skipped + 1
  PROVE  Residual'
<1>1. /\ cli.skipped \in Nat /\ srv.fwd \in Nat /\ Tolerable(s2c, cli.skipped)
      /\ s2c \in Seq(Rec)
  BY DownFlow DEF Body, Shape, Residual
<1>2. Tolerable(Tail(s2c), cli'.skipped)
  BY <1>1, TolerableRest
<1> QED BY <1>2 DEF Residual, Tolerable

\* What the server writes after the key exchange is no camouflage.
LEMMA ResidualSends ==
  ASSUME Body, NEW us \in Seq(Rec), s2c' = s2c \/ s2c' = s2c \o us, srv'.pc # "prepq",
         cli' = cli, \A r \in In(us) : (r.e # Plain \/ r.m = "fin") /\ r.m # "head"
  PROVE  Residual'
<1>1. s2c \in Seq(Rec) /\ Residual
  BY DownFlow DEF Body
<1>2. CASE s2c' = s2c
  BY <1>1, <1>2 DEF Residual, Tolerable
<1>3. CASE s2c' = s2c \o us
  <2>1. /\ In(s2c') = In(s2c) \cup In(us) /\ Len(s2c') = Len(s2c) + Len(us)
        /\ Len(s2c) \in Nat /\ Len(us) \in Nat
        /\ \A i \in 1..Len(s2c) : s2c'[i] = s2c[i]
        /\ \A i \in Len(s2c)+1..Len(s2c)+Len(us) : s2c'[i] = us[i - Len(s2c)]
    BY <1>1, <1>3, Concat
  <2>2. ASSUME NEW i \in 1..Len(s2c'), s2c'[i].e = Plain, s2c'[i].m # "fin"
        PROVE  cli.skipped + i <= ByteLimit
    <3>1. CASE i \in 1..Len(s2c)
      BY <1>1, <2>1, <2>2, <3>1 DEF Residual, Tolerable
    <3>2. CASE i \in Len(s2c)+1..Len(s2c)+Len(us)
      <4>1. i - Len(s2c) \in 1..Len(us) /\ s2c'[i] = us[i - Len(s2c)]
        BY <2>1, <3>2
      <4>2. us[i - Len(s2c)] \in In(us)
        BY <4>1 DEF In
      <4> QED BY <2>2, <4>1, <4>2
    <3> QED BY <2>1, <3>1, <3>2
  <2>3. RecordUnits = 1 => \A r \in In(s2c') : r.m # "head"
    BY <1>1, <2>1 DEF Residual, Tolerable
  <2> QED BY <2>2, <2>3 DEF Residual, Tolerable
<1> QED BY <1>2, <1>3

\* A record that the server seals after the rekey is no camouflage.
LEMMA ResidualSeals ==
  ASSUME Body, NEW m \in Msg, m # "head", cli' = cli, srv'.pc # "prepq",
         ToClient(Seal(srv.seal, m))
  PROVE  Residual'
<1> DEFINE x == [e |-> srv.seal.e, n |-> srv.seal.n, m |-> m]
<1>0. IsCodec(srv.seal)
  BY DEF Body, Shape
<1>1. Seal(srv.seal, m) = <<x>> /\ x \in Rec
  BY <1>0, SealIs
<1>2. x.e # Plain /\ x.m # "head"
  BY <1>0 DEF IsCodec, Plain
<1>3. s2c' = s2c \/ s2c' = s2c \o <<x>>
  BY <1>1 DEF ToClient
<1> HIDE DEF x
<1>4. <<x>> \in Seq(Rec) /\ In(<<x>>) = {x}
  BY <1>1 DEF In
<1> QED BY Zenon, <1>2, <1>3, <1>4, ResidualSends

-----------------------------------------------------------------------------
(* The bidi and the ends *)

\* What is in flight on the client's half of the bidi.
LEMMA BidiUpFlow ==
  ASSUME Body
  PROVE  /\ Flow(quic.up, Chunks + 3 + up.got, Chunks + 3 + up.sent, Leg(cli.plane), quic.close)
         /\ Chunks + 3 + up.got \in Nat /\ Chunks + 3 + up.sent \in Nat
         /\ cli.plane # "quic" => quic.up = <<>>
         /\ quic.up \in Seq(Rec)
         /\ \A r \in In(quic.up) : r.e # 0 /\ r.m # "done" /\ (r.m = "fin" => r = Fin /\ cli.up)
<1>1. Chunks + 3 + up.got \in Nat /\ Chunks + 3 + up.sent \in Nat
  BY Positions DEF Body, Shape
<1>2. Flow(quic.up, Chunks + 3 + up.got, Chunks + 3 + up.sent, Leg(cli.plane), quic.close)
  BY DEF Body, BidiUp
<1>3. quic.up \in Seq(Rec)
  BY Zenon, <1>1, <1>2, FlowIs
<1> QED BY <1>1, <1>2, <1>3 DEF Body, BidiUp

\* What is in flight on the server's half of the bidi.
LEMMA BidiDownFlow ==
  ASSUME Body
  PROVE  /\ Flow(quic.dn, Chunks + Chunks + 1 + dn.got, Chunks + Chunks + 1 + dn.sent, Leg(srv.plane), quic.close)
         /\ Chunks + Chunks + 1 + dn.got \in Nat /\ Chunks + Chunks + 1 + dn.sent \in Nat
         /\ srv.plane # "quic" => quic.dn = <<>>
         /\ quic.dn \in Seq(Rec)
         /\ \A r \in In(quic.dn) : /\ r.e # 0 /\ r.m # "done"
                                   /\ r.m = "fin" => r = Fin /\ (srv.dn \/ srv.end # "open")
<1>1. Chunks + Chunks + 1 + dn.got \in Nat /\ Chunks + Chunks + 1 + dn.sent \in Nat
  BY Positions DEF Body, Shape
<1>2. Flow(quic.dn, Chunks + Chunks + 1 + dn.got, Chunks + Chunks + 1 + dn.sent, Leg(srv.plane), quic.close)
  BY DEF Body, BidiDown
<1>3. quic.dn \in Seq(Rec)
  BY Zenon, <1>1, <1>2, FlowIs
<1> QED BY <1>1, <1>2, <1>3 DEF Body, BidiDown

\* CloseQuic and a dropped guard do no more than that.
LEMMA QuicCloses ==
  ASSUME Body, NEW code, code # "open", CloseQuic(code) \/ GuardDropped(code) \/ quic' = quic
  PROVE  QuicStays
BY DEF Body, Shape, CloseQuic, GuardDropped, QuicStays

\* A step that at most closes the connection keeps what is known of the
\* bidi.
LEMMA BidiStops ==
  ASSUME Body, QuicStays, up' = up, dn' = dn, cli'.plane = cli.plane, cli'.up = cli.up,
         srv'.plane = srv.plane, srv'.dn = srv.dn, srv.end # "open" => srv'.end # "open"
  PROVE  BidiUp' /\ BidiDown' /\ DOMAIN quic' = DOMAIN quic
<1>1. /\ quic'.up = quic.up /\ quic'.dn = quic.dn /\ DOMAIN quic' = DOMAIN quic
      /\ quic'.close = quic.close \/ quic'.close # "open"
  BY DEF QuicStays
<1>2. Flow(quic.up, Chunks + 3 + up.got, Chunks + 3 + up.sent, Leg(cli.plane), quic'.close)
  <2>1. ASSUME NEW c, c # "open" PROVE Flow(quic.up, Chunks + 3 + up.got, Chunks + 3 + up.sent, Leg(cli.plane), c)
    BY <2>1, BidiUpFlow, FlowStops
  <2> QED BY Zenon, <1>1, <2>1, BidiUpFlow
<1>3. Flow(quic.dn, Chunks + Chunks + 1 + dn.got, Chunks + Chunks + 1 + dn.sent, Leg(srv.plane), quic'.close)
  <2>1. ASSUME NEW c, c # "open"
        PROVE  Flow(quic.dn, Chunks + Chunks + 1 + dn.got, Chunks + Chunks + 1 + dn.sent, Leg(srv.plane), c)
    BY SMTT(30), <2>1, BidiDownFlow, FlowStops
  <2> QED BY Zenon, <1>1, <2>1, BidiDownFlow
<1>4. BidiUp'
  BY SMTT(30), <1>1, <1>2 DEF Body, BidiUp
<1>5. BidiDown'
  BY <1>1, <1>3 DEF Body, BidiDown
<1> QED BY <1>1, <1>4, <1>5

\* An end of the client's task keeps the invariant: what is in flight to it
\* is lost.
LEMMA ClientEnd ==
  ASSUME Body, NEW how, how # "open", ClientEndsAs(how), QuicStays,
         srv' = srv, c2s' = c2s, tcp' = tcp, up' = up, dn' = dn
  PROVE  Body'
<1>a. Shape /\ ClientAt
  BY Zenon DEF Body
<1>b. ServerAt /\ Agreed
  BY Zenon DEF Body
<1>c. Counted /\ Heard
  BY Zenon DEF Body
<1>0. IsCodec(cli.open) /\ IsCodec(cli.seal) /\ cli.open.e = cli.seal.e
  BY <1>a DEF Shape, ClientAt
<1>1. /\ ClientBecomes("ended", cli.seal.e, cli.seal.n, cli.open.n, cli.frag, cli.skipped,
                       cli.plane, cli.up, cli.dn, how)
      /\ s2c' = <<>>
  BY <1>0, <1>a DEF ClientBecomes, ClientEndsAs, Shape
<1>d. cli'.plane = cli.plane /\ cli'.up = cli.up
  BY <1>1 DEF ClientBecomes
<1>2. BidiUp' /\ BidiDown' /\ DOMAIN quic' = DOMAIN quic
  BY Zenon, <1>d, BidiStops
<1>3. Shape' /\ ClientAt' /\ ServerAt' /\ Agreed' /\ Counted' /\ Heard'
  <2>0. Shape'
    BY <1>1, <1>2, <1>a DEF ClientBecomes, Shape
  <2>1. ClientAt'
    <3>1. /\ cli.seal.e = 0 => cli.open.n < Chunks /\ cli.seal.n <= Chunks
          /\ cli.plane # "none" => cli.seal.e = 1
          /\ cli.plane = "tcp" => cli.open.n >= Chunks
          /\ cli.plane = "none" => (cli.seal.e = 1 => cli.seal.n <= 1)
          /\ cli.plane = "none" => up.sent = 0 /\ dn.got = 0 /\ ~cli.up /\ ~cli.dn
          /\ cli.plane = "quic" => cli.seal.n >= 2
      BY Zenon, <1>a DEF ClientAt
    <3>2. /\ cli'.pc = "ended" /\ cli'.end = how /\ cli'.plane = cli.plane
          /\ cli'.up = cli.up /\ cli'.dn = cli.dn
          /\ cli'.seal.e = cli.seal.e /\ cli'.open.e = cli.seal.e
          /\ cli'.seal.n = cli.seal.n /\ cli'.open.n = cli.open.n
      BY Zenon, <1>1 DEF ClientBecomes
    <3> QED BY <3>1, <3>2 DEF ClientAt
  <2>2. ServerAt'
    BY Zenon, <1>b, ServerStays
  <2>3. Agreed'
    BY <1>1, <1>b DEF ClientBecomes, Agreed, Unoffered
  <2>4. Counted' /\ Heard'
    BY <1>1, <1>c DEF ClientBecomes, Counted, Heard
  <2> QED BY Zenon, <2>0, <2>1, <2>2, <2>3, <2>4
<1>4. /\ ClientSealed' = ClientSealed /\ ServerOpened' = ServerOpened
      /\ ServerSealed' = ServerSealed /\ ClientOpened' = ClientOpened
  <2>1. ClientSealed' = ClientSealed /\ ClientOpened' = ClientOpened
    BY <1>0, <1>1 DEF ClientBecomes, ClientSealed, ClientOpened, Idx
  <2>2. ServerOpened' = ServerOpened /\ ServerSealed' = ServerSealed
    BY Zenon DEF ServerOpened, ServerSealed, Idx
  <2> QED BY <2>1, <2>2
<1>5. UpOrder' /\ UpSays'
  <2>1. UpOrder'
    <3>1. UpOrder
      BY Zenon DEF Body
    <3> QED BY Zenon, <1>4, <3>1 DEF UpOrder
  <2>2. ASSUME NEW r, UpRec(r) PROVE UpRec(r)'
    BY <1>1, <2>2 DEF ClientBecomes, UpRec
  <2>3. UpSays
    BY Zenon DEF Body
  <2> QED BY Zenon, <2>1, <2>2, <2>3 DEF UpSays
<1>6. DownOrder'
  <2>1. Flow(<<>>, ClientOpened, ServerSealed, tcp, how)
    BY Zenon, DownFlow, FlowStops
  <2> QED BY Zenon, <1>1, <1>4, <2>1 DEF ClientBecomes, DownOrder
<1>7. DownSays'
  BY Zenon, <1>1, Nothing DEF DownSays
<1>8. Residual'
  <2>0. Residual /\ cli'.skipped = cli.skipped
    BY <1>1 DEF Body, ClientBecomes
  <2>1. Len(s2c) \in Nat /\ Len(<<>>) = 0 /\ cli.skipped \in Nat /\ srv.fwd \in Nat /\ In(<<>>) = {}
    BY <1>a, DownFlow, Nothing DEF Shape
  <2>2. srv.pc = "prepq" => cli.skipped + Len(<<>>) <= srv.fwd /\ srv.fwd <= ByteLimit
    BY <2>0, <2>1 DEF Residual, Tolerable
  <2>3. Tolerable(<<>>, cli.skipped)'
    BY <2>0, <2>1, <2>2 DEF Tolerable
  <2> QED BY <1>1, <2>3 DEF Residual
<1> QED BY Zenon, <1>2, <1>3, <1>5, <1>6, <1>7, <1>8 DEF Body

\* An end of the server's task keeps the invariant: what is in flight to it
\* is lost.
LEMMA ServerEnd ==
  ASSUME Body, NEW how, how # "open", ServerEndsAs(how), QuicStays,
         cli' = cli, s2c' = s2c, tcp' = tcp, up' = up, dn' = dn
  PROVE  Body'
<1>a. Shape /\ ServerAt
  BY Zenon DEF Body
<1>b. ClientAt /\ Agreed
  BY Zenon DEF Body
<1>c. Counted /\ Heard
  BY Zenon DEF Body
<1>0. IsCodec(srv.open) /\ IsCodec(srv.seal) /\ srv.open.e = srv.seal.e
  BY <1>a DEF Shape, ServerAt
<1>1. /\ ServerBecomes("ended", srv.seal.e, srv.seal.n, srv.open.n, srv.frag, srv.fwd, srv.spent,
                       srv.have, srv.plane, srv.up, srv.dn, how)
      /\ c2s' = <<>>
  BY <1>0, <1>a DEF ServerBecomes, ServerEndsAs, Shape
<1>d. srv'.plane = srv.plane /\ srv'.dn = srv.dn /\ srv'.end # "open"
  BY <1>1 DEF ServerBecomes
<1>2. BidiUp' /\ BidiDown' /\ DOMAIN quic' = DOMAIN quic
  BY Zenon, <1>d, BidiStops
<1>3. Shape' /\ ClientAt' /\ ServerAt' /\ Agreed' /\ Counted' /\ Heard'
  <2>0. Shape'
    BY <1>1, <1>2, <1>a DEF ServerBecomes, Shape
  <2>1. ClientAt'
    BY Zenon, <1>b, ClientStays
  <2>2. ServerAt'
    <3>1. /\ srv.seal.e = 0 => srv.seal.n = 0 /\ srv.open.n <= Chunks /\ srv.plane = "none"
          /\ srv.seal.e = 1 => srv.spent
          /\ srv.plane = "none" =>
               /\ up.got = 0 /\ dn.sent = 0 /\ ~srv.up /\ ~srv.dn
               /\ srv.seal.e = 1 => srv.seal.n <= Chunks + 1
               /\ srv.seal.e = 1 /\ srv.open.n = 0 => srv.seal.n <= Chunks
          /\ srv.plane = "tcp" => ~srv.have
      BY Zenon, <1>a DEF ServerAt
    <3>2. /\ srv'.pc = "ended" /\ srv'.end = how /\ srv'.plane = srv.plane
          /\ srv'.up = srv.up /\ srv'.dn = srv.dn /\ srv'.have = srv.have
          /\ srv'.spent = srv.spent
          /\ srv'.seal.e = srv.seal.e /\ srv'.open.e = srv.seal.e
          /\ srv'.seal.n = srv.seal.n /\ srv'.open.n = srv.open.n
      BY Zenon, <1>1 DEF ServerBecomes
    <3> QED BY <3>1, <3>2 DEF ServerAt
  <2>3. Agreed'
    BY <1>1, <1>b DEF ServerBecomes, Agreed, Unoffered
  <2>4. Counted' /\ Heard'
    BY <1>1, <1>c DEF ServerBecomes, Counted, Heard
  <2> QED BY Zenon, <2>0, <2>1, <2>2, <2>3, <2>4
<1>4. /\ ClientSealed' = ClientSealed /\ ServerOpened' = ServerOpened
      /\ ServerSealed' = ServerSealed /\ ClientOpened' = ClientOpened
  <2>1. ServerSealed' = ServerSealed /\ ServerOpened' = ServerOpened
    BY <1>0, <1>1 DEF ServerBecomes, ServerSealed, ServerOpened, Idx
  <2>2. ClientOpened' = ClientOpened /\ ClientSealed' = ClientSealed
    BY Zenon DEF ClientOpened, ClientSealed, Idx
  <2> QED BY <2>1, <2>2
<1>5. DownOrder' /\ DownSays' /\ Residual'
  <2>1. DownOrder /\ DownSays /\ Residual
    BY Zenon DEF Body
  <2>2. DownOrder'
    BY Zenon, <1>4, <2>1 DEF DownOrder
  <2>3. ASSUME NEW r, DownRec(r) PROVE DownRec(r)'
    BY <1>1, <2>3 DEF ServerBecomes, DownRec, Unoffered
  <2>4. Residual'
    BY <1>1, <2>1 DEF ServerBecomes, Residual, Tolerable
  <2> QED BY Zenon, <2>1, <2>2, <2>3, <2>4 DEF DownSays
<1>6. UpOrder'
  <2>1. Flow(<<>>, ServerOpened, ClientSealed, tcp, how)
    BY Zenon, UpFlow, FlowStops
  <2> QED BY Zenon, <1>1, <1>4, <2>1 DEF ServerBecomes, UpOrder
<1>7. UpSays'
  BY Zenon, <1>1, Nothing DEF UpSays
<1> QED BY Zenon, <1>2, <1>3, <1>5, <1>6, <1>7 DEF Body
=============================================================================
