--------------------------- MODULE QuicKeysProofs ----------------------------
(***************************************************************************)
(* Proofs about the key update of QuicKeys, for any confidentiality limit, *)
(* any number of packets and any number of updates.  The inductive         *)
(* invariant is stated for the values that belong to one end: its keys k   *)
(* and packet numbers s, the packets w it has sent, and the keys q,        *)
(* numbers t and packets v of its peer.                                    *)
(***************************************************************************)
EXTENDS QuicKeys, FiniteSetTheorems, TLAPS

Option == Nat \cup {None}

KeyState ==
  [tx : Nat, rx : Nat, txFirst : Option, txLast : Option, txAcked : BOOLEAN,
   rxMin : Option, rxMax : Option, previousMax : Option, updateAckPending : BOOLEAN,
   write : Nat, read : Nat, previous : Option,
   nextGeneration : Nat, nextLocal : Option, nextRemote : Option, derived : Nat,
   sealed : Nat, closed : BOOLEAN]
SpaceState == [next : Nat, recv : SUBSET Nat, ackPending : BOOLEAN]
PacketType == [pn : Nat, phase : {0, 1}, key : Nat, acks : SUBSET Nat]

TypeOK ==
  /\ keys \in [End -> KeyState]
  /\ space \in [End -> SpaceState]
  /\ wire \in [End -> SUBSET PacketType]

(* Which key is in which slot: the sender is at most one generation ahead, and *)
(* has then used its half of the next pair.                                    *)
Slots(k) ==
  /\ k.tx \in {k.rx, k.rx + 1}
  /\ k.write = k.tx /\ k.read = k.rx /\ k.previous \in {None, k.rx - 1}
  /\ k.nextGeneration = k.rx + 1 /\ k.derived = k.rx + 1 /\ k.nextRemote = k.rx + 1
  /\ k.nextLocal = IF k.tx = k.rx THEN k.rx + 1 ELSE None

(* The packets sent: generations and packet numbers grow together, and the      *)
(* current generation begins at txFirst.                                        *)
Sent(k, next, w) ==
  /\ k.txFirst # None => k.txFirst < next
  /\ \A p \in w :
       /\ p.key <= k.tx /\ p.phase = p.key % 2 /\ p.pn < next
       /\ p.key = k.tx <=> k.txFirst # None /\ k.txFirst <= p.pn
  /\ \A p, r \in w : /\ p.pn = r.pn => p = r
                     /\ p.key < r.key => p.pn < r.pn

(* What a receiver remembers are packets of the generations it says. *)
Received(k, recv, v) ==
  /\ \A pn \in recv : \E p \in v : p.pn = pn /\ p.key <= k.rx
  /\ k.rxMin = None <=> k.rxMax = None
  /\ k.rx > 0 => k.rxMin # None
  /\ k.rxMin # None => \E p \in v : p.pn = k.rxMin /\ p.key = k.rx
  /\ k.rxMax # None => \E p \in v : p.pn = k.rxMax /\ p.key = k.rx
  /\ k.previousMax # None => \E p \in v : p.pn = k.previousMax /\ p.key < k.rx

(* A packet acknowledges only what was received, under a key no older, and the  *)
(* first one of a generation to be acknowledged ends updateAckPending.          *)
Acks(k, recv, w, v) ==
  \A p \in w : \A pn \in p.acks :
    /\ pn \in recv
    /\ \E r \in v : /\ r.pn = pn /\ r.key <= p.key
                    /\ r.key = k.rx => ~k.updateAckPending

(* A sender q is at most one generation ahead of its receiver k, an acknowledged *)
(* generation has been received and answered, and a receiver that owes an answer *)
(* to one update meets the next only if it has itself started it.                *)
Pair(k, q) ==
  /\ k.rx <= q.tx /\ q.tx <= k.rx + 1
  /\ q.txAcked => q.tx <= k.rx
  /\ q.txAcked /\ q.tx = k.rx => ~k.updateAckPending
  /\ k.updateAckPending /\ q.tx = k.rx + 1 => k.tx = k.rx + 1

Count(k, w) ==
  /\ IsFiniteSet(w)
  /\ k.sealed = Cardinality({p \in w : p.key = k.tx})
  /\ \A g \in Nat : Cardinality({p \in w : p.key = g}) <= Limit

EndInv(k, s, w, q, t, v) ==
  /\ Slots(k) /\ Sent(k, s.next, w) /\ Count(k, w)
  /\ Received(k, s.recv, v) /\ Received(q, t.recv, w)
  /\ Acks(k, s.recv, w, v) /\ Acks(q, t.recv, v, w)
  /\ Pair(k, q) /\ Pair(q, k)

IInv ==
  /\ TypeOK /\ error = {}
  /\ \A e \in End : EndInv(keys[e], space[e], wire[Peer(e)],
                           keys[Peer(e)], space[Peer(e)], wire[e])

-----------------------------------------------------------------------------
(* Count depends on two fields only. *)
LEMMA CountSame ==
  ASSUME NEW k, NEW i, NEW w, Count(k, w), i.tx = k.tx, i.sealed = k.sealed
  PROVE  Count(i, w)
  BY DEF Count

(* The phase bit tells a generation from the next. *)
LEMMA PhaseAlternates == \A n \in Nat : n % 2 # (n + 1) % 2 /\ n % 2 \in {0, 1}
  OBVIOUS

(* An optional packet number or key is a natural number or None. *)
LEMMA OptionFacts == None \in Option /\ \A n \in Nat : n \in Option /\ n # None
  BY DEF Option, None

(* What the operators do to the fields that matter. *)

(* The updates of install_send_key yield key states. *)
LEMMA InstallTyped ==
  ASSUME NEW k \in KeyState, NEW n \in Nat, NEW g \in Nat, NEW o \in Option
  PROVE  [k EXCEPT !.write = n, !.nextLocal = o, !.tx = g, !.txFirst = o, !.txLast = o,
                   !.txAcked = FALSE, !.sealed = 0] \in KeyState
  BY Zenon DEF KeyState

(* commit_data_generation, the read side. *)
LEMMA AdvanceTyped ==
  ASSUME NEW k \in KeyState, NEW g \in Nat, NEW r \in Nat, NEW o \in Option,
         NEW m \in Option, NEW l \in Option, NEW x \in Option
  PROVE  [k EXCEPT !.rx = g, !.previousMax = o, !.rxMin = m, !.rxMax = m,
                   !.updateAckPending = TRUE, !.previous = l, !.read = r,
                   !.nextRemote = x] \in KeyState
  BY Zenon DEF KeyState

(* cache_next_packet_keys *)
LEMMA CacheTyped ==
  ASSUME NEW k \in KeyState, NEW g \in Nat, NEW o \in Option
  PROVE  [k EXCEPT !.nextGeneration = g, !.derived = g, !.nextLocal = o, !.nextRemote = o]
           \in KeyState
  BY Zenon DEF KeyState

SameReads(i, k) ==
  /\ i.rx = k.rx /\ i.rxMin = k.rxMin /\ i.rxMax = k.rxMax
  /\ i.previousMax = k.previousMax

(* install_send_key, for the generation after the one received. *)
LEMMA InstallFields ==
  ASSUME NEW k \in KeyState, Slots(k), k.tx = k.rx,
         NEW i, i = InstallSendKey(k, k.rx + 1)
  PROVE  /\ i \in KeyState /\ Slots(i)
         /\ i.tx = k.rx + 1 /\ i.txFirst = None /\ i.sealed = 0 /\ i.txAcked = FALSE
         /\ SameReads(i, k) /\ i.updateAckPending = k.updateAckPending
<1>1. /\ i.tx = k.rx + 1 /\ i.rx = k.rx /\ i.txFirst = None /\ i.sealed = 0
      /\ i.txAcked = FALSE /\ i.updateAckPending = k.updateAckPending
      /\ i.rxMin = k.rxMin /\ i.rxMax = k.rxMax /\ i.previousMax = k.previousMax
      /\ i.write = k.nextLocal /\ i.read = k.read /\ i.previous = k.previous
      /\ i.nextGeneration = k.nextGeneration /\ i.derived = k.derived
      /\ i.nextRemote = k.nextRemote /\ i.nextLocal = None
  BY DEF InstallSendKey, KeyState
<1>2. k.rx \in Nat
  BY DEF KeyState
<1>3. Slots(i)
  BY <1>1, <1>2 DEF Slots, None
<1>4. k.nextLocal \in Nat
  BY <1>2 DEF Slots
<1>5. i \in KeyState
  <2>1. k.rx + 1 \in Nat /\ None \in Option
    BY <1>2, OptionFacts
  <2> QED BY Zenon, <1>4, <2>1, InstallTyped DEF InstallSendKey
<1> QED BY <1>1, <1>3, <1>5 DEF SameReads

(* record_sent, for a packet that carries an ACK or none. *)
LEMMA SealedFields ==
  ASSUME NEW k \in KeyState, NEW pn \in Nat, NEW i,
         i \in {Sealed(k, pn), [Sealed(k, pn) EXCEPT !.updateAckPending = FALSE]}
  PROVE  /\ i \in KeyState /\ SameReads(i, k) /\ (Slots(k) => Slots(i))
         /\ i.txFirst = (IF k.txFirst = None THEN pn ELSE k.txFirst)
         /\ i.sealed = k.sealed + 1 /\ i.tx = k.tx /\ i.txAcked = k.txAcked
<1>1. /\ i.txFirst = (IF k.txFirst = None THEN pn ELSE k.txFirst)
      /\ i.sealed = k.sealed + 1 /\ i.tx = k.tx /\ i.txAcked = k.txAcked
      /\ i.rx = k.rx /\ i.rxMin = k.rxMin /\ i.rxMax = k.rxMax
      /\ i.previousMax = k.previousMax
      /\ i.write = k.write /\ i.read = k.read /\ i.previous = k.previous
      /\ i.nextGeneration = k.nextGeneration /\ i.derived = k.derived
      /\ i.nextRemote = k.nextRemote /\ i.nextLocal = k.nextLocal
  BY ZenonT(30) DEF Sealed, KeyState
<1>2. i \in KeyState
  <2>1. Sealed(k, pn) \in KeyState
    <3> DEFINE first == IF k.txFirst = None THEN pn ELSE k.txFirst
    <3>1. first \in Option /\ pn \in Option /\ k.sealed + 1 \in Nat
      BY OptionFacts DEF KeyState
    <3> HIDE DEF first
    <3>2. [k EXCEPT !.sealed = k.sealed + 1, !.txFirst = first, !.txLast = pn] \in KeyState
      BY Zenon, <3>1 DEF KeyState
    <3> QED BY <3>2 DEF Sealed, first
  <2>2. [Sealed(k, pn) EXCEPT !.updateAckPending = FALSE] \in KeyState
    BY Zenon, <2>1 DEF KeyState
  <2> QED BY Zenon, <2>1, <2>2
<1>3. Slots(k) => Slots(i)
  BY <1>1 DEF Slots
<1>4. SameReads(i, k)
  BY <1>1 DEF SameReads
<1> QED BY <1>1, <1>2, <1>3, <1>4

-----------------------------------------------------------------------------
(* What an end knows about itself and its peer. *)
Context(k, s, w, q, t, v) ==
  /\ k \in KeyState /\ q \in KeyState /\ s \in SpaceState /\ t \in SpaceState
  /\ w \in SUBSET PacketType /\ v \in SUBSET PacketType
  /\ EndInv(k, s, w, q, t, v) /\ Slots(q) /\ Sent(q, t.next, v)

Types(k, s, w, q, v) ==
  /\ k.tx \in Nat /\ k.rx \in Nat /\ q.tx \in Nat /\ q.rx \in Nat /\ k.sealed \in Nat
  /\ k.txFirst \in Option /\ k.rxMin \in Option /\ k.rxMax \in Option
  /\ k.previousMax \in Option /\ s.next \in Nat /\ s.recv \subseteq Nat
  /\ k.txAcked \in BOOLEAN /\ k.updateAckPending \in BOOLEAN
  /\ q.txAcked \in BOOLEAN /\ q.updateAckPending \in BOOLEAN
  /\ \A p \in w : p.pn \in Nat /\ p.key \in Nat /\ p.phase \in {0, 1}
  /\ \A p \in v : p.pn \in Nat /\ p.key \in Nat /\ p.phase \in {0, 1}

(* The types of the fields used below. *)
LEMMA ContextTypes ==
  ASSUME NEW k, NEW s, NEW w, NEW q, NEW t, NEW v, Context(k, s, w, q, t, v)
  PROVE  Types(k, s, w, q, v)
  BY DEF Context, KeyState, SpaceState, PacketType, Types

(* maybe_update_send_key keeps the invariant: the update is started only when *)
(* the peer has received and answered the current generation.                 *)
LEMMA UpdatePreserves ==
  ASSUME NEW k, NEW s, NEW w, NEW q, NEW t, NEW v, Context(k, s, w, q, t, v),
         NEW elapsed \in BOOLEAN, NEW i, i = Updated(k, elapsed)
  PROVE  Context(i, s, w, q, t, v)
<1>1. CASE ~Due(k, elapsed)
  BY <1>1 DEF Updated
<1>2. CASE Due(k, elapsed)
  <2>0. Types(k, s, w, q, v)
    BY ContextTypes
  <2>1. i = InstallSendKey(k, k.rx + 1) /\ k.tx = k.rx /\ k.txAcked
    BY <1>2 DEF Updated, Due, ActiveSuccessor
  <2>2. k \in KeyState /\ Slots(k)
    BY DEF Context, EndInv
  <2>3. /\ i \in KeyState /\ Slots(i)
        /\ i.tx = k.rx + 1 /\ i.txFirst = None /\ i.sealed = 0 /\ i.txAcked = FALSE
        /\ SameReads(i, k) /\ i.updateAckPending = k.updateAckPending
    BY Zenon, <2>1, <2>2, InstallFields
  <2>4. Sent(i, s.next, w)
    BY <2>0, <2>1, <2>3 DEF Context, EndInv, Sent, Types
  <2>5. Received(i, s.recv, v) /\ Acks(i, s.recv, w, v)
    BY <2>3 DEF Context, EndInv, Received, Acks, SameReads
  <2>6. Pair(i, q) /\ Pair(q, i)
    BY <2>0, <2>1, <2>3 DEF Context, EndInv, Pair, SameReads, Types, Slots
  <2>7. Count(i, w)
    <3>1. {p \in w : p.key = i.tx} = {}
      BY <2>0, <2>1, <2>3 DEF Context, EndInv, Sent, Types
    <3>2. Cardinality({p \in w : p.key = i.tx}) = 0
      BY <3>1, FS_EmptySet
    <3> QED BY <2>3, <3>2 DEF Context, EndInv, Count
  <2> QED BY <2>3, <2>4, <2>5, <2>6, <2>7 DEF Context, EndInv
<1> QED BY <1>1, <1>2

(* Sending keeps the invariant: the packet is the newest of the newest        *)
(* generation, and what it acknowledges has been received under older keys.   *)
LEMMA SealPreserves ==
  ASSUME NEW k, NEW s, NEW w, NEW q, NEW t, NEW v, Context(k, s, w, q, t, v),
         ~Exhausted(k), NEW i, NEW n, NEW acks,
         \/ acks = {} /\ i = Sealed(k, s.next)
         \/ acks = s.recv /\ i = [Sealed(k, s.next) EXCEPT !.updateAckPending = FALSE],
         n \in SpaceState, n.next = s.next + 1, n.recv = s.recv
  PROVE  Context(i, n, w \cup {Packet(k, s.next, acks)}, q, t, v)
<1> DEFINE p == Packet(k, s.next, acks)
           x == w \cup {p}
<1>0. Types(k, s, w, q, v)
  BY ContextTypes
<1>1. /\ k \in KeyState /\ Slots(k) /\ Sent(k, s.next, w) /\ Count(k, w)
      /\ Received(k, s.recv, v) /\ Received(q, t.recv, w)
      /\ Acks(k, s.recv, w, v) /\ Acks(q, t.recv, v, w) /\ Pair(k, q) /\ Pair(q, k)
  BY DEF Context, EndInv
<1>2. /\ i \in KeyState /\ SameReads(i, k) /\ Slots(i)
      /\ i.txFirst = (IF k.txFirst = None THEN s.next ELSE k.txFirst)
      /\ i.sealed = k.sealed + 1 /\ i.tx = k.tx /\ i.txAcked = k.txAcked
      /\ i.updateAckPending = k.updateAckPending \/ i.updateAckPending = FALSE
      /\ acks # {} => i.updateAckPending = FALSE
  <2>1. s.next \in Nat
    BY <1>0 DEF Types
  <2>2. i \in {Sealed(k, s.next), [Sealed(k, s.next) EXCEPT !.updateAckPending = FALSE]}
    OBVIOUS
  <2>3. /\ i \in KeyState /\ SameReads(i, k) /\ Slots(i)
        /\ i.txFirst = (IF k.txFirst = None THEN s.next ELSE k.txFirst)
        /\ i.sealed = k.sealed + 1 /\ i.tx = k.tx /\ i.txAcked = k.txAcked
    BY <1>1, <2>1, <2>2, SealedFields
  <2>4. CASE acks = {} /\ i = Sealed(k, s.next)
    <3>1. i.updateAckPending = k.updateAckPending
      BY <1>1, <2>1, <2>4 DEF Sealed, KeyState
    <3> QED BY <2>3, <2>4, <3>1
  <2>5. CASE acks = s.recv /\ i = [Sealed(k, s.next) EXCEPT !.updateAckPending = FALSE]
    <3>1. i.updateAckPending = FALSE
      BY <1>1, <2>1, <2>5 DEF Sealed, KeyState
    <3> QED BY <2>3, <2>5, <3>1
  <2> QED BY Zenon, <2>4, <2>5
<1>3. /\ p \in PacketType /\ p.pn = s.next /\ p.key = k.tx /\ p.phase = k.tx % 2
      /\ p.acks = acks /\ p \notin w
  BY <1>0, <1>1, PhaseAlternates DEF Packet, PacketType, Slots, Sent, Types
<1> HIDE DEF p
<1>4. x \in SUBSET PacketType
  BY <1>3 DEF Context
<1>5. Sent(i, n.next, x)
  <2>1. i.txFirst # None /\ i.txFirst < n.next /\ i.txFirst <= p.pn
    BY <1>0, <1>1, <1>2, <1>3, OptionFacts DEF Sent, Types, Option
  <2>2. \A r \in w : /\ r.key <= i.tx /\ r.phase = r.key % 2 /\ r.pn < n.next
                     /\ r.key = i.tx <=> i.txFirst <= r.pn
    BY <1>0, <1>1, <1>2 DEF Sent, Types
  <2>3. \A r \in w : r.pn < p.pn /\ r.key <= p.key
    BY <1>0, <1>1, <1>3 DEF Sent, Types
  <2>4. p.key <= i.tx /\ p.phase = p.key % 2 /\ p.pn < n.next /\ p.key = i.tx
    BY <1>0, <1>2, <1>3 DEF Types
  <2>5. \A r, u \in x : (r.pn = u.pn => r = u) /\ (r.key < u.key => r.pn < u.pn)
    <3>1. \A r, u \in w : (r.pn = u.pn => r = u) /\ (r.key < u.key => r.pn < u.pn)
      BY <1>1 DEF Sent
    <3>2. /\ \A r \in w : r.pn \in Nat /\ r.key \in Nat
          /\ p.pn \in Nat /\ p.key \in Nat
      BY <1>0, <1>3 DEF Types
    <3> QED BY <2>3, <3>1, <3>2
  <2> QED BY <2>1, <2>2, <2>4, <2>5 DEF Sent
<1>6. Received(i, n.recv, v) /\ Received(q, t.recv, x)
  BY <1>1, <1>2 DEF Received, SameReads
<1>7. Acks(i, n.recv, x, v)
  <2>1. \A r \in w : \A pn \in r.acks :
          /\ pn \in n.recv
          /\ \E u \in v : u.pn = pn /\ u.key <= r.key /\ (u.key = i.rx => ~i.updateAckPending)
    BY <1>1, <1>2 DEF Acks, SameReads
  <2>2. \A pn \in p.acks :
          /\ pn \in n.recv
          /\ \E u \in v : u.pn = pn /\ u.key <= p.key /\ (u.key = i.rx => ~i.updateAckPending)
    <3>1. SUFFICES ASSUME NEW pn \in acks
          PROVE /\ pn \in s.recv
                /\ \E u \in v : u.pn = pn /\ u.key <= k.tx
      BY <1>2, <1>3
    <3>2. acks = s.recv
      BY <3>1
    <3>3. PICK u \in v : u.pn = pn /\ u.key <= k.rx
      BY <1>1, <3>2 DEF Received
    <3> QED BY <1>0, <1>1, <3>2, <3>3 DEF Slots, Types
  <2> QED BY <2>1, <2>2 DEF Acks
<1>8. Acks(q, t.recv, v, x)
  BY <1>1 DEF Acks
<1>9. Pair(i, q) /\ Pair(q, i)
  BY <1>1, <1>2 DEF Pair, SameReads
<1>10. Count(i, x)
  <2>1. IsFiniteSet(x)
    BY <1>1, FS_AddElement DEF Count
  <2>2. \A g \in Nat : g # k.tx => {r \in x : r.key = g} = {r \in w : r.key = g}
    BY <1>3
  <2>3. {r \in x : r.key = k.tx} = {r \in w : r.key = k.tx} \cup {p}
    BY <1>3
  <2>4. IsFiniteSet({r \in w : r.key = k.tx})
    BY <1>1, FS_Subset DEF Count
  <2>5. Cardinality({r \in x : r.key = k.tx}) = k.sealed + 1
    BY ZenonT(30), <1>1, <1>3, <2>3, <2>4, FS_AddElement DEF Count
  <2>6. k.sealed + 1 <= Limit
    BY <1>0, KeysAssumption DEF Exhausted, Types
  <2>7. \A g \in Nat : Cardinality({r \in x : r.key = g}) <= Limit
    BY Zenon, <1>1, <2>2, <2>5, <2>6 DEF Count
  <2> QED BY <1>2, <2>1, <2>5, <2>7 DEF Count
<1> QED
  BY <1>2, <1>4, <1>5, <1>6, <1>7, <1>8, <1>9, <1>10 DEF Context, EndInv, p

-----------------------------------------------------------------------------
(* A packet that opens is of the generation it was taken for, and in order. *)
LEMMA Opens ==
  ASSUME NEW k, NEW s, NEW w, NEW q, NEW t, NEW v, Context(k, s, w, q, t, v),
         NEW p \in v, Authenticates(k, p), NEW g, g = OpenedAs(k, p)
  PROVE  /\ ValidReceive(k, g, p.pn)
         /\ \/ g = "Current" /\ p.key = k.rx
            \/ g = "Next" /\ p.key = k.rx + 1
            \/ g = "Previous" /\ k.rx > 0 /\ p.key = k.rx - 1
<1>0. Types(k, s, w, q, v)
  BY ContextTypes
<1>1. /\ Slots(k) /\ Sent(q, t.next, v) /\ Received(k, s.recv, v) /\ Pair(k, q)
  BY DEF Context, EndInv
<1>2. p.pn \in Nat /\ p.key \in Nat /\ p.phase = p.key % 2 /\ p.key <= q.tx
  BY <1>0, <1>1 DEF Types, Sent
<1>3. p.key = k.rx => p.phase = k.rx % 2
  BY <1>2
<1>4. CASE p.phase = k.rx % 2
  <2>1. g = "Current" /\ p.key = k.rx
    BY <1>0, <1>1, <1>4, OptionFacts DEF Authenticates, OpenedAs, Select, SlotKey, Slots, Types
  <2>2. k.previousMax = None \/ p.pn > k.previousMax
    <3>1. CASE k.previousMax # None
      <4>1. PICK r \in v : r.pn = k.previousMax /\ r.key < k.rx
        BY <1>1, <3>1 DEF Received
      <4>2. r.pn < p.pn
        BY <1>1, <2>1, <4>1 DEF Sent
      <4> QED BY <1>0, <1>2, <4>1, <4>2 DEF Types
    <3> QED BY <3>1
  <2> QED BY <2>1, <2>2 DEF ValidReceive
<1>5. CASE p.phase # k.rx % 2 /\ k.rxMin # None /\ p.pn < k.rxMin
  <2>1. Select(k, p.phase, p.pn) = "Previous"
    BY <1>5 DEF Select
  <2>2. k.previous # None
    BY <1>1, <1>3, <1>5, <2>1 DEF Authenticates, SlotKey, Slots
  <2>3. g = "Previous" /\ p.key = k.previous /\ k.previous = k.rx - 1
    BY <1>1, <2>1, <2>2 DEF Authenticates, OpenedAs, SlotKey, Slots
  <2>4. k.rx > 0
    BY <1>0, <1>2, <2>3 DEF Types
  <2> QED BY <1>5, <2>3, <2>4 DEF ValidReceive
<1>6. CASE /\ p.phase # k.rx % 2 /\ ~(k.rxMin # None /\ p.pn < k.rxMin)
           /\ k.rxMax = None \/ p.pn > k.rxMax
  <2>1. Select(k, p.phase, p.pn) = "Next"
    BY <1>6 DEF Select
  <2>2. g = "Next" /\ p.key = k.rx + 1
    BY <1>0, <1>1, <2>1, OptionFacts DEF Authenticates, OpenedAs, SlotKey, Slots, Types
  <2>3. ~k.updateAckPending \/ k.rx + 1 = k.tx
    BY <1>0, <1>1, <1>2, <2>2 DEF Pair, Types
  <2> QED BY <1>6, <2>2, <2>3 DEF ValidReceive
<1>7. CASE /\ p.phase # k.rx % 2 /\ ~(k.rxMin # None /\ p.pn < k.rxMin)
           /\ ~(k.rxMax = None \/ p.pn > k.rxMax)
  <2>1. Select(k, p.phase, p.pn) = "Unavailable"
    BY <1>7 DEF Select
  <2> QED BY <1>1, <1>3, <1>7, <2>1 DEF Authenticates, SlotKey, Slots
<1> QED BY <1>4, <1>5, <1>6, <1>7

(* A packet of the generation received, the next one, or the previous one while *)
(* its key is kept, opens.                                                      *)
LEMMA CanOpen ==
  ASSUME NEW k, NEW s, NEW w, NEW q, NEW t, NEW v, Context(k, s, w, q, t, v),
         NEW p \in v
  PROVE  /\ p.key <= k.rx + 1
         /\ p.key >= k.rx \/ p.key = k.previous => Authenticates(k, p)
<1>0. Types(k, s, w, q, v)
  BY ContextTypes
<1>1. /\ Slots(k) /\ Sent(q, t.next, v) /\ Received(k, s.recv, v) /\ Pair(k, q)
  BY DEF Context, EndInv
<1>2. p.pn \in Nat /\ p.key \in Nat /\ p.phase = p.key % 2 /\ p.key <= q.tx
  BY <1>0, <1>1 DEF Types, Sent
<1>3. p.key <= k.rx + 1
  BY <1>0, <1>1, <1>2 DEF Pair, Types
<1>4. CASE p.key = k.rx
  BY <1>0, <1>1, <1>2, <1>4, OptionFacts DEF Authenticates, Select, SlotKey, Slots, Types
<1>5. CASE p.key = k.rx + 1
  <2>1. p.phase # k.rx % 2
    BY <1>0, <1>2, <1>5, PhaseAlternates DEF Types
  <2>2. \A r \in v : r.key = k.rx => r.pn < p.pn
    BY <1>0, <1>1, <1>2, <1>5 DEF Sent, Types
  <2>3. k.rxMin # None => k.rxMin < p.pn
    BY <1>1, <2>2 DEF Received
  <2>4. k.rxMax # None => k.rxMax < p.pn
    BY <1>1, <2>2 DEF Received
  <2>5. Select(k, p.phase, p.pn) = "Next"
    BY <1>0, <1>2, <2>1, <2>3, <2>4, OptionFacts DEF Select, Types, Option
  <2> QED BY <1>0, <1>1, <1>5, <2>5, OptionFacts DEF Authenticates, SlotKey, Slots, Types
<1>6. CASE p.key = k.previous
  <2>1. k.previous # None /\ k.previous = k.rx - 1 /\ k.rx > 0
    BY <1>0, <1>1, <1>2, <1>6, OptionFacts DEF Slots, Types, None
  <2>2. p.phase # k.rx % 2
    <3>1. k.previous \in Nat /\ k.rx = k.previous + 1
      BY <1>0, <2>1 DEF Types
    <3> QED BY <1>2, <1>6, <3>1, PhaseAlternates
  <2>3. k.rxMin # None
    BY <1>1, <2>1 DEF Received
  <2>4. PICK r \in v : r.pn = k.rxMin /\ r.key = k.rx
    BY <1>1, <2>3 DEF Received
  <2>5. p.pn < k.rxMin
    BY <1>0, <1>1, <1>2, <1>6, <2>1, <2>4 DEF Sent, Types
  <2>6. Select(k, p.phase, p.pn) = "Previous"
    BY <2>2, <2>3, <2>5 DEF Select
  <2>7. SlotKey(k, "Previous") = k.previous
    BY DEF SlotKey
  <2>8. Authenticates(k, p)
    BY <1>6, <2>1, <2>6, <2>7 DEF Authenticates
  <2> QED BY <1>3, <2>8
<1>7. p.key >= k.rx => p.key = k.rx \/ p.key = k.rx + 1
  BY <1>0, <1>2, <1>3 DEF Types
<1> QED BY <1>3, <1>4, <1>5, <1>6, <1>7

-----------------------------------------------------------------------------
(* After a packet of the next generation the sender is in that generation too, *)
(* whether it had started the update itself or follows now.                    *)
IsNext(i, k, pn) ==
  /\ i \in KeyState /\ Slots(i)
  /\ i.rx = k.rx + 1 /\ i.tx = k.rx + 1 /\ i.rxMin = pn /\ i.rxMax = pn
  /\ i.previousMax = k.rxMax /\ i.updateAckPending = TRUE
  /\ IF k.tx = k.rx
       THEN i.txFirst = None /\ i.sealed = 0 /\ i.txAcked = FALSE
       ELSE i.txFirst = k.txFirst /\ i.sealed = k.sealed /\ i.txAcked = k.txAcked

(* commit_data_generation, for a packet of the next generation. *)
LEMMA AdvanceFields ==
  ASSUME NEW k \in KeyState, Slots(k), NEW pn \in Nat
  PROVE  IsNext(Follow(Advanced(k, pn)), k, pn)
<1> DEFINE i == Follow(Advanced(k, pn))
           a == Advanced(k, pn)
           b == IF a.tx < a.rx THEN InstallSendKey(a, a.rx) ELSE a
<1>1. /\ k.rx \in Nat /\ k.tx \in Nat /\ k.rxMax \in Option /\ k.txFirst \in Option
      /\ k.sealed \in Nat /\ k.txAcked \in BOOLEAN
  BY DEF KeyState
<1>2. a = [k EXCEPT !.rx = k.rx + 1, !.previousMax = k.rxMax, !.rxMin = pn, !.rxMax = pn,
                    !.updateAckPending = TRUE, !.previous = k.read, !.read = k.nextRemote,
                    !.nextRemote = None]
  BY DEF Advanced, CommitReceive
<1>3. /\ a.rx = k.rx + 1 /\ a.tx = k.tx /\ a.rxMin = pn /\ a.rxMax = pn
      /\ a.previousMax = k.rxMax /\ a.updateAckPending = TRUE
      /\ a.previous = k.rx /\ a.read = k.rx + 1 /\ a.nextRemote = None
      /\ a.write = k.tx /\ a.nextLocal = k.nextLocal /\ a.derived = k.rx + 1
      /\ a.txFirst = k.txFirst /\ a.sealed = k.sealed /\ a.txAcked = k.txAcked
  BY <1>2 DEF KeyState, Slots
<1>4. a \in KeyState
  <2>1. /\ k.rx + 1 \in Nat /\ k.nextRemote \in Nat /\ pn \in Option /\ k.read \in Option
        /\ None \in Option
    BY <1>1, OptionFacts DEF Slots
  <2> HIDE DEF a
  <2> QED BY ZenonT(30), <1>1, <1>2, <2>1, AdvanceTyped
<1> HIDE DEF a
<1>5. /\ b \in KeyState
      /\ b.rx = k.rx + 1 /\ b.tx = k.rx + 1 /\ b.rxMin = pn /\ b.rxMax = pn
      /\ b.previousMax = k.rxMax /\ b.updateAckPending = TRUE
      /\ b.previous = k.rx /\ b.read = k.rx + 1 /\ b.nextRemote = None
      /\ b.write = k.rx + 1 /\ b.nextLocal = None /\ b.derived = k.rx + 1
      /\ IF k.tx = k.rx
           THEN b.txFirst = None /\ b.sealed = 0 /\ b.txAcked = FALSE
           ELSE b.txFirst = k.txFirst /\ b.sealed = k.sealed /\ b.txAcked = k.txAcked
  <2>1. CASE k.tx = k.rx
    <3>1. b = InstallSendKey(a, k.rx + 1)
      BY <1>1, <1>3, <2>1
    <3>2. k.nextLocal = k.rx + 1 /\ k.rx + 1 \in Nat
      BY <1>1, <2>1 DEF Slots
    <3>3. b = [a EXCEPT !.write = k.rx + 1, !.nextLocal = None, !.tx = k.rx + 1,
                        !.txFirst = None, !.txLast = None, !.txAcked = FALSE, !.sealed = 0]
      BY <1>3, <3>1, <3>2 DEF InstallSendKey
    <3> HIDE DEF b
    <3>4. b \in KeyState
      BY Zenon, <1>4, <3>2, <3>3, OptionFacts, InstallTyped
    <3>5. /\ b.rx = a.rx /\ b.tx = k.rx + 1 /\ b.rxMin = a.rxMin /\ b.rxMax = a.rxMax
          /\ b.previousMax = a.previousMax /\ b.updateAckPending = a.updateAckPending
          /\ b.previous = a.previous /\ b.read = a.read /\ b.nextRemote = a.nextRemote
          /\ b.write = k.rx + 1 /\ b.nextLocal = None /\ b.derived = a.derived
          /\ b.txFirst = None /\ b.sealed = 0 /\ b.txAcked = FALSE
      BY <1>4, <3>3 DEF KeyState
    <3> QED BY <1>3, <2>1, <3>4, <3>5
  <2>2. CASE k.tx = k.rx + 1
    <3>1. b = a /\ k.tx # k.rx
      BY <1>1, <1>3, <2>2
    <3>2. k.nextLocal = None
      BY <2>2, <3>1 DEF Slots
    <3> HIDE DEF b
    <3> QED BY <1>3, <1>4, <2>2, <3>1, <3>2
  <2> QED BY Zenon, <2>1, <2>2 DEF Slots
<1> HIDE DEF b
<1>6. i = CacheNext(b)
  BY DEF Follow, a, b
<1> HIDE DEF i
<1>7. i = [b EXCEPT !.nextGeneration = k.rx + 2, !.derived = k.rx + 2,
                    !.nextLocal = k.rx + 2, !.nextRemote = k.rx + 2]
  <2>1. Larger(b.tx, b.rx) + 1 = k.rx + 2 /\ b.derived + 1 = k.rx + 2
    BY <1>1, <1>5 DEF Larger
  <2>2. b.nextLocal = None /\ b.nextRemote = None
    BY <1>5
  <2> QED BY Zenon, <1>6, <2>1, <2>2 DEF CacheNext
<1>8. k.rx + 2 \in Nat /\ k.rx + 2 \in Option
  BY <1>1, OptionFacts
<1>9. i \in KeyState
  <2>1. b \in KeyState
    BY <1>5
  <2> DEFINE m == k.rx + 2
  <2>2. m \in Nat /\ m \in Option
    BY <1>8
  <2> HIDE DEF m
  <2>3. [b EXCEPT !.nextGeneration = m, !.derived = m, !.nextLocal = m, !.nextRemote = m]
          \in KeyState
    BY Zenon, <2>1, <2>2, CacheTyped
  <2> QED BY <1>7, <2>3 DEF m
<1>10. /\ i.rx = b.rx /\ i.tx = b.tx /\ i.rxMin = b.rxMin /\ i.rxMax = b.rxMax
       /\ i.previousMax = b.previousMax /\ i.updateAckPending = b.updateAckPending
       /\ i.previous = b.previous /\ i.read = b.read /\ i.write = b.write
       /\ i.txFirst = b.txFirst /\ i.sealed = b.sealed /\ i.txAcked = b.txAcked
       /\ i.nextGeneration = k.rx + 2 /\ i.derived = k.rx + 2
       /\ i.nextLocal = k.rx + 2 /\ i.nextRemote = k.rx + 2
  BY <1>5, <1>7 DEF KeyState
<1>11. Slots(i)
  BY <1>1, <1>5, <1>10 DEF Slots
<1>12. IsNext(i, k, pn)
  BY <1>5, <1>9, <1>10, <1>11 DEF IsNext
<1> QED BY <1>12 DEF i

(* A packet of the next generation: the peer has sent it, so it is in that       *)
(* generation; nothing received before is of it, so no acknowledgement sent is.  *)
LEMMA NextPreserves ==
  ASSUME NEW k, NEW s, NEW w, NEW q, NEW t, NEW v, Context(k, s, w, q, t, v),
         NEW p \in v, p.key = k.rx + 1, NEW i, i = Follow(Advanced(k, p.pn)),
         NEW n \in SpaceState, n.next = s.next, n.recv = s.recv \cup {p.pn}
  PROVE  Context(i, n, w, q, t, v)
<1>0. Types(k, s, w, q, v)
  BY ContextTypes
<1>1. /\ k \in KeyState /\ Slots(k) /\ Sent(k, s.next, w) /\ Count(k, w)
      /\ Received(k, s.recv, v) /\ Acks(k, s.recv, w, v) /\ Pair(k, q) /\ Pair(q, k)
      /\ Slots(q) /\ Sent(q, t.next, v)
  BY DEF Context, EndInv
<1>2. p.pn \in Nat
  BY <1>0 DEF Types
<1>3. /\ i \in KeyState /\ Slots(i)
      /\ i.rx = k.rx + 1 /\ i.tx = k.rx + 1 /\ i.rxMin = p.pn /\ i.rxMax = p.pn
      /\ i.previousMax = k.rxMax /\ i.updateAckPending = TRUE
      /\ IF k.tx = k.rx
           THEN i.txFirst = None /\ i.sealed = 0 /\ i.txAcked = FALSE
           ELSE i.txFirst = k.txFirst /\ i.sealed = k.sealed /\ i.txAcked = k.txAcked
  <2>1. k \in KeyState /\ Slots(k)
    BY <1>1
  <2>2. IsNext(i, k, p.pn)
    BY <1>2, <2>1, AdvanceFields
  <2> QED BY <2>2 DEF IsNext
<1>4. k.tx = k.rx \/ k.tx = k.rx + 1
  BY <1>1 DEF Slots
<1>5. Sent(i, n.next, w)
  <2>1. CASE k.tx = k.rx
    BY SMTT(30), <1>0, <1>1, <1>3, <2>1 DEF Sent, Types
  <2>2. CASE k.tx = k.rx + 1
    BY <1>0, <1>1, <1>3, <2>2 DEF Sent, Types
  <2> QED BY Zenon, <1>4, <2>1, <2>2
<1>6. Count(i, w)
  <2>1. CASE k.tx = k.rx
    <3>1. {r \in w : r.key = i.tx} = {}
      BY <1>0, <1>1, <1>3, <2>1 DEF Sent, Types
    <3>2. Cardinality({r \in w : r.key = i.tx}) = 0
      BY <3>1, FS_EmptySet
    <3> QED BY <1>1, <1>3, <2>1, <3>2 DEF Count
  <2>2. CASE k.tx = k.rx + 1
    <3>1. i.tx = k.tx /\ i.sealed = k.sealed
      BY <1>0, <1>3, <2>2 DEF Types
    <3> QED BY <1>1, <3>1, CountSame
  <2> QED BY <1>4, <2>1, <2>2
<1>7. Received(i, n.recv, v)
  <2>1. \A pn \in n.recv : \E r \in v : r.pn = pn /\ r.key <= i.rx
    <3>1. SUFFICES ASSUME NEW pn \in n.recv
          PROVE \E r \in v : r.pn = pn /\ r.key <= i.rx
      OBVIOUS
    <3>2. CASE pn = p.pn
      BY <1>0, <1>3, <3>2 DEF Types
    <3>3. CASE pn \in s.recv
      <4>1. PICK r \in v : r.pn = pn /\ r.key <= k.rx
        BY <1>1, <3>3 DEF Received
      <4> QED BY <1>0, <1>3, <4>1 DEF Types
    <3> QED BY <3>2, <3>3
  <2>2. i.rxMin # None /\ i.rxMax # None
    BY <1>2, <1>3, OptionFacts
  <2>3. i.previousMax # None => \E r \in v : r.pn = i.previousMax /\ r.key < i.rx
    BY <1>0, <1>1, <1>3 DEF Received, Types
  <2> QED BY <1>3, <2>1, <2>2, <2>3 DEF Received
<1>8. Acks(i, n.recv, w, v)
  <2>1. SUFFICES ASSUME NEW r \in w, NEW pn \in r.acks
        PROVE /\ pn \in n.recv
              /\ \E u \in v : u.pn = pn /\ u.key <= r.key /\ u.key # i.rx
    BY DEF Acks
  <2>2. pn \in s.recv
    BY <1>1 DEF Acks
  <2>3. PICK u \in v : u.pn = pn /\ u.key <= r.key
    BY <1>1 DEF Acks
  <2>4. PICK x \in v : x.pn = pn /\ x.key <= k.rx
    BY <1>1, <2>2 DEF Received
  <2>5. x = u
    BY <1>1, <2>3, <2>4 DEF Sent
  <2>6. u.key # i.rx
    BY <1>0, <1>3, <2>4, <2>5 DEF Types
  <2> QED BY <2>2, <2>3, <2>6
<1>9. q.tx = k.rx + 1
  BY <1>0, <1>1 DEF Sent, Pair, Types
<1>10. Pair(i, q)
  BY <1>0, <1>1, <1>3, <1>9 DEF Pair, Types
<1>11. Pair(q, i)
  <2>1. CASE k.tx = k.rx
    <3>1. q.rx = k.rx
      BY SMTT(30), <1>0, <1>1, <1>9, <2>1 DEF Slots, Pair, Types
    <3> QED BY SMTT(30), <1>0, <1>3, <1>9, <2>1, <3>1 DEF Pair, Types
  <2>2. CASE k.tx = k.rx + 1
    BY <1>0, <1>1, <1>3, <2>2 DEF Pair, Types
  <2> QED BY <1>4, <2>1, <2>2
<1> QED BY <1>3, <1>5, <1>6, <1>7, <1>8, <1>10, <1>11 DEF Context, EndInv

(* A packet of the current or of the previous generation moves only the        *)
(* receiver's frontiers.                                                       *)
LEMMA OldPreserves ==
  ASSUME NEW k, NEW s, NEW w, NEW q, NEW t, NEW v, Context(k, s, w, q, t, v),
         NEW p \in v, NEW g, NEW i, i = CommitReceive(k, g, p.pn),
         \/ g = "Current" /\ p.key = k.rx
         \/ g = "Previous" /\ p.key < k.rx,
         NEW n \in SpaceState, n.next = s.next, n.recv = s.recv \cup {p.pn}
  PROVE  Context(i, n, w, q, t, v)
<1>0. Types(k, s, w, q, v)
  BY ContextTypes
<1>1. /\ k \in KeyState /\ Slots(k) /\ Sent(k, s.next, w) /\ Count(k, w)
      /\ Received(k, s.recv, v) /\ Acks(k, s.recv, w, v) /\ Pair(k, q) /\ Pair(q, k)
  BY DEF Context, EndInv
<1>2. p.pn \in Nat /\ p.pn \in Option /\ p.pn # None
  BY <1>0, OptionFacts DEF Types
<1> DEFINE min == IF k.rxMin = None \/ p.pn < k.rxMin THEN p.pn ELSE k.rxMin
           max == Larger(k.rxMax, p.pn)
           old == Larger(k.previousMax, p.pn)
<1>3. \/ g = "Current" /\ i = [k EXCEPT !.rxMin = min, !.rxMax = max]
      \/ g = "Previous" /\ i = [k EXCEPT !.previousMax = old]
  BY DEF CommitReceive
<1>4. /\ min \in Option /\ (min = p.pn \/ min = k.rxMin) /\ min # None
      /\ max \in Option /\ (max = p.pn \/ max = k.rxMax) /\ max # None
      /\ old \in Option /\ (old = p.pn \/ old = k.previousMax)
  BY <1>0, <1>2 DEF Larger, Types, Option, None
<1> HIDE DEF min, max, old
<1>5. i \in KeyState
  <2>1. [k EXCEPT !.rxMin = min, !.rxMax = max] \in KeyState
    BY Zenon, <1>1, <1>4 DEF KeyState
  <2>2. [k EXCEPT !.previousMax = old] \in KeyState
    BY <1>1, <1>4 DEF KeyState
  <2> QED BY <1>3, <2>1, <2>2
<1>6. /\ i.rx = k.rx /\ i.tx = k.tx /\ i.txFirst = k.txFirst /\ i.txAcked = k.txAcked
      /\ i.sealed = k.sealed /\ i.updateAckPending = k.updateAckPending
      /\ i.write = k.write /\ i.read = k.read /\ i.previous = k.previous
      /\ i.nextGeneration = k.nextGeneration /\ i.derived = k.derived
      /\ i.nextRemote = k.nextRemote /\ i.nextLocal = k.nextLocal
  BY ZenonT(30), <1>1, <1>3 DEF KeyState
<1>7. /\ g = "Current" => i.rxMin = min /\ i.rxMax = max /\ i.previousMax = k.previousMax
      /\ g = "Previous" => i.rxMin = k.rxMin /\ i.rxMax = k.rxMax /\ i.previousMax = old
  BY ZenonT(30), <1>1, <1>3 DEF KeyState
<1>8. Slots(i) /\ Sent(i, n.next, w) /\ Count(i, w) /\ Pair(i, q) /\ Pair(q, i)
  BY <1>1, <1>6 DEF Slots, Sent, Count, Pair
<1>9. Acks(i, n.recv, w, v)
  BY <1>1, <1>6 DEF Acks
<1>10. Received(i, n.recv, v)
  <2>1. p.key <= k.rx
    BY <1>0 DEF Types
  <2>2. \A pn \in n.recv : \E r \in v : r.pn = pn /\ r.key <= i.rx
    BY Zenon, <1>1, <1>6, <2>1 DEF Received
  <2>3. CASE g = "Current"
    BY SMTT(30), <1>1, <1>4, <1>6, <1>7, <2>2, <2>3 DEF Received
  <2>4. CASE g = "Previous"
    BY <1>1, <1>4, <1>6, <1>7, <2>2, <2>4 DEF Received
  <2> QED BY <2>3, <2>4
<1> QED BY <1>5, <1>8, <1>9, <1>10 DEF Context, EndInv

(* confirm: an acknowledgement of the current generation shows that the peer    *)
(* has received it and has answered.                                            *)
LEMMA ConfirmPreserves ==
  ASSUME NEW k, NEW s, NEW w, NEW q, NEW t, NEW v, Context(k, s, w, q, t, v),
         NEW p \in v, NEW g, NEW i, i = Confirm(k, g, p.acks)
  PROVE  Context(i, s, w, q, t, v)
<1>0. Types(k, s, w, q, v)
  BY ContextTypes
<1>1. /\ k \in KeyState /\ Slots(k) /\ Sent(k, s.next, w) /\ Count(k, w)
      /\ Received(k, s.recv, v) /\ Received(q, t.recv, w) /\ Pair(k, q) /\ Pair(q, k)
      /\ Acks(k, s.recv, w, v) /\ Acks(q, t.recv, v, w)
  BY DEF Context, EndInv
<1>2. CASE i = k
  BY <1>2
<1>3. CASE i # k
  <2>1. PICK pn \in p.acks : k.txFirst # None /\ k.txFirst <= pn
    BY <1>3 DEF Confirm
  <2>2. i = [k EXCEPT !.txAcked = TRUE]
    BY <1>3 DEF Confirm
  <2>3. pn \in t.recv
    BY <1>1 DEF Acks
  <2>4. PICK r \in w : r.pn = pn /\ (r.key = q.rx => ~q.updateAckPending)
    BY <1>1 DEF Acks
  <2>5. PICK u \in w : u.pn = pn /\ u.key <= q.rx
    BY <1>1, <2>3 DEF Received
  <2>6. u = r /\ r.key = k.tx
    BY <1>1, <2>1, <2>4, <2>5 DEF Sent
  <2>7. i \in KeyState
    BY ZenonT(30), <1>1, <2>2 DEF KeyState
  <2>8. /\ i.rx = k.rx /\ i.tx = k.tx /\ i.txFirst = k.txFirst /\ i.txAcked = TRUE
        /\ i.sealed = k.sealed /\ i.updateAckPending = k.updateAckPending
        /\ i.write = k.write /\ i.read = k.read /\ i.previous = k.previous
        /\ i.nextGeneration = k.nextGeneration /\ i.derived = k.derived
        /\ i.nextRemote = k.nextRemote /\ i.nextLocal = k.nextLocal
        /\ i.rxMin = k.rxMin /\ i.rxMax = k.rxMax /\ i.previousMax = k.previousMax
    BY <1>1, <2>2 DEF KeyState
  <2>9. Slots(i) /\ Sent(i, s.next, w) /\ Count(i, w)
    <3>1. Slots(i)
      BY <1>1, <2>8 DEF Slots
    <3>2. Sent(i, s.next, w)
      BY <1>1, <2>8 DEF Sent
    <3>3. Count(i, w)
      BY <1>1, <2>8, CountSame
    <3> QED BY Zenon, <3>1, <3>2, <3>3
  <2>10. Received(i, s.recv, v) /\ Acks(i, s.recv, w, v) /\ Pair(i, q)
    <3>1. Received(i, s.recv, v)
      BY <1>1, <2>8 DEF Received
    <3>2. Acks(i, s.recv, w, v)
      BY SMTT(30), <1>1, <2>8 DEF Acks
    <3>3. Pair(i, q)
      BY SMTT(30), <1>1, <2>8 DEF Pair
    <3> QED BY Zenon, <3>1, <3>2, <3>3
  <2>11. Pair(q, i)
    BY <1>0, <1>1, <2>4, <2>5, <2>6, <2>8 DEF Pair, Types
  <2> QED BY <2>7, <2>9, <2>10, <2>11 DEF Context, EndInv
<1> QED BY <1>2, <1>3

(* recv_ack: no acknowledgement is of a packet not sent, or comes under a key  *)
(* older than the packet's.                                                    *)
LEMMA AckIsGood ==
  ASSUME NEW k, NEW s, NEW w, NEW q, NEW t, NEW v, Context(k, s, w, q, t, v),
         NEW p \in v, NEW pn \in p.acks
  PROVE  /\ ~(pn >= s.next)
         /\ ~(p.key < k.tx /\ k.txFirst # None /\ pn >= k.txFirst)
<1>0. Types(k, s, w, q, v)
  BY ContextTypes
<1>1. Sent(k, s.next, w) /\ Acks(q, t.recv, v, w)
  BY DEF Context, EndInv
<1>2. PICK r \in w : r.pn = pn /\ r.key <= p.key
  BY <1>1 DEF Acks
<1>3. r.pn < s.next /\ (r.key = k.tx <=> k.txFirst # None /\ k.txFirst <= r.pn)
  BY <1>1 DEF Sent
<1>4. /\ r.pn \in Nat /\ r.key \in Nat /\ p.key \in Nat /\ s.next \in Nat /\ k.tx \in Nat
      /\ k.txFirst # None => k.txFirst \in Nat
  BY <1>0 DEF Types, Option
<1> QED BY <1>2, <1>3, <1>4

(* Closing, or dropping the previous read key, touches nothing the others need. *)
LEMMA DropPreserves ==
  ASSUME NEW k, NEW s, NEW w, NEW q, NEW t, NEW v, Context(k, s, w, q, t, v),
         NEW b \in BOOLEAN, NEW i,
         i = [k EXCEPT !.closed = b] \/ i = [k EXCEPT !.previous = None]
  PROVE  Context(i, s, w, q, t, v)
<1>1. /\ k \in KeyState /\ Slots(k) /\ Sent(k, s.next, w) /\ Count(k, w)
      /\ Received(k, s.recv, v) /\ Pair(k, q) /\ Pair(q, k) /\ Acks(k, s.recv, w, v)
  BY DEF Context, EndInv
<1>2. i \in KeyState
  <2>1. [k EXCEPT !.closed = b] \in KeyState
    BY <1>1 DEF KeyState
  <2>2. [k EXCEPT !.previous = None] \in KeyState
    BY <1>1, OptionFacts DEF KeyState
  <2> QED BY <2>1, <2>2
<1>3. /\ i.rx = k.rx /\ i.tx = k.tx /\ i.txFirst = k.txFirst /\ i.txAcked = k.txAcked
      /\ i.sealed = k.sealed /\ i.updateAckPending = k.updateAckPending
      /\ i.write = k.write /\ i.read = k.read
      /\ i.nextGeneration = k.nextGeneration /\ i.derived = k.derived
      /\ i.nextRemote = k.nextRemote /\ i.nextLocal = k.nextLocal
      /\ i.rxMin = k.rxMin /\ i.rxMax = k.rxMax /\ i.previousMax = k.previousMax
  BY <1>1 DEF KeyState
<1>4. i.previous = k.previous \/ i.previous = None
  BY <1>1 DEF KeyState
<1>5. Slots(i)
  BY <1>1, <1>3, <1>4 DEF Slots
<1>6. Sent(i, s.next, w)
  BY <1>1, <1>3 DEF Sent
<1>7. Count(i, w)
  BY <1>1, <1>3, CountSame
<1>8. Received(i, s.recv, v) /\ Acks(i, s.recv, w, v) /\ Pair(i, q) /\ Pair(q, i)
  BY <1>1, <1>3 DEF Received, Acks, Pair
<1> QED BY <1>2, <1>5, <1>6, <1>7, <1>8 DEF Context, EndInv

-----------------------------------------------------------------------------
(* From the values of one end to the states of the system. *)

(* There are two ends. *)
LEMMA Peers == \A e \in End : Peer(e) \in End /\ Peer(e) # e /\ Peer(Peer(e)) = e
                              /\ \A f \in End : f = e \/ f = Peer(e)
  BY DEF End, Peer

(* What the invariant says of one end. *)
LEMMA ContextOf ==
  ASSUME IInv, NEW e \in End
  PROVE  Context(keys[e], space[e], wire[Peer(e)], keys[Peer(e)], space[Peer(e)], wire[e])
<1>1. Peer(e) \in End /\ Peer(Peer(e)) = e
  BY Peers
<1>2. EndInv(keys[Peer(e)], space[Peer(e)], wire[e], keys[e], space[e], wire[Peer(e)])
  BY <1>1 DEF IInv
<1>3. Slots(keys[Peer(e)]) /\ Sent(keys[Peer(e)], space[Peer(e)].next, wire[e])
  BY <1>2 DEF EndInv
<1>4. EndInv(keys[e], space[e], wire[Peer(e)], keys[Peer(e)], space[Peer(e)], wire[e])
  BY DEF IInv
<1> QED BY <1>1, <1>3, <1>4 DEF IInv, TypeOK, Context

(* A step of one end changes its keys, its packet numbers and what it has sent. *)
LEMMA StepBy ==
  ASSUME IInv, NEW e \in End, NEW i, NEW n, NEW x,
         keys' = [keys EXCEPT ![e] = i], space' = [space EXCEPT ![e] = n],
         wire' = [wire EXCEPT ![Peer(e)] = x], error' = error,
         Context(i, n, x, keys[Peer(e)], space[Peer(e)], wire[e])
  PROVE  IInv'
<1> DEFINE f == Peer(e)
<1>1. f \in End /\ f # e /\ Peer(f) = e /\ \A d \in End : d = e \/ d = f
  BY Peers
<1>2. TypeOK' /\ error' = {}
  BY <1>1 DEF Context, IInv, TypeOK
<1>3. /\ keys'[e] = i /\ space'[e] = n /\ wire'[f] = x
      /\ keys'[f] = keys[f] /\ space'[f] = space[f] /\ wire'[e] = wire[e]
  BY <1>1 DEF IInv, TypeOK
<1>4. EndInv(keys'[e], space'[e], wire'[f], keys'[f], space'[f], wire'[e])
  BY <1>3 DEF Context
<1>5. Count(keys[f], wire[e])
  BY <1>1 DEF IInv, EndInv
<1>6. EndInv(keys'[f], space'[f], wire'[e], keys'[e], space'[e], wire'[f])
  BY <1>3, <1>5 DEF Context, EndInv
<1> HIDE DEF f
<1>7. \A d \in End : EndInv(keys'[d], space'[d], wire'[Peer(d)],
                            keys'[Peer(d)], space'[Peer(d)], wire'[d])
  BY <1>1, <1>4, <1>6 DEF f
<1> QED BY <1>2, <1>7 DEF IInv

(* What a step that neither receives nor sends leaves alone. *)
LEMMA Unmoved ==
  ASSUME IInv, NEW e \in End
  PROVE  space = [space EXCEPT ![e] = space[e]] /\ wire = [wire EXCEPT ![Peer(e)] = wire[Peer(e)]]
  BY Peers DEF IInv, TypeOK

(* poll_transmit without a packet. *)
LEMMA PollIdlePreserves == ASSUME IInv, NEW e \in End, PollIdle(e) PROVE IInv'
<1> DEFINE f == Peer(e)
<1>1. PICK elapsed \in BOOLEAN :
        /\ keys' = [keys EXCEPT ![e] = Enforced(Updated(keys[e], elapsed))]
        /\ UNCHANGED <<space, wire, error>>
  BY Zenon DEF PollIdle
<1> DEFINE k == Updated(keys[e], elapsed)
<1>2. Context(k, space[e], wire[f], keys[f], space[f], wire[e])
  BY ContextOf, UpdatePreserves
<1>3. Exhausted(k) \in BOOLEAN
  BY DEF Exhausted
<1> HIDE DEF k
<1>4. Context(Enforced(k), space[e], wire[f], keys[f], space[f], wire[e])
  BY <1>2, <1>3, DropPreserves DEF Enforced
<1>5. /\ keys' = [keys EXCEPT ![e] = Enforced(k)] /\ error' = error
      /\ space' = [space EXCEPT ![e] = space[e]] /\ wire' = [wire EXCEPT ![f] = wire[f]]
  BY <1>1, Unmoved DEF k
<1> QED BY Zenon, <1>4, <1>5, StepBy

(* poll_transmit with an ACK. *)
LEMMA SendAckPreserves == ASSUME IInv, NEW e \in End, SendAck(e) PROVE IInv'
<1> DEFINE f == Peer(e)
           s == space[e]
           n == [s EXCEPT !.next = s.next + 1, !.ackPending = FALSE]
<1>1. PICK elapsed \in BOOLEAN :
        LET k == Updated(keys[e], elapsed)
        IN /\ ~Exhausted(k)
           /\ keys' = [keys EXCEPT ![e] = [Sealed(k, s.next) EXCEPT !.updateAckPending = FALSE]]
           /\ space' = [space EXCEPT ![e].next = s.next + 1, ![e].ackPending = FALSE]
           /\ wire' = [wire EXCEPT ![f] = wire[f] \cup {Packet(k, s.next, s.recv)}]
           /\ error' = error
  BY Zenon DEF SendAck
<1> DEFINE k == Updated(keys[e], elapsed)
           i == [Sealed(k, s.next) EXCEPT !.updateAckPending = FALSE]
           x == wire[f] \cup {Packet(k, s.next, s.recv)}
<1>2. Context(k, s, wire[f], keys[f], space[f], wire[e])
  BY ContextOf, UpdatePreserves
<1>3. s \in SpaceState
  BY DEF IInv, TypeOK
<1>4. n \in SpaceState /\ n.next = s.next + 1 /\ n.recv = s.recv
  <2> HIDE DEF s
  <2>1. s.next + 1 \in Nat
    BY <1>3 DEF SpaceState
  <2> QED BY Zenon, <1>3, <2>1 DEF SpaceState
<1>5. space' = [space EXCEPT ![e] = n]
  BY Zenon, <1>1 DEF IInv, TypeOK
<1>6. /\ keys' = [keys EXCEPT ![e] = i] /\ wire' = [wire EXCEPT ![f] = x] /\ error' = error
      /\ ~Exhausted(k)
  BY <1>1
<1> HIDE DEF k, n
<1>7. Context(i, n, x, keys[f], space[f], wire[e])
  BY <1>2, <1>4, <1>6, SealPreserves
<1> HIDE DEF i, x
<1> QED BY Zenon, <1>5, <1>6, <1>7, StepBy

(* poll_transmit with a packet that elicits an ACK. *)
LEMMA SendDataPreserves == ASSUME IInv, NEW e \in End, SendData(e) PROVE IInv'
<1> DEFINE f == Peer(e)
           s == space[e]
           n == [s EXCEPT !.next = s.next + 1]
<1>1. PICK elapsed \in BOOLEAN :
        LET k == Updated(keys[e], elapsed)
        IN /\ ~Exhausted(k)
           /\ keys' = [keys EXCEPT ![e] = Sealed(k, s.next)]
           /\ space' = [space EXCEPT ![e].next = s.next + 1]
           /\ wire' = [wire EXCEPT ![f] = wire[f] \cup {Packet(k, s.next, {})}]
           /\ error' = error
  BY Zenon DEF SendData
<1> DEFINE k == Updated(keys[e], elapsed)
           i == Sealed(k, s.next)
           x == wire[f] \cup {Packet(k, s.next, {})}
<1>2. Context(k, s, wire[f], keys[f], space[f], wire[e])
  BY ContextOf, UpdatePreserves
<1>3. s \in SpaceState
  BY DEF IInv, TypeOK
<1>4. n \in SpaceState /\ n.next = s.next + 1 /\ n.recv = s.recv
  <2> HIDE DEF s
  <2>1. s.next + 1 \in Nat
    BY <1>3 DEF SpaceState
  <2> QED BY <1>3, <2>1 DEF SpaceState
<1>5. space' = [space EXCEPT ![e] = n]
  BY <1>1 DEF IInv, TypeOK
<1>6. /\ keys' = [keys EXCEPT ![e] = i] /\ wire' = [wire EXCEPT ![f] = x] /\ error' = error
      /\ ~Exhausted(k)
  BY <1>1
<1> HIDE DEF k, n
<1>7. Context(i, n, x, keys[f], space[f], wire[e])
  BY Zenon, <1>2, <1>4, <1>6, SealPreserves
<1> HIDE DEF i, x
<1> QED BY Zenon, <1>5, <1>6, <1>7, StepBy

(* retire_previous_read_key *)
LEMMA RetirePreserves == ASSUME IInv, NEW e \in End, RetirePrevious(e) PROVE IInv'
<1> DEFINE f == Peer(e)
           i == [keys[e] EXCEPT !.previous = None]
<1>1. Context(i, space[e], wire[f], keys[f], space[f], wire[e])
  BY Zenon, ContextOf, DropPreserves
<1>2. /\ keys' = [keys EXCEPT ![e] = i] /\ error' = error
      /\ space' = [space EXCEPT ![e] = space[e]] /\ wire' = [wire EXCEPT ![f] = wire[f]]
  BY Unmoved DEF RetirePrevious, IInv, TypeOK
<1> HIDE DEF i
<1> QED BY Zenon, <1>1, <1>2, StepBy

(* A packet that opens passes every check, and is taken for what it is. *)
LEMMA ReceivePreserves == ASSUME IInv, NEW e \in End, Receive(e) PROVE IInv'
<1> DEFINE f == Peer(e)
           k == keys[e]
           s == space[e]
<1>1. PICK p \in wire[e] :
        /\ Authenticates(k, p)
        /\ IF ~ValidReceive(k, OpenedAs(k, p), p.pn)
             THEN Fail(e, k, {}, "KEY_UPDATE_ERROR")
             ELSE p.pn \notin s.recv /\ Accept(e, p, OpenedAs(k, p))
  BY DEF Receive
<1> DEFINE g == OpenedAs(k, p)
           c == CommitGeneration(k, g, p.pn)
           i == Confirm(c, p.key, p.acks)
           n == [s EXCEPT !.recv = s.recv \cup {p.pn}, !.ackPending = s.ackPending \/ p.acks = {}]
<1>2. Context(k, s, wire[f], keys[f], space[f], wire[e])
  BY Zenon, ContextOf
<1>3. Types(k, s, wire[f], keys[f], wire[e]) /\ Slots(k)
  BY Zenon, <1>2, ContextTypes DEF Context, EndInv
<1>4. /\ ValidReceive(k, g, p.pn)
      /\ \/ g = "Current" /\ p.key = k.rx
         \/ g = "Next" /\ p.key = k.rx + 1
         \/ g = "Previous" /\ k.rx > 0 /\ p.key = k.rx - 1
  BY SMTT(30), <1>1, <1>2, Opens
<1>5. n \in SpaceState /\ n.next = s.next /\ n.recv = s.recv \cup {p.pn}
  <2>1. s \in SpaceState /\ p.pn \in Nat
    BY <1>3 DEF IInv, TypeOK, Types
  <2> QED BY ZenonT(30), <2>1 DEF SpaceState
<1>6. Context(c, n, wire[f], keys[f], space[f], wire[e]) /\ ReceiveGeneration(c, g) = p.key
  <2> HIDE DEF n, g
  <2>1. CASE g = "Next"
    <3>1. p.key = k.rx + 1 /\ c = Follow(Advanced(k, p.pn))
      BY <1>4, <2>1 DEF CommitGeneration
    <3> HIDE DEF c
    <3>2. Context(c, n, wire[f], keys[f], space[f], wire[e])
      BY <1>2, <1>5, <3>1, NextPreserves
    <3>3. c.rx = k.rx + 1
      <4>1. k \in KeyState /\ p.pn \in Nat
        BY <1>2, <1>3 DEF Context, Types
      <4>2. IsNext(c, k, p.pn)
        BY <1>3, <3>1, <4>1, AdvanceFields
      <4> QED BY <4>2 DEF IsNext
    <3> QED BY <2>1, <3>1, <3>2, <3>3 DEF ReceiveGeneration
  <2>2. CASE g # "Next"
    <3>1. c = CommitReceive(k, g, p.pn)
      BY <2>2 DEF CommitGeneration
    <3>2. (g = "Current" /\ p.key = k.rx) \/ (g = "Previous" /\ p.key < k.rx)
      BY SMTT(30), <1>3, <1>4, <2>2 DEF Types
    <3> HIDE DEF c
    <3>3. Context(c, n, wire[f], keys[f], space[f], wire[e])
      BY <1>2, <1>5, <3>1, <3>2, OldPreserves
    <3>4. c.rx = k.rx
      <4>1. k \in KeyState
        BY SMTT(30), <1>2 DEF Context
      <4> QED BY <3>1, <3>2, <4>1 DEF CommitReceive, KeyState
    <3> QED BY <1>4, <2>2, <3>3, <3>4 DEF ReceiveGeneration
  <2> QED BY <2>1, <2>2
<1>7. ~CannotFollow(k, g)
  BY <1>3, OptionFacts DEF CannotFollow, CanInstall, Slots, Types
<1>8. ~BadAck(e, c, p.key, p.acks)
  BY Zenon, <1>5, <1>6, AckIsGood DEF BadAck
<1>9. Context(i, n, wire[f], keys[f], space[f], wire[e])
  BY <1>6, ConfirmPreserves
<1>10. /\ keys' = [keys EXCEPT ![e] = i] /\ wire' = wire /\ error' = error
       /\ space' = [space EXCEPT ![e] = n]
  <2>1. Accept(e, p, g)
    BY <1>1, <1>4
  <2>2. /\ keys' = [keys EXCEPT ![e] = i] /\ wire' = wire /\ error' = error
        /\ space' = [space EXCEPT ![e].recv = s.recv \cup {p.pn},
                                  ![e].ackPending = s.ackPending \/ p.acks = {}]
    BY SMTT(30), <1>6, <1>7, <1>8, <2>1 DEF Accept
  <2> QED BY Zenon, <2>2 DEF IInv, TypeOK
<1>11. wire' = [wire EXCEPT ![f] = wire[f]]
  BY <1>10, Unmoved
<1> HIDE DEF i, n
<1> QED BY ZenonT(30), <1>9, <1>10, <1>11, StepBy

-----------------------------------------------------------------------------
(* A new connection, the handshake confirmed. *)
LEMMA InitHolds == ASSUME Init PROVE IInv
<1> DEFINE s == [next |-> 0, recv |-> {}, ackPending |-> FALSE]
<1>1. NewKeys \in KeyState /\ Slots(NewKeys)
  BY DEF NewKeys, KeyState, Slots, Option, None
<1>2. s \in SpaceState
  BY DEF SpaceState
<1>3. TypeOK /\ error = {}
  BY SMTT(30), <1>1, <1>2 DEF Init, TypeOK
<1>4. Sent(NewKeys, s.next, {}) /\ Received(NewKeys, s.recv, {})
      /\ Acks(NewKeys, s.recv, {}, {}) /\ Pair(NewKeys, NewKeys)
  <2>1. /\ NewKeys.tx = 0 /\ NewKeys.rx = 0 /\ NewKeys.txFirst = None
        /\ NewKeys.rxMin = None /\ NewKeys.rxMax = None /\ NewKeys.previousMax = None
        /\ NewKeys.txAcked = FALSE /\ NewKeys.updateAckPending = FALSE
    BY DEF NewKeys
  <2>2. Sent(NewKeys, s.next, {})
    BY <2>1 DEF Sent
  <2>3. Received(NewKeys, s.recv, {})
    BY <2>1 DEF Received
  <2>4. Acks(NewKeys, s.recv, {}, {})
    BY DEF Acks
  <2>5. Pair(NewKeys, NewKeys)
    BY <2>1 DEF Pair
  <2> QED BY <2>2, <2>3, <2>4, <2>5
<1>5. Count(NewKeys, {})
  <2>1. \A g : {p \in {} : p.key = g} = {}
    OBVIOUS
  <2>2. IsFiniteSet({}) /\ Cardinality({}) = 0
    BY FS_EmptySet
  <2>3. NewKeys.sealed = 0
    BY DEF NewKeys
  <2> QED BY <2>1, <2>2, <2>3, KeysAssumption DEF Count
<1>6. EndInv(NewKeys, s, {}, NewKeys, s, {})
  BY <1>1, <1>4, <1>5 DEF EndInv
<1>7. \A e \in End : /\ keys[e] = NewKeys /\ space[e] = s /\ wire[e] = {}
                     /\ keys[Peer(e)] = NewKeys /\ space[Peer(e)] = s /\ wire[Peer(e)] = {}
  BY Peers DEF Init
<1> QED BY <1>3, <1>6, <1>7 DEF IInv

(* Every step preserves the invariant. *)
LEMMA NextPreservesIInv == ASSUME IInv, [Next]_vars PROVE IInv'
<1>1. CASE Next
  <2>1. PICK e \in End : \/ PollIdle(e) \/ SendAck(e) \/ SendData(e)
                         \/ Receive(e) \/ RetirePrevious(e)
    BY <1>1 DEF Next
  <2> QED BY <2>1, PollIdlePreserves, SendAckPreserves, SendDataPreserves,
             ReceivePreserves, RetirePreserves
<1>2. CASE UNCHANGED vars
  BY <1>2 DEF vars, IInv, TypeOK
<1> QED BY <1>1, <1>2

(* The inductive invariant: key slots, order of packets and generations, and the *)
(* distance between the two ends (KeyPhaseState and its users).                   *)
THEOREM InvariantHolds == Spec => []IInv
  BY InitHolds, NextPreservesIInv, PTL DEF Spec

(* process_packet, recv_ack and commit_data_generation raise no error on what   *)
(* a peer running the same code sent, however often the ends update their keys   *)
(* whatever the network does to the packets.                                    *)
THEOREM NoErrors == Spec => []NoKeyError
<1>1. IInv => NoKeyError
  BY DEF IInv, NoKeyError
<1> QED BY <1>1, InvariantHolds, PTL

(* select and open_data_packet find the right key of every packet that is not   *)
(* older than the keys kept.                                                    *)
THEOREM AllReadable == Spec => []Readable
<1>1. ASSUME IInv PROVE Readable
  <2>1. SUFFICES ASSUME NEW e \in End, NEW p \in wire[e]
        PROVE /\ p.key <= keys[e].rx + 1
              /\ (p.key >= keys[e].rx \/ p.key = keys[e].previous) =>
                   /\ Authenticates(keys[e], p)
                   /\ ValidReceive(keys[e], OpenedAs(keys[e], p), p.pn)
    BY DEF Readable
  <2>2. Context(keys[e], space[e], wire[Peer(e)], keys[Peer(e)], space[Peer(e)], wire[e])
    BY <1>1, ContextOf
  <2>3. /\ p.key <= keys[e].rx + 1
        /\ (p.key >= keys[e].rx \/ p.key = keys[e].previous) => Authenticates(keys[e], p)
    BY <2>2, CanOpen
  <2>4. Authenticates(keys[e], p) => ValidReceive(keys[e], OpenedAs(keys[e], p), p.pn)
    BY <2>2, Opens
  <2> QED BY <2>3, <2>4
<1> QED BY <1>1, InvariantHolds, PTL

(* maybe_update_send_key and enforce_aead_confidentiality_limit keep every key  *)
(* within its limit.                                                            *)
THEOREM LimitKept == Spec => []KeyLimit
<1>1. ASSUME IInv PROVE KeyLimit
  <2>1. SUFFICES ASSUME NEW e \in End, NEW r \in wire[e]
        PROVE Cardinality({p \in wire[e] : p.key = r.key}) <= Limit
    BY DEF KeyLimit
  <2>2. Peer(e) \in End /\ Peer(Peer(e)) = e
    BY SMTT(30), Peers
  <2>3. Count(keys[Peer(e)], wire[e])
    BY <1>1, <2>2 DEF IInv, EndInv
  <2>4. r.key \in Nat
    BY <1>1 DEF IInv, TypeOK, PacketType
  <2> QED BY <2>3, <2>4 DEF Count
<1> QED BY <1>1, InvariantHolds, PTL

=============================================================================
