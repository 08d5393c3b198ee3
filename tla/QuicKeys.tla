------------------------------ MODULE QuicKeys -------------------------------
(***************************************************************************)
(* The 1-RTT key update of a QUIC connection (transport/udp/quic/conn.rs). *)
(* Either end may start an update, also both at once; packets are marked   *)
(* with one phase bit, and the receiver tells from the bit and the packet  *)
(* number which of three keys opens one.  The handshake is confirmed.  A   *)
(* key is the number of its generation.  `wire' only grows: a packet on it *)
(* may be received late, in any order, several times or never.             *)
(***************************************************************************)
EXTENDS Integers, FiniteSets

CONSTANTS
  Limit,    \* confidentiality_limit: packets one key may seal
  MaxPn     \* bound: packets an end sends

ASSUME KeysAssumption == Limit \in Nat \ {0} /\ MaxPn \in Nat

VARIABLES
  keys,    \* per end: KeyPhaseState, the keys installed, cached and retired
  space,   \* per end: next packet number, numbers received, whether an ACK is owed
  wire,    \* per end: the packets sent to it
  error    \* the errors raised

vars == <<keys, space, wire, error>>

None == -1
End == {"client", "server"}
Peer(e) == IF e = "client" THEN "server" ELSE "client"
Larger(m, n) == IF m >= n THEN m ELSE n

-----------------------------------------------------------------------------
(* KeyPhaseState and the key slots of one end. *)

NewKeys ==
  [tx |-> 0, rx |-> 0, txFirst |-> None, txLast |-> None, txAcked |-> FALSE,
   rxMin |-> None, rxMax |-> None, previousMax |-> None, updateAckPending |-> FALSE,
   write |-> 0, read |-> 0, previous |-> None,
   nextGeneration |-> 1, nextLocal |-> 1, nextRemote |-> 1, derived |-> 1,
   sealed |-> 0, closed |-> FALSE]

(* Faulty: the phase bit alone tells the generation. *)
SelectByPhase(k, phase, pn) == IF phase = k.rx % 2 THEN "Current" ELSE "Next"

Select(k, phase, pn) ==
  IF phase = k.rx % 2 THEN "Current"
  ELSE IF k.rxMin # None /\ pn < k.rxMin THEN "Previous"
  ELSE IF k.rxMax = None \/ pn > k.rxMax THEN "Next"
  ELSE "Unavailable"

(* Faulty: no second update before the first is acknowledged, answers included. *)
ValidUnlessPending(k, generation, pn) ==
  \/ generation = "Current" /\ (k.previousMax = None \/ pn > k.previousMax)
  \/ generation = "Previous" /\ k.rx > 0 /\ k.rxMin # None /\ pn < k.rxMin
  \/ /\ generation = "Next"
     /\ ~k.updateAckPending
     /\ k.rxMax = None \/ pn > k.rxMax

ValidReceive(k, generation, pn) ==
  \/ generation = "Current" /\ (k.previousMax = None \/ pn > k.previousMax)
  \/ generation = "Previous" /\ k.rx > 0 /\ k.rxMin # None /\ pn < k.rxMin
  \/ /\ generation = "Next"
     /\ ~k.updateAckPending \/ k.rx + 1 = k.tx
     /\ k.rxMax = None \/ pn > k.rxMax

CommitReceive(k, generation, pn) ==
  CASE generation = "Next" ->
         [k EXCEPT !.rx = @ + 1, !.previousMax = k.rxMax, !.rxMin = pn, !.rxMax = pn,
                   !.updateAckPending = TRUE]
    [] generation = "Current" ->
         [k EXCEPT !.rxMin = IF @ = None \/ pn < @ THEN pn ELSE @, !.rxMax = Larger(@, pn)]
    [] OTHER -> [k EXCEPT !.previousMax = Larger(@, pn)]

ActiveSuccessor(k) == k.tx = k.rx /\ k.txAcked

(* confirm: an ACK that came under the current or a later key. *)
Confirm(k, generation, acks) ==
  IF generation >= k.tx /\ \E pn \in acks : k.txFirst # None /\ k.txFirst <= pn /\ pn <= k.txLast
  THEN [k EXCEPT !.txAcked = TRUE]
  ELSE k

(* cache_next_packet_keys derives the next pair once both halves are used. *)
CacheNext(k) ==
  IF k.nextLocal # None \/ k.nextRemote # None THEN k
  ELSE [k EXCEPT !.nextGeneration = Larger(k.tx, k.rx) + 1, !.derived = @ + 1,
                 !.nextLocal = k.derived + 1, !.nextRemote = k.derived + 1]

CanInstall(k, generation) == k.nextGeneration = generation /\ k.nextLocal # None
InstallSendKey(k, generation) ==
  [k EXCEPT !.write = k.nextLocal, !.nextLocal = None, !.tx = generation,
            !.txFirst = None, !.txLast = None, !.txAcked = FALSE, !.sealed = 0]

(* open_data_packet: the slot selected and its key, and what the packet counts  *)
(* as when the slot is empty; the current key then stands in.                   *)
SlotKey(k, generation) ==
  CASE generation = "Current" -> k.read
    [] generation = "Previous" -> k.previous
    [] generation = "Next" /\ k.nextGeneration = k.rx + 1 -> k.nextRemote
    [] OTHER -> None
OpenedAs(k, p) ==
  LET generation == Select(k, p.phase, p.pn)
  IN IF SlotKey(k, generation) = None THEN "Unavailable" ELSE generation
Authenticates(k, p) ==
  LET key == SlotKey(k, Select(k, p.phase, p.pn))
  IN p.key = IF key = None THEN k.read ELSE key

(* commit_data_generation: a Next packet moves the read keys on, and the sender *)
(* follows before any acknowledgement can leave.                                *)
Advanced(k, pn) ==
  [CommitReceive(k, "Next", pn) EXCEPT !.previous = k.read, !.read = k.nextRemote,
                                       !.nextRemote = None]
Follow(k) == CacheNext(IF k.tx < k.rx THEN InstallSendKey(k, k.rx) ELSE k)
CommitGeneration(k, generation, pn) ==
  IF generation = "Next" THEN Follow(Advanced(k, pn)) ELSE CommitReceive(k, generation, pn)

(* A responder without the key to follow with gives up. *)
CannotFollow(k, generation) ==
  generation = "Next" /\ k.tx < k.rx + 1 /\ ~CanInstall(k, k.rx + 1)

-----------------------------------------------------------------------------
Init ==
  /\ keys = [e \in End |-> NewKeys]
  /\ space = [e \in End |-> [next |-> 0, recv |-> {}, ackPending |-> FALSE]]
  /\ wire = [e \in End |-> {}]
  /\ error = {}

(* maybe_update_send_key.  After the first update there is a wait of three PTO, *)
(* which has passed or not.                                                     *)
Due(k, elapsed) ==
  /\ Limit \div 2 <= k.sealed /\ k.sealed < Limit
  /\ ActiveSuccessor(k) /\ (k.tx = 0 \/ elapsed)
Updated(k, elapsed) ==
  IF Due(k, elapsed) THEN InstallSendKey(k, k.tx + 1) ELSE k

(* Faulty: the last packet may exceed the limit. *)
ExhaustedLate(k) == k.sealed > Limit

Exhausted(k) == k.sealed >= Limit

(* enforce_aead_confidentiality_limit *)
Enforced(k) == [k EXCEPT !.closed = Exhausted(k)]

(* seal_packet and record_sent *)
Sealed(k, pn) ==
  [k EXCEPT !.sealed = @ + 1, !.txFirst = IF @ = None THEN pn ELSE @, !.txLast = pn]
Packet(k, pn, acks) == [pn |-> pn, phase |-> k.tx % 2, key |-> k.write, acks |-> acks]

(* poll_transmit: rotate the key, close if it is spent, then send an ACK, which *)
(* elicits none, or something that elicits one, or nothing.                     *)
PollIdle(e) ==
  \E elapsed \in BOOLEAN :
    LET k == Updated(keys[e], elapsed)
    IN /\ ~keys[e].closed
       /\ keys' = [keys EXCEPT ![e] = Enforced(k)]
       /\ UNCHANGED <<space, wire, error>>

SendAck(e) ==
  \E elapsed \in BOOLEAN :
    LET k == Updated(keys[e], elapsed)
        pn == space[e].next
    IN /\ ~keys[e].closed /\ space[e].ackPending /\ ~Exhausted(k) /\ pn < MaxPn
       /\ keys' = [keys EXCEPT ![e] = [Sealed(k, pn) EXCEPT !.updateAckPending = FALSE]]
       /\ space' = [space EXCEPT ![e].next = pn + 1, ![e].ackPending = FALSE]
       /\ wire' = [wire EXCEPT ![Peer(e)] = @ \cup {Packet(k, pn, space[e].recv)}]
       /\ UNCHANGED error

SendData(e) ==
  \E elapsed \in BOOLEAN :
    LET k == Updated(keys[e], elapsed)
        pn == space[e].next
    IN /\ ~keys[e].closed /\ ~Exhausted(k) /\ pn < MaxPn
       /\ keys' = [keys EXCEPT ![e] = Sealed(k, pn)]
       /\ space' = [space EXCEPT ![e].next = pn + 1]
       /\ wire' = [wire EXCEPT ![Peer(e)] = @ \cup {Packet(k, pn, {})}]
       /\ UNCHANGED error

-----------------------------------------------------------------------------
(* process_packet, for a packet that opens. *)

(* The connection closes with an error, after what was committed before it. *)
Fail(e, k, pns, what) ==
  /\ error' = error \cup {what}
  /\ keys' = [keys EXCEPT ![e] = [k EXCEPT !.closed = TRUE]]
  /\ space' = [space EXCEPT ![e].recv = @ \cup pns]
  /\ UNCHANGED wire

(* The generation recv_ack is told the packet came under. *)
ReceiveGeneration(k, generation) == IF generation = "Previous" THEN k.rx - 1 ELSE k.rx
BadAck(e, k, generation, acks) ==
  \E pn \in acks : \/ pn >= space[e].next
                   \/ generation < k.tx /\ k.txFirst # None /\ pn >= k.txFirst

Accept(e, p, generation) ==
  LET k == CommitGeneration(keys[e], generation, p.pn)
      came == ReceiveGeneration(k, generation)
  IN IF CannotFollow(keys[e], generation)
       THEN Fail(e, Advanced(keys[e], p.pn), {p.pn}, "no key to follow with")
     ELSE IF BadAck(e, k, came, p.acks) THEN Fail(e, k, {p.pn}, "acknowledgement")
     ELSE /\ keys' = [keys EXCEPT ![e] = Confirm(k, came, p.acks)]
          /\ space' = [space EXCEPT ![e].recv = @ \cup {p.pn},
                                    ![e].ackPending = @ \/ p.acks = {}]
          /\ UNCHANGED <<wire, error>>

Receive(e) ==
  \E p \in wire[e] :
    LET generation == OpenedAs(keys[e], p)
    IN /\ ~keys[e].closed /\ Authenticates(keys[e], p)
       /\ IF ~ValidReceive(keys[e], generation, p.pn)
            THEN Fail(e, keys[e], {}, "KEY_UPDATE_ERROR")
          ELSE p.pn \notin space[e].recv /\ Accept(e, p, generation)

(* retire_previous_read_key, three PTO after the update. *)
RetirePrevious(e) ==
  /\ keys[e].previous # None
  /\ keys' = [keys EXCEPT ![e].previous = None]
  /\ UNCHANGED <<space, wire, error>>

Next ==
  \E e \in End : \/ PollIdle(e) \/ SendAck(e) \/ SendData(e)
                 \/ Receive(e) \/ RetirePrevious(e)

Spec == Init /\ [][Next]_vars

-----------------------------------------------------------------------------
(* Whatever is lost, late, repeated or reordered, neither end raises an error  *)
(* on what the other sent: no packet seems to break the order of generations,  *)
(* no ACK comes under a key older than what it acknowledges, and the key to    *)
(* answer an update with is at hand (process_packet, recv_ack,                 *)
(* commit_data_generation).                                                    *)
NoKeyError == error = {}

(* An end that is open can read, with the key it was sealed with, every packet *)
(* sent to it that is not older than its generation, and an older one as long  *)
(* as the previous key is kept.  Nothing is ever two generations ahead         *)
(* (select, open_data_packet, active_successor).                               *)
Readable ==
  \A e \in End : \A p \in wire[e] :
    LET k == keys[e]
    IN /\ p.key <= k.rx + 1
       /\ (p.key >= k.rx \/ p.key = k.previous) =>
            /\ Authenticates(k, p)
            /\ ValidReceive(k, OpenedAs(k, p), p.pn)

(* No key ever seals more packets than its confidentiality limit               *)
(* (maybe_update_send_key, enforce_aead_confidentiality_limit).                *)
KeyLimit ==
  \A e \in End : \A g \in {p.key : p \in wire[e]} :
    Cardinality({p \in wire[e] : p.key = g}) <= Limit

=============================================================================
