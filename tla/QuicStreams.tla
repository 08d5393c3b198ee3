----------------------------- MODULE QuicStreams -----------------------------
(***************************************************************************)
(* Streams, flow control and loss recovery of the 1-RTT packets of a QUIC  *)
(* connection (transport/udp/quic/conn.rs, recovery.rs, pmtud.rs).  End A  *)
(* sends on unidirectional streams, end B reads them and grants credit.    *)
(* Both number, acknowledge, retransmit and probe with the same code.  The *)
(* handshake is confirmed and the keys do not change.  A unit of data      *)
(* fills one packet.  The network loses, duplicates and reorders packets,  *)
(* and its path drops every probe above its MTU.                           *)
(***************************************************************************)
EXTENDS Integers, Sequences, FiniteSetsExt, SequencesExt

CONSTANTS
  Streams,        \* how many streams A has opened; a stream is its ordinal
  SendBuffer,     \* STREAM_SEND_BUFFER
  StreamWindow,   \* STREAM_RECV_WINDOW
  ConnWindow,     \* CONN_RECV_WINDOW
  StreamLimit,    \* MAX_PEER_STREAMS
  Cwnd,           \* congestion window in packets
  BaseMtu, MaxMtu, SearchStep, MaxProbes, BlackholeThreshold,
  Plans           \* bound: what the applications and the network may do; `late' is
                  \* whether streams are reset after they were finished

ASSUME QuicAssumption ==
  /\ {Streams, SendBuffer, StreamWindow, ConnWindow, StreamLimit, Cwnd} \subseteq Nat \ {0}
  /\ {SearchStep, MaxProbes, BlackholeThreshold} \subseteq Nat \ {0}
  /\ BaseMtu \in Nat /\ MaxMtu \in Nat /\ BaseMtu <= MaxMtu
  /\ Plans \subseteq [units : [1..Streams -> Nat], used : SUBSET (1..Streams),
                      resets : SUBSET (1..Streams), late : BOOLEAN,
                      drops : SUBSET (1..Streams), searched : BOOLEAN,
                      path : BaseMtu..MaxMtu, faults : Nat]

Stream == 1..Streams
PACKET_THRESHOLD == 3
None == -1

VARIABLES
  a,       \* A's streams, send limits and MTU search
  b,       \* B's streams and receive windows
  space,   \* per end: packet numbers, sent packets, acknowledgements owed
  net,     \* per end: the packets on their way to it
  app,     \* per stream: what B's application has seen of it
  error,   \* the transport errors raised
  plan     \* one of Plans; `faults' counts down

vars == <<a, b, space, net, app, error, plan>>

End == {"A", "B"}
Peer(e) == IF e = "A" THEN "B" ELSE "A"

-----------------------------------------------------------------------------
(* Path MTU discovery.  The search is complete when its window is closed. *)

NewMtu == [current |-> BaseMtu, low |-> BaseMtu, high |-> MaxMtu, probe |-> None,
           tries |-> 0, losses |-> 0]
Complete(m) == m.high - m.low < SearchStep
Midpoint(m) == m.low + (m.high - m.low + 1) \div 2

OnProbeAcked(m) ==
  IF m.probe = None THEN m
  ELSE [m EXCEPT !.probe = None, !.tries = 0, !.losses = 0,
                 !.current = Max({@, m.probe}), !.low = Max({@, m.probe})]

OnProbeLost(m) ==
  IF m.probe = None THEN m
  ELSE IF m.tries + 1 < MaxProbes THEN [m EXCEPT !.probe = None, !.tries = @ + 1]
  ELSE [m EXCEPT !.probe = None, !.tries = 0, !.high = Max({m.probe - 1, m.low})]

OnFullSizeLoss(m) ==
  IF m.current <= BaseMtu THEN m
  ELSE IF m.losses + 1 >= BlackholeThreshold THEN NewMtu
  ELSE [m EXCEPT !.losses = @ + 1]

-----------------------------------------------------------------------------
(* Packets.  A pure acknowledgement elicits none and nothing waits for it, so  *)
(* it has no packet number here.                                              *)

StreamFrame(id, off, len, fin) ==
  [kind |-> "stream", id |-> id, off |-> off, len |-> len, fin |-> fin]
ResetFrame(id, size) == [kind |-> "reset", id |-> id, size |-> size]
FlowFrame(data, limits, count) ==
  [kind |-> "flow", data |-> data, limits |-> limits, count |-> count]
AckPacket(pns) == [pn |-> 0, frame |-> [kind |-> "ack", pns |-> pns]]
ProbeFrame(size) == [kind |-> "probe", size |-> size]
PingFrame == [kind |-> "ping"]

Without(sent, pns) == Restrict(sent, DOMAIN sent \ pns)
InFlight(sent, id) ==
  {sent[pn].off : pn \in {q \in DOMAIN sent : sent[q].kind = "stream" /\ sent[q].id = id}}

NewSpace == [next |-> 1, sent |-> <<>>, largest |-> 0, lossTime |-> FALSE, recv |-> {},
             ackPending |-> FALSE, probe |-> 0, ping |-> FALSE]

-----------------------------------------------------------------------------
(* A's streams. *)

NewSend == [live |-> TRUE, end |-> 0, base |-> 0, off |-> 0, max |-> StreamWindow,
            rtx |-> <<>>, fin |-> FALSE, finSent |-> FALSE, finAcked |-> FALSE,
            reset |-> FALSE, resetSent |-> FALSE, resetAcked |-> FALSE]
RetiredSend(s) == [NewSend EXCEPT !.live = FALSE, !.end = s.end, !.fin = s.fin]

(* retire_stream at the end that opened a unidirectional stream. *)
RetireSend(ca, sent, id) ==
  LET s == ca.stream[id]
  IN IF /\ s.live /\ (s.resetAcked \/ s.finAcked)
        /\ InFlight(sent, id) = {} /\ s.rtx = <<>>
     THEN [ca EXCEPT !.stream[id] = RetiredSend(s)]
     ELSE ca

(* Faulty: the ranges that wait to be sent again are not looked at. *)
CompactPastResends(ca, sent, id) ==
  LET s == ca.stream[id]
      low == Min({s.off} \cup InFlight(sent, id))
      reclaim == low - s.base
  IN IF ~s.live \/ reclaim = 0 \/ reclaim < (s.end - s.base) - reclaim
     THEN ca
     ELSE [ca EXCEPT !.stream[id].base = low]

(* compact_send_buffer drops the prefix nobody needs once it is at least half. *)
Compact(ca, sent, id) ==
  LET s == ca.stream[id]
      low == Min({s.off} \cup {s.rtx[i].off : i \in DOMAIN s.rtx} \cup InFlight(sent, id))
      reclaim == low - s.base
  IN IF ~s.live \/ reclaim = 0 \/ reclaim < (s.end - s.base) - reclaim
     THEN ca
     ELSE [ca EXCEPT !.stream[id].base = low]

(* requeue: what a lost or probed packet of A carried is owed again. *)
RequeueA(ca, sent, c) ==
  CASE c.kind = "stream" ->
         RetireSend(IF ca.stream[c.id].live /\ ~ca.stream[c.id].reset
                    THEN [ca EXCEPT !.stream[c.id].rtx = Append(@, c)]
                    ELSE ca, sent, c.id)
    [] c.kind = "reset" ->
         IF ca.stream[c.id].live /\ ~ca.stream[c.id].resetAcked
         THEN [ca EXCEPT !.stream[c.id].resetSent = FALSE]
         ELSE ca
    [] OTHER -> ca

(* process_lost_packets for one packet: a lost probe goes to the MTU search. *)
LostA(ca, sent, pn, c) ==
  CASE pn = ca.probePn -> [ca EXCEPT !.probePn = 0, !.mtu = OnProbeLost(@)]
    [] OTHER -> RequeueA([ca EXCEPT !.mtu = OnFullSizeLoss(@)], sent, c)

(* The part of recv_ack that marks what an acknowledged packet carried. *)
AckedA(ca, pn, c) ==
  CASE c.kind = "stream" /\ c.fin /\ ca.stream[c.id].live ->
         [ca EXCEPT !.stream[c.id].finAcked = TRUE]
    [] c.kind = "reset" /\ ca.stream[c.id].live ->
         [ca EXCEPT !.stream[c.id].resetAcked = TRUE]
    [] pn = ca.probePn -> [ca EXCEPT !.probePn = 0, !.mtu = OnProbeAcked(@)]
    [] OTHER -> ca

-----------------------------------------------------------------------------
(* B's streams and windows. *)

NewRecv == [state |-> "new", off |-> 0, buffered |-> 0, pending |-> {}, high |-> 0,
            consumed |-> 0, credited |-> 0, max |-> StreamWindow, maxSent |-> StreamWindow,
            need |-> FALSE, fin |-> None, reset |-> FALSE, released |-> FALSE]
RetiredRecv == [NewRecv EXCEPT !.state = "retired"]

(* credit_connection_window: a grant is owed once half the window is free. *)
Credit(cb, n) ==
  IF n = 0 THEN cb
  ELSE LET max == cb.consumed + n + ConnWindow
       IN [cb EXCEPT !.consumed = @ + n, !.max = max,
                     !.need = @ \/ max - cb.maxSent >= ConnWindow \div 2]

(* retire_stream at the end that only receives: the peer may open another. *)
RetireRecv(cb, id) ==
  LET s == cb.stream[id]
  IN IF s.state = "live" /\ s.released /\ s.fin # None /\ (s.reset \/ s.off >= s.fin)
     THEN [cb EXCEPT !.stream[id] = RetiredRecv, !.maxStreams = @ + 1, !.needStreams = TRUE]
     ELSE cb

DiscardRecv(cb, id) ==
  LET s == cb.stream[id]
  IN IF s.state # "live" THEN cb
     ELSE RetireRecv(
            Credit([cb EXCEPT !.stream[id] = [s EXCEPT !.credited = s.high, !.released = TRUE,
                                                       !.buffered = 0, !.pending = {}]],
                   s.high - s.credited), id)

(* read_stream takes everything that is in order. *)
ReadStream(cb, id) ==
  LET s == cb.stream[id]
      max == s.consumed + s.buffered + StreamWindow
      r == [s EXCEPT !.buffered = 0, !.consumed = @ + s.buffered, !.credited = @ + s.buffered,
                     !.max = max, !.need = @ \/ max - s.maxSent >= StreamWindow \div 2,
                     !.released = @ \/ (~s.reset /\ s.fin # None /\ s.off >= s.fin)]
  IN IF s.state # "live" THEN cb
     ELSE RetireRecv(Credit([cb EXCEPT !.stream[id] = r], s.buffered), id)

(* ensure_stream opens every stream up to the one a frame names. *)
LimitExceeded(cb, id) ==
  LET live == Cardinality({i \in Stream : cb.stream[i].state = "live"})
  IN cb.stream[id].state = "new"
     /\ (id > cb.maxStreamsSent \/ id - cb.opened > Max({StreamLimit - live, 0}))
Ensured(cb, id) ==
  [cb EXCEPT !.opened = Max({@, id}),
             !.stream = [i \in Stream |-> IF i <= id /\ @[i].state = "new"
                                          THEN [NewRecv EXCEPT !.state = "live"] ELSE @[i]]]

FlowError(cb, id, end) ==
  \/ end > cb.stream[id].max
  \/ cb.total + Max({end - cb.stream[id].high, 0}) > cb.max

(* The errors recv_stream and recv_reset_stream raise for a frame. *)
StreamErrors(cb, f) ==
  LET s == cb.stream[f.id]
      end == f.off + f.len
  IN IF s.state = "retired" THEN {}
     ELSE {x \in {"final", "flow", "limit"} :
             \/ x = "final" /\ s.fin # None /\ (end > s.fin \/ (f.fin /\ end # s.fin))
             \/ x = "final" /\ f.fin /\ end < s.high
             \/ x = "flow" /\ FlowError(cb, f.id, end)
             \/ x = "limit" /\ LimitExceeded(cb, f.id)}
ResetErrors(cb, f) ==
  LET s == cb.stream[f.id]
  IN IF s.state = "retired" THEN {}
     ELSE {x \in {"final", "flow", "limit"} :
             \/ x = "final" /\ s.fin # None /\ s.fin # f.size
             \/ x = "final" /\ f.size < s.high
             \/ x = "flow" /\ FlowError(cb, f.id, f.size)
             \/ x = "limit" /\ LimitExceeded(cb, f.id)}

(* drain_contiguous: the end of the run of units that starts at `off'. *)
RunEnd(off, units) ==
  CHOOSE n \in off..(off + Cardinality(units)) : off..(n - 1) \subseteq units /\ n \notin units

RecvStream(cb0, f) ==
  LET cb == Ensured(cb0, f.id)
      s == cb.stream[f.id]
      end == f.off + f.len
      delta == Max({end - s.high, 0})
      charged == [s EXCEPT !.high = @ + delta, !.fin = IF f.fin THEN end ELSE @]
      units == s.pending \cup (f.off..(end - 1))
      run == RunEnd(s.off, units)
  IN IF s.reset THEN cb
     ELSE LET ct == [cb EXCEPT !.total = @ + delta]
          IN IF s.released
             THEN RetireRecv(
                    Credit([ct EXCEPT !.stream[f.id] =
                              [charged EXCEPT !.credited = @ + delta,
                                              !.off = IF charged.fin # None /\ charged.high >= charged.fin
                                                      THEN charged.high ELSE @]], delta), f.id)
             ELSE [ct EXCEPT !.stream[f.id] =
                     [charged EXCEPT !.off = run, !.buffered = @ + run - s.off,
                                     !.pending = {u \in units : u >= run}]]

(* Faulty: what was read before the reset is credited again. *)
RecvResetCreditingTwice(cb0, f) ==
  LET cb == Ensured(cb0, f.id)
      s == cb.stream[f.id]
      credit == Max({f.size - s.buffered, 0})
      r == [s EXCEPT !.high = f.size, !.fin = f.size, !.reset = TRUE, !.pending = {},
                     !.credited = f.size - s.buffered]
      ct == [cb EXCEPT !.total = @ + f.size - s.high]
  IN RetireRecv(IF s.reset THEN ct
                ELSE Credit([ct EXCEPT !.stream[f.id] = r], credit), f.id)

(* recv_reset_stream: everything but what can still be read is credited, once. *)
RecvReset(cb0, f) ==
  LET cb == Ensured(cb0, f.id)
      s == cb.stream[f.id]
      credit == Max({f.size - s.buffered - s.credited, 0})
      r == [s EXCEPT !.high = f.size, !.fin = f.size, !.reset = TRUE, !.pending = {},
                     !.credited = @ + credit]
      ct == [cb EXCEPT !.total = @ + f.size - s.high]
  IN RetireRecv(IF s.reset THEN ct
                ELSE Credit([ct EXCEPT !.stream[f.id] = r], credit), f.id)


(* requeue: a lost grant is owed again. *)
RequeueB(cb, c) ==
  IF c.kind # "flow" THEN cb
  ELSE [cb EXCEPT !.need = @ \/ c.data # None, !.needStreams = @ \/ c.count # None,
                  !.stream = [i \in Stream |-> IF i \in DOMAIN c.limits /\ @[i].state = "live"
                                               THEN [@[i] EXCEPT !.need = TRUE] ELSE @[i]]]

-----------------------------------------------------------------------------
(* Loss recovery, the same at both ends; `conn' is a or b. *)

Lost(e, conn, sent, pn, c) == IF e = "A" THEN LostA(conn, sent, pn, c) ELSE RequeueB(conn, c)
Acked(e, conn, pn, c) == IF e = "A" THEN AckedA(conn, pn, c) ELSE conn

(* process_lost_packets, lowest packet number first. *)
ProcessLost(e, conn, sent, pns) ==
  FoldLeft(LAMBDA st, pn :
             LET rest == Without(st.sent, {pn})
             IN [sent |-> rest, conn |-> Lost(e, st.conn, rest, pn, st.sent[pn])],
           [sent |-> sent, conn |-> conn], SetToSortSeq(pns, <))

(* detect_lost: below the largest acknowledged, what lies PACKET_THRESHOLD   *)
(* behind it is lost, and so is what was sent before a time that can be any. *)
Candidates(sent, largest) == {pn \in DOMAIN sent : pn < largest}
DetectLost(sent, largest) ==
  LET all == Candidates(sent, largest)
      due == {pn \in all : pn + PACKET_THRESHOLD <= largest}
  IN {lost \in {{pn \in all : pn <= last} : last \in all \cup {0}} : due \subseteq lost}

(* The end of recv_ack: buffers and streams of what was acknowledged. *)
Reclaim(e, conn, sent, contents) ==
  IF e = "B" THEN conn
  ELSE LET ids == {c.id : c \in {d \in contents : d.kind \in {"stream", "reset"}}}
       IN FoldLeft(LAMBDA ca, id : RetireSend(Compact(ca, sent, id), sent, id),
                   conn, SetToSortSeq(ids, <))

(* recv_ack: the new state of the connection and of the space. *)
RecvAck(e, conn, sp, pns, lost) ==
  LET newly == pns \cap DOMAIN sp.sent
      largest == Max(pns \cup {sp.largest})
      marked == FoldLeft(LAMBDA c, pn : Acked(e, c, pn, sp.sent[pn]), conn,
                         SetToSortSeq(newly, <))
      clean == IF e = "A" /\ conn.probePn \notin newly
               THEN [marked EXCEPT !.mtu.losses = 0] ELSE marked
      after == ProcessLost(e, clean, Without(sp.sent, newly), lost)
  IN IF newly = {}
     THEN [conn |-> conn, sp |-> [sp EXCEPT !.largest = largest]]
     ELSE [conn |-> Reclaim(e, after.conn, after.sent, {sp.sent[pn] : pn \in newly}),
           sp |-> [sp EXCEPT !.largest = largest, !.sent = after.sent,
                             !.lossTime = Candidates(after.sent, largest) # {}]]

-----------------------------------------------------------------------------
(* The MTU search is about to begin, or it is over. *)
Init ==
  /\ plan \in Plans
  /\ a = [stream |-> [id \in Stream |-> NewSend], maxData |-> ConnWindow, total |-> 0,
          maxStreams |-> StreamLimit, mtu |-> [NewMtu EXCEPT !.high = IF plan.searched THEN BaseMtu ELSE @],
          probePn |-> 0]
  /\ b = [stream |-> [id \in Stream |-> NewRecv], total |-> 0, consumed |-> 0,
          max |-> ConnWindow, maxSent |-> ConnWindow, need |-> FALSE, opened |-> 0,
          maxStreams |-> StreamLimit, maxStreamsSent |-> StreamLimit, needStreams |-> FALSE]
  /\ space = [e \in End |-> NewSpace]
  /\ net = [e \in End |-> <<>>]
  /\ app = [id \in Stream |-> [state |-> "reading", read |-> 0]]
  /\ error = {}

Fault == plan.faults > 0 /\ plan' = [plan EXCEPT !.faults = @ - 1]

(* The applications.  poll_write, finish and reset at A. *)
Write(id) ==
  LET s == a.stream[id]
  IN /\ s.live /\ ~s.fin /\ ~s.reset
     /\ s.end < plan.units[id] /\ s.end - s.base < SendBuffer
     /\ a' = [a EXCEPT !.stream[id].end = @ + 1]
     /\ UNCHANGED <<b, space, net, app, error, plan>>

Finish(id) ==
  /\ id \in plan.used /\ a.stream[id].live /\ ~a.stream[id].fin
  /\ a' = [a EXCEPT !.stream[id].fin = TRUE]
  /\ UNCHANGED <<b, space, net, app, error, plan>>

ResetStream(id) ==
  /\ id \in plan.resets /\ a.stream[id].live /\ ~a.stream[id].reset
  /\ plan.late \/ ~a.stream[id].fin
  /\ a' = [a EXCEPT !.stream[id].reset = TRUE, !.stream[id].rtx = <<>>]
  /\ UNCHANGED <<b, space, net, app, error, plan>>

(* Faulty: the end is judged by the highest offset seen. *)
FinishedAtHighest(cb, id) ==
  LET s == cb.stream[id]
  IN s.state = "retired" \/ (s.fin # None /\ s.high >= s.fin)

(* poll_read at B: data first, then a reset, then the end. *)
Finished(cb, id) ==
  LET s == cb.stream[id]
  IN s.state = "retired" \/ (s.fin # None /\ s.off >= s.fin)
PollRead(id) ==
  LET s == b.stream[id]
      read == ReadStream(b, id)
  IN /\ app[id].state = "reading"
     /\ \/ /\ s.buffered > 0
           /\ b' = read /\ app' = [app EXCEPT ![id].read = @ + s.buffered]
        \/ /\ s.buffered = 0 /\ s.reset
           /\ b' = DiscardRecv(b, id) /\ app' = [app EXCEPT ![id].state = "reset"]
        \/ /\ s.buffered = 0 /\ ~s.reset /\ Finished(b, id)
           /\ b' = read /\ app' = [app EXCEPT ![id].state = "eof"]
     /\ UNCHANGED <<a, space, net, error, plan>>

CanRead(id) ==
  /\ app[id].state = "reading"
  /\ b.stream[id].buffered > 0 \/ b.stream[id].reset \/ Finished(b, id)

(* RecvStream::drop before the end of the stream. *)
DropRecv(id) ==
  /\ id \in plan.drops /\ app[id].state = "reading" /\ b.stream[id].state = "live"
  /\ b' = DiscardRecv(b, id) /\ app' = [app EXCEPT ![id].state = "dropped"]
  /\ UNCHANGED <<a, space, net, error, plan>>

-----------------------------------------------------------------------------
(* poll_transmit. *)

CongestionOk(e) == space[e].probe > 0 \/ Cardinality(DOMAIN space[e].sent) < Cwnd

Carried(frame) == frame.kind = "probe" => frame.size <= plan.path

(* seal_packet and record_sent; a packet the window had to admit pays the probe. *)
Sealed(sp, frame) ==
  [sp EXCEPT !.next = @ + 1,
             !.sent = [pn \in DOMAIN sp.sent \cup {sp.next} |->
                         IF pn = sp.next THEN frame ELSE sp.sent[pn]],
             !.probe = Max({@ - 1, 0}), !.ping = @ /\ frame.kind # "ping"]
Send(e, frame) ==
  /\ space' = [space EXCEPT ![e] = Sealed(@, frame)]
  /\ net' = IF Carried(frame)
            THEN [net EXCEPT ![Peer(e)] = Append(@, [pn |-> space[e].next, frame |-> frame])]
            ELSE net
  /\ UNCHANGED <<app, error, plan>>

SendAck(e) ==
  /\ space[e].ackPending
  /\ space' = [space EXCEPT ![e].ackPending = FALSE]
  /\ net' = [net EXCEPT ![Peer(e)] = Append(@, AckPacket(space[e].recv))]
  /\ UNCHANGED <<a, b, app, error, plan>>

(* stream_can_send, next_stream_to_reset, next_stream_to_send *)
Admitted(id) == a.stream[id].live /\ id <= a.maxStreams
OwesReset(id) == Admitted(id) /\ a.stream[id].reset /\ ~a.stream[id].resetSent
OwesData(id) ==
  LET s == a.stream[id]
  IN /\ Admitted(id) /\ ~s.reset
     /\ \/ s.rtx # <<>>
        \/ s.fin /\ ~s.finSent /\ s.off = s.end
        \/ s.off < s.end /\ s.off < s.max /\ a.total < a.maxData
OwesProbe == a.probePn = 0 /\ a.mtu.probe = None /\ ~Complete(a.mtu)


SendReset(id) ==
  /\ a' = [a EXCEPT !.stream[id].resetSent = TRUE]
  /\ Send("A", ResetFrame(id, a.stream[id].off))

SendStream(id) ==
  LET s == a.stream[id]
      len == IF s.off < s.end /\ s.off < s.max /\ a.total < a.maxData THEN 1 ELSE 0
      fin == s.fin /\ ~s.finSent /\ s.off + len = s.end
  IN IF s.rtx # <<>>
     THEN /\ a' = [a EXCEPT !.stream[id].rtx = Tail(@)]
          /\ Send("A", Head(s.rtx))
     ELSE /\ a' = [a EXCEPT !.total = @ + len, !.stream[id].off = @ + len,
                            !.stream[id].finSent = @ \/ fin]
          /\ Send("A", StreamFrame(id, s.off, len, fin))

SendProbe ==
  LET size == Midpoint(a.mtu)
  IN /\ a' = [a EXCEPT !.probePn = space["A"].next, !.mtu.probe = size]
     /\ Send("A", ProbeFrame(size))

TransmitA ==
  LET resets == {id \in Stream : OwesReset(id)}
      data == {id \in Stream : OwesData(id)}
  IN /\ CongestionOk("A")
     /\ UNCHANGED b
     /\ \/ /\ resets # {}
           /\ SendReset(Min(resets))
        \/ /\ resets = {} /\ data # {}
           /\ SendStream(Min(data))
        \/ /\ resets = {} /\ data = {} /\ OwesProbe
           /\ SendProbe
        \/ /\ resets = {} /\ data = {} /\ ~OwesProbe /\ space["A"].ping
           /\ Send("A", PingFrame) /\ UNCHANGED a

CanTransmitA ==
  /\ CongestionOk("A")
  /\ OwesProbe \/ space["A"].ping \/ \E id \in Stream : OwesReset(id) \/ OwesData(id)

(* build_flow_update_packet *)
Grown == {id \in Stream : b.stream[id].state = "live" /\ b.stream[id].need}
OwesFlow == b.need \/ b.needStreams \/ Grown # {}
SendFlow ==
  /\ b' = [b EXCEPT !.need = FALSE, !.maxSent = IF b.need THEN b.max ELSE @,
                    !.needStreams = FALSE,
                    !.maxStreamsSent = IF b.needStreams THEN b.maxStreams ELSE @,
                    !.stream = [id \in Stream |->
                                  IF id \in Grown
                                  THEN [b.stream[id] EXCEPT !.need = FALSE,
                                                         !.maxSent = b.stream[id].max]
                                  ELSE b.stream[id]]]
  /\ Send("B", FlowFrame(IF b.need THEN b.max ELSE None,
                         [id \in Grown |-> b.stream[id].max],
                         IF b.needStreams THEN b.maxStreams ELSE None))

TransmitB ==
  /\ CongestionOk("B")
  /\ UNCHANGED a
  /\ \/ OwesFlow /\ SendFlow
     \/ ~OwesFlow /\ space["B"].ping /\ Send("B", PingFrame) /\ UNCHANGED b

CanTransmitB == CongestionOk("B") /\ (OwesFlow \/ space["B"].ping)

-----------------------------------------------------------------------------
(* The network and process_packet. *)

Opened(e, p) ==
  [space[e] EXCEPT !.recv = @ \cup {p.pn}, !.ackPending = TRUE]

(* An acknowledgement names packets that were sent, or it is a violation. *)
ReceiveAck(e, p) ==
  LET conn == IF e = "A" THEN a ELSE b
      pns == p.frame.pns
      largest == Max(pns \cup {space[e].largest})
  IN IF Max(pns) >= space[e].next
     THEN /\ error' = error \cup {"ack"}
          /\ UNCHANGED <<a, b, space>>
     ELSE \E lost \in DetectLost(Without(space[e].sent, pns), largest) :
            LET r == RecvAck(e, conn, space[e], pns, lost)
            IN /\ space' = [space EXCEPT ![e] = r.sp]
               /\ a' = IF e = "A" THEN r.conn ELSE a
               /\ b' = IF e = "B" THEN r.conn ELSE b
               /\ UNCHANGED error

ReceiveData(p) ==
  LET f == p.frame
      bad == IF f.kind = "stream" THEN StreamErrors(b, f)
             ELSE IF f.kind = "reset" THEN ResetErrors(b, f) ELSE {}
  IN /\ error' = error \cup bad
     /\ space' = [space EXCEPT !["B"] = Opened("B", p)]
     /\ b' = CASE bad # {} \/ f.kind \notin {"stream", "reset"} -> b
               [] b.stream[f.id].state = "retired" -> b
               [] f.kind = "stream" -> RecvStream(b, f)
               [] OTHER -> RecvReset(b, f)
     /\ UNCHANGED a

(* MAX_DATA, MAX_STREAM_DATA and MAX_STREAMS raise limits and never lower them. *)
ReceiveFlow(p) ==
  LET f == p.frame
      limit(id) == IF id \in DOMAIN f.limits THEN f.limits[id] ELSE 0
  IN /\ space' = [space EXCEPT !["A"] = Opened("A", p)]
     /\ a' = IF f.kind # "flow" THEN a
             ELSE [a EXCEPT !.maxData = Max({@, f.data}), !.maxStreams = Max({@, f.count}),
                            !.stream = [id \in Stream |->
                                          IF @[id].live
                                          THEN [@[id] EXCEPT !.max = Max({@, limit(id)})]
                                          ELSE @[id]]]
     /\ UNCHANGED <<b, error>>

Receive(e, p) ==
  \/ /\ p.pn \in space[e].recv
     /\ UNCHANGED <<a, b, space, error>>
  \/ /\ p.pn \notin space[e].recv
     /\ \/ p.frame.kind = "ack" /\ ReceiveAck(e, p)
        \/ p.frame.kind # "ack" /\ e = "B" /\ ReceiveData(p)
        \/ p.frame.kind # "ack" /\ e = "A" /\ ReceiveFlow(p)

Deliver(e) ==
  /\ net[e] # <<>>
  /\ Receive(e, Head(net[e]))
  /\ net' = [net EXCEPT ![e] = Tail(@)]
  /\ UNCHANGED <<app, plan>>

DeliverLate(e) ==
  /\ Fault
  /\ \E i \in 2..Len(net[e]) :
       /\ Receive(e, net[e][i])
       /\ net' = [net EXCEPT ![e] = RemoveAt(@, i)]
  /\ UNCHANGED app

Lose(e) ==
  /\ Fault /\ net[e] # <<>>
  /\ net' = [net EXCEPT ![e] = Tail(@)]
  /\ UNCHANGED <<a, b, space, app, error>>

Duplicate(e) ==
  /\ Fault /\ net[e] # <<>>
  /\ net' = [net EXCEPT ![e] = Append(@, Head(@))]
  /\ UNCHANGED <<a, b, space, app, error>>

-----------------------------------------------------------------------------
(* Timers. *)

(* handle_timeout when a time threshold has passed. *)
LossTimeout(e) ==
  LET sp == space[e]
      all == Candidates(sp.sent, sp.largest)
  IN /\ sp.lossTime
     /\ \E last \in all :
          LET lost == {pn \in all : pn <= last}
              after == ProcessLost(e, IF e = "A" THEN a ELSE b, sp.sent, lost)
          IN /\ space' = [space EXCEPT ![e].sent = after.sent, ![e].lossTime = all # lost]
             /\ a' = IF e = "A" THEN after.conn ELSE a
             /\ b' = IF e = "B" THEN after.conn ELSE b
     /\ UNCHANGED <<net, app, error, plan>>

(* Nothing is under way and nothing can be sent before a timer fires. *)
Quiet ==
  /\ \A e \in End : net[e] = <<>> /\ ~space[e].ackPending /\ ~space[e].lossTime
  /\ ~CanTransmitA /\ ~CanTransmitB

(* queue_probe: the oldest packet in flight is owed again, by a packet that *)
(* may exceed the congestion window.                                        *)
QueueProbe(e) ==
  LET sp == space[e]
      pn == Min(DOMAIN sp.sent)
      rest == Without(sp.sent, {pn})
      c == sp.sent[pn]
  IN /\ space' = [space EXCEPT ![e] = [sp EXCEPT !.sent = rest, !.probe = @ + 1,
                                                 !.ping = @ \/ c.kind # "stream"]]
     /\ a' = IF e = "A" THEN RequeueA(a, rest, c) ELSE a
     /\ b' = IF e = "B" THEN RequeueB(b, c) ELSE b
     /\ UNCHANGED <<net, app, error>>

Pto(e) ==
  /\ DOMAIN space[e].sent # {} /\ ~space[e].lossTime
  /\ Quiet /\ UNCHANGED plan
  /\ QueueProbe(e)

(* A timer that fires while the answer is under way. *)
EarlyPto(e) ==
  /\ DOMAIN space[e].sent # {} /\ ~space[e].lossTime
  /\ ~Quiet /\ Fault
  /\ QueueProbe(e)

-----------------------------------------------------------------------------
Next ==
  \/ \E id \in Stream :
       Write(id) \/ Finish(id) \/ ResetStream(id) \/ PollRead(id) \/ DropRecv(id)
  \/ TransmitA \/ TransmitB
  \/ \E e \in End : \/ SendAck(e) \/ Deliver(e) \/ LossTimeout(e) \/ Pto(e)
                    \/ DeliverLate(e) \/ Lose(e) \/ Duplicate(e) \/ EarlyPto(e)

Spec == Init /\ [][Next]_vars

-----------------------------------------------------------------------------

(* Every unit charged to the connection's receive window is released exactly  *)
(* once, whether it is read, abandoned, cut off by a reset or arrives after   *)
(* that: what is outstanding is what live streams hold                        *)
(* (credit_connection_window and its callers).                                *)
CreditExact ==
  /\ b.total - b.consumed =
       MapThenSumSet(LAMBDA id : b.stream[id].high - b.stream[id].credited, Stream)
  /\ \A id \in Stream : b.stream[id].credited <= b.stream[id].high

(* The send buffer still holds everything that is in flight or waits to be    *)
(* sent again, after any mixture of losses, probes and acknowledgements       *)
(* (compact_send_buffer).                                                     *)
BufferHolds ==
  \A id \in Stream :
    LET s == a.stream[id]
    IN s.live /\ ~s.reset =>
         /\ s.base <= s.off
         /\ \A i \in DOMAIN s.rtx : s.base <= s.rtx[i].off
         /\ \A off \in InFlight(space["A"].sent, id) : s.base <= off

(* poll_read reports a clean end only of a stream the sender finished, and    *)
(* only after the reader got every unit that was written.                     *)
EofComplete ==
  \A id \in Stream : app[id].state = "eof" =>
    a.stream[id].fin /\ app[id].read = a.stream[id].end

Over(id) ==
  LET s == a.stream[id]
  IN ~s.live \/ s.reset \/ (s.fin /\ app[id].state # "dropped")
Released(id) ==
  ~a.stream[id].live /\ b.stream[id].state = "retired" /\ app[id].state # "reading"
Idle ==
  /\ Quiet /\ \A e \in End : DOMAIN space[e].sent = {}
  /\ \A id \in Stream : ~CanRead(id)


=============================================================================
