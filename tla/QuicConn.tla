------------------------------ MODULE QuicConn ------------------------------
(***************************************************************************)
(* mb-quic: two Conn state machines and the UDP path between them, which   *)
(* loses, duplicates and reorders datagrams.  A connection is a record and *)
(* every method of Conn is an operator from a record to a record; recv and *)
(* build_packet also return what they answer.  A byte of a stream is its   *)
(* offset, a packet has size one, and packets sealed by one side open at   *)
(* the other exactly when the keys of their level are installed there.     *)
(***************************************************************************)
EXTENDS Integers, Sequences, FiniteSets, SequencesExt, FiniteSetsExt

CONSTANTS
    Exact,          \* sides that list the packets they received, as RFC 9000 asks
                    \* of a peer; build_packet acknowledges all up to the largest
    StreamId,       \* streams the client opens, 1..n
    Window,         \* initial_max_data, and recv_window (1 << 20)
    APP_FRAME_BUDGET,
    INITIAL_WINDOW,
    MIN_WINDOW,
    PACKET_THRESHOLD,
    TimeThreshold,  \* 9/8 of the round trip, in ticks
    IdleTimeout,    \* effective idle timeout, in ticks
    max_queued      \* depth of both datagram queues (64)

(* Bounds of the model: bytes written and datagrams sent per side, clock,  *)
(* datagrams on the path, lost or duplicated by it, and how many datagrams *)
(* and closes the applications ask for (the sides in Caller do).           *)
CONSTANTS MaxWrite, MaxSend, MaxNow, MaxNet, MaxFaults, MaxCalls, Caller

Side == {"client", "server"}

Peer(e) == IF e = "client" THEN "server" ELSE "client"

Level == 0..2

Initial == 0

Handshake == 1

Data == 2

None == -1

VARIABLES
    conn,    \* side -> connection
    net,     \* datagrams on the path: [to, pkts]
    now,
    faults,  \* datagrams lost or duplicated so far
    calls,   \* datagrams and closes asked for so far
    log      \* ghost: side -> [sent, wrote, fin, read, err], streams by StreamId

vars == <<conn, net, now, faults, calls, log>>

Frames(t) == [t |-> t, off |-> 0, data |-> <<>>, fin |-> FALSE, id |-> 0, acks |-> {}]

Max0(a, b) == IF a >= b THEN a ELSE b

Min0(a, b) == IF a <= b THEN a ELSE b

-----------------------------------------------------------------------------
(* Flow control. *)
available(fc) == Max0(fc.limit - fc.used, 0)

consumes(fc, n) == n <= available(fc)

set_limit(fc, l) == [fc EXCEPT !.limit = Max0(@, l)]

(* The receive window moves once half of it is used. *)
extends(fc) == available(fc) * 2 <= Window

maybe_extend(fc) == IF extends(fc) THEN [fc EXCEPT !.limit = fc.used + Window] ELSE fc

-----------------------------------------------------------------------------
(* Streams: the send buffer and the reassembler. *)
SendStream == [queued |-> <<>>, send_off |-> 0, fin |-> FALSE, fin_sent |-> FALSE]

RecvStream == [chunks |-> {}, read_off |-> 0, final_size |-> None]

has_pending(s) == s.queued # <<>> \/ (s.fin /\ ~s.fin_sent)

(* The first n queued bytes as a STREAM frame, and the stream after them. *)
FinOf(s, n) == s.fin /\ n = Len(s.queued)

TakenFrame(s, id, n) ==
    [Frames("stream") EXCEPT !.id = id, !.off = s.send_off,
                             !.data = SubSeq(s.queued, 1, n), !.fin = FinOf(s, n)]

take(s, n) ==
    [queued |-> SubSeq(s.queued, n + 1, Len(s.queued)), send_off |-> s.send_off + n,
     fin |-> s.fin, fin_sent |-> s.fin_sent \/ FinOf(s, n)]

(* Mutant: the part that was already read is not cut off. *)
ingestUncut(r, off, data, fin) ==
    [r EXCEPT !.final_size = IF fin THEN off + Len(data) ELSE @,
              !.chunks = IF data = <<>> THEN @ ELSE @ \cup {<<Max0(off, r.read_off), data>>}]

ingest(r, off, data, fin) ==
    LET end == off + Len(data)
        start == Max0(off, r.read_off)
    IN [r EXCEPT
          !.final_size = IF fin THEN end ELSE @,
          !.chunks = IF \/ end <= r.read_off
                        \/ data = <<>>
                        \/ \E c \in @ : c[1] = start
                     THEN @
                     ELSE @ \cup {<<start, SubSeq(data, start - off + 1, Len(data))>>}]

(* What read() pops: [r, out], the chunks in the order of their offsets up *)
(* to the first gap.                                                       *)
FirstChunk(r) == CHOOSE c \in r.chunks : \A d \in r.chunks : c[1] <= d[1]

Unread(r, c) == SubSeq(c[2], r.read_off - c[1] + 1, Len(c[2]))

PopChunk(r, c) == [r EXCEPT !.chunks = @ \ {c}, !.read_off = @ + Len(Unread(r, c))]

RECURSIVE readFrom(_, _)
readFrom(r, out) ==
    IF r.chunks = {} \/ FirstChunk(r)[1] > r.read_off
    THEN [r |-> r, out |-> out]
    ELSE readFrom(PopChunk(r, FirstChunk(r)), out \o Unread(r, FirstChunk(r)))

is_finished(r) == r.final_size # None /\ r.read_off >= r.final_size

-----------------------------------------------------------------------------
(* Loss recovery and congestion control; sent[l] holds the packets that    *)
(* are neither acknowledged nor lost, with the frames sent_frames keeps.   *)
LossRecovery ==
    [sent |-> [l \in Level |-> {}], largest_acked |-> [l \in Level |-> None],
     cwnd |-> INITIAL_WINDOW, in_flight |-> 0, ssthresh |-> None, recovery_start |-> 0]

on_packet_sent(r, l, p) == [r EXCEPT !.sent[l] = @ \cup {p}, !.in_flight = @ + 1]

(* The window after one acknowledged packet: slow start, or avoidance. *)
on_acked(r) ==
    [r EXCEPT !.in_flight = Max0(@ - 1, 0),
              !.cwnd = @ + IF r.ssthresh = None \/ @ < r.ssthresh THEN 1 ELSE 1 \div Max0(@, 1)]

(* acks is the set of packet numbers the frame covers. *)
on_ack(r, l, acks) ==
    LET newly == {p \in r.sent[l] : p.pn \in acks}
        largest == Max(acks)
    IN FoldSet(LAMBDA p, acc : on_acked(acc),
               [r EXCEPT !.sent[l] = @ \ newly, !.largest_acked[l] = Max0(@, largest)],
               newly)

LostOf(r, l) ==
    {p \in r.sent[l] : /\ p.pn < r.largest_acked[l]
                       /\ \/ r.largest_acked[l] - p.pn >= PACKET_THRESHOLD
                          \/ now >= p.time + TimeThreshold}

on_loss(r, lost) ==
    LET latest == Max({p.time : p \in lost})
        half == Max0(r.cwnd \div 2, MIN_WINDOW)
        r1 == [r EXCEPT !.in_flight = Max0(@ - Cardinality(lost), 0)]
    IN IF latest <= r.recovery_start THEN r1
       ELSE [r1 EXCEPT !.recovery_start = latest, !.ssthresh = half, !.cwnd = half]

Carrying(lost) ==
    FoldLeft(LAMBDA fs, p : fs \o p.keep, <<>>, SetToSortSeq(lost, LAMBDA p, q : p.pn < q.pn))

requeue_lost(c, l, lost) ==
    IF lost = {} THEN c
    ELSE [c EXCEPT !.rec = [on_loss(@, lost) EXCEPT !.sent[l] = @ \ lost],
                   !.retransmit = @ \o Carrying(lost)]

detect_lost(c, l) == requeue_lost(c, l, LostOf(c.rec, l))

-----------------------------------------------------------------------------
(* The TLS session (rustls, external): the messages each side reads, and   *)
(* what it writes after reading k of them: the message, if any, and the    *)
(* level whose keys are ready after it.                                    *)
TlsReads(e) == IF e = "client" THEN <<"SH", "EE", "NST">> ELSE <<"CH", "FIN">>

TlsWrites(e, k) ==
    CASE e = "client" /\ k = 0 -> <<[msg |-> <<"CH">>, keys |-> None]>>
      [] e = "client" /\ k = 1 -> <<[msg |-> <<>>, keys |-> Handshake]>>
      [] e = "client" /\ k = 2 -> <<[msg |-> <<"FIN">>, keys |-> Data]>>
      [] e = "server" /\ k = 1 -> <<[msg |-> <<"SH">>, keys |-> Handshake],
                                    [msg |-> <<"EE">>, keys |-> Data]>>
      [] e = "server" /\ k = 2 -> <<[msg |-> <<"NST">>, keys |-> None]>>
      [] OTHER -> <<>>

is_handshaking(c) == c.tls < 2

(* The client learns the parameters from EE, the server from CH. *)
ParamsKnown(e, c) == c.tls >= (IF e = "client" THEN 2 ELSE 1)

(* read_handshake: a message out of turn is an error, and stays one. *)
read_handshake(e, c, m) ==
    IF ~c.tls_bad /\ c.tls < Len(TlsReads(e)) /\ TlsReads(e)[c.tls + 1] = m
    THEN [c EXCEPT !.tls = @ + 1]
    ELSE [c EXCEPT !.tls_bad = TRUE]

-----------------------------------------------------------------------------
Space == [next_pn |-> 0, largest_recv |-> None, ack_pending |-> FALSE, got |-> {},
          tx |-> <<>>, tx_off |-> 0, rx_next |-> 0, rx_buf |-> {}]

(* Conn::new, then set_now(1); the client has its Initial keys. *)
NewConn(e) ==
    [tls |-> 0, tls_bad |-> FALSE, wrote |-> FALSE, write_level |-> Initial,
     keys |-> IF e = "client" THEN {Initial} ELSE {},
     sp |-> [l \in Level |-> Space],
     initial_sent |-> FALSE, confirmed |-> FALSE, hs_done |-> FALSE,
     closed |-> FALSE, close_pending |-> FALSE, params |-> FALSE,
     max_bidi |-> 0, opened |-> {},
     snd |-> [s \in StreamId |-> SendStream], rcv |-> [s \in StreamId |-> RecvStream],
     out_dg |-> <<>>, in_dg |-> <<>>, rec |-> LossRecovery,
     send_fc |-> [limit |-> 0, used |-> 0], recv_fc |-> [limit |-> Window, used |-> 0],
     retransmit |-> <<>>, last_activity |-> 1]

is_established(c) == ~is_handshaking(c) /\ Data \in c.keys

(* CryptoStream::recv and read_in_order: a message is one unit long. *)
crypto_recv(sp, off, m) ==
    IF off + 1 <= sp.rx_next THEN sp
    ELSE [sp EXCEPT !.rx_buf = {x \in @ : x[1] # off} \cup {<<off, m>>}]

Popped(c, l, x) == [c EXCEPT !.sp[l].rx_buf = @ \ {x}, !.sp[l].rx_next = @ + 1]

ReadyCrypto(c, l) == {x \in c.sp[l].rx_buf : x[1] = c.sp[l].rx_next}

RECURSIVE feed_tls(_, _, _)
feed_tls(e, c, l) ==
    IF ReadyCrypto(c, l) = {} THEN c
    ELSE feed_tls(e, FoldSet(LAMBDA x, a : read_handshake(e, Popped(a, l, x), x[2]),
                             c, ReadyCrypto(c, l)), l)

(* One answer of write_handshake: the bytes go out at the level that was   *)
(* current, then the new keys change the level.                            *)
write_handshake(c, w) ==
    [c EXCEPT !.sp[c.write_level].tx = @ \o w.msg,
              !.keys = @ \cup ({w.keys} \cap Level),
              !.write_level = IF w.keys = None THEN @ ELSE w.keys]

(* What TLS writes after reading the messages from a + 1 to b. *)
TlsOutput(e, a, b) == FlattenSeq([i \in 1..(b - a) |-> TlsWrites(e, a + i)])

adopt_peer_params(e, c) ==
    IF c.params \/ ~ParamsKnown(e, c) THEN c
    ELSE [c EXCEPT !.params = TRUE, !.send_fc = set_limit(@, Window),
                   !.max_bidi = Cardinality(StreamId)]

(* Mutant: the server confirms before it has read the last message. *)
ConfirmHandshakeEarly(e, c) ==
    IF e = "client" \/ c.confirmed THEN c ELSE [c EXCEPT !.confirmed = TRUE, !.hs_done = TRUE]

ConfirmHandshake(e, c) ==
    IF e = "client" \/ is_handshaking(c) \/ c.confirmed THEN c
    ELSE [c EXCEPT !.confirmed = TRUE, !.hs_done = TRUE]

(* One level of pump_tls; acc is [c, err], and an error ends the pass. *)
FeedLevel(e, acc, l) ==
    IF acc.err THEN acc
    ELSE [c |-> feed_tls(e, acc.c, l),
          err |-> ReadyCrypto(acc.c, l) # {} /\ feed_tls(e, acc.c, l).tls_bad]

FlushTls(e, read, acc) ==
    IF acc.err THEN acc
    ELSE [c |-> ConfirmHandshake(e, adopt_peer_params(e,
                  FoldLeft(write_handshake, [acc.c EXCEPT !.wrote = TRUE],
                           (IF e = "client" /\ ~acc.c.wrote THEN TlsWrites(e, 0) ELSE <<>>)
                               \o TlsOutput(e, read, acc.c.tls)))),
          err |-> FALSE]

pump_tls(e, c) ==
    FlushTls(e, c.tls, FoldLeft(LAMBDA acc, l : FeedLevel(e, acc, l),
                                [c |-> c, err |-> FALSE], <<Initial, Handshake, Data>>))

-----------------------------------------------------------------------------
(* Receiving.  The accumulator is [c, err]; a frame after an error is not  *)
(* looked at, and the packet it came in counts as received all the same.   *)
StreamFrame(c, f) ==
    IF ~consumes(c.recv_fc, Len(f.data)) THEN [c |-> c, err |-> TRUE]
    ELSE [c |-> [c EXCEPT !.recv_fc.used = @ + Len(f.data),
                          !.rcv[f.id] = ingest(@, f.off, f.data, f.fin)], err |-> FALSE]

(* The receive queue drops its oldest datagram when it is full. *)
ingest_datagram(q, d) == Append(IF Len(q) >= max_queued THEN Tail(q) ELSE q, d)

(* The frames no Conn sends (PING, RESET_STREAM, STOP_SENDING, MAX_STREAMS, *)
(* MAX_STREAM_DATA and the BLOCKED ones) do not occur between two of them. *)
FrameEffect(e, l, c, f) ==
    CASE f.t = "ack" -> detect_lost([c EXCEPT !.rec = on_ack(@, l, f.acks)], l)
      [] f.t = "crypto" -> [c EXCEPT !.sp[l] = crypto_recv(@, f.off, f.data)]
      [] f.t = "max_data" -> [c EXCEPT !.send_fc = set_limit(@, f.off)]
      [] f.t = "close" -> [c EXCEPT !.closed = TRUE]
      [] f.t = "handshake_done" -> [c EXCEPT !.confirmed = @ \/ e = "client"]
      [] f.t = "datagram" -> [c EXCEPT !.in_dg = ingest_datagram(@, f.off)]

handle_frame(e, l, acc, f) ==
    IF acc.err THEN acc
    ELSE IF f.t = "stream" THEN StreamFrame(acc.c, f)
    ELSE [c |-> FrameEffect(e, l, acc.c, f), err |-> FALSE]

(* recv_long and recv_short down to decrypt_and_handle; the server takes   *)
(* its Initial keys from the first Initial packet.                         *)
HasKeys(e, c, p) == p.l \in c.keys \/ (e = "server" /\ p.l = Initial)

Opened(c, p) ==
    [c EXCEPT !.keys = @ \cup {p.l}, !.sp[p.l].largest_recv = Max0(@, p.pn),
              !.sp[p.l].got = @ \cup {p.pn}, !.sp[p.l].ack_pending = TRUE]

decrypt_and_handle(e, c, p) ==
    FoldLeft(LAMBDA a, f : handle_frame(e, p.l, a, f), [c |-> Opened(c, p), err |-> FALSE], p.frames)

(* One pass over the packets of a datagram: those whose level has no keys  *)
(* yet wait for the next pass, which follows pump_tls.                     *)
recv_one(e, acc, p) ==
    IF acc.r.err THEN acc
    ELSE IF HasKeys(e, acc.r.c, p)
    THEN [r |-> decrypt_and_handle(e, acc.r.c, p), deferred |-> acc.deferred, any |-> TRUE]
    ELSE [acc EXCEPT !.deferred = Append(@, p)]

RECURSIVE recv(_, _, _)
AfterPump(e, deferred, again, r) == IF r.err \/ ~again THEN r ELSE recv(e, r.c, deferred)

AfterPass(e, done) ==
    IF done.r.err THEN done.r
    ELSE AfterPump(e, done.deferred, done.deferred # <<>> /\ done.any, pump_tls(e, done.r.c))

recv(e, c, pkts) ==
    AfterPass(e, FoldLeft(LAMBDA acc, p : recv_one(e, acc, p),
                          [r |-> [c |-> c, err |-> FALSE], deferred |-> <<>>, any |-> FALSE],
                          pkts))

-----------------------------------------------------------------------------
(* Sending. *)
AckFrame(e, sp) ==
    [Frames("ack") EXCEPT !.acks = IF e \in Exact THEN sp.got ELSE 0..sp.largest_recv]

(* collect_stream_frames: [c, fs, remaining], stream by stream, while flow *)
(* control and the congestion window leave room.                           *)
OneFrame(a, id, n) ==
    [c |-> [a.c EXCEPT !.snd[id] = take(@, n), !.send_fc.used = @ + n],
     fs |-> Append(a.fs, TakenFrame(a.c.snd[id], id, n)), remaining |-> a.remaining - n]

RECURSIVE stream_frames(_, _)
stream_frames(a, id) ==
    IF a.remaining = 0 \/ ~has_pending(a.c.snd[id]) THEN a
    ELSE stream_frames(OneFrame(a, id, Min0(Len(a.c.snd[id].queued),
                                            Min0(a.remaining, APP_FRAME_BUDGET))), id)

Room(c) == Min0(available(c.send_fc), Max0(c.rec.cwnd - c.rec.in_flight, 0))

collect_stream_frames(c, fs) ==
    FoldLeft(stream_frames, [c |-> c, fs |-> fs, remaining |-> Room(c)],
             SetToSortSeq({id \in StreamId : has_pending(c.snd[id])}, <))

(* Frames are added in the order of build_packet; acc is [c, fs]. *)
AckIfPending(e, c, l) ==
    [c |-> [c EXCEPT !.sp[l].ack_pending = FALSE],
     fs |-> IF c.sp[l].ack_pending THEN <<AckFrame(e, c.sp[l])>> ELSE <<>>]

MaxDataAndRetransmit(acc) ==
    [c |-> [acc.c EXCEPT !.recv_fc = maybe_extend(@), !.retransmit = <<>>],
     fs |-> acc.fs \o (IF extends(acc.c.recv_fc)
                       THEN <<[Frames("max_data") EXCEPT !.off = maybe_extend(acc.c.recv_fc).limit]>>
                       ELSE <<>>) \o acc.c.retransmit]

WithStreams(acc) == collect_stream_frames(acc.c, acc.fs)

WithDatagrams(acc) ==
    [c |-> [acc.c EXCEPT !.out_dg = <<>>],
     fs |-> acc.fs \o [i \in DOMAIN acc.c.out_dg |-> [Frames("datagram") EXCEPT !.off = acc.c.out_dg[i]]]]

WithCrypto(l, acc) ==
    [c |-> [acc.c EXCEPT !.sp[l].tx = <<>>, !.sp[l].tx_off = @ + Len(acc.c.sp[l].tx),
                         !.hs_done = @ /\ l # Data],
     fs |-> acc.fs
            \o [i \in DOMAIN acc.c.sp[l].tx |->
                   [Frames("crypto") EXCEPT !.off = acc.c.sp[l].tx_off + i - 1,
                                            !.data = acc.c.sp[l].tx[i]]]
            \o (IF l = Data /\ acc.c.hs_done THEN <<Frames("handshake_done")>> ELSE <<>>)]

Closing(acc) ==
    [c |-> [acc.c EXCEPT !.close_pending = FALSE], fs |-> Append(acc.fs, Frames("close"))]

NextFrames(e, c, l) ==
    CASE l # Data -> WithCrypto(l, AckIfPending(e, c, l))
      [] l = Data /\ c.close_pending -> Closing(AckIfPending(e, c, l))
      [] OTHER -> WithCrypto(l, WithDatagrams(WithStreams(MaxDataAndRetransmit(AckIfPending(e, c, l)))))

ack_eliciting(fs) == \E i \in DOMAIN fs : fs[i].t \notin {"ack", "close"}

(* Mutant: only the handshake is kept for retransmission. *)
KeptCrypto(fs) == SelectSeq(fs, LAMBDA f : f.t = "crypto")

Kept(fs) == SelectSeq(fs, LAMBDA f : f.t \in {"crypto", "stream"})

(* build_packet: acc is [c, pkts]; a level without keys, or with nothing   *)
(* to say, adds no packet.                                                 *)
WithPacket(acc, l, pn, n) ==
    IF n.fs = <<>> THEN acc
    ELSE [c |-> [n.c EXCEPT
                   !.sp[l].next_pn = @ + 1,
                   !.rec = on_packet_sent(@, l, [pn |-> pn, time |-> now, keep |-> Kept(n.fs)]),
                   !.last_activity = IF ack_eliciting(n.fs) THEN now ELSE @,
                   !.closed = @ \/ Frames("close") \in ToSet(n.fs)],
          pkts |-> Append(acc.pkts, [l |-> l, pn |-> pn, frames |-> n.fs])]

build_packet(e, acc, l) ==
    IF l \notin acc.c.keys THEN acc
    ELSE WithPacket(acc, l, acc.c.sp[l].next_pn, NextFrames(e, acc.c, l))

FirstFlight(e, c) == IF e = "client" /\ ~c.initial_sent THEN pump_tls(e, c).c ELSE c

poll_transmit(e, c) ==
    FoldLeft(LAMBDA a, l : build_packet(e, a, l),
             [c |-> FirstFlight(e, c), pkts |-> <<>>], <<Initial, Handshake, Data>>)

-----------------------------------------------------------------------------
Init ==
    /\ conn = [e \in Side |-> NewConn(e)]
    /\ net = {}
    /\ now = 1
    /\ faults = 0
    /\ calls = 0
    /\ log = [e \in Side |-> [sent |-> 0, wrote |-> [s \in StreamId |-> 0], fin |-> [s \in StreamId |-> FALSE],
                              read |-> [s \in StreamId |-> <<>>], err |-> FALSE]]

Transmit(e) ==
    /\ ~conn[e].closed /\ Cardinality(net) < MaxNet /\ log[e].sent < MaxSend[e]
    /\ \E t \in {poll_transmit(e, conn[e])} :
          /\ t.pkts # <<>>
          /\ conn' = [conn EXCEPT ![e] = [t.c EXCEPT !.initial_sent = TRUE]]
          /\ net' = net \cup {[to |-> Peer(e), pkts |-> t.pkts]}
    /\ log' = [log EXCEPT ![e].sent = @ + 1]
    /\ UNCHANGED <<now, faults, calls>>

(* A datagram arrives; the path may keep a copy of it. *)
Deliver(d, again) ==
    /\ again => faults < MaxFaults
    /\ \E r \in {recv(d.to, conn[d.to], d.pkts)} :
          /\ conn' = [conn EXCEPT ![d.to] = r.c]
          /\ log' = [log EXCEPT ![d.to].err = @ \/ r.err]
    /\ net' = IF again THEN net ELSE net \ {d}
    /\ faults' = IF again THEN faults + 1 ELSE faults
    /\ UNCHANGED <<now, calls>>

Lose(d) ==
    /\ faults < MaxFaults
    /\ net' = net \ {d}
    /\ faults' = faults + 1
    /\ UNCHANGED <<conn, now, calls, log>>

(* The client opens its streams in order, up to the limit of the peer. *)
open_bidi_stream(s) ==
    /\ s = Cardinality(conn["client"].opened) + 1
    /\ Cardinality(conn["client"].opened) < conn["client"].max_bidi
    /\ conn' = [conn EXCEPT !["client"].opened = @ \cup {s}]
    /\ UNCHANGED <<net, now, faults, calls, log>>

(* A side writes on a stream it opened or has seen. *)
write_stream(e, s, fin) ==
    /\ \/ s \in conn[e].opened
       \/ e = "server" /\ conn[e].rcv[s] # RecvStream
    /\ log[e].wrote[s] < MaxWrite[e]
    /\ fin => log[e].wrote[s] + 1 = MaxWrite[e]
    /\ conn' = [conn EXCEPT ![e].snd[s].queued = Append(@, log[e].wrote[s]),
                            ![e].snd[s].fin = @ \/ fin]
    /\ log' = [log EXCEPT ![e].wrote[s] = @ + 1, ![e].fin[s] = fin]
    /\ UNCHANGED <<net, now, faults, calls>>

read_stream(e, s) ==
    LET r == readFrom(conn[e].rcv[s], <<>>)
    IN /\ r.out # <<>>
       /\ conn' = [conn EXCEPT ![e].rcv[s] = r.r]
       /\ log' = [log EXCEPT ![e].read[s] = @ \o r.out]
       /\ UNCHANGED <<net, now, faults, calls>>

send_datagram(e) ==
    /\ e \in Caller /\ calls < MaxCalls /\ calls' = calls + 1
    /\ is_established(conn[e]) /\ Len(conn[e].out_dg) < max_queued
    /\ conn' = [conn EXCEPT ![e].out_dg = Append(@, 1)]
    /\ UNCHANGED <<net, now, faults, log>>

recv_datagram(e) ==
    /\ conn[e].in_dg # <<>>
    /\ conn' = [conn EXCEPT ![e].in_dg = Tail(@)]
    /\ UNCHANGED <<net, now, faults, calls, log>>

close(e) ==
    /\ e \in Caller /\ calls < MaxCalls /\ calls' = calls + 1
    /\ ~conn[e].close_pending /\ ~conn[e].closed
    /\ conn' = [conn EXCEPT ![e].close_pending = TRUE]
    /\ UNCHANGED <<net, now, faults, log>>

(* The idle timer closes without a word; otherwise loss detection runs in  *)
(* every space.  The probe timer only raises its own backoff.              *)
on_timeout(e) ==
    LET c == conn[e]
        swept == FoldLeft(detect_lost, c, <<Initial, Handshake, Data>>)
    IN /\ ~c.closed
       /\ IF now >= c.last_activity + IdleTimeout
          THEN conn' = [conn EXCEPT ![e].closed = TRUE]
          ELSE swept # c /\ conn' = [conn EXCEPT ![e] = swept]
       /\ UNCHANGED <<net, now, faults, calls, log>>

Tick ==
    /\ now < MaxNow
    /\ now' = now + 1
    /\ UNCHANGED <<conn, net, faults, calls, log>>

Next ==
    \/ \E e \in Side : Transmit(e) \/ on_timeout(e) \/ close(e)
    \/ \E e \in Side : send_datagram(e) \/ recv_datagram(e)
    \/ \E d \in net : Lose(d) \/ \E again \in BOOLEAN : Deliver(d, again)
    \/ \E s \in StreamId : open_bidi_stream(s)
    \/ \E e \in Side, s \in StreamId : read_stream(e, s) \/ \E fin \in BOOLEAN : write_stream(e, s, fin)
    \/ Tick

Spec == Init /\ [][Next]_vars

-----------------------------------------------------------------------------
(* What RecvStream::read returns is what the peer wrote, in order and      *)
(* without a gap, whatever the path did to the packets, and a stream is    *)
(* finished only once all of it was read.                                  *)
StreamInOrder ==
    \A e \in Side, s \in StreamId :
        /\ log[e].read[s] = [i \in 1..Len(log[e].read[s]) |-> i - 1]
        /\ is_finished(conn[e].rcv[s]) =>
              log[Peer(e)].fin[s] /\ Len(log[e].read[s]) = log[Peer(e)].wrote[s]

(* The bytes of a stream in packets not settled yet or in the queue. *)
Carried(c, s) ==
    {f.off + i - 1 : <<f, i>> \in
        {<<f, i>> \in ToSet(c.retransmit \o FlattenSeq(SetToSeq({p.keep : p \in c.rec.sent[Data]})))
                      \X (1..MaxWrite["client"]) :
            f.t = "stream" /\ f.id = s /\ i <= Len(f.data)}}

Arrived(r) ==
    0..(r.read_off - 1) \cup UNION {c[1]..(c[1] + Len(c[2]) - 1) : c \in r.chunks}

(* What left the send buffer is accounted for.  A byte has arrived, or is  *)
(* in a packet that may still be declared lost, or waits in                *)
(* pending_retransmit, as long as the peer refused no frame; the           *)
(* congestion controller counts as in flight exactly what LossRecovery     *)
(* holds as neither acknowledged nor lost; and new bytes stay within a     *)
(* limit that the peer will accept.                                        *)
StreamDataKept ==
    \A e \in Side : LET c == conn[e] IN
        /\ ~log[Peer(e)].err => \A s \in StreamId :
              0..(c.snd[s].send_off - 1) \subseteq Carried(c, s) \cup Arrived(conn[Peer(e)].rcv[s])
        /\ c.rec.in_flight = FoldSet(LAMBDA l, n : n + Cardinality(c.rec.sent[l]), 0, Level)
        /\ c.send_fc.used <= c.send_fc.limit /\ c.send_fc.limit <= conn[Peer(e)].recv_fc.limit

(* A client that takes the handshake as confirmed has a server that        *)
(* finished it, and a server that finished it has a client that did.       *)
HandshakeAgrees ==
    /\ conn["client"].confirmed => is_established(conn["server"])
    /\ is_established(conn["server"]) => is_established(conn["client"])
=============================================================================
