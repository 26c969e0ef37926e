----------------------------- MODULE MeshSender -----------------------------
(***************************************************************************)
(* The sending half of a mesh peer: MeshPeerSender (egress) and            *)
(* MeshPeerIngressSender (ingress) in front of one UdpPacketLoop.  Callers *)
(* put requests on a control or a data queue and wait for the answer; one  *)
(* driver task encodes them, collects data into batches, hands them to the *)
(* bounded outbound queue and flushes it to the socket under a timeout.    *)
(*                                                                         *)
(* A frame is its class and the length of its encoding.  A datagram        *)
(* carries the ticket of its request (the order in which the queue took    *)
(* it) and its position k in that request.                                 *)
(***************************************************************************)
EXTENDS Integers, Sequences, SequencesExt, FiniteSets

CONSTANTS Calls,          \* the calls made: [frames, repair, peer] by caller
          Copies,         \* policy.send_copies() of the egress
          ControlBound, DataBound,    \* CONTROL_QUEUE_BOUND, DATA_QUEUE_BOUND
          FlushBatch,     \* DATA_FLUSH_BATCH_DATAGRAMS
          Capacity,       \* OUTBOUND_QUEUE_CAPACITY
          Pmtu, MaxPayload,           \* CONSERVATIVE_PMTU, MAX_UDP_PAYLOAD_BYTES
          MaxMmsg, MaxGso             \* MAX_MMSG, MAX_GSO_SEGMENTS

VARIABLES
    calls,       \* per caller: requests still to make, waiting, the result
    control,     \* the control queue
    data,        \* the data queue
    driver,      \* SenderDriver: mode, pending_data and the flush in progress
    outbound,    \* DatagramQueues.outbound of the packet loop
    gso,         \* ~gso_disabled
    wire,        \* datagrams the kernel accepted, in order
    tickets,     \* requests accepted so far
    remembered,  \* frames in the repair ring of the policy (egress only)
    side         \* "egress" or "ingress", fixed by Init

vars == <<calls, control, data, driver, outbound, gso, wire, tickets, remembered, side>>

Senders == DOMAIN Calls

(* is_control_frame. *)
is_control_frame(frame) == frame.semantic \notin {"Datagram", "Stream"}

(* What one call puts on the queues: send_repair_bytes is one control      *)
(* request; data frames travel together; as soon as one frame of the list  *)
(* is a control frame, every frame is a request of its own.                *)
RequestsOf(call) ==
    IF call.repair \/ ~\E f \in Range(call.frames) : is_control_frame(f)
    THEN << call.frames >>
    ELSE [i \in 1..Len(call.frames) |-> << call.frames[i] >>]

IsControl(c, frames) == Calls[c].repair \/ is_control_frame(frames[1])

(* An empty request list is answered Ok without queueing anything; the     *)
(* ingress sends no repair bytes.                                          *)
NewCall(call) ==
    IF call.frames = <<>> \/ (call.repair /\ side = "ingress")
    THEN [todo |-> <<>>, waiting |-> FALSE, result |-> "Ok"]
    ELSE [todo |-> RequestsOf(call), waiting |-> FALSE, result |-> "none"]

(* The answer r of the request a caller waits for: an error ends the call. *)
Answered(call, r) ==
    IF r = "Ok" /\ Len(call.todo) > 1
    THEN [call EXCEPT !.todo = Tail(@), !.waiting = FALSE]
    ELSE [call EXCEPT !.todo = <<>>, !.waiting = FALSE, !.result = r]

AnswerAll(who, r) ==
    [c \in Senders |-> IF c \in who THEN Answered(calls[c], r) ELSE calls[c]]

Idle == [mode |-> "run", collecting |-> FALSE, pending |-> <<>>,
         batch |-> <<>>, sent |-> 0, dropped |-> 0, completions |-> {}]

Init ==
    /\ side \in {"egress", "ingress"}
    /\ calls = [c \in Senders |-> NewCall(Calls[c])]
    /\ control = <<>> /\ data = <<>> /\ driver = Idle
    /\ outbound = <<>> /\ gso = TRUE /\ wire = <<>> /\ tickets = 0
    /\ remembered = {}

(* send_frame, send_data_frames and send_repair_bytes up to the await:     *)
(* try_send on the queue of the class, a full queue is the caller's error. *)
send_frame(c) ==
    /\ calls[c].todo # <<>> /\ ~calls[c].waiting
    /\ LET frames == Head(calls[c].todo)
           request == [by |-> c, frames |-> frames, ticket |-> tickets + 1]
           onControl == IsControl(c, frames)
           full == IF onControl THEN Len(control) >= ControlBound
                                ELSE Len(data) >= DataBound
       IN  IF full
           THEN /\ calls' = [calls EXCEPT ![c] = Answered(@, "BufferFull")]
                /\ UNCHANGED <<control, data, tickets>>
           ELSE /\ calls' = [calls EXCEPT ![c].waiting = TRUE]
                /\ tickets' = tickets + 1
                /\ control' = IF onControl THEN Append(control, request) ELSE control
                /\ data' = IF onControl THEN data ELSE Append(data, request)
    /\ UNCHANGED <<driver, outbound, gso, wire, remembered, side>>

(* encode_frame_datagrams of the egress sends every frame send_copies      *)
(* times, repair bytes and the ingress encode_frame_datagrams once.        *)
CopiesOf(request) ==
    IF side = "egress" /\ ~Calls[request.by].repair THEN Copies ELSE 1

ingress_encode_frame_datagrams(request, n) ==
    [i \in 1..(n * Len(request.frames)) |->
            [by |-> request.by, ticket |-> request.ticket, k |-> i,
             control |-> IsControl(request.by, request.frames),
             size |-> request.frames[1 + (i - 1) \div n].size,
             destination |-> Calls[request.by].peer]]

encode_frame_datagrams(request) == ingress_encode_frame_datagrams(request, CopiesOf(request))

(* A frame longer than a UDP payload fails its whole request; the data     *)
(* frames before it are in the repair ring by then.                        *)
Encodes(request) ==
    Calls[request.by].repair \/ \A f \in Range(request.frames) : f.size <= MaxPayload

Remembers(request) ==
    {<<request.ticket, i>> : i \in {n \in 1..Len(request.frames) :
        /\ side = "egress" /\ ~Calls[request.by].repair
        /\ ~is_control_frame(request.frames[n])
        /\ \A m \in 1..n : request.frames[m].size <= MaxPayload}}

push_request(requests) ==
    LET good == SelectSeq(requests, Encodes)
    IN  [i \in DOMAIN good |->
            [by |-> good[i].by, datagrams |-> encode_frame_datagrams(good[i])]]

TooLarge(requests) == {r.by : r \in {q \in Range(requests) : ~Encodes(q)}}

(* DatagramQueues::enqueue_outbound for the datagrams of one request, up   *)
(* to the first one refused; those already queued stay queued.             *)
try_enqueue(acc, pending) ==
    LET room == Capacity - Len(acc.outbound)
    IN  IF Len(pending.datagrams) <= room
        THEN [acc EXCEPT !.outbound = @ \o pending.datagrams, !.completions = @ \union {pending.by}]
        ELSE [acc EXCEPT !.outbound = @ \o SubSeq(pending.datagrams, 1, room),
                         !.refused = @ \union {pending.by}]

(* The conservative path-MTU guard of flush. *)
FitsPmtu(d) == d.size <= Pmtu

(* flush_pending's reading of FlushOutcome. *)
FlushResult(f) == IF f.sent = 0 /\ f.dropped > 0 THEN "PayloadTooLarge" ELSE "Ok"

(* flush_pending: queue every request, answer those refused, then drain    *)
(* the queue and start the send; `told` are callers already answered.      *)
flush_pending(pending, told, d) ==
    LET q == FoldLeft(try_enqueue, [outbound |-> outbound, completions |-> {}, refused |-> {}], pending)
        batch == SelectSeq(q.outbound, FitsPmtu)
        refusals == [c \in Senders |->
                        IF c \in told THEN Answered(calls[c], "PayloadTooLarge")
                        ELSE IF c \in q.refused THEN Answered(calls[c], "BufferFull")
                        ELSE calls[c]]
    IN  IF q.completions = {}
        THEN /\ outbound' = q.outbound /\ calls' = refusals /\ driver' = d
        ELSE /\ outbound' = <<>> /\ calls' = refusals
             /\ driver' = [d EXCEPT !.mode = "flush", !.batch = batch,
                                    !.sent = 0, !.dropped = Len(q.outbound) - Len(batch),
                                    !.completions = q.completions]

(* handle_control: everything on the control queue in one flush.  Control  *)
(* is polled first, in the run loop and while data is collected.           *)
handle_control ==
    /\ driver.mode = "run" /\ control # <<>>
    /\ control' = <<>>
    /\ flush_pending(push_request(control), TooLarge(control), driver)
    /\ remembered' = remembered \union UNION {Remembers(r) : r \in Range(control)}
    /\ UNCHANGED <<data, gso, wire, tickets, side>>

PendingDatagrams == FoldLeft(LAMBDA n, p : n + Len(p.datagrams), 0, driver.pending)
BatchIsFull == driver.collecting /\ PendingDatagrams >= FlushBatch

(* Mutant: a request that cannot be encoded is dropped without an answer. *)
push_dataSilent ==
    /\ driver.mode = "run" /\ ~BatchIsFull
    /\ control = <<>> /\ data # <<>>
    /\ data' = Tail(data)
    /\ driver' = [driver EXCEPT !.pending = @ \o push_request(<<Head(data)>>), !.collecting = TRUE]
    /\ remembered' = remembered \union Remembers(Head(data))
    /\ UNCHANGED <<calls, control, outbound, gso, wire, tickets, side>>

(* push_data in the run loop (which starts a collection) or in a running   *)
(* collection.                                                             *)
push_data ==
    /\ driver.mode = "run" /\ ~BatchIsFull
    /\ control = <<>> /\ data # <<>>
    /\ data' = Tail(data)
    /\ driver' = [driver EXCEPT !.pending = @ \o push_request(<<Head(data)>>), !.collecting = TRUE]
    /\ calls' = AnswerAll(TooLarge(<<Head(data)>>), "PayloadTooLarge")
    /\ remembered' = remembered \union Remembers(Head(data))
    /\ UNCHANGED <<control, outbound, gso, wire, tickets, side>>

(* collect_data_until_flush ends: the batch is full, or the delay expires  *)
(* while both queues are empty.                                            *)
flush_pending_data ==
    /\ driver.mode = "run" /\ driver.collecting
    /\ BatchIsFull \/ (control = <<>> /\ data = <<>>)
    /\ flush_pending(driver.pending, {}, [driver EXCEPT !.pending = <<>>, !.collecting = FALSE])
    /\ UNCHANGED <<control, data, gso, wire, tickets, remembered, side>>

Finished(d) == [d EXCEPT !.mode = "run", !.batch = <<>>, !.completions = {}, !.sent = 0, !.dropped = 0]

(* gso_prefix: how many datagrams at the front share destination and size  *)
(* and fit one super-buffer; fewer than two is no GSO shape.               *)
gso_prefix(batch) ==
    LET legal(n) == /\ n * batch[1].size <= MaxPayload
                    /\ \A i \in 1..n : /\ batch[i].destination = batch[1].destination
                                       /\ batch[i].size = batch[1].size
        upto == IF Len(batch) < MaxGso THEN Len(batch) ELSE MaxGso
        lengths == {n \in 2..upto : legal(n)}
    IN  IF lengths = {} THEN 0 ELSE CHOOSE n \in lengths : \A m \in lengths : m <= n

Sent(n) ==
    /\ wire' = wire \o SubSeq(driver.batch, 1, n)
    /\ driver' = [driver EXCEPT !.batch = SubSeq(@, n + 1, Len(@)), !.sent = @ + n]
    /\ UNCHANGED <<calls, control, data, outbound, tickets, remembered, side>>

(* send_batch, a GSO super-buffer taken by the kernel. *)
sendmsg_gso ==
    /\ driver.mode = "flush" /\ driver.batch # <<>> /\ gso
    /\ gso_prefix(driver.batch) > 0
    /\ Sent(gso_prefix(driver.batch))
    /\ UNCHANGED gso

(* send_batch, the sendmmsg path: GSO is off, has no shape, or has just    *)
(* been refused with a fallback error, which turns it off for good.        *)
sendmmsg ==
    /\ driver.mode = "flush" /\ driver.batch # <<>>
    /\ \E n \in 1..MaxMmsg : n <= Len(driver.batch) /\ Sent(n)
    /\ gso' = (gso /\ gso_prefix(driver.batch) = 0)

Complete(result) ==
    /\ calls' = AnswerAll(driver.completions, result)
    /\ driver' = Finished(driver)
    /\ UNCHANGED <<control, data, outbound, gso, wire, tickets, remembered, side>>

(* The flush returns: every datagram of the batch was accepted. *)
FlushReturns ==
    /\ driver.mode = "flush" /\ driver.batch = <<>>
    /\ Complete(FlushResult(driver))

(* Mutant: the timeout of a flush is taken for its end. *)
FlushFailsOk ==
    /\ driver.mode = "flush" /\ driver.batch # <<>>
    /\ Complete("Ok")

(* A send error, or the timeout around the flush: the rest of the batch is *)
(* gone with the future that held it.                                      *)
FlushFails ==
    /\ driver.mode = "flush" /\ driver.batch # <<>>
    /\ Complete("Closed")

(* The run loop after the last sender handle is dropped. *)
Closed ==
    /\ \A c \in Senders : calls[c].todo = <<>>
    /\ driver = Idle /\ control = <<>> /\ data = <<>>
    /\ driver' = [Idle EXCEPT !.mode = "closed"]
    /\ UNCHANGED <<calls, control, data, outbound, gso, wire, tickets, remembered, side>>

Next ==
    \/ \E c \in Senders : send_frame(c)
    \/ handle_control \/ push_data \/ flush_pending_data
    \/ sendmsg_gso \/ sendmmsg \/ FlushReturns \/ FlushFails
    \/ Closed

(* The driver is one task that is always polled again, and tokio::timeout  *)
(* ends a flush that the socket holds up.                                  *)
Drive == handle_control \/ push_data \/ flush_pending_data \/ FlushReturns \/ FlushFails

Spec == Init /\ [][Next]_vars /\ (\A c \in Senders : WF_vars(send_frame(c))) /\ WF_vars(Drive)

-----------------------------------------------------------------------------
OnWire(c) == {d \in Range(wire) : d.by = c}

(* A caller that was told Ok has had every datagram of every request       *)
(* accepted by the kernel, whatever its neighbours in the batch met,       *)
(* except those longer than the path-MTU guard, which a batch that also    *)
(* sent something drops without telling (flush_pending looks at sent = 0   *)
(* only); what is left queued between two flushes belongs to callers that  *)
(* were told BufferFull; and a data datagram the egress has sent is in the *)
(* repair ring, so that a NACK for it can be answered.                     *)
OkIsSent ==
    /\ \A c \in Senders : calls[c].result = "Ok" /\ ~(Calls[c].repair /\ side = "ingress") =>
          \A size \in {f.size : f \in Range(Calls[c].frames)} : size <= Pmtu =>
              Cardinality({d \in OnWire(c) : d.size = size})
                  >= Cardinality({j \in DOMAIN Calls[c].frames : Calls[c].frames[j].size = size})
    /\ driver.mode # "flush" => \A d \in Range(outbound) : calls[d.by].result = "BufferFull"
    /\ \A d \in Range(wire) : side = "egress" /\ ~d.control =>
          <<d.ticket, 1 + (d.k - 1) \div Copies>> \in remembered

(* A caller waits; every wait must end, whatever the socket does. *)
Waits(c) == calls[c].result = "none"
=============================================================================
