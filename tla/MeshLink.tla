------------------------------- MODULE MeshLink -------------------------------
(***************************************************************************)
(* The life of one mesh-peer session over Secure UDP, a stream or a        *)
(* datagram session, from the egress adapter of the sending bus to the bus *)
(* of the receiving node: the open handshake, the demultiplexing driver    *)
(* and the two halves of mesh-bus-egress-mesh-peer-udp; the table entries, *)
(* the parked data, the response pump and the replies of                   *)
(* mesh-bus-ingress-mesh-peer-udp.  The delivery mode is Steer: nothing is *)
(* retransmitted (MeshRepair models the Repair mode of a stream).  MeshSec *)
(* is configured, so a datagram is opened at most once: the network loses  *)
(* and reorders, and a second copy is dropped by the replay cache before   *)
(* any of this state.  Every session has a socket of its own, so no other  *)
(* session shares its keys; other sessions only push it out of the tables. *)
(***************************************************************************)
EXTENDS ReorderOps, FiniteSets

CONSTANTS
    NoFamily,       \* no entry in family_states
    DataBound,      \* STREAM_DATA_BOUND and DATAGRAM_BOUND
    EventBound,     \* STREAM_EVENT_BOUND
    PendingMax,     \* frames that fit in pending_stream_data_max_bytes
    Loads,          \* bound: pairs of the payloads sent in each direction
    MaxLoss,        \* bound: datagrams the network loses
    MaxEvict        \* bound: evictions by other sessions

ASSUME LinkAssumption ==
    {DataBound, EventBound, PendingMax} \subseteq Nat \ {0}

VARIABLES
    kind,       \* "stream" or "datagram"
    eg,         \* the egress end
    ing,        \* the ingress end: its table entries, pump and bus session
    up, down,   \* datagrams in flight to the ingress and to the egress
    load, losses, evictions

budgets == <<load, losses, evictions>>
vars == <<kind, eg, ing, up, down, budgets>>

(* A frame: its type, its sequence number, the bus session it comes from.  *)
(* Control frames carry neither (frame_event_meta).                        *)
Frame(t, n, g) == [t |-> t, n |-> n, g |-> g]
Control(t) == Frame(t, 0, 0)
Cut(q, n) == SubSeq(q, 1, IF n < Len(q) THEN n ELSE Len(q))

(* The egress session: the driver with its family and inboxes, the halves, *)
(* and what the reader has been given (got) and told (ended, last_error).  *)
EgressSession ==
    [phase |-> "idle", next_seq |-> 1, shut |-> FALSE, closed |-> FALSE, driver |-> TRUE,
     control |-> <<>>, data |-> <<>>, event |-> <<>>, pending |-> <<>>, terminal |-> "none",
     waiting |-> FALSE, family |-> NoFamily, got |-> <<>>, ended |-> FALSE,
     last_error |-> "none", holed |-> FALSE, timedout |-> FALSE]

(* The ingress: session is the entry of sessions or stream_sessions; live  *)
(* counts the bus sessions opened and not closed; gen the ones ever opened.*)
IngressSession ==
    [session |-> "none", family |-> NoFamily, parked |-> <<>>, pump |-> FALSE, seq |-> 1,
     bus |-> <<>>, live |-> 0, gen |-> 0, lostclose |-> FALSE, eof |-> FALSE]

Init ==
    /\ kind \in {"stream", "datagram"}
    /\ eg = EgressSession /\ ing = IngressSession
    /\ up = {} /\ down = {} /\ load \in Loads /\ losses = 0 /\ evictions = 0

(***************************************************************************)
(* The egress: open, send, close                                           *)
(***************************************************************************)

(* open_for_frame: the session is opened and connect sends StreamOpen.  A  *)
(* send error is the answer and the session is dropped.                    *)
connect ==
    /\ kind = "stream" /\ eg.phase = "idle"
    /\ \/ /\ eg' = [eg EXCEPT !.phase = "opening"]
          /\ up' = up \cup {Control("StreamOpen")}
       \/ /\ eg' = [eg EXCEPT !.phase = "gone", !.driver = FALSE]
          /\ UNCHANGED up
    /\ UNCHANGED <<kind, ing, down, budgets>>

(* open_for_datagram: DatagramOpen is sent and not answered. *)
open_datagram ==
    /\ kind = "datagram" /\ eg.phase = "idle"
    /\ \/ /\ eg' = [eg EXCEPT !.phase = "up"]
          /\ up' = up \cup {Control("DatagramOpen")}
       \/ /\ eg' = [eg EXCEPT !.phase = "gone", !.driver = FALSE]
          /\ UNCHANGED up
    /\ UNCHANGED <<kind, ing, down, budgets>>

(* Mutant: the session is connected as soon as StreamOpen is sent. *)
connect_answerEarly ==
    /\ eg.phase = "opening"
    /\ eg' = [eg EXCEPT !.phase = "up"]
    /\ UNCHANGED <<kind, ing, up, down, budgets>>

(* connect, its wait: the first answer that carries the token of this open *)
(* decides.  One open, one token: the answer is for it.                    *)
connect_answer ==
    /\ eg.phase = "opening" /\ eg.control # <<>>
    /\ eg' = IF Head(eg.control) = "StreamOpenAccepted"
             THEN [eg EXCEPT !.phase = "up", !.control = Tail(@)]
             ELSE [eg EXCEPT !.phase = "gone", !.driver = FALSE]
    /\ UNCHANGED <<kind, ing, up, down, budgets>>

(* connect, its timeout: the session is dropped and the peer is not told. *)
connect_timeout ==
    /\ eg.phase = "opening"
    /\ eg' = [eg EXCEPT !.phase = "gone", !.driver = FALSE, !.timedout = TRUE]
    /\ UNCHANGED <<kind, ing, up, down, budgets>>

DataFrame == IF kind = "stream" THEN "StreamData" ELSE "DatagramSend"
CloseFrame == IF kind = "stream" THEN "StreamClose" ELSE "DatagramClose"

(* send, mesh_send_to: the number is taken; a full queue spends it. *)
send ==
    /\ eg.phase = "up" /\ ~eg.shut /\ eg.next_seq <= load[1]
    /\ eg' = [eg EXCEPT !.next_seq = @ + 1]
    /\ \/ up' = up \cup {Frame(DataFrame, eg.next_seq, 0)}
       \/ UNCHANGED up
    /\ UNCHANGED <<kind, ing, down, budgets>>

shutdown_write ==
    /\ kind = "stream" /\ eg.phase = "up" /\ ~eg.shut
    /\ eg' = [eg EXCEPT !.shut = TRUE]
    /\ up' = up \cup {Control("StreamShutdownWrite")}
    /\ UNCHANGED <<kind, ing, down, budgets>>

(* abort, close: the close frame is sent and the halves see closed.  A     *)
(* send that fails is ignored: the frame is as good as lost.               *)
abort ==
    /\ eg.phase = "up"
    /\ eg' = [eg EXCEPT !.phase = "closing", !.closed = TRUE]
    /\ \/ up' = up \cup {Control(CloseFrame)} /\ UNCHANGED ing
       \/ ing' = [ing EXCEPT !.lostclose = TRUE] /\ UNCHANGED up
    /\ UNCHANGED <<kind, down, budgets>>

(* The last reference to the halves goes: DriverGuard stops the driver. *)
drop ==
    /\ eg.phase = "closing" /\ ~eg.waiting
    /\ eg' = [eg EXCEPT !.phase = "gone", !.driver = FALSE]
    /\ UNCHANGED <<kind, ing, up, down, budgets>>

(***************************************************************************)
(* The egress driver: one datagram from the socket to the inboxes          *)
(***************************************************************************)

Entry(f) == IF f = NoFamily THEN new(1) ELSE f

PushEvent(e, ev) == IF Len(e.event) < EventBound THEN [e EXCEPT !.event = Append(@, ev)] ELSE e

(* StreamData: what does not fit is dropped and the reader told, once per  *)
(* dropped payload while the events fit.                                   *)
StreamInbox(e, run) ==
    IF Len(e.data) + Len(run) <= DataBound THEN [e EXCEPT !.data = @ \o run]
    ELSE [e EXCEPT !.data = Cut(@ \o run, DataBound), !.holed = TRUE,
                   !.event = Cut(@ \o [d \in 1 .. Len(e.data) + Len(run) - DataBound |->
                                                 "QueueFull"], EventBound)]

(* DatagramReturn: what does not fit ends the driver. *)
DatagramInbox(e, run) ==
    IF Len(e.data) + Len(run) <= DataBound THEN [e EXCEPT !.data = @ \o run]
    ELSE [e EXCEPT !.data = Cut(@ \o run, DataBound), !.driver = FALSE,
                   !.event = <<"QueueFull">>]

(* decode_native_event of a data frame.  A Gap asks the Steer policy for a *)
(* retransmission, which has none.                                         *)
DriverData(e, m) ==
    CASE push_outcome(Entry(e.family), m.n) = "WindowOverflow" -> [e EXCEPT !.family = NoFamily]
      [] push_outcome(Entry(e.family), m.n) = "Deliver" ->
            LET run == [i \in 1 .. Len(push_delivers(Entry(e.family), m.n)) |->
                           <<m.g, push_delivers(Entry(e.family), m.n)[i]>>]
                f == [e EXCEPT !.family = push_state(Entry(@), m.n)]
            IN  IF kind = "stream" THEN StreamInbox(f, run) ELSE DatagramInbox(f, run)
      [] OTHER -> [e EXCEPT !.family = push_state(Entry(@), m.n)]

(* The loop of spawn_stream_driver and of spawn_datagram_driver. *)
DriverFrame(e, m) ==
    CASE ~e.driver -> e
      [] m.t \in {"StreamData", "DatagramReturn"} -> DriverData(e, m)
      [] m.t \in {"StreamOpenAccepted", "StreamOpenReject"} ->
            IF e.phase = "opening" THEN [e EXCEPT !.control = Append(@, m.t)]
            ELSE [e EXCEPT !.driver = FALSE]
      [] m.t = "StreamShutdownWrite" -> PushEvent(e, "ShutdownWrite")
      [] m.t = "StreamClose" -> PushEvent(e, "Close")

EgressReceive(m) ==
    /\ m \in down
    /\ down' = down \ {m}
    /\ eg' = DriverFrame(eg, m)
    /\ UNCHANGED <<kind, ing, up, budgets>>

(***************************************************************************)
(* The egress reader                                                       *)
(***************************************************************************)

Given(e, x) == [e EXCEPT !.got = Append(@, x), !.waiting = FALSE]
End(e, error) == [e EXCEPT !.ended = TRUE, !.waiting = FALSE, !.last_error = error]
ErrorOf(event) == IF event = "ShutdownWrite" THEN "none" ELSE event

(* recv before its select: pending, then the inbox, then the kept event,   *)
(* then the closed flag; otherwise the reader waits.                       *)
RecvNow(e) ==
    CASE e.pending # <<>> -> Given([e EXCEPT !.pending = Tail(@)], Head(e.pending))
      [] e.pending = <<>> /\ e.data # <<>> -> Given([e EXCEPT !.data = Tail(@)], Head(e.data))
      [] e.pending = <<>> /\ e.data = <<>> /\ e.terminal # "none" ->
            End([e EXCEPT !.terminal = "none"], ErrorOf(e.terminal))
      [] OTHER -> IF e.closed THEN End(e, "none") ELSE [e EXCEPT !.waiting = TRUE]

(* The event branch of the select: payloads that came with the event first. *)
RecvEvent(e) ==
    IF e.data = <<>> THEN End([e EXCEPT !.event = Tail(@)], ErrorOf(Head(e.event)))
    ELSE Given([e EXCEPT !.event = Tail(@), !.terminal = Head(e.event),
                         !.pending = Tail(e.data), !.data = <<>>], Head(e.data))

(* Which branches of the select are ready; it takes any. *)
RecvWake(e) ==
    (IF e.closed THEN {End(e, "none")} ELSE {})
    \cup (IF e.data # <<>> THEN {Given([e EXCEPT !.data = Tail(@)], Head(e.data))} ELSE {})
    \cup (IF e.event # <<>> THEN {RecvEvent(e)} ELSE {})
    \cup (IF ~e.driver /\ e.data = <<>> THEN {End(e, "none")} ELSE {})

(* mesh_recv_from: closed, then the error, then the inbox (biased). *)
RecvFrom(e) ==
    CASE e.closed -> {End(e, "none")}
      [] ~e.closed /\ e.event # <<>> -> {End([e EXCEPT !.event = Tail(@)], Head(e.event))}
      [] ~e.closed /\ e.event = <<>> /\ e.data # <<>> ->
            {Given([e EXCEPT !.data = Tail(@)], Head(e.data))}
      [] OTHER -> IF e.driver THEN {} ELSE {End(e, "none")}

recv ==
    /\ eg.phase \in {"up", "closing"} /\ ~eg.ended
    /\ \E e \in IF kind = "datagram" THEN RecvFrom(eg)
                ELSE IF eg.waiting THEN RecvWake(eg) ELSE {RecvNow(eg)} :
          eg' = e
    /\ UNCHANGED <<kind, ing, up, down, budgets>>

(***************************************************************************)
(* The ingress: tables and bus sessions                                    *)
(***************************************************************************)

(* PeerStreamSession::close, PeerDatagramSession::close of a removed entry. *)
Closed(i) == IF i.session = "none" THEN i
             ELSE [i EXCEPT !.session = "none", !.pump = FALSE, !.live = @ - 1]

Opened(i) == [i EXCEPT !.session = "open", !.pump = TRUE, !.seq = 1, !.eof = FALSE,
                       !.live = @ + 1, !.gen = @ + 1]

(* The parked frames enter a stream that opens; a send that fails closes it. *)
Flushes(i) ==
    {[i EXCEPT !.bus = @ \o i.parked, !.parked = <<>>]}
    \cup {Closed([i EXCEPT !.bus = @ \o SubSeq(i.parked, 1, k), !.parked = <<>>]) :
             k \in 0 .. Len(i.parked) - 1}

(* StreamOpen: a session that is open is not opened again and not answered *)
(* again; else the bus opens and connects it, or the open is rejected.     *)
StreamOpen ==
    \/ /\ ing.session # "none"
       /\ UNCHANGED <<ing, down>>
    \/ /\ ing.session = "none"
       /\ ing' \in Flushes(Opened(ing))
       /\ \/ down' = down \cup {Control("StreamOpenAccepted")}
          \/ UNCHANGED down
    \/ /\ ing.session = "none"
       /\ down' = down \cup {Control("StreamOpenReject")}
       /\ UNCHANGED ing

DatagramOpen ==
    \/ /\ ing.session = "none"
       /\ ing' = Opened(ing)
       /\ UNCHANGED down
    \/ UNCHANGED <<ing, down>>

(* StreamData frames in order: to the bus session, whose failure closes    *)
(* it, or behind what is parked, as far as it fits.                        *)
ToStream(i, run) ==
    IF i.session = "none" THEN {[i EXCEPT !.parked = Cut(@ \o run, PendingMax)]}
    ELSE {[i EXCEPT !.bus = IF i.session = "open" THEN @ \o run ELSE @]}
         \cup {[Closed([i EXCEPT !.bus = IF i.session = "open" THEN @ \o SubSeq(run, 1, k) ELSE @])
                    EXCEPT !.parked = Cut(@ \o SubSeq(run, k + 2, Len(run)), PendingMax)] :
                 k \in 0 .. Len(run) - 1}

(* DatagramSend frames in order: a session is opened on demand, and what   *)
(* comes before one opens is dropped.                                      *)
ToDatagram(i, run) ==
    IF i.session # "none" THEN {[i EXCEPT !.bus = @ \o run]}
    ELSE {[Opened(i) EXCEPT !.bus = @ \o SubSeq(run, k + 1, Len(run))] : k \in 0 .. Len(run) - 1}
         \cup {i}

(* The bus side of a delivered run. *)
Carry(i, run) == IF kind = "stream" THEN ToStream(i, run) ELSE ToDatagram(i, run)

(* Mutant: data frames go to the bus as they arrive. *)
PushUnordered(f, n) ==
    /\ ing' \in Carry([ing EXCEPT !.family = push_state(f, n)], <<n>>)
    /\ UNCHANGED down

(* One package through the family f of the session. *)
Push(f, n) ==
    \/ /\ push_outcome(f, n) = "Deliver"
       /\ ing' \in Carry([ing EXCEPT !.family = push_state(f, n)], push_delivers(f, n))
       /\ UNCHANGED down
    \/ /\ push_outcome(f, n) = "WindowOverflow"
       /\ ing' = [ing EXCEPT !.family = NoFamily]
       /\ down' = IF kind = "stream" THEN down \cup {Control("StreamClose")} ELSE down
    \/ /\ push_outcome(f, n) \notin {"Deliver", "WindowOverflow"}
       /\ ing' = [ing EXCEPT !.family = push_state(f, n)]
       /\ UNCHANGED down

StreamShutdownWrite ==
    /\ ing' = [ing EXCEPT !.session = IF @ = "open" THEN "half" ELSE @]
    /\ UNCHANGED down

(* StreamClose and DatagramClose: the family, the parked data and the      *)
(* session go.                                                             *)
Close ==
    /\ ing' = Closed([ing EXCEPT !.family = NoFamily, !.parked = <<>>])
    /\ UNCHANGED down

IngressFrame(m) ==
    \/ m.t = "StreamOpen" /\ StreamOpen
    \/ m.t = "DatagramOpen" /\ DatagramOpen
    \/ m.t \in {"StreamData", "DatagramSend"} /\ Push(Entry(ing.family), m.n)
    \/ m.t = "StreamShutdownWrite" /\ StreamShutdownWrite
    \/ m.t \in {"StreamClose", "DatagramClose"} /\ Close

IngressReceive(m) ==
    /\ m \in up
    /\ up' = up \ {m}
    /\ IngressFrame(m)
    /\ UNCHANGED <<kind, eg, budgets>>

(***************************************************************************)
(* The response pumps                                                      *)
(***************************************************************************)

ReturnFrame == IF kind = "stream" THEN "StreamData" ELSE "DatagramReturn"

(* A payload from the bus session; the pump ends when its send fails. *)
pump_data ==
    /\ ing.pump /\ ing.seq <= load[2]
    /\ \/ /\ ing' = [ing EXCEPT !.seq = @ + 1]
          /\ down' = down \cup {Frame(ReturnFrame, ing.seq, ing.gen)}
       \/ /\ ing' = [ing EXCEPT !.pump = FALSE]
          /\ UNCHANGED down
    /\ UNCHANGED <<kind, eg, up, budgets>>

(* Mutant: the pump ends without StreamShutdownWrite. *)
pump_endSilent ==
    /\ ing.pump
    /\ ing' = [ing EXCEPT !.pump = FALSE, !.eof = (kind = "stream")]
    /\ UNCHANGED <<kind, eg, up, down, budgets>>

(* The bus session ends: a stream's pump says so. *)
pump_end ==
    /\ ing.pump
    /\ ing' = [ing EXCEPT !.pump = FALSE, !.eof = (kind = "stream")]
    /\ down' = IF kind = "stream" THEN down \cup {Control("StreamShutdownWrite")} ELSE down
    /\ UNCHANGED <<kind, eg, up, budgets>>

(***************************************************************************)
(* The network, and the whole                                              *)
(***************************************************************************)

(* An open of another session finds the table full and this entry goes;    *)
(* a package of another family finds family_states full: keys().next() of  *)
(* a HashMap may be any.                                                   *)
Evict ==
    /\ evictions < MaxEvict
    /\ evictions' = evictions + 1
    /\ \/ ing.session # "none" /\ ing' = Closed(ing)
       \/ ing.family # NoFamily /\ ing' = [ing EXCEPT !.family = NoFamily]
    /\ UNCHANGED <<kind, eg, up, down, load, losses>>

Lose(m) ==
    /\ losses < MaxLoss
    /\ losses' = losses + 1
    /\ \/ m \in up /\ up' = up \ {m} /\ UNCHANGED down
          /\ ing' = [ing EXCEPT !.lostclose = @ \/ m.t \in {"StreamClose", "DatagramClose"}]
       \/ m \in down /\ down' = down \ {m} /\ UNCHANGED <<up, ing>>
    /\ UNCHANGED <<kind, eg, load, evictions>>

Quiet ==
    /\ up = {} /\ down = {} /\ eg.phase = "gone"
    /\ UNCHANGED vars

Next ==
    \/ connect \/ connect_answer \/ connect_timeout \/ open_datagram
    \/ send \/ shutdown_write \/ abort \/ drop \/ recv
    \/ pump_data \/ pump_end \/ Evict \/ Quiet
    \/ \E m \in up : IngressReceive(m)
    \/ \E m \in down : EgressReceive(m)
    \/ \E m \in up \cup down : Lose(m)

Spec == Init /\ [][Next]_vars

(* A datagram that is not lost arrives and is handled, a poll of the       *)
(* reader that can return does, and the wait of connect ends.              *)
Fairness ==
    /\ WF_vars(recv)
    /\ WF_vars(connect_answer \/ connect_timeout)
    /\ WF_vars(EgressReceive(Control("StreamShutdownWrite")))

FairSpec == Spec /\ Fairness

(***************************************************************************)
(* Properties                                                              *)
(***************************************************************************)

(* Both readers keep the order.  The bus of the receiving node gets the    *)
(* payloads of a stream in order, each once and without a hole, and those  *)
(* of a datagram session in order and each once, through late opens,       *)
(* parked data, evictions of families and sessions, and sessions opened    *)
(* again on demand.  So does the reader of the egress, where a stream has  *)
(* a hole only when the inbox of its driver was full.                      *)
PayloadsInOrder ==
    /\ \A i \in 1 .. Len(ing.bus) :
          /\ kind = "stream" => ing.bus[i] = i
          /\ i > 1 => ing.bus[i - 1] < ing.bus[i]
    /\ \A i \in 1 .. Len(eg.got) :
          /\ kind = "stream" /\ ~eg.holed => eg.got[i][2] = i
          /\ i > 1 => eg.got[i - 1][2] < eg.got[i][2]

(* The two ends agree on what is open: a connected stream was opened on    *)
(* the bus of the peer, once; every bus session that is open there is the  *)
(* one of the table, however it came and went.  A stream whose egress is   *)
(* gone stays open at the ingress only when connect gave up on it, or its  *)
(* StreamClose is on the way or was lost: every other end of the egress    *)
(* releases the bus session of the peer.                                   *)
OpensAgree ==
    /\ kind = "stream" /\ eg.phase \in {"up", "closing"} => ing.gen = 1
    /\ ing.live = IF ing.session = "none" THEN 0 ELSE 1
    /\ kind = "stream" /\ eg.phase = "gone" /\ ing.session # "none"
          => eg.timedout \/ ing.lostclose \/ Control("StreamClose") \in up

(* The end of the remote bus stream ends the reader of the egress, when    *)
(* the network loses nothing.                                              *)
EofReaches == ing.eof ~> (eg.ended \/ eg.phase = "gone" \/ losses > 0)
=============================================================================
