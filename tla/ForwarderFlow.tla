---------------------------- MODULE ForwarderFlow ----------------------------
(***************************************************************************)
(* Stream flows over exits with a direct transport, the shape every stream *)
(* egress of the product has: an Open frame opens the transport, the       *)
(* kernel parks it in forwarder_streams, connect() takes it, and the bytes *)
(* then bypass the bus.  The flow is closed by the guard the transport     *)
(* carries (ForwarderClose::close_once), or by a Close frame.              *)
(*                                                                         *)
(* After connect() the ingress relays in one of four ways:                 *)
(*   "select"  two tasks, the first to end aborts the other (SOCKS5)       *)
(*   "join"    two futures, both run to their end (TCP, HTTP CONNECT)      *)
(*   "peer"    a pump, stopped by the peer's close (mesh peer over UDP)    *)
(*   "splice"  two blocking copies, then close_once (SOCKS5 and TCP)       *)
(***************************************************************************)
EXTENDS FlowTables, Sequences

CONSTANTS
    NoSession,    \* nobody holds the flow_pins lock
    Relay         \* the relays in use, a subset of the four above

(* Who may be closing the flow of a session: its dispatcher, handling a    *)
(* Close frame, or one of the tasks that own an end of its transport.      *)
Agent == {"dispatcher", "recv", "send", "splice"}

ASSUME ForwarderAssumption ==
    /\ NoSession \notin Session
    /\ Relay \subseteq {"select", "join", "peer", "splice"}

VARIABLES
    pins_lock,          \* session whose Close holds the flow_pins guard
    frames,             \* session -> frames submitted and not yet dispatched
    answer,             \* session -> answer to its Open frame
    client,             \* session -> state of its ingress connection
    relay,              \* session -> how it is relayed
    recv,               \* session -> the task that owns the receive half
    send,               \* session -> the task that owns the send half
    aborted,            \* sessions whose receive task was aborted
    dpc,                \* session -> where its dispatcher is
    cand,               \* session -> candidate exits not tried yet
    exit,               \* session -> exit whose transport was opened
    forwarder_streams,  \* sessions with a parked transport
    guard,              \* sessions whose ForwarderClose.closed is set
    closer,             \* session -> agent -> where its close of the flow is
    held,               \* session -> agent -> it removed the FlowState
    opened,             \* session -> FlowOpened events published
    closed              \* session -> FlowClosed events published

clientVars == <<client, relay, recv, send, aborted>>
dispVars == <<frames, answer, dpc, cand, exit>>
closeVars == <<guard, closer, held>>
eventVars == <<opened, closed>>
vars == <<tables, pins_lock, clientVars, dispVars, forwarder_streams, closeVars, eventVars>>

ClientState == {"new", "connecting", "connected", "failed", "relaying", "aborted", "dropped",
                "ended"}
DispatchPC == {"idle", "try", "pin", "insert", "mark", "store", "publish", "return",
               "close_pin", "close_egress", "close_stored", "closing"}
ClosePC == {"none", "swap", "remove", "mark", "unpin", "publish"}

TypeOK ==
    /\ TablesTypeOK
    /\ pins_lock \in Session \cup {NoSession}
    /\ frames \in [Session -> Seq({"Open", "Close"})]
    /\ answer \in [Session -> {"none", "connected", "closed"}]
    /\ client \in [Session -> ClientState]
    /\ relay \in [Session -> Relay \cup {"none"}]
    /\ recv \in [Session -> {"off", "run", "closing", "done"}]
    /\ send \in [Session -> {"off", "run", "closing", "done"}]
    /\ aborted \subseteq Session
    /\ dpc \in [Session -> DispatchPC]
    /\ cand \in [Session -> SUBSET Exit]
    /\ exit \in [Session -> Exit \cup {NoExit}]
    /\ \A s \in Session : dpc[s] \in {"pin", "insert"} => exit[s] \in Exit
    /\ forwarder_streams \subseteq Session
    /\ guard \subseteq Session
    /\ closer \in [Session -> [Agent -> ClosePC]]
    /\ held \in [Session -> [Agent -> BOOLEAN]]
    /\ opened \in [Session -> Nat] /\ closed \in [Session -> Nat]

Init ==
    /\ TablesInit
    /\ pins_lock = NoSession
    /\ frames = [s \in Session |-> <<>>]
    /\ answer = [s \in Session |-> "none"]
    /\ client = [s \in Session |-> "new"]
    /\ relay = [s \in Session |-> "none"]
    /\ recv = [s \in Session |-> "off"] /\ send = [s \in Session |-> "off"]
    /\ aborted = {}
    /\ dpc = [s \in Session |-> "idle"]
    /\ cand = [s \in Session |-> {}] /\ exit = [s \in Session |-> NoExit]
    /\ forwarder_streams = {} /\ guard = {}
    /\ closer = [s \in Session |-> [a \in Agent |-> "none"]]
    /\ held = [s \in Session |-> [a \in Agent |-> FALSE]]
    /\ opened = [s \in Session |-> 0] /\ closed = [s \in Session |-> 0]

-----------------------------------------------------------------------------
(* The ingress connection up to its relay.                                 *)

ClientGoto(s, st) == client' = [client EXCEPT ![s] = st]

KernelUnchanged == UNCHANGED <<tables, pins_lock, dpc, cand, exit, guard, held, eventVars>>

ClientConnect(s) ==
    /\ client[s] = "new"
    /\ ClientGoto(s, "connecting")
    /\ frames' = [frames EXCEPT ![s] = Append(@, "Open")]
    /\ KernelUnchanged /\ UNCHANGED <<relay, recv, send, aborted, answer, forwarder_streams, closer>>

(* connect() returns; on Connected it takes the parked transport.          *)
ClientConnectReturn(s) ==
    /\ client[s] = "connecting" /\ answer[s] # "none"
    /\ IF answer[s] = "connected"
       THEN /\ ClientGoto(s, "connected")
            /\ forwarder_streams' = forwarder_streams \ {s}
       ELSE /\ ClientGoto(s, "failed")
            /\ UNCHANGED forwarder_streams
    /\ KernelUnchanged /\ UNCHANGED <<relay, recv, send, aborted, frames, answer, closer>>

(* The handshake timeout drops the session inside connect().               *)
ClientConnectTimeout(s) ==
    /\ client[s] = "connecting"
    /\ ClientGoto(s, "dropped")
    /\ KernelUnchanged
    /\ UNCHANGED <<relay, recv, send, aborted, frames, answer, forwarder_streams, closer>>

(* The reply cannot be written to the application: the session is dropped. *)
ClientReplyFails(s) ==
    /\ client[s] = "connected"
    /\ ClientGoto(s, "dropped")
    /\ KernelUnchanged
    /\ UNCHANGED <<relay, recv, send, aborted, frames, answer, forwarder_streams, closer>>

ClientAbort(s) ==
    /\ client[s] \in {"connected", "failed"}
    /\ ClientGoto(s, "aborted")
    /\ frames' = [frames EXCEPT ![s] = Append(@, "Close")]
    /\ KernelUnchanged /\ UNCHANGED <<relay, recv, send, aborted, answer, forwarder_streams, closer>>

StartRelay(s, r) ==
    /\ client[s] = "connected"
    /\ r # "splice"
    /\ ClientGoto(s, "relaying")
    /\ relay' = [relay EXCEPT ![s] = r]
    /\ recv' = [recv EXCEPT ![s] = "run"]
    /\ send' = [send EXCEPT ![s] = "run"]
    /\ KernelUnchanged /\ UNCHANGED <<aborted, frames, answer, forwarder_streams, closer>>

StartSplice(s) ==
    /\ client[s] = "connected"
    /\ "splice" \in Relay
    /\ ClientGoto(s, "relaying")
    /\ relay' = [relay EXCEPT ![s] = "splice"]
    /\ KernelUnchanged
    /\ UNCHANGED <<recv, send, aborted, frames, answer, forwarder_streams, closer>>

(* splice_tcp_streams gives up before the copies start.                    *)
StartSpliceFails(s) ==
    /\ client[s] = "connected"
    /\ "splice" \in Relay
    /\ ClientGoto(s, "dropped")
    /\ KernelUnchanged
    /\ UNCHANGED <<relay, recv, send, aborted, frames, answer, forwarder_streams, closer>>

-----------------------------------------------------------------------------
(* The relay's tasks.  A receive half that sees the end of its stream runs *)
(* close_once; the send half does so only when it is aborted.              *)

RelayUnchanged ==
    UNCHANGED <<tables, pins_lock, dispVars, forwarder_streams, guard, relay, eventVars>>

StartClose(s, a) == closer' = [closer EXCEPT ![s][a] = "swap"]

(* The exit closes or fails: inner.recv() yields None. *)
RecvEof(s) ==
    /\ recv[s] = "run"
    /\ recv' = [recv EXCEPT ![s] = "closing"]
    /\ StartClose(s, "recv")
    /\ RelayUnchanged /\ UNCHANGED <<client, send, aborted, held>>

(* The application is gone: the receive task ends on a failed write. *)
RecvWriteFails(s) ==
    /\ recv[s] = "run"
    /\ recv' = [recv EXCEPT ![s] = "done"]
    /\ RelayUnchanged /\ UNCHANGED <<client, send, aborted, closer, held>>

(* The application sent its last byte, or the exit refused one: the send   *)
(* task shuts the write side down and ends.                                *)
SendEnds(s) ==
    /\ send[s] = "run" /\ relay[s] \in {"select", "join"}
    /\ send' = [send EXCEPT ![s] = "done"]
    /\ RelayUnchanged /\ UNCHANGED <<client, recv, aborted, closer, held>>

(* SOCKS5: whichever task ends first, the other one is aborted. *)
SelectRecvDone(s) ==
    /\ relay[s] = "select" /\ recv[s] = "done" /\ send[s] = "run"
    /\ send' = [send EXCEPT ![s] = "done"]
    /\ RelayUnchanged /\ UNCHANGED <<client, recv, aborted, closer, held>>

SelectSendDone(s) ==
    /\ relay[s] = "select" /\ send[s] = "done" /\ recv[s] # "done"
    /\ aborted' = aborted \cup {s}
    /\ RelayUnchanged /\ UNCHANGED <<client, recv, send, closer, held>>

(* PeerStreamSession::close: the pump is aborted, then the send half.      *)
PeerClose(s) ==
    /\ relay[s] = "peer" /\ send[s] = "run"
    /\ aborted' = aborted \cup {s}
    /\ send' = [send EXCEPT ![s] = "closing"]
    /\ StartClose(s, "send")
    /\ RelayUnchanged /\ UNCHANGED <<client, recv, held>>

(* An aborted task ends at one of its await points; close_once awaits the  *)
(* flow_pins lock and the publication of the event.                        *)
RecvCancelled(s) ==
    /\ s \in aborted
    /\ \/ recv[s] = "run"
       \/ recv[s] = "closing" /\ closer[s]["recv"] \in {"unpin", "publish"}
    /\ recv' = [recv EXCEPT ![s] = "done"]
    /\ closer' = [closer EXCEPT ![s]["recv"] = "none"]
    /\ held' = [held EXCEPT ![s]["recv"] = FALSE]
    /\ RelayUnchanged /\ UNCHANGED <<client, send, aborted>>

(* Both copies have ended. *)
SpliceEnds(s) ==
    /\ relay[s] = "splice" /\ client[s] = "relaying" /\ send[s] = "off"
    /\ send' = [send EXCEPT ![s] = "closing"]
    /\ StartClose(s, "splice")
    /\ RelayUnchanged /\ UNCHANGED <<client, recv, aborted, held>>

RelayEnds(s) ==
    /\ client[s] = "relaying" /\ send[s] = "done"
    /\ relay[s] # "splice" => recv[s] = "done"
    /\ ClientGoto(s, "ended")
    /\ RelayUnchanged /\ UNCHANGED <<recv, send, aborted, closer, held>>

-----------------------------------------------------------------------------
(* dispatch() of an Open frame over exits with a direct transport.         *)

Goto(s, pc) == dpc' = [dpc EXCEPT ![s] = pc]

(* The candidates are the healthy exits that match the frame's route; the  *)
(* pin is read under the flow_pins lock.                                   *)
DispatchOpen(s) ==
    /\ dpc[s] = "idle" /\ frames[s] # <<>> /\ Head(frames[s]) = "Open"
    /\ pins_lock = NoSession
    /\ frames' = [frames EXCEPT ![s] = Tail(@)]
    /\ \E c \in SUBSET Exit : cand' = [cand EXCEPT ![s] = c]
    /\ Goto(s, "try")
    /\ UNCHANGED <<tables, pins_lock, clientVars, answer, exit, forwarder_streams, closeVars,
                   eventVars>>

OpenForwarder(s, e) ==
    /\ dpc[s] = "try" /\ e \in cand[s]
    /\ exit' = [exit EXCEPT ![s] = e]
    /\ Goto(s, "pin")
    /\ UNCHANGED <<tables, pins_lock, clientVars, frames, answer, cand, forwarder_streams,
                   closeVars, eventVars>>

OpenForwarderFails(s, e) ==
    /\ dpc[s] = "try" /\ e \in cand[s]
    /\ cand' = [cand EXCEPT ![s] = @ \ {e}]
    /\ UNCHANGED <<tables, pins_lock, clientVars, frames, answer, dpc, exit, forwarder_streams,
                   closeVars, eventVars>>

NoUsableExit(s) ==
    /\ dpc[s] = "try" /\ cand[s] = {}
    /\ answer' = [answer EXCEPT ![s] = "closed"]
    /\ Goto(s, "idle")
    /\ UNCHANGED <<tables, pins_lock, clientVars, frames, cand, exit, forwarder_streams,
                   closeVars, eventVars>>

Pin(s) ==
    /\ dpc[s] = "pin" /\ pins_lock = NoSession
    /\ pin(s, exit[s])
    /\ Goto(s, "insert")
    /\ UNCHANGED <<flow_states, flow_counters, source_activity, idle_since, pins_lock,
                   clientVars, frames, answer, cand, exit, forwarder_streams, closeVars,
                   eventVars>>

InsertState(s) ==
    /\ dpc[s] = "insert"
    /\ insert_state(s, exit[s])
    /\ Goto(s, IF flow_states[s] = NoExit THEN "mark" ELSE "store")
    /\ UNCHANGED <<flow_pins, source_activity, idle_since, pins_lock, clientVars, frames,
                   answer, cand, exit, forwarder_streams, closeVars, eventVars>>

MarkOpen(s) ==
    /\ dpc[s] = "mark"
    /\ mark_open(s)
    /\ Goto(s, "store")
    /\ UNCHANGED <<flow_pins, flow_states, flow_counters, pins_lock, clientVars, frames,
                   answer, cand, exit, forwarder_streams, closeVars, eventVars>>

StoreForwarder(s) ==
    /\ dpc[s] = "store"
    /\ forwarder_streams' = forwarder_streams \cup {s}
    /\ Goto(s, "publish")
    /\ UNCHANGED <<tables, pins_lock, clientVars, frames, answer, cand, exit, closeVars,
                   eventVars>>

PublishOpened(s) ==
    /\ dpc[s] = "publish"
    /\ opened' = [opened EXCEPT ![s] = @ + 1]
    /\ Goto(s, "return")
    /\ UNCHANGED <<tables, pins_lock, clientVars, frames, answer, cand, exit,
                   forwarder_streams, closeVars, closed>>

ReturnConnected(s) ==
    /\ dpc[s] = "return"
    /\ answer' = [answer EXCEPT ![s] = "connected"]
    /\ Goto(s, "idle")
    /\ UNCHANGED <<tables, pins_lock, clientVars, frames, cand, exit, forwarder_streams,
                   closeVars, eventVars>>

-----------------------------------------------------------------------------
(* dispatch() of a Close frame: the flow_pins guard is held until          *)
(* egress.close returns, then the parked transport is dropped.             *)

CloseFrame(s) ==
    /\ dpc[s] = "idle" /\ frames[s] # <<>> /\ Head(frames[s]) = "Close"
    /\ frames' = [frames EXCEPT ![s] = Tail(@)]
    /\ Goto(s, "close_pin")
    /\ UNCHANGED <<tables, pins_lock, clientVars, answer, cand, exit, forwarder_streams,
                   closeVars, eventVars>>

ClosePin(s) ==
    /\ dpc[s] = "close_pin" /\ pins_lock = NoSession
    /\ unpin(s)
    /\ IF flow_pins[s] = NoExit
       THEN Goto(s, "close_stored") /\ UNCHANGED pins_lock
       ELSE Goto(s, "close_egress") /\ pins_lock' = s
    /\ UNCHANGED <<flow_states, flow_counters, source_activity, idle_since, clientVars, frames,
                   answer, cand, exit, forwarder_streams, closeVars, eventVars>>

(* Mutant: the guard outlives the call. *)
CloseEgressKeepsLock(s) ==
    /\ dpc[s] = "close_egress"
    /\ Goto(s, "close_stored")
    /\ UNCHANGED <<tables, pins_lock, clientVars, frames, answer, cand, exit, forwarder_streams,
                   closeVars, eventVars>>

CloseEgress(s) ==
    /\ dpc[s] = "close_egress"
    /\ pins_lock' = NoSession
    /\ Goto(s, "close_stored")
    /\ UNCHANGED <<tables, clientVars, frames, answer, cand, exit, forwarder_streams,
                   closeVars, eventVars>>

CloseStored(s) ==
    /\ dpc[s] = "close_stored"
    /\ forwarder_streams' = forwarder_streams \ {s}
    /\ closer' = [closer EXCEPT ![s]["dispatcher"] = "remove"]
    /\ Goto(s, "closing")
    /\ UNCHANGED <<tables, pins_lock, clientVars, frames, answer, cand, exit, guard, held,
                   eventVars>>

-----------------------------------------------------------------------------
(* Closing the flow.  close_once runs its cleanup and publishes; the       *)
(* dispatcher's close_flow_if_open does the same without the swap, and     *)
(* publishes only if it removed the FlowState.                             *)

CloserGoto(s, a, pc) == closer' = [closer EXCEPT ![s][a] = pc]

(* The agent's close is over; its task or dispatcher goes on. *)
CloseDone(s, a) ==
    /\ CloserGoto(s, a, "none")
    /\ recv' = IF a = "recv" THEN [recv EXCEPT ![s] = "done"] ELSE recv
    /\ send' = IF a \in {"send", "splice"} THEN [send EXCEPT ![s] = "done"] ELSE send
    /\ IF a = "dispatcher" THEN Goto(s, "idle") ELSE UNCHANGED dpc

CloserUnchanged ==
    UNCHANGED <<pins_lock, client, relay, aborted, frames, answer, cand, exit,
                forwarder_streams, opened>>

(* Mutant: the flag is tested and set in two steps, both closers pass. *)
SwapNotAtomic(s, a) ==
    /\ closer[s][a] = "swap"
    /\ guard' = guard \cup {s}
    /\ CloserGoto(s, a, "remove")
    /\ CloserUnchanged /\ UNCHANGED <<tables, recv, send, dpc, held, closed>>

Swap(s, a) ==
    /\ closer[s][a] = "swap"
    /\ guard' = guard \cup {s}
    /\ IF s \in guard
       THEN CloseDone(s, a)
       ELSE CloserGoto(s, a, "remove") /\ UNCHANGED <<recv, send, dpc>>
    /\ CloserUnchanged /\ UNCHANGED <<tables, held, closed>>

RemoveState(s, a) ==
    /\ closer[s][a] = "remove"
    /\ remove_state(s)
    /\ held' = [held EXCEPT ![s][a] = (flow_states[s] # NoExit)]
    /\ CloserGoto(s, a, "mark")
    /\ CloserUnchanged
    /\ UNCHANGED <<flow_pins, flow_counters, source_activity, idle_since, recv, send, dpc,
                   guard, closed>>

(* Mutant: the source is not discounted. *)
MarkClosedForgets(s, a) ==
    /\ closer[s][a] = "mark"
    /\ flow_counters' = flow_counters \ {s}
    /\ CloserGoto(s, a, "unpin")
    /\ CloserUnchanged
    /\ UNCHANGED <<flow_pins, flow_states, source_activity, idle_since, recv, send, dpc, guard,
                   held, closed>>

MarkClosed(s, a) ==
    /\ closer[s][a] = "mark"
    /\ IF held[s][a] THEN mark_closed(s) ELSE UNCHANGED <<source_activity, idle_since>>
    /\ flow_counters' = flow_counters \ {s}
    /\ CloserGoto(s, a, "unpin")
    /\ CloserUnchanged
    /\ UNCHANGED <<flow_pins, flow_states, recv, send, dpc, guard, held, closed>>

Unpin(s, a) ==
    /\ closer[s][a] = "unpin" /\ pins_lock = NoSession
    /\ unpin(s)
    /\ CloserGoto(s, a, "publish")
    /\ CloserUnchanged
    /\ UNCHANGED <<flow_states, flow_counters, source_activity, idle_since, recv, send, dpc,
                   guard, held, closed>>

PublishClosed(s, a) ==
    /\ closer[s][a] = "publish"
    /\ closed' = IF a # "dispatcher" \/ held[s][a] THEN [closed EXCEPT ![s] = @ + 1] ELSE closed
    /\ held' = [held EXCEPT ![s][a] = FALSE]
    /\ CloseDone(s, a)
    /\ CloserUnchanged /\ UNCHANGED <<tables, guard>>

-----------------------------------------------------------------------------
ClientStep(s) ==
    \/ ClientConnect(s) \/ ClientConnectReturn(s) \/ ClientConnectTimeout(s)
    \/ ClientReplyFails(s) \/ ClientAbort(s)
    \/ \E r \in Relay : StartRelay(s, r)
    \/ StartSplice(s) \/ StartSpliceFails(s)

RelayStep(s) ==
    \/ RecvEof(s) \/ RecvWriteFails(s) \/ SendEnds(s) \/ PeerClose(s)
    \/ SelectRecvDone(s) \/ SelectSendDone(s) \/ RecvCancelled(s)
    \/ SpliceEnds(s) \/ RelayEnds(s)

DispatchStep(s) ==
    \/ DispatchOpen(s)
    \/ \E e \in Exit : OpenForwarder(s, e) \/ OpenForwarderFails(s, e)
    \/ NoUsableExit(s) \/ Pin(s) \/ InsertState(s) \/ MarkOpen(s) \/ StoreForwarder(s)
    \/ PublishOpened(s) \/ ReturnConnected(s)
    \/ CloseFrame(s) \/ ClosePin(s) \/ CloseEgress(s) \/ CloseStored(s)

CloserStep(s, a) ==
    Swap(s, a) \/ RemoveState(s, a) \/ MarkClosed(s, a) \/ Unpin(s, a) \/ PublishClosed(s, a)

Next ==
    \E s \in Session :
        ClientStep(s) \/ RelayStep(s) \/ DispatchStep(s) \/ \E a \in Agent : CloserStep(s, a)

Spec == Init /\ [][Next]_vars

(* Ready tasks run, and egress.close returns.  Nothing obliges an          *)
(* application or an exit to end its stream.                               *)
Fairness ==
    \A s \in Session :
        /\ WF_vars(DispatchStep(s))
        /\ WF_vars(SelectRecvDone(s) \/ RecvCancelled(s))
        /\ \A a \in Agent : WF_vars(CloserStep(s, a))

FairSpec == Spec /\ Fairness

-----------------------------------------------------------------------------
(* No task of the kernel or of the relay has work left for s. *)
AtRest(s) ==
    /\ frames[s] = <<>> /\ dpc[s] = "idle"
    /\ \A a \in Agent : closer[s][a] = "none"
    /\ recv[s] \in {"off", "done"}

Clean(s) ==
    /\ flow_pins[s] = NoExit /\ flow_states[s] = NoExit
    /\ s \notin flow_counters /\ s \notin forwarder_streams

(* A flow the source-activity table has counted and not yet discounted. *)
Counted(s) ==
    \/ flow_states[s] # NoExit /\ dpc[s] # "mark"
    \/ \E a \in Agent : held[s][a] /\ closer[s][a] = "mark"

(* active_flows of a source is the number of its counted flows, whoever    *)
(* closes them and whichever close is cancelled half way.                  *)
ActivityMatchesFlows ==
    \A k \in Source :
        /\ source_activity[k] = Cardinality({s \in Session : SourceOf[s] = k /\ Counted(s)})
        /\ k \in idle_since => source_activity[k] = 0

(* stream_session_tests.rs: "the close guard must publish exactly one      *)
(* FlowClosed".  Two halves, a splice or a Close frame that end together   *)
(* never publish two, and none comes before FlowOpened.  FlowClosed comes  *)
(* after the cleanup: an observer that sees it finds no entry of the flow  *)
(* left in the kernel, and none comes back.  An aborted session leaves     *)
(* nothing behind and, if it was announced, is reported closed.            *)
FlowClosedOnce ==
    /\ TypeOK
    /\ \A s \in Session :
        /\ closed[s] <= opened[s] /\ opened[s] <= 1
        /\ closed[s] > 0 => Clean(s)
        /\ client[s] = "aborted" /\ AtRest(s) => Clean(s) /\ closed[s] = opened[s]

(* When the exit ends the stream, the flow is reported closed and nothing  *)
(* of it stays, unless the relay cancels the receive task meanwhile.       *)
EofReleases ==
    \A s \in Session :
        (recv[s] = "closing" \/ (relay[s] = "splice" /\ send[s] = "closing"))
            ~> (Clean(s) /\ closed[s] = 1) \/ s \in aborted

-----------------------------------------------------------------------------
(* What the handbook says of forwarders and the code does not do.          *)

(* "Forwarder close, session drop, eviction, and abort clean flow pins,    *)
(* flow states, counters, pending returns, and pumps exactly once."        *)
DropCleans ==
    \A s \in Session : client[s] \in {"dropped", "ended"} /\ AtRest(s) => Clean(s)
=============================================================================
