---------------------------- MODULE FlowDispatch ----------------------------
(***************************************************************************)
(* Stream flows over egress plugins that the kernel polls: a session's     *)
(* frames are dispatched one after another (kernel/port.rs), each dispatch *)
(* schedules the frame on an exit, a successful one starts a poll task per *)
(* (session, exit), and the flow is closed by whoever first removes its    *)
(* FlowState: the dispatcher, or a poll task that saw the exit close       *)
(* (kernel/dispatch.rs, dispatch_forwarder.rs, dispatch_observation.rs).   *)
(*                                                                         *)
(* An exit is any EgressPlugin without a direct forwarder transport: its   *)
(* send may fail, its poll may yield payloads and, at any time, Closed.    *)
(* A session connects once and sends nothing after its Close frame, as     *)
(* every caller in the repository does; "Data" stands for Data and         *)
(* ShutdownWrite frames, which take the same way through the kernel.       *)
(***************************************************************************)
EXTENDS FlowTables, Sequences

CONSTANTS
    NoSession,    \* nobody holds the flow_pins lock
    Dispatcher,   \* the dispatching task of a session (poll tasks are named by their exit)
    MaxData,      \* bound: Data frames a client submits per session
    MaxPayload,   \* bound: payloads an exit yields per session
    ReturnCap     \* capacity of the return channel (64 in the code)

Agent == Exit \cup {Dispatcher}

ASSUME DispatchAssumption ==
    /\ NoSession \notin Session
    /\ Dispatcher \notin Exit
    /\ MaxData \in Nat /\ MaxPayload \in Nat /\ ReturnCap \in Nat \ {0}

VARIABLES
    pins_lock,   \* session whose Close holds the flow_pins guard across egress.close
    frames,      \* session -> frames submitted and not yet dispatched
    returns,     \* session -> return events not yet received
    client,      \* session -> state of the client's end of the session
    receiving,   \* sessions whose return receiver is alive
    sent,        \* session -> Data frames submitted
    got,         \* session -> exit -> payloads received from it
    dpc,         \* session -> where its dispatcher is
    kind,        \* session -> kind of the frame being dispatched
    cand,        \* session -> candidate exits not tried yet
    exit,        \* session -> exit that accepted the frame being dispatched
    polls,       \* session -> exits with an entry in active_stream_polls
    ppc,         \* session -> exit -> where the poll task is
    aborted,     \* session -> exit -> JoinHandle::abort was called
    made,        \* session -> exit -> payloads the exit has yielded
    closer,      \* session -> agent -> where its close_flow_if_open is
    held,        \* session -> agent -> it removed the FlowState
    opened,      \* session -> FlowOpened events published
    closed,      \* session -> FlowClosed events published
    carried,     \* session -> exits that accepted a Data frame
    io_error     \* sessions with a terminal PathIoError published

clientVars == <<frames, client, receiving, sent, got>>
dispVars == <<dpc, kind, cand, exit>>
pollVars == <<polls, ppc, aborted, made>>
closeVars == <<closer, held>>
eventVars == <<opened, closed, carried, io_error>>
vars == <<tables, pins_lock, returns, clientVars, dispVars, pollVars, closeVars,
          eventVars>>

Connected == [kind |-> "Connected"]
Reply == [kind |-> "Reply"]
ClosedEvent == [kind |-> "Closed"]
Data(e, n) == [kind |-> "Data", from |-> e, seq |-> n]
ReturnEvent == {Connected, Reply, ClosedEvent} \cup {Data(e, n) : e \in Exit, n \in 1..MaxPayload}

ClientState == {"new", "connecting", "open", "failed", "aborted", "dropped"}
DispatchPC == {"idle", "try", "pin", "insert", "mark", "publish", "ensure",
               "return", "fsend", "close_pin", "close_egress", "close_abort", "closing"}
PollPC == {"off", "poll", "deliver", "closing", "exit"}
ClosePC == {"none", "remove", "mark", "unpin", "publish", "return"}

TypeOK ==
    /\ TablesTypeOK
    /\ pins_lock \in Session \cup {NoSession}
    /\ frames \in [Session -> Seq({"Open", "Data", "Close"})]
    /\ returns \in [Session -> Seq(ReturnEvent)]
    /\ client \in [Session -> ClientState]
    /\ receiving \subseteq Session
    /\ sent \in [Session -> 0..MaxData]
    /\ got \in [Session -> [Exit -> 0..MaxPayload]]
    /\ dpc \in [Session -> DispatchPC]
    /\ kind \in [Session -> {"Open", "Data", "Close"}]
    /\ cand \in [Session -> SUBSET Exit]
    /\ exit \in [Session -> Exit \cup {NoExit}]
    /\ polls \in [Session -> SUBSET Exit]
    /\ ppc \in [Session -> [Exit -> PollPC]]
    /\ aborted \in [Session -> [Exit -> BOOLEAN]]
    /\ made \in [Session -> [Exit -> 0..MaxPayload]]
    /\ closer \in [Session -> [Agent -> ClosePC]]
    /\ held \in [Session -> [Agent -> BOOLEAN]]
    /\ opened \in [Session -> Nat]
    /\ closed \in [Session -> Nat]
    /\ carried \in [Session -> SUBSET Exit]
    /\ io_error \subseteq Session

Init ==
    /\ TablesInit
    /\ pins_lock = NoSession
    /\ frames = [s \in Session |-> <<>>]
    /\ returns = [s \in Session |-> <<>>]
    /\ client = [s \in Session |-> "new"]
    /\ receiving = Session
    /\ sent = [s \in Session |-> 0]
    /\ got = [s \in Session |-> [e \in Exit |-> 0]]
    /\ dpc = [s \in Session |-> "idle"]
    /\ kind = [s \in Session |-> "Open"]
    /\ cand = [s \in Session |-> {}]
    /\ exit = [s \in Session |-> NoExit]
    /\ polls = [s \in Session |-> {}]
    /\ ppc = [s \in Session |-> [e \in Exit |-> "off"]]
    /\ aborted = [s \in Session |-> [e \in Exit |-> FALSE]]
    /\ made = [s \in Session |-> [e \in Exit |-> 0]]
    /\ closer = [s \in Session |-> [a \in Agent |-> "none"]]
    /\ held = [s \in Session |-> [a \in Agent |-> FALSE]]
    /\ opened = [s \in Session |-> 0]
    /\ closed = [s \in Session |-> 0]
    /\ carried = [s \in Session |-> {}]
    /\ io_error = {}

-----------------------------------------------------------------------------
(* The return channel: a send waits for room, and fails at once when the   *)
(* client has dropped the receiver.                                        *)

SendReturn(s, ev) ==
    \/ /\ s \in receiving
       /\ Len(returns[s]) < ReturnCap
       /\ returns' = [returns EXCEPT ![s] = Append(@, ev)]
    \/ /\ s \notin receiving
       /\ UNCHANGED returns

-----------------------------------------------------------------------------
(* The client: InternalStreamSession and the two halves it splits into.    *)

ClientConnect(s) ==
    /\ client[s] = "new"
    /\ client' = [client EXCEPT ![s] = "connecting"]
    /\ frames' = [frames EXCEPT ![s] = Append(@, "Open")]
    /\ UNCHANGED <<tables, pins_lock, returns, receiving, sent, got, dispVars, pollVars,
                   closeVars, eventVars>>

(* connect() takes the first return event, whichever it is: the poll task  *)
(* starts before Connected is sent, so a payload or Closed may come first. *)
ClientConnectReturn(s) ==
    /\ client[s] = "connecting"
    /\ returns[s] # <<>>
    /\ LET ev == Head(returns[s])
       IN  /\ client' = [client EXCEPT ![s] = IF ev = ClosedEvent THEN "failed" ELSE "open"]
           /\ got' = IF ev.kind = "Data" THEN [got EXCEPT ![s][ev.from] = ev.seq] ELSE got
    /\ returns' = [returns EXCEPT ![s] = Tail(@)]
    /\ UNCHANGED <<tables, pins_lock, frames, receiving, sent, dispVars, pollVars,
                   closeVars, eventVars>>

ClientSend(s) ==
    /\ client[s] = "open"
    /\ sent[s] < MaxData
    /\ sent' = [sent EXCEPT ![s] = @ + 1]
    /\ frames' = [frames EXCEPT ![s] = Append(@, "Data")]
    /\ UNCHANGED <<tables, pins_lock, returns, client, receiving, got, dispVars, pollVars,
                   closeVars, eventVars>>

ClientAbort(s) ==
    /\ client[s] \in {"open", "failed"}
    /\ client' = [client EXCEPT ![s] = "aborted"]
    /\ frames' = [frames EXCEPT ![s] = Append(@, "Close")]
    /\ UNCHANGED <<tables, pins_lock, returns, receiving, sent, got, dispVars, pollVars,
                   closeVars, eventVars>>

(* recv() skips Connected and Idle, and ends the stream at Closed.         *)
ClientRecv(s) ==
    /\ client[s] \in {"open", "aborted"}
    /\ s \in receiving
    /\ returns[s] # <<>>
    /\ LET ev == Head(returns[s])
       IN  got' = IF ev.kind = "Data" THEN [got EXCEPT ![s][ev.from] = ev.seq] ELSE got
    /\ returns' = [returns EXCEPT ![s] = Tail(@)]
    /\ UNCHANGED <<tables, pins_lock, frames, client, receiving, sent, dispVars, pollVars,
                   closeVars, eventVars>>

(* The receive half is dropped; the send half may go on.                   *)
ClientDropReceiver(s) ==
    /\ client[s] \in {"open", "failed", "aborted"}
    /\ s \in receiving
    /\ receiving' = receiving \ {s}
    /\ returns' = [returns EXCEPT ![s] = <<>>]
    /\ UNCHANGED <<tables, pins_lock, frames, client, sent, got, dispVars, pollVars,
                   closeVars, eventVars>>

(* The whole session is dropped, no Close frame is sent.                   *)
ClientDrop(s) ==
    /\ client[s] \in {"connecting", "open", "failed"}
    /\ client' = [client EXCEPT ![s] = "dropped"]
    /\ receiving' = receiving \ {s}
    /\ returns' = [returns EXCEPT ![s] = <<>>]
    /\ UNCHANGED <<tables, pins_lock, frames, sent, got, dispVars, pollVars, closeVars,
                   eventVars>>

-----------------------------------------------------------------------------
(* dispatch(): the session's next frame, once the previous one is done.    *)

Goto(s, pc) == dpc' = [dpc EXCEPT ![s] = pc]

TakeFrame(s) ==
    /\ dpc[s] = "idle"
    /\ frames[s] # <<>>
    /\ frames' = [frames EXCEPT ![s] = Tail(@)]
    /\ kind' = [kind EXCEPT ![s] = Head(frames[s])]
    /\ UNCHANGED <<tables, pins_lock, returns, client, receiving, sent, got, pollVars,
                   closeVars, eventVars>>

DispatchClose(s) ==
    /\ TakeFrame(s)
    /\ Head(frames[s]) = "Close"
    /\ Goto(s, "close_pin")
    /\ UNCHANGED <<cand, exit>>

(* A frame of a flow whose FlowState is present goes to that state's exit. *)
DispatchForwarderFrame(s) ==
    /\ TakeFrame(s)
    /\ Head(frames[s]) = "Data"
    /\ flow_states[s] # NoExit
    /\ Goto(s, "fsend")
    /\ exit' = [exit EXCEPT ![s] = flow_states[s]]
    /\ UNCHANGED cand

(* Mutant of DispatchSchedule: the FlowState is not consulted. *)
DispatchScheduleIgnoresState(s) ==
    /\ TakeFrame(s)
    /\ Head(frames[s]) # "Close"
    /\ pins_lock = NoSession
    /\ Goto(s, "try")
    /\ \E c \in SUBSET Exit : cand' = [cand EXCEPT ![s] = c]
    /\ UNCHANGED exit

(* Any other frame is scheduled: the candidates are the exits that are     *)
(* healthy and match the frame's route, in the scheduler's order.  Reading *)
(* the pin for that order takes the flow_pins lock.                        *)
DispatchSchedule(s) ==
    /\ TakeFrame(s)
    /\ \/ Head(frames[s]) = "Open"
       \/ Head(frames[s]) = "Data" /\ flow_states[s] = NoExit
    /\ pins_lock = NoSession
    /\ Goto(s, "try")
    /\ \E c \in SUBSET Exit : cand' = [cand EXCEPT ![s] = c]
    /\ UNCHANGED exit

-----------------------------------------------------------------------------
(* dispatch_ordered().                                                     *)

TrySend(s, e) ==
    /\ dpc[s] = "try"
    /\ e \in cand[s]
    /\ exit' = [exit EXCEPT ![s] = e]
    /\ carried' = IF kind[s] = "Data" THEN [carried EXCEPT ![s] = @ \cup {e}] ELSE carried
    /\ Goto(s, "pin")
    /\ UNCHANGED <<tables, pins_lock, returns, clientVars, kind, cand, pollVars, closeVars,
                   opened, closed, io_error>>

TrySendFails(s, e) ==
    /\ dpc[s] = "try"
    /\ e \in cand[s]
    /\ cand' = [cand EXCEPT ![s] = @ \ {e}]
    /\ io_error' = io_error \cup {s}
    /\ UNCHANGED <<tables, pins_lock, returns, clientVars, dpc, kind, exit, pollVars,
                   closeVars, opened, closed, carried>>

(* Mutant of NoUsableExit: the failure is not returned. *)
NoUsableExitSilent(s) ==
    /\ dpc[s] = "try"
    /\ cand[s] = {}
    /\ Goto(s, "idle")
    /\ UNCHANGED <<tables, pins_lock, returns, clientVars, kind, cand, exit, pollVars,
                   closeVars, eventVars>>

NoUsableExit(s) ==
    /\ dpc[s] = "try"
    /\ cand[s] = {}
    /\ SendReturn(s, ClosedEvent)
    /\ Goto(s, "idle")
    /\ UNCHANGED <<tables, pins_lock, clientVars, kind, cand, exit, pollVars, closeVars,
                   eventVars>>

Pin(s) ==
    /\ dpc[s] = "pin"
    /\ pins_lock = NoSession
    /\ pin(s, exit[s])
    /\ Goto(s, IF kind[s] = "Open" THEN "insert" ELSE "ensure")
    /\ UNCHANGED <<flow_states, flow_counters, source_activity, idle_since, pins_lock,
                   returns, clientVars, kind, cand, exit, pollVars, closeVars, eventVars>>

InsertState(s) ==
    /\ dpc[s] = "insert"
    /\ insert_state(s, exit[s])
    /\ Goto(s, IF flow_states[s] = NoExit THEN "mark" ELSE "publish")
    /\ UNCHANGED <<flow_pins, source_activity, idle_since, pins_lock, returns, clientVars,
                   kind, cand, exit, pollVars, closeVars, eventVars>>

MarkOpen(s) ==
    /\ dpc[s] = "mark"
    /\ mark_open(s)
    /\ Goto(s, "publish")
    /\ UNCHANGED <<flow_pins, flow_states, flow_counters, pins_lock, returns, clientVars,
                   kind, cand, exit, pollVars, closeVars, eventVars>>

PublishOpened(s) ==
    /\ dpc[s] = "publish"
    /\ opened' = [opened EXCEPT ![s] = @ + 1]
    /\ Goto(s, "ensure")
    /\ UNCHANGED <<tables, pins_lock, returns, clientVars, kind, cand, exit, pollVars,
                   closeVars, closed, carried, io_error>>

(* ensure_stream_poll(): at most one poll task per (session, exit).        *)
EnsurePoll(s) ==
    /\ dpc[s] = "ensure"
    /\ polls' = [polls EXCEPT ![s] = @ \cup {exit[s]}]
    /\ ppc' = IF exit[s] \in polls[s] THEN ppc ELSE [ppc EXCEPT ![s][exit[s]] = "poll"]
    /\ Goto(s, "return")
    /\ UNCHANGED <<tables, pins_lock, returns, clientVars, kind, cand, exit, aborted, made,
                   closeVars, eventVars>>

(* An Open answers Connected; a Data frame answers what the exit returned  *)
(* and nothing when that is Idle.                                          *)
Return(s) ==
    /\ dpc[s] = "return"
    /\ \/ SendReturn(s, IF kind[s] = "Open" THEN Connected ELSE Reply)
       \/ kind[s] = "Data" /\ UNCHANGED returns
    /\ Goto(s, "idle")
    /\ UNCHANGED <<tables, pins_lock, clientVars, kind, cand, exit, pollVars, closeVars,
                   eventVars>>

-----------------------------------------------------------------------------
(* dispatch_forwarder_frame().                                             *)

ForwarderSend(s) ==
    /\ dpc[s] = "fsend"
    /\ carried' = [carried EXCEPT ![s] = @ \cup {exit[s]}]
    /\ Goto(s, "return")
    /\ UNCHANGED <<tables, pins_lock, returns, clientVars, kind, cand, exit, pollVars,
                   closeVars, opened, closed, io_error>>

ForwarderSendFails(s) ==
    /\ dpc[s] = "fsend"
    /\ io_error' = io_error \cup {s}
    /\ Goto(s, "closing")
    /\ closer' = [closer EXCEPT ![s][Dispatcher] = "remove"]
    /\ UNCHANGED <<tables, pins_lock, returns, clientVars, kind, cand, exit, pollVars, held,
                   opened, closed, carried>>

-----------------------------------------------------------------------------
(* A Close frame: unpin, close the egress session (the flow_pins guard is  *)
(* a temporary of the `if let`, so it is held until egress.close returns), *)
(* abort the session's poll tasks, close the flow.                         *)

ClosePin(s) ==
    /\ dpc[s] = "close_pin"
    /\ pins_lock = NoSession
    /\ unpin(s)
    /\ IF flow_pins[s] = NoExit
       THEN Goto(s, "close_abort") /\ UNCHANGED pins_lock
       ELSE Goto(s, "close_egress") /\ pins_lock' = s
    /\ UNCHANGED <<flow_states, flow_counters, source_activity, idle_since, returns,
                   clientVars, kind, cand, exit, pollVars, closeVars, eventVars>>

(* Mutant of CloseEgress: the flow_pins guard outlives the block. *)
CloseEgressKeepsLock(s) ==
    /\ dpc[s] = "close_egress"
    /\ Goto(s, "close_abort")
    /\ UNCHANGED <<tables, pins_lock, returns, clientVars, kind, cand, exit, pollVars,
                   closeVars, eventVars>>

CloseEgress(s) ==
    /\ dpc[s] = "close_egress"
    /\ pins_lock' = NoSession
    /\ Goto(s, "close_abort")
    /\ UNCHANGED <<tables, returns, clientVars, kind, cand, exit, pollVars, closeVars,
                   eventVars>>

AbortSessionPolls(s) ==
    /\ dpc[s] = "close_abort"
    /\ aborted' = [aborted EXCEPT ![s] = [e \in Exit |-> @[e] \/ e \in polls[s]]]
    /\ polls' = [polls EXCEPT ![s] = {}]
    /\ Goto(s, "closing")
    /\ closer' = [closer EXCEPT ![s][Dispatcher] = "remove"]
    /\ UNCHANGED <<tables, pins_lock, returns, clientVars, kind, cand, exit, ppc, made, held,
                   eventVars>>

-----------------------------------------------------------------------------
(* close_flow_if_open(), run by the dispatcher of s or by a poll task: the *)
(* one that removes the FlowState publishes FlowClosed; all of them drop   *)
(* the counters and the pin, and then return Closed to the client.         *)

CloserAt(s, a, pc) == closer[s][a] = pc

CloserGoto(s, a, pc) == closer' = [closer EXCEPT ![s][a] = pc]

CloserUnchanged == UNCHANGED <<clientVars, kind, cand, exit, polls, aborted, made>>

RemoveState(s, a) ==
    /\ CloserAt(s, a, "remove")
    /\ remove_state(s)
    /\ held' = [held EXCEPT ![s][a] = (flow_states[s] # NoExit)]
    /\ CloserGoto(s, a, "mark")
    /\ UNCHANGED <<flow_pins, flow_counters, source_activity, idle_since, pins_lock, returns,
                   dpc, ppc, eventVars>>
    /\ CloserUnchanged

(* Mutant of MarkClosed: the source is discounted by every closer. *)
MarkClosedAlways(s, a) ==
    /\ CloserAt(s, a, "mark")
    /\ mark_closed(s)
    /\ flow_counters' = flow_counters \ {s}
    /\ CloserGoto(s, a, "unpin")
    /\ UNCHANGED <<flow_pins, flow_states, pins_lock, returns, held, dpc, ppc, eventVars>>
    /\ CloserUnchanged

MarkClosed(s, a) ==
    /\ CloserAt(s, a, "mark")
    /\ IF held[s][a] THEN mark_closed(s) ELSE UNCHANGED <<source_activity, idle_since>>
    /\ flow_counters' = flow_counters \ {s}
    /\ CloserGoto(s, a, "unpin")
    /\ UNCHANGED <<flow_pins, flow_states, pins_lock, returns, held, dpc, ppc, eventVars>>
    /\ CloserUnchanged

(* Mutant of Unpin: a closer that removed no FlowState publishes too. *)
UnpinAlwaysPublishes(s, a) ==
    /\ CloserAt(s, a, "unpin")
    /\ pins_lock = NoSession
    /\ unpin(s)
    /\ CloserGoto(s, a, "publish")
    /\ UNCHANGED <<flow_states, flow_counters, source_activity, idle_since, pins_lock,
                   returns, held, dpc, ppc, eventVars>>
    /\ CloserUnchanged

(* Mutant of Unpin: nothing is published when the client is gone. *)
UnpinSilentWhenGone(s, a) ==
    /\ CloserAt(s, a, "unpin")
    /\ pins_lock = NoSession
    /\ unpin(s)
    /\ CloserGoto(s, a, IF held[s][a] /\ s \in receiving THEN "publish" ELSE "return")
    /\ UNCHANGED <<flow_states, flow_counters, source_activity, idle_since, pins_lock,
                   returns, held, dpc, ppc, eventVars>>
    /\ CloserUnchanged

Unpin(s, a) ==
    /\ CloserAt(s, a, "unpin")
    /\ pins_lock = NoSession
    /\ unpin(s)
    /\ CloserGoto(s, a, IF held[s][a] THEN "publish" ELSE "return")
    /\ UNCHANGED <<flow_states, flow_counters, source_activity, idle_since, pins_lock,
                   returns, held, dpc, ppc, eventVars>>
    /\ CloserUnchanged

PublishClosed(s, a) ==
    /\ CloserAt(s, a, "publish")
    /\ closed' = [closed EXCEPT ![s] = @ + 1]
    /\ held' = [held EXCEPT ![s][a] = FALSE]
    /\ CloserGoto(s, a, "return")
    /\ UNCHANGED <<tables, pins_lock, returns, dpc, ppc, opened, carried, io_error>>
    /\ CloserUnchanged

ReturnClosed(s, a) ==
    /\ CloserAt(s, a, "return")
    /\ SendReturn(s, ClosedEvent)
    /\ CloserGoto(s, a, "none")
    /\ IF a = Dispatcher
       THEN Goto(s, "idle") /\ UNCHANGED ppc
       ELSE ppc' = [ppc EXCEPT ![s][a] = "exit"] /\ UNCHANGED dpc
    /\ UNCHANGED <<tables, pins_lock, held, eventVars>>
    /\ CloserUnchanged

-----------------------------------------------------------------------------
(* The poll task of exit e for session s.                                  *)

PollUnchanged == UNCHANGED <<tables, pins_lock, clientVars, dispVars, held, eventVars>>

PollData(s, e) ==
    /\ ppc[s][e] = "poll"
    /\ made[s][e] < MaxPayload
    /\ made' = [made EXCEPT ![s][e] = @ + 1]
    /\ ppc' = [ppc EXCEPT ![s][e] = "deliver"]
    /\ UNCHANGED <<returns, polls, aborted, closer>>
    /\ PollUnchanged

(* Mutant of PollDeliver: try_send in place of send, a full channel loses  *)
(* the payload.                                                            *)
PollDeliverFullLoses(s, e) ==
    /\ ppc[s][e] = "deliver"
    /\ \/ SendReturn(s, Data(e, made[s][e]))
       \/ Len(returns[s]) = ReturnCap /\ UNCHANGED returns
    /\ ppc' = [ppc EXCEPT ![s][e] = IF s \in receiving THEN "poll" ELSE "exit"]
    /\ UNCHANGED <<polls, aborted, made, closer>>
    /\ PollUnchanged

PollDeliver(s, e) ==
    /\ ppc[s][e] = "deliver"
    /\ SendReturn(s, Data(e, made[s][e]))
    /\ ppc' = [ppc EXCEPT ![s][e] = IF s \in receiving THEN "poll" ELSE "exit"]
    /\ UNCHANGED <<polls, aborted, made, closer>>
    /\ PollUnchanged

PollClosed(s, e) ==
    /\ ppc[s][e] = "poll"
    /\ ppc' = [ppc EXCEPT ![s][e] = "closing"]
    /\ closer' = [closer EXCEPT ![s][e] = "remove"]
    /\ UNCHANGED <<returns, polls, aborted, made>>
    /\ PollUnchanged

PollExit(s, e) ==
    /\ ppc[s][e] = "exit"
    /\ polls' = [polls EXCEPT ![s] = @ \ {e}]
    /\ ppc' = [ppc EXCEPT ![s][e] = "off"]
    /\ UNCHANGED <<returns, aborted, made, closer>>
    /\ PollUnchanged

(* An aborted task ends at one of its await points; from flow_states.remove *)
(* to flow_counters.remove it does not await.                               *)
PollCancelled(s, e) ==
    /\ aborted[s][e]
    /\ \/ ppc[s][e] \in {"poll", "deliver", "exit"}
       \/ ppc[s][e] = "closing" /\ closer[s][e] \in {"unpin", "publish", "return"}
    /\ ppc' = [ppc EXCEPT ![s][e] = "off"]
    /\ closer' = [closer EXCEPT ![s][e] = "none"]
    /\ held' = [held EXCEPT ![s][e] = FALSE]
    /\ UNCHANGED <<tables, pins_lock, returns, clientVars, dispVars, polls, aborted, made,
                   eventVars>>

-----------------------------------------------------------------------------
ClientStep(s) ==
    \/ ClientConnect(s) \/ ClientConnectReturn(s) \/ ClientSend(s) \/ ClientAbort(s)
    \/ ClientRecv(s) \/ ClientDropReceiver(s) \/ ClientDrop(s)

DispatchStep(s) ==
    \/ DispatchClose(s) \/ DispatchForwarderFrame(s) \/ DispatchSchedule(s)
    \/ \E e \in Exit : TrySend(s, e) \/ TrySendFails(s, e)
    \/ NoUsableExit(s) \/ Pin(s) \/ InsertState(s) \/ MarkOpen(s) \/ PublishOpened(s)
    \/ EnsurePoll(s) \/ Return(s) \/ ForwarderSend(s) \/ ForwarderSendFails(s)
    \/ ClosePin(s) \/ CloseEgress(s) \/ AbortSessionPolls(s)

CloserStep(s, a) ==
    \/ RemoveState(s, a) \/ MarkClosed(s, a) \/ Unpin(s, a) \/ PublishClosed(s, a)
    \/ ReturnClosed(s, a)

PollStep(s, e) ==
    \/ PollData(s, e) \/ PollDeliver(s, e) \/ PollClosed(s, e) \/ PollExit(s, e)
    \/ PollCancelled(s, e)

Next ==
    \E s \in Session :
        \/ ClientStep(s)
        \/ DispatchStep(s)
        \/ \E a \in Agent : CloserStep(s, a)
        \/ \E e \in Exit : PollStep(s, e)

Spec == Init /\ [][Next]_vars

-----------------------------------------------------------------------------
AtRest(s) ==
    /\ frames[s] = <<>>
    /\ dpc[s] = "idle"
    /\ \A e \in Exit : ppc[s][e] = "off"

(* A flow the source-activity table has counted and not yet discounted.    *)
Counted(s) ==
    \/ flow_states[s] # NoExit /\ dpc[s] # "mark"
    \/ \E a \in Agent : held[s][a] /\ closer[s][a] = "mark"

(* active_flows of a source is the number of its counted flows, whatever   *)
(* the order in which sessions open, polls see Closed and Close frames     *)
(* abort polls; a source carries an idle timestamp only without flows.     *)
ActivityMatchesFlows ==
    \A k \in Source :
        /\ source_activity[k] = Cardinality({s \in Session : SourceOf[s] = k /\ Counted(s)})
        /\ k \in idle_since => source_activity[k] = 0

(* A flow is announced at most once, closed at most once and never closed  *)
(* before it is announced, although the dispatcher and every poll task may *)
(* all be closing it; connect() succeeds only for an announced flow.       *)
FlowEventsOrdered ==
    \A s \in Session :
        /\ closed[s] <= opened[s]
        /\ opened[s] <= 1
        /\ client[s] = "open" => opened[s] = 1

(* The tables of the kernel follow the flow.  While its FlowState is       *)
(* present and no Close frame is being handled, a flow is pinned to the    *)
(* exit of that state, and only that exit has taken its frames: no late    *)
(* frame, failover or other closer can move it.  Once its open is          *)
(* answered, it has a live poll task on that exit, registered in           *)
(* active_stream_polls, unless the client dropped the receiver or is       *)
(* closing: somebody will see the exit close.  And once an aborted session *)
(* has come to rest, none of its entries is left.                          *)
TablesFollowFlow ==
    /\ TypeOK
    /\ \A s \in Session :
        /\ flow_states[s] # NoExit =>
              /\ kind[s] # "Close" => flow_pins[s] = flow_states[s]
              /\ carried[s] \subseteq {flow_states[s]}
        /\ flow_states[s] # NoExit /\ dpc[s] \in {"idle", "return", "fsend"} /\ s \in receiving =>
              /\ flow_states[s] \in polls[s]
              /\ ppc[s][flow_states[s]] \in {"poll", "deliver", "closing"}
        /\ client[s] = "aborted" /\ AtRest(s) =>
              /\ flow_pins[s] = NoExit /\ flow_states[s] = NoExit
              /\ s \notin flow_counters /\ polls[s] = {} /\ pins_lock # s

(* Where the payloads of e are in a return channel. *)
DataAt(q, e) == {i \in DOMAIN q : q[i].kind = "Data" /\ q[i].from = e}

(* Payloads of an exit reach the client in the order the exit yielded      *)
(* them, none lost or repeated, while the receiver lives and the session   *)
(* is not aborted; the client's connect() racing the poll task included.   *)
(* The queued ones are in order, start after the last one the client got   *)
(* and end with the last one yielded, which may be in the task's hands.    *)
PayloadsContiguous ==
    \A s \in Session, e \in Exit :
        s \in receiving =>
            LET q == returns[s]
            IN  /\ \A i, j \in DataAt(q, e) : i < j => q[i].seq < q[j].seq
                /\ \E n \in got[s][e]..made[s][e] :
                    /\ {q[i].seq : i \in DataAt(q, e)} = (got[s][e] + 1)..n
                    /\ ~aborted[s][e] =>
                         n + (IF ppc[s][e] = "deliver" THEN 1 ELSE 0) = made[s][e]

(* An announced flow whose FlowState is gone, whose FlowClosed is not out  *)
(* and which no closer has in hand: nobody will report its end.            *)
EndUnreported(s) ==
    /\ opened[s] > closed[s] /\ flow_states[s] = NoExit
    /\ \A a \in Agent : ~(held[s][a] /\ closer[s][a] \in {"mark", "unpin", "publish"})

(* FlowClosed of an announced flow is lost in one way only: a Close frame  *)
(* aborts the poll task that has removed the FlowState and not published.  *)
(* No early return, second closer or departed client drops it.             *)
CloseLostByAbortOnly ==
    [][\A s \in Session :
          ~EndUnreported(s) /\ EndUnreported(s)'
              => \E e \in Exit : aborted[s][e] /\ held[s][e]]_vars

-----------------------------------------------------------------------------
(* Fairness: tokio runs every ready task, egress send and close return     *)
(* (every egress bounds them by a timeout), and a connecting or connected  *)
(* client awaits its return channel.  An exit need not yield anything.     *)
Fairness ==
    \A s \in Session :
        /\ WF_vars(ClientConnectReturn(s)) /\ WF_vars(ClientRecv(s))
        /\ WF_vars(DispatchStep(s))
        /\ \A a \in Agent : WF_vars(CloserStep(s, a))
        /\ \A e \in Exit : WF_vars(PollDeliver(s, e) \/ PollExit(s, e) \/ PollCancelled(s, e))

FairSpec == Spec /\ Fairness

(* A connect() is answered, whatever exits fail or close meanwhile and     *)
(* whichever closer is holding the flow_pins lock.                         *)
ConnectAnswered == \A s \in Session : client[s] = "connecting" ~> client[s] # "connecting"

(* An aborted session is eventually gone from the kernel: the flow_pins    *)
(* lock, the full return channel and the cancelled poll tasks never leave  *)
(* its Close frame waiting for ever.                                       *)
AbortReleases ==
    \A s \in Session :
        client[s] = "aborted" ~>
            /\ AtRest(s)
            /\ s \notin flow_counters
            /\ flow_states[s] = NoExit /\ flow_pins[s] = NoExit /\ polls[s] = {}
=============================================================================
