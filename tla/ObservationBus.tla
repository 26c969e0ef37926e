--------------------------- MODULE ObservationBus ---------------------------
(***************************************************************************)
(* The observation bus of mesh-bus-core: a routing table from event types  *)
(* to subscriber channels, replaced as a whole by load, clone and store,   *)
(* and a status table keyed by the position of a subscriber in its slot.   *)
(* Publishers are the tasks that call publish_reliable; each subscriber is *)
(* the task that drains one bounded channel, wired for every type.  The    *)
(* wiring is done before the bus runs.                                     *)
(***************************************************************************)
EXTENDS Naturals, Sequences, FiniteSets

CONSTANTS
    Type,           \* event types
    Subscriber,     \* channels
    Scoped,         \* subscribers wired under the plugin scope
    Wired,          \* the subscribers of each type, in the order of wiring
    Publisher,      \* tasks that publish reliably
    MaxTimeouts,    \* MAX_LIFECYCLE_TIMEOUTS_BEFORE_UNWIRE
    QueueCap,       \* capacity of a subscriber channel
    MaxPublish,     \* bound: reliable publications
    MaxRevoke       \* bound: calls of unwire_scope

ASSUME ObservationAssumption ==
    /\ Wired \in Seq(Subscriber) /\ IsFiniteSet(Subscriber) /\ Scoped \subseteq Subscriber
    /\ \A i, j \in 1 .. Len(Wired) : Wired[i] = Wired[j] => i = j
    /\ MaxTimeouts \in Nat \ {0, 1} /\ QueueCap \in Nat \ {0}
    /\ MaxPublish \in Nat /\ MaxRevoke \in Nat

VARIABLES
    routing,        \* type -> subscribers that receive it
    status,         \* type -> position -> consecutive timeouts, MaxTimeouts for Unwired
    queue,          \* subscriber -> envelopes in its channel
    receiving,      \* subscribers whose receiver is alive
    ppc,            \* publisher -> "idle", "sending", "load" or "store"
    ptype,          \* publisher -> type it publishes
    senders,        \* publisher -> the slot it has copied
    completed,      \* publisher -> positions that have completed
    unwired,        \* publisher -> positions that drop_indices is to remove
    loaded,         \* publisher -> the routing table it has loaded
    published,      \* publications so far
    rpc,            \* unwire_scope: "idle" or "store"
    rloaded,        \* unwire_scope: the routing table it has loaded
    revoked,        \* calls of unwire_scope so far
    misses,         \* ghost: type -> subscriber -> deadlines missed since a success
    wedged          \* ghost: type -> subscribers that missed MaxTimeouts in a row

pubVars == <<ppc, ptype, senders, completed, unwired, loaded, published>>
revokeVars == <<rpc, rloaded, revoked>>
ghostVars == <<misses, wedged>>
vars == <<routing, status, queue, receiving, pubVars, revokeVars, ghostVars>>

Position == 1 .. Len(Wired)
Table == [Type -> Seq(Subscriber)]
NoTable == [t \in Type |-> <<>>]
Unwired == MaxTimeouts
Elems(q) == {q[i] : i \in 1 .. Len(q)}

TypeOK ==
    /\ routing \in Table
    /\ \A t \in Type : Len(routing[t]) <= Len(Wired)
    /\ status \in [Type -> [Position -> 0 .. Unwired]]
    /\ queue \in [Subscriber -> 0 .. QueueCap]
    /\ receiving \subseteq Subscriber
    /\ ppc \in [Publisher -> {"idle", "sending", "load", "store"}]
    /\ ptype \in [Publisher -> Type]
    /\ senders \in [Publisher -> Seq(Subscriber)]
    /\ \A p \in Publisher : completed[p] \cup unwired[p] \subseteq 1 .. Len(senders[p])
    /\ loaded \in [Publisher -> Table]
    /\ published \in 0 .. MaxPublish
    /\ rpc \in {"idle", "store"} /\ rloaded \in Table /\ revoked \in 0 .. MaxRevoke
    /\ misses \in [Type -> [Subscriber -> Nat]] /\ wedged \in [Type -> SUBSET Subscriber]

Init ==
    /\ routing = [t \in Type |-> Wired]
    /\ status = [t \in Type |-> [i \in Position |-> 0]]
    /\ queue = [s \in Subscriber |-> 0]
    /\ receiving = Subscriber
    /\ ppc = [p \in Publisher |-> "idle"]
    /\ ptype \in [Publisher -> Type]
    /\ senders = [p \in Publisher |-> <<>>]
    /\ completed = [p \in Publisher |-> {}]
    /\ unwired = [p \in Publisher |-> {}]
    /\ loaded = [p \in Publisher |-> NoTable]
    /\ published = 0
    /\ rpc = "idle" /\ rloaded = NoTable /\ revoked = 0
    /\ misses = [t \in Type |-> [s \in Subscriber |-> 0]]
    /\ wedged = [t \in Type |-> {}]

-----------------------------------------------------------------------------
(* SubscriberStatusTable on the value at one position. *)

record_timeout(c) == IF c = Unwired THEN Unwired ELSE c + 1

(* Mutant: a success does not end a run of timeouts. *)
record_successKeeps(c) == c

record_success(c) == IF c = Unwired THEN Unwired ELSE 0

-----------------------------------------------------------------------------
(* publish_reliable *)

Pending(p) == (1 .. Len(senders[p])) \ completed[p]

(* The slot is copied; without subscribers the call returns at once. *)
PublishStart(p, t) ==
    /\ ppc[p] = "idle" /\ published < MaxPublish
    /\ published' = published + 1
    /\ IF routing[t] = <<>>
       THEN UNCHANGED <<ppc, ptype, senders, completed>>
       ELSE /\ ppc' = [ppc EXCEPT ![p] = "sending"]
            /\ ptype' = [ptype EXCEPT ![p] = t]
            /\ senders' = [senders EXCEPT ![p] = routing[t]]
            /\ completed' = [completed EXCEPT ![p] = {}]
    /\ UNCHANGED <<routing, status, queue, receiving, unwired, loaded, revokeVars, ghostVars>>

(* The call returns and its locals go. *)
Return(p) ==
    /\ ppc' = [ppc EXCEPT ![p] = "idle"]
    /\ senders' = [senders EXCEPT ![p] = <<>>]
    /\ completed' = [completed EXCEPT ![p] = {}]
    /\ unwired' = [unwired EXCEPT ![p] = {}]
    /\ loaded' = [loaded EXCEPT ![p] = NoTable]

(* One send has completed; the call returns when all have. *)
Complete(p, i) ==
    IF Pending(p) = {i} THEN Return(p)
    ELSE /\ completed' = [completed EXCEPT ![p] = @ \cup {i}]
         /\ UNCHANGED <<ppc, senders, unwired, loaded>>

Delivered(p, i) ==
    LET s == senders[p][i]
        t == ptype[p]
    IN  /\ ppc[p] = "sending" /\ i \in Pending(p)
        /\ s \in receiving /\ queue[s] < QueueCap
        /\ queue' = [queue EXCEPT ![s] = @ + 1]
        /\ status' = [status EXCEPT ![t][i] = record_success(@)]
        /\ Complete(p, i)
        /\ misses' = [misses EXCEPT ![t][s] = 0]
        /\ UNCHANGED <<routing, receiving, ptype, published, revokeVars, wedged>>

SendClosed(p, i) ==
    /\ ppc[p] = "sending" /\ i \in Pending(p)
    /\ senders[p][i] \notin receiving
    /\ status' = [status EXCEPT ![ptype[p]][i] = Unwired]
    /\ Complete(p, i)
    /\ UNCHANGED <<routing, queue, receiving, ptype, published, revokeVars, ghostVars>>

(* A send that waits: no room, or another publisher waits for the room. *)
Blocked(p, i) ==
    LET s == senders[p][i]
    IN  /\ s \in receiving
        /\ \/ queue[s] = QueueCap
           \/ \E q \in Publisher \ {p} :
                 ppc[q] = "sending" /\ \E j \in Pending(q) : senders[q][j] = s

(* The positions at which this timeout is the transition to Unwired. *)
NowUnwired(p) ==
    {i \in Pending(p) : /\ status[ptype[p]][i] # Unwired
                        /\ record_timeout(status[ptype[p]][i]) = Unwired}

(* The deadline: every send still waiting is given up and counted against  *)
(* its position, under one lock of the status table.                       *)
Deadline(p) ==
    LET t == ptype[p]
        late == {senders[p][i] : i \in Pending(p)}
    IN  /\ ppc[p] = "sending" /\ \A i \in Pending(p) : Blocked(p, i)
        /\ status' = [status EXCEPT ![t] =
                [i \in Position |-> IF i \in Pending(p) THEN record_timeout(@[i]) ELSE @[i]]]
        /\ IF NowUnwired(p) = {} THEN Return(p)
           ELSE /\ unwired' = [unwired EXCEPT ![p] = NowUnwired(p)]
                /\ ppc' = [ppc EXCEPT ![p] = "load"]
                /\ UNCHANGED <<senders, completed, loaded>>
        /\ misses' = [misses EXCEPT ![t] =
                [s \in Subscriber |-> IF s \in late THEN @[s] + 1 ELSE @[s]]]
        /\ wedged' = [wedged EXCEPT ![t] =
                @ \cup {s \in late : misses[t][s] + 1 >= MaxTimeouts}]
        /\ UNCHANGED <<routing, queue, receiving, ptype, published, revokeVars>>

(* Removing positions of a slot; those beyond its end are ignored. *)
Without(slot, drop) ==
    LET gone == {slot[i] : i \in drop \cap (1 .. Len(slot))}
    IN  SelectSeq(slot, LAMBDA s : s \notin gone)

(* drop_indices works on the table as it is now, with positions of the     *)
(* slot as it was when the call began.                                     *)
DropLoad(p) ==
    /\ ppc[p] = "load"
    /\ loaded' = [loaded EXCEPT ![p] = routing]
    /\ ppc' = [ppc EXCEPT ![p] = "store"]
    /\ UNCHANGED <<routing, status, queue, receiving, ptype, senders, completed, unwired,
                   published, revokeVars, ghostVars>>

DropStore(p) ==
    /\ ppc[p] = "store"
    /\ routing' = [loaded[p] EXCEPT ![ptype[p]] = Without(@, unwired[p])]
    /\ Return(p)
    /\ UNCHANGED <<status, queue, receiving, ptype, published, revokeVars, ghostVars>>

-----------------------------------------------------------------------------
(* publish: what does not fit is dropped. *)
PublishLossy(t) ==
    /\ queue' = [s \in Subscriber |->
            IF s \in Elems(routing[t]) \cap receiving /\ queue[s] < QueueCap
            THEN queue[s] + 1 ELSE queue[s]]
    /\ UNCHANGED <<routing, status, receiving, pubVars, revokeVars, ghostVars>>

(* The task of a subscriber takes an envelope, or dies in the observer. *)
Consume(s) ==
    /\ s \in receiving /\ queue[s] > 0
    /\ queue' = [queue EXCEPT ![s] = @ - 1]
    /\ UNCHANGED <<routing, status, receiving, pubVars, revokeVars, ghostVars>>

CloseReceiver(s) ==
    /\ s \in receiving
    /\ receiving' = receiving \ {s}
    /\ UNCHANGED <<routing, status, queue, pubVars, revokeVars, ghostVars>>

(* unwire_scope: the table is loaded, the positions are marked and what is *)
(* kept is stored.                                                         *)
RevokeLoad ==
    /\ rpc = "idle" /\ revoked < MaxRevoke
    /\ rpc' = "store"
    /\ rloaded' = routing
    /\ revoked' = revoked + 1
    /\ UNCHANGED <<routing, status, queue, receiving, pubVars, ghostVars>>

RevokeStore ==
    /\ rpc = "store"
    /\ rpc' = "idle" /\ rloaded' = NoTable
    /\ status' = [t \in Type |-> [i \in Position |->
            IF i <= Len(rloaded[t]) /\ rloaded[t][i] \in Scoped THEN Unwired ELSE status[t][i]]]
    /\ routing' = [t \in Type |-> SelectSeq(rloaded[t], LAMBDA s : s \notin Scoped)]
    /\ UNCHANGED <<queue, receiving, pubVars, revoked, ghostVars>>

PublisherStep(p) ==
    \/ \E i \in Position : Delivered(p, i) \/ SendClosed(p, i)
    \/ Deadline(p) \/ DropLoad(p) \/ DropStore(p)

Next ==
    \/ \E p \in Publisher : PublisherStep(p)
    \/ \E p \in Publisher, t \in Type : PublishStart(p, t)
    \/ \E t \in Type : PublishLossy(t)
    \/ \E s \in Subscriber : Consume(s) \/ CloseReceiver(s)
    \/ RevokeLoad \/ RevokeStore

Spec == Init /\ [][Next]_vars

-----------------------------------------------------------------------------
Idle == rpc = "idle" /\ \A p \in Publisher : ppc[p] = "idle"

(* As long as nothing has left the slot of a type, the count at a position *)
(* is the number of deadlines that its subscriber has missed in a row,     *)
(* however many publications overlap (record_timeout, record_success).     *)
(* Unless the scope is revoked, a slot loses nobody until some subscriber  *)
(* has missed MaxTimeouts deadlines in a row, and that one is the first to *)
(* go: a slow subscriber, a lossy publication or a closed channel alone    *)
(* never changes the routing.                                              *)
FirstRemovedIsWedged ==
    /\ TypeOK
    /\ \A t \in Type :
          /\ routing[t] = Wired => \A i \in Position :
                status[t][i] < Unwired => status[t][i] = misses[t][Wired[i]]
          /\ revoked = 0 =>
                /\ routing[t] # Wired => wedged[t] # {}
                /\ Len(routing[t]) = Len(Wired) - 1 =>
                      Elems(Wired) \ Elems(routing[t]) \subseteq wedged[t]

(* A subscriber that keeps missing the deadline is removed from routing    *)
(* (docs/handbook/dataplane-observation.html).                             *)
WedgedIsRemoved ==
    Idle => \A t \in Type : \A s \in Elems(routing[t]) : misses[t][s] < MaxTimeouts
=============================================================================
