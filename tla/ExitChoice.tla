----------------------------- MODULE ExitChoice -----------------------------
(***************************************************************************)
(* How the bus chooses the exit of a new stream, and what the outcome does *)
(* to the next choice: the health observer and its snapshot, the filter of *)
(* the dispatcher, the load-balancing scheduler in its four modes, and the *)
(* activity of a source, which decides when its lease ends.  Tasks are the *)
(* dispatches that run at the same time.                                   *)
(***************************************************************************)
EXTENDS Integers, Sequences, FiniteSets, SequencesExt, FiniteSetsExt

CONSTANTS
    Exits,          \* the stream exits in the order of registration
    Groups,         \* exit -> its route groups; a target sink is a group of its own
    Weight,         \* exit -> its configured weight, at least 1
    Tasks,          \* dispatches at the same time
    Configs,        \* [mode, policy, asks]: a scheduler and the streams that are asked for,
                    \* with bounds: [flows] open or being opened, exits [faulty] that
                    \* may fail, and the clock [until]
    failure_threshold, recovery_window_ms, probe_after_ms,
    ttl_ms, idle_timeout_ms, max_age_ms, switch_cooldown_ms,
    Generations,    \* bound: generations are told apart modulo this
    Hash(_),        \* hash of a target
    Score(_, _, _), \* weighted rendezvous score of source, generation and exit
    QueueCap        \* capacity of the observer's channel (4096 in the code)

VARIABLES
    config,
    now,
    health,         \* exit -> [failures, last]; failures above the threshold are not told apart
    samples,        \* outcomes on the way to the observer
    unhealthy,      \* the published HealthSnapshot
    rr,             \* the weighted round robin: [ids, cursor, counter]
    sticky,         \* <<source, target>> -> [exit, expires] or NoEntry
    leases,         \* source -> [exit, created, seen, generation, cooldown] or NoEntry
    activity,       \* source -> [flows, idle]
    task,
    flows,          \* <<source, exit>> -> open streams
    history,        \* ghost: exit -> the last failures the observer was told of, since a success
    recent,         \* ghost: the last picks of the round robin
    strayed         \* ghost: sources whose lease was moved without a cause

healthVars == <<health, samples, unhealthy, history>>
schedVars == <<rr, sticky, leases, recent, strayed>>
vars == <<config, now, healthVars, schedVars, activity, task, flows>>

None == "none"
NoEntry == [exit |-> None]
Never == -1
Exit == Range(Exits)
Sources == {a.source : a \in UNION {c.asks : c \in Configs}}
Targets == {a.target : a \in UNION {c.asks : c \in Configs}}
Idle == [pc |-> "idle"]

Wrr(ids) == [ids |-> ids, cursor |-> 1, counter |-> 0]

Init ==
    /\ config \in Configs
    /\ now = 0
    /\ health = [x \in Exit |-> [failures |-> 0, last |-> 0]]
    /\ samples = <<>> /\ unhealthy = {}
    /\ rr = Wrr(<<>>)
    /\ sticky = [k \in Sources \X Targets |-> NoEntry]
    /\ leases = [s \in Sources |-> NoEntry]
    /\ activity = [s \in Sources |-> [flows |-> 0, idle |-> Never]]
    /\ task = [k \in Tasks |-> Idle]
    /\ flows = [f \in Sources \X Exit |-> 0]
    /\ history = [x \in Exit |-> <<>>]
    /\ recent = <<>> /\ strayed = {}

-----------------------------------------------------------------------------
(* ExitHealthTable and the task of ExitHealthObserver *)

can_dispatch(h, at) ==
    \/ h.failures < failure_threshold
    \/ at - h.last >= probe_after_ms

(* Mutant: a success does not end a run of failures. *)
recordKeeps(h, sample) ==
    IF sample.ok THEN h
    ELSE [failures |-> Min({failure_threshold, h.failures + 1}), last |-> sample.at]

(* The time of the last failure is not read after a success. *)
record(h, sample) ==
    IF sample.ok THEN [failures |-> 0, last |-> 0]
    ELSE LET before == IF sample.at - h.last > recovery_window_ms THEN 0 ELSE h.failures
         IN  [failures |-> Min({failure_threshold, before + 1}), last |-> sample.at]

(* try_send: an outcome that finds the channel full is lost. *)
on_core_event(x, ok) ==
    samples' = IF Len(samples) < QueueCap
               THEN Append(samples, [exit |-> x, ok |-> ok, at |-> now]) ELSE samples

(* The snapshot is taken at the time of the sample, and only then. *)
drainer ==
    /\ samples # <<>>
    /\ LET sample == Head(samples)
           table == [health EXCEPT ![sample.exit] = record(@, sample)]
           told == IF sample.ok THEN <<>> ELSE Append(history[sample.exit], sample.at)
       IN  /\ health' = table
           /\ unhealthy' = {x \in Exit : ~can_dispatch(table[x], sample.at)}
           /\ history' = [history EXCEPT ![sample.exit] =
                  IF Len(told) > failure_threshold THEN Tail(told) ELSE told]
    /\ samples' = Tail(samples)
    /\ UNCHANGED <<config, now, schedVars, activity, task, flows>>

-----------------------------------------------------------------------------
(* dispatch: the candidates and the activity of the source are read, and   *)
(* the scheduler is asked.                                                 *)

(* Without a healthy exit a stream that names a group is refused, and one  *)
(* that does not may use any exit.                                         *)
healthy_candidates(group) ==
    LET matching == SelectSeq(Exits, LAMBDA x : group = None \/ group \in Groups[x])
        healthy == SelectSeq(matching, LAMBDA x : x \notin unhealthy)
    IN  IF healthy = <<>> /\ group = None THEN matching ELSE healthy

Busy == {k \in Tasks : task[k].pc # "idle"}

Open == MapThenSumSet(LAMBDA f : flows[f], DOMAIN flows)

Rank(k, a) ==
    /\ task[k].pc = "idle" /\ Open + Cardinality(Busy) < config.flows
    /\ task' = [task EXCEPT ![k] = [pc |-> "ranked", ask |-> a, stale |-> FALSE,
            cands |-> healthy_candidates(a.group), activity |-> activity[a.source]]]
    /\ UNCHANGED <<config, now, healthVars, schedVars, activity, flows>>

order_with_first(cands, pick) ==
    SelectSeq(cands, LAMBDA x : x = pick) \o SelectSeq(cands, LAMBDA x : x # pick)

(* The order is tried from its first exit on; an empty one ends the        *)
(* dispatch with NoUsableExit.                                             *)
Ordered(k, pick) ==
    task' = [task EXCEPT ![k] =
        IF @.cands = <<>> THEN Idle
        ELSE [pc |-> "trying", ask |-> @.ask, order |-> order_with_first(@.cands, pick)]]

-----------------------------------------------------------------------------
(* The modes of LoadBalanceScheduler *)

Total(ids) == MapThenSumSet(LAMBDA x : Weight[x], Range(ids))

(* Mutant: the counter is kept when the cursor moves on. *)
WrrPickKeeps(w) ==
    IF w.counter < Weight[w.ids[w.cursor]]
    THEN [w EXCEPT !.counter = @ + 1]
    ELSE [w EXCEPT !.cursor = (@ % Len(w.ids)) + 1]

WrrPick(w) ==
    IF w.counter < Weight[w.ids[w.cursor]]
    THEN [w EXCEPT !.counter = @ + 1]
    ELSE [w EXCEPT !.cursor = (@ % Len(w.ids)) + 1, !.counter = 1]

(* Another list of candidates starts the round robin afresh. *)
refresh(cands) == IF rr.ids = cands THEN rr ELSE Wrr(cands)

Rotate(cands) ==
    LET next == WrrPick(refresh(cands))
        pick == next.ids[next.cursor]
        picks == IF rr.ids = cands THEN Append(recent, pick) ELSE <<pick>>
    IN  /\ rr' = next
        /\ recent' = IF Len(picks) > Total(cands) THEN Tail(picks) ELSE picks

round_robin(k) ==
    LET cands == task[k].cands
    IN  /\ IF cands = <<>> THEN rr' = refresh(cands) /\ recent' = <<>> ELSE Rotate(cands)
        /\ Ordered(k, IF cands = <<>> THEN None ELSE rr'.ids[rr'.cursor])
        /\ UNCHANGED <<sticky, leases, strayed>>

(* An empty list forgets every session. *)
sticky_sessions(k) ==
    LET cands == task[k].cands
        key == <<task[k].ask.source, task[k].ask.target>>
        entry == sticky[key]
    IN  /\ IF cands = <<>>
           THEN /\ sticky' = [i \in DOMAIN sticky |-> NoEntry]
                /\ rr' = refresh(cands) /\ recent' = <<>>
                /\ Ordered(k, None)
           ELSE IF entry # NoEntry /\ entry.exit \in Range(cands) /\ now < entry.expires
           THEN UNCHANGED <<sticky, rr, recent>> /\ Ordered(k, entry.exit)
           ELSE /\ Rotate(cands)
                /\ sticky' = [sticky EXCEPT ![key] =
                       [exit |-> rr'.ids[rr'.cursor], expires |-> now + ttl_ms]]
                /\ Ordered(k, rr'.ids[rr'.cursor])
        /\ UNCHANGED <<leases, strayed>>

(* The bucket of the hash among the weights laid end to end. *)
consistent_hashing(k) ==
    LET cands == task[k].cands
        bucket == Hash(task[k].ask.target) % Total(cands)
        upto(i) == Total(SubSeq(cands, 1, i))
    IN  /\ Ordered(k, IF cands = <<>> THEN None
                      ELSE cands[Min({i \in DOMAIN cands : bucket < upto(i)})])
        /\ UNCHANGED schedVars

pick_weighted_rendezvous(source, generation, cands) ==
    LET best == Max({Score(source, generation, x) : x \in Range(cands)})
    IN  Head(SelectSeq(cands, LAMBDA x : Score(source, generation, x) = best))

idle_expired(entry, act) ==
    /\ act.flows = 0
    /\ now - (IF act.idle # Never THEN act.idle ELSE entry.seen) >= idle_timeout_ms

max_age_reached(entry) ==
    /\ config.policy # "Off"
    /\ now - entry.created >= max_age_ms /\ now >= entry.cooldown

(* pick_inner: a lease is hit, or a new one takes its place.  An empty     *)
(* list forgets every lease.                                               *)
source_lease_rotate(k) ==
    LET cands == task[k].cands
        source == task[k].ask.source
        entry == leases[source]
        held == entry # NoEntry /\ entry.exit \in Range(cands)
        expired == held /\ idle_expired(entry, task[k].activity)
        hard == held /\ ~expired /\ config.policy = "Hard" /\ Len(cands) > 1
        generation == IF entry = NoEntry THEN 0 ELSE (entry.generation + 1) % Generations
        pick == pick_weighted_rendezvous(source, generation,
                    IF hard THEN SelectSeq(cands, LAMBDA x : x # entry.exit) ELSE cands)
        quiet == activity[source].idle
        uses == \E x \in Exit : flows[<<source, x>>] > 0
    IN  /\ IF cands = <<>>
           THEN leases' = [s \in Sources |-> NoEntry] /\ UNCHANGED strayed /\ Ordered(k, None)
           ELSE IF held /\ ~expired /\ ~max_age_reached(entry)
           THEN /\ leases' = [leases EXCEPT ![source].seen = now]
                /\ UNCHANGED strayed /\ Ordered(k, entry.exit)
           ELSE /\ leases' = [leases EXCEPT ![source] =
                       [exit |-> pick, created |-> now, seen |-> now, generation |-> generation,
                        cooldown |-> now + switch_cooldown_ms]]
                /\ strayed' = IF /\ held /\ config.policy = "Off" /\ ~task[k].stale
                                 /\ \/ uses
                                    \/ quiet # Never /\ now - quiet < idle_timeout_ms
                              THEN strayed \cup {source} ELSE strayed
                /\ Ordered(k, pick)
        /\ UNCHANGED <<rr, sticky, recent>>

schedule(k) ==
    /\ task[k].pc = "ranked"
    /\ \/ config.mode = "RoundRobin" /\ round_robin(k)
       \/ config.mode = "StickySessions" /\ sticky_sessions(k)
       \/ config.mode = "ConsistentHashing" /\ consistent_hashing(k)
       \/ config.mode = "SourceLeaseRotate" /\ source_lease_rotate(k)
    /\ UNCHANGED <<config, now, healthVars, activity, flows>>

-----------------------------------------------------------------------------
(* dispatch_ordered and the end of a stream *)

mark_open(a) == [flows |-> a.flows + 1, idle |-> Never]

(* Mutant: the first stream that closes ends the activity of its source. *)
mark_closedFirst(a) == [flows |-> 0, idle |-> now]

mark_closed(a) ==
    [flows |-> a.flows - 1, idle |-> IF a.flows = 1 THEN now ELSE a.idle]

Opens(k) ==
    LET source == task[k].ask.source
    IN  /\ task[k].pc = "trying"
        /\ flows' = [flows EXCEPT ![<<source, Head(task[k].order)>>] = @ + 1]
        /\ activity' = [activity EXCEPT ![source] = mark_open(@)]
        /\ task' = [j \in Tasks |->
               IF j = k THEN Idle
               ELSE IF task[j].pc = "ranked" /\ task[j].ask.source = source
               THEN [task[j] EXCEPT !.stale = TRUE] ELSE task[j]]
        /\ UNCHANGED <<config, now, healthVars, schedVars>>

Fails(k) ==
    /\ task[k].pc = "trying" /\ Head(task[k].order) \in config.faulty
    /\ on_core_event(Head(task[k].order), FALSE)
    /\ task' = [task EXCEPT ![k] =
           IF Len(@.order) = 1 THEN Idle ELSE [@ EXCEPT !.order = Tail(@)]]
    /\ UNCHANGED <<config, now, health, unhealthy, history, schedVars, activity, flows>>

(* close_flow_if_open, with a reason that counts as a success or not. *)
CloseFlow(source, x, ok) ==
    /\ flows[<<source, x>>] > 0 /\ (ok \/ x \in config.faulty)
    /\ flows' = [flows EXCEPT ![<<source, x>>] = @ - 1]
    /\ activity' = [activity EXCEPT ![source] = mark_closed(@)]
    /\ on_core_event(x, ok)
    /\ UNCHANGED <<config, now, health, unhealthy, history, schedVars, task>>

Tick ==
    /\ now < config.until
    /\ now' = now + 1
    /\ UNCHANGED <<config, healthVars, schedVars, activity, task, flows>>

Dispatch(k) == schedule(k) \/ Opens(k) \/ Fails(k)

Asked == \E k \in Tasks : \E a \in config.asks : Rank(k, a)

Closes == \E s \in Sources, x \in Exit, ok \in BOOLEAN : CloseFlow(s, x, ok)

Next == drainer \/ Asked \/ Closes \/ Tick \/ \E k \in Tasks : Dispatch(k)

Spec == Init /\ [][Next]_vars

(* The tasks of the bus run, streams end, and clients keep asking. *)
FairSpec ==
    /\ Spec /\ WF_vars(drainer) /\ WF_vars(Asked) /\ WF_vars(Closes)
    /\ \A k \in Tasks : WF_vars(Dispatch(k))

-----------------------------------------------------------------------------
(* The run of failures that makes an exit unhealthy is real: the observer  *)
(* was told of failure_threshold failures of that exit since it last was   *)
(* told of a success, each within the recovery window of the one before    *)
(* (ExitHealthTable::record, schemas/health-policy.schema.json).           *)
ExcludedForCause ==
    \A x \in unhealthy :
        /\ Len(history[x]) = failure_threshold
        /\ \A i \in DOMAIN history[x] \ {1} :
               history[x][i] - history[x][i - 1] <= recovery_window_ms

(* As long as the candidates stay the same, any Total consecutive picks of *)
(* the round robin give every exit exactly its weight, whichever           *)
(* dispatches they were made for (Wrr::pick).                              *)
RoundsAreFair ==
    Len(recent) = Total(rr.ids) =>
        \A x \in Range(rr.ids) : Cardinality({i \in DOMAIN recent : recent[i] = x}) = Weight[x]

(* Without a maximal age, a source is not moved from a leased exit that    *)
(* could take the stream while a stream of it is open, nor before it was   *)
(* idle for idle_timeout_ms, unless a stream of it was opened after its    *)
(* activity had been read (SourceLeaseRotate, source_activity.rs).         *)
LeaseIsKept == strayed = {}

ChoiceHasCause == ExcludedForCause /\ RoundsAreFair /\ LeaseIsKept

(* An exit is left out although its probe delay has passed.                *)
HeldBack == \E x \in unhealthy : can_dispatch(health[x], now)

Ungrouped == \A a \in config.asks : a.group = None

(* An unhealthy exit can be tried again after the probe delay              *)
(* (schemas/health-policy.schema.json).                                    *)
ProbedAgain == []<>~HeldBack
=============================================================================
