----------------------------- MODULE BusRuntime -----------------------------
(***************************************************************************)
(* The bus loop (kernel/runtime.rs Bus::run), the session tasks that feed  *)
(* it (kernel/port.rs open_session), the dispatch tasks it spawns, the     *)
(* snapshot clients and the two ways to shut the bus down.                 *)
(*                                                                         *)
(* What a dispatch does is FlowDispatch's subject: here it is a task that  *)
(* runs for some time and ends or, in a faulty egress, panics.  The bus    *)
(* keeps a sender of each of its own channels, so the recv() = None        *)
(* branches of the loop cannot be taken, and nobody closes the semaphore.  *)
(***************************************************************************)
EXTENDS Naturals, FiniteSets, Sequences, Functions

CONSTANTS
    Session,     \* sessions, each with its task of open_session
    Snapshot,    \* calls of BusSnapshotClient::snapshot
    MaxFrames,   \* bound: frames per session
    Faulty,      \* sessions whose egress may panic
    Permits,     \* DISPATCH_CONCURRENCY_LIMIT (512 in the code)
    SubmitCap,   \* capacity of the submit channel (256 in the code)
    NoFrame      \* the loop holds no frame

Frame == Session \X (1..MaxFrames)

ASSUME RuntimeAssumption ==
    /\ IsFiniteSet(Session) /\ Faulty \subseteq Session
    /\ MaxFrames \in Nat /\ Permits \in Nat \ {0} /\ SubmitCap \in Nat \ {0}
    /\ NoFrame \notin Frame

VARIABLES
    port,        \* session -> where its task is
    sent,        \* session -> frames it has taken from the client
    done,        \* session -> the oneshot of the frame it has submitted
    submit_rx,   \* frames in the submit channel
    command_rx,  \* snapshot calls in the command channel
    snap,        \* snapshot call -> where it is
    run,         \* where the bus loop is
    holding,     \* frame for which the loop waits for a permit
    task,        \* frame -> where its dispatch task is
    permits,     \* free permits of dispatch_sem
    in_flight,   \* the counter shutdown reads
    shutdown,    \* the flag
    mode,        \* "shutdown", or "timeout" for shutdown_with_timeout
    handle,      \* where the shutdown call is
    notified,    \* notify_waiters reached the Notified the call waits on
    aborting,    \* join.abort() was called
    pending      \* ghost: frames being dispatched when shutdown was called

portVars == <<port, sent, done>>
loopVars == <<run, holding>>
taskVars == <<task, permits, in_flight>>
handleVars == <<shutdown, mode, handle, notified, aborting, pending>>
vars == <<portVars, submit_rx, command_rx, snap, loopVars, taskVars, handleVars>>

PortPC == {"recv", "submit", "done", "ended"}
TaskPC == {"none", "dispatch", "done_tx", "fetch_sub", "notify", "permit", "ended", "panicked"}
RunPC == {"select", "parked", "permit", "ended"}
HandlePC == {"up", "load", "notified", "wait", "join", "ok", "drain_timeout"}

(* Frames whose dispatch task is in one of the places P. *)
At(P) == {f \in Frame : task[f] \in P}

Init ==
    /\ port = [s \in Session |-> "recv"]
    /\ sent = [s \in Session |-> 0]
    /\ done = [s \in Session |-> "empty"]
    /\ submit_rx = <<>> /\ command_rx = <<>>
    /\ snap = [c \in Snapshot |-> "new"]
    /\ run = "select" /\ holding = NoFrame
    /\ task = [f \in Frame |-> "none"]
    /\ permits = Permits /\ in_flight = 0
    /\ shutdown = FALSE /\ mode = "shutdown" /\ handle = "up"
    /\ notified = FALSE /\ aborting = FALSE /\ pending = {}

-----------------------------------------------------------------------------
(* The task of a session: frames go to the bus one by one.                 *)

PortRecv(s) ==
    /\ port[s] = "recv" /\ sent[s] < MaxFrames
    /\ sent' = [sent EXCEPT ![s] = @ + 1]
    /\ port' = [port EXCEPT ![s] = "submit"]
    /\ done' = [done EXCEPT ![s] = "empty"]
    /\ UNCHANGED <<submit_rx, command_rx, snap, loopVars, taskVars, handleVars>>

(* Mutant: the task does not wait for the frame's dispatch. *)
PortSubmitNoWait(s) ==
    /\ port[s] = "submit"
    /\ run # "ended" /\ Len(submit_rx) < SubmitCap
    /\ submit_rx' = Append(submit_rx, <<s, sent[s]>>)
    /\ port' = [port EXCEPT ![s] = "recv"]
    /\ UNCHANGED <<sent, done, command_rx, snap, loopVars, taskVars, handleVars>>

(* send fails when the loop has dropped its receiver. *)
PortSubmit(s) ==
    /\ port[s] = "submit"
    /\ \/ /\ run # "ended" /\ Len(submit_rx) < SubmitCap
          /\ submit_rx' = Append(submit_rx, <<s, sent[s]>>)
          /\ port' = [port EXCEPT ![s] = "done"]
       \/ /\ run = "ended"
          /\ port' = [port EXCEPT ![s] = "ended"]
          /\ UNCHANGED submit_rx
    /\ UNCHANGED <<sent, done, command_rx, snap, loopVars, taskVars, handleVars>>

PortDone(s) ==
    /\ port[s] = "done" /\ done[s] # "empty"
    /\ port' = [port EXCEPT ![s] = IF done[s] = "sent" THEN "recv" ELSE "ended"]
    /\ UNCHANGED <<sent, done, submit_rx, command_rx, snap, loopVars, taskVars, handleVars>>

-----------------------------------------------------------------------------
(* BusSnapshotClient::snapshot.                                            *)

SnapshotSend(c) ==
    /\ snap[c] = "new"
    /\ IF run = "ended"
       THEN /\ snap' = [snap EXCEPT ![c] = "collect"]
            /\ UNCHANGED command_rx
       ELSE /\ snap' = [snap EXCEPT ![c] = "reply"]
            /\ command_rx' = Append(command_rx, c)
    /\ UNCHANGED <<portVars, submit_rx, loopVars, taskVars, handleVars>>

(* No reply will come: the caller collects the snapshot itself. *)
SnapshotCollect(c) ==
    /\ snap[c] = "collect"
    /\ snap' = [snap EXCEPT ![c] = "have"]
    /\ UNCHANGED <<portVars, submit_rx, command_rx, loopVars, taskVars, handleVars>>

-----------------------------------------------------------------------------
(* The bus loop.  Its select polls the two channels; finding both empty it *)
(* parks, and from there the 50 ms timer may win against a late arrival.   *)

RunPark ==
    /\ run = "select" /\ submit_rx = <<>> /\ command_rx = <<>>
    /\ run' = "parked"
    /\ UNCHANGED <<portVars, submit_rx, command_rx, snap, holding, taskVars, handleVars>>

(* Mutant: no snapshot is served while the loop waits for a permit. *)
RunCommandNotWhileFull ==
    /\ run \in {"select", "parked"} /\ command_rx # <<>>
    /\ snap' = [snap EXCEPT ![Head(command_rx)] = "have"]
    /\ command_rx' = Tail(command_rx)
    /\ run' = "select"
    /\ UNCHANGED <<portVars, submit_rx, holding, taskVars, handleVars>>

RunCommand ==
    /\ run \in {"select", "parked", "permit"} /\ command_rx # <<>>
    /\ snap' = [snap EXCEPT ![Head(command_rx)] = "have"]
    /\ command_rx' = Tail(command_rx)
    /\ run' = IF run = "permit" THEN "permit" ELSE "select"
    /\ UNCHANGED <<portVars, submit_rx, holding, taskVars, handleVars>>

RunTake ==
    /\ run \in {"select", "parked"} /\ submit_rx # <<>>
    /\ holding' = Head(submit_rx)
    /\ submit_rx' = Tail(submit_rx)
    /\ run' = "permit"
    /\ UNCHANGED <<portVars, command_rx, snap, taskVars, handleVars>>

(* Only the loop takes permits, so taking one and counting the dispatch    *)
(* are one step to everybody else.                                         *)
RunPermit ==
    /\ run = "permit" /\ permits > 0
    /\ permits' = permits - 1
    /\ in_flight' = in_flight + 1
    /\ task' = [task EXCEPT ![holding] = "dispatch"]
    /\ holding' = NoFrame /\ run' = "select"
    /\ UNCHANGED <<portVars, submit_rx, command_rx, snap, handleVars>>

(* The loop ends: both receivers are dropped with what they hold, and with *)
(* each frame its oneshot, with each command its reply channel.            *)
EndLoop ==
    LET dropped == Range(submit_rx) \cup ({holding} \ {NoFrame})
    IN  /\ run' = "ended" /\ holding' = NoFrame
        /\ submit_rx' = <<>> /\ command_rx' = <<>>
        /\ done' = [s \in Session |-> IF \E f \in dropped : f[1] = s
                                      THEN "dropped" ELSE done[s]]
        /\ snap' = [c \in Snapshot |-> IF c \in Range(command_rx)
                                       THEN "collect" ELSE snap[c]]
        /\ UNCHANGED <<port, sent, taskVars, handleVars>>

RunIdle ==
    /\ run = "parked"
    /\ \/ shutdown /\ EndLoop
       \/ /\ ~shutdown
          /\ run' = "select"
          /\ UNCHANGED <<portVars, submit_rx, command_rx, snap, holding, taskVars,
                         handleVars>>

RunAborted ==
    /\ aborting /\ run # "ended"
    /\ EndLoop

-----------------------------------------------------------------------------
(* The spawned dispatch task.                                              *)

TaskGoto(f, pc) == task' = [task EXCEPT ![f] = pc]

TaskUnchanged == UNCHANGED <<port, sent, submit_rx, command_rx, snap, loopVars, shutdown,
                             mode, handle, aborting, pending>>

TaskDispatch(f) ==
    /\ task[f] = "dispatch"
    /\ TaskGoto(f, "done_tx")
    /\ TaskUnchanged /\ UNCHANGED <<done, permits, in_flight, notified>>

(* The panic of an egress unwinds the task: done_tx and the permit are     *)
(* dropped, fetch_sub is not reached.                                      *)
TaskPanic(f) ==
    /\ task[f] = "dispatch" /\ f[1] \in Faulty
    /\ done' = [done EXCEPT ![f[1]] = "dropped"]
    /\ permits' = permits + 1
    /\ TaskGoto(f, "panicked")
    /\ TaskUnchanged /\ UNCHANGED <<in_flight, notified>>

(* Mutant: done_tx is kept alive and nothing is sent. *)
TaskDoneTxKept(f) ==
    /\ task[f] = "done_tx"
    /\ TaskGoto(f, "fetch_sub")
    /\ TaskUnchanged /\ UNCHANGED <<done, permits, in_flight, notified>>

TaskDoneTx(f) ==
    /\ task[f] = "done_tx"
    /\ done' = [done EXCEPT ![f[1]] = "sent"]
    /\ TaskGoto(f, "fetch_sub")
    /\ TaskUnchanged /\ UNCHANGED <<permits, in_flight, notified>>

(* Mutant: the count is given back together with the permit, too late. *)
TaskFetchSubSkipped(f) ==
    /\ task[f] = "fetch_sub"
    /\ TaskGoto(f, IF in_flight = 1 THEN "notify" ELSE "permit")
    /\ TaskUnchanged /\ UNCHANGED <<done, permits, in_flight, notified>>

TaskFetchSub(f) ==
    /\ task[f] = "fetch_sub"
    /\ in_flight' = in_flight - 1
    /\ TaskGoto(f, IF in_flight = 1 THEN "notify" ELSE "permit")
    /\ TaskUnchanged /\ UNCHANGED <<done, permits, notified>>

(* notify_waiters wakes the Notified futures that exist, and leaves no     *)
(* permit for one that is created later.                                   *)
TaskNotify(f) ==
    /\ task[f] = "notify"
    /\ notified' = (notified \/ handle = "wait")
    /\ TaskGoto(f, "permit")
    /\ TaskUnchanged /\ UNCHANGED <<done, permits, in_flight>>

TaskDropPermit(f) ==
    /\ task[f] = "permit"
    /\ permits' = permits + 1
    /\ TaskGoto(f, "ended")
    /\ TaskUnchanged /\ UNCHANGED <<done, in_flight, notified>>

-----------------------------------------------------------------------------
(* BusHandle::shutdown and shutdown_with_timeout.                          *)

HandleUnchanged == UNCHANGED <<portVars, submit_rx, command_rx, snap, loopVars, taskVars>>

ShutdownCall(m) ==
    /\ handle = "up"
    /\ shutdown' = TRUE /\ mode' = m /\ handle' = "load"
    /\ pending' = At({"dispatch"})
    /\ HandleUnchanged /\ UNCHANGED <<notified, aborting>>

ShutdownLoad ==
    /\ handle = "load"
    /\ handle' = IF in_flight = 0 THEN "join" ELSE "notified"
    /\ HandleUnchanged /\ UNCHANGED <<shutdown, mode, notified, aborting, pending>>

(* The Notified future is created after the counter was read. *)
ShutdownNotified ==
    /\ handle = "notified"
    /\ handle' = "wait" /\ notified' = FALSE
    /\ HandleUnchanged /\ UNCHANGED <<shutdown, mode, aborting, pending>>

ShutdownWoken ==
    /\ handle = "wait" /\ notified
    /\ handle' = "load"
    /\ HandleUnchanged /\ UNCHANGED <<shutdown, mode, notified, aborting, pending>>

(* The deadline passes, before the wait or during it. *)
ShutdownExpire ==
    /\ mode = "timeout" /\ (handle = "notified" \/ (handle = "wait" /\ ~notified))
    /\ handle' = "drain_timeout" /\ aborting' = TRUE
    /\ HandleUnchanged /\ UNCHANGED <<shutdown, mode, notified, pending>>

ShutdownJoin ==
    /\ handle = "join" /\ run = "ended"
    /\ handle' = "ok"
    /\ HandleUnchanged /\ UNCHANGED <<shutdown, mode, notified, aborting, pending>>

-----------------------------------------------------------------------------
PortStep(s) == PortRecv(s) \/ PortSubmit(s) \/ PortDone(s)

SnapshotStep(c) == SnapshotSend(c) \/ SnapshotCollect(c)

RunStep == RunPark \/ RunCommand \/ RunTake \/ RunPermit \/ RunIdle \/ RunAborted

TaskEnd(f) == TaskDoneTx(f) \/ TaskFetchSub(f) \/ TaskNotify(f) \/ TaskDropPermit(f)

HandleStep ==
    \/ \E m \in {"shutdown", "timeout"} : ShutdownCall(m)
    \/ ShutdownLoad \/ ShutdownNotified \/ ShutdownWoken \/ ShutdownExpire \/ ShutdownJoin

Next ==
    \/ \E s \in Session : PortStep(s)
    \/ \E c \in Snapshot : SnapshotStep(c)
    \/ RunStep
    \/ \E f \in Frame : TaskDispatch(f) \/ TaskPanic(f) \/ TaskEnd(f)
    \/ HandleStep

Spec == Init /\ [][Next]_vars

(* Every task is scheduled and the deadline passes.  Clients submit, ask   *)
(* for snapshots and shut down when they like; a dispatch may take for     *)
(* ever.                                                                   *)
LoopFairness ==
    /\ \A s \in Session : WF_vars(PortSubmit(s)) /\ WF_vars(PortDone(s))
    /\ \A c \in Snapshot : WF_vars(SnapshotCollect(c))
    /\ WF_vars(RunPark) /\ WF_vars(RunCommand) /\ WF_vars(RunTake) /\ WF_vars(RunPermit)
    /\ WF_vars(RunIdle) /\ WF_vars(RunAborted)
    /\ \A f \in Frame : WF_vars(TaskEnd(f))
    /\ WF_vars(ShutdownLoad) /\ WF_vars(ShutdownNotified \/ ShutdownExpire)
    /\ WF_vars(ShutdownWoken) /\ WF_vars(ShutdownJoin)

(* The bus is scheduled, whatever its dispatches do. *)
FairSpec == Spec /\ LoopFairness

(* Every egress call ends. *)
EgressEnds == \A f \in Frame : WF_vars(TaskDispatch(f))

-----------------------------------------------------------------------------
TypeOK ==
    /\ port \in [Session -> PortPC]
    /\ sent \in [Session -> 0..MaxFrames]
    /\ done \in [Session -> {"empty", "sent", "dropped"}]
    /\ submit_rx \in Seq(Frame) /\ Len(submit_rx) <= SubmitCap
    /\ command_rx \in Seq(Snapshot)
    /\ snap \in [Snapshot -> {"new", "reply", "collect", "have"}]
    /\ run \in RunPC /\ holding \in Frame \cup {NoFrame}
    /\ task \in [Frame -> TaskPC]
    /\ permits \in 0..Permits /\ in_flight \in Nat
    /\ shutdown \in BOOLEAN /\ mode \in {"shutdown", "timeout"} /\ handle \in HandlePC
    /\ notified \in BOOLEAN /\ aborting \in BOOLEAN /\ pending \subseteq Frame

(* in_flight counts the dispatches that have not been given back, and the  *)
(* permits out are held by exactly the tasks that have not ended: a        *)
(* dispatch never escapes the count shutdown drains on, nor the limit.  A  *)
(* dispatch that panicked keeps no permit, and stays counted for good.     *)
(* When a shutdown call returns without a timeout, every dispatch that was *)
(* running when it was called has finished (runtime_tests.rs, timing       *)
(* invariant 5).                                                           *)
DispatchAccounting ==
    /\ TypeOK
    /\ in_flight = Cardinality(At({"dispatch", "done_tx", "fetch_sub", "panicked"}))
    /\ permits + Cardinality(At(TaskPC \ {"none", "ended", "panicked"})) = Permits
    /\ handle = "ok" => pending \cap At({"dispatch"}) = {}

(* The bus has the frame: in its channel, in its hands or in a task. *)
OnBus(f) == f \in Range(submit_rx) \/ holding = f \/ task[f] # "none"

(* runtime_tests.rs, timing invariant 2: frames of one session are         *)
(* dispatched in order and never overlap, since a frame reaches the bus    *)
(* only when the dispatch of the one before has ended.                     *)
SessionSerial ==
    \A s \in Session : \A n \in 1..MaxFrames : \A m \in 1..(n - 1) :
        OnBus(<<s, n>>) => task[<<s, m>>] \notin {"none", "dispatch"}

(* runtime_tests.rs, timing invariant 6: a snapshot is answered even while *)
(* all permits are taken by dispatches that do not end, and also by a bus  *)
(* that stops with the call in its channel.                                *)
SnapshotAnswered == \A c \in Snapshot : snap[c] = "reply" ~> snap[c] = "have"

(* If egress calls end, nobody stays with the bus: the task of a session   *)
(* gets its frame dispatched or learns that the bus has stopped, and       *)
(* shutdown_with_timeout returns, drained or not.                          *)
FrameSettled ==
    EgressEnds =>
        /\ \A s \in Session : port[s] = "done" ~> port[s] \in {"recv", "ended"}
        /\ (mode = "timeout" /\ handle = "load") ~> handle \in {"ok", "drain_timeout"}

(* If egress calls end, shutdown returns once the dispatches are done.     *)
ShutdownReturns == EgressEnds => (mode = "shutdown" /\ handle = "load") ~> handle = "ok"
=============================================================================
