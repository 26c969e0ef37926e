-------------------------- MODULE BusRuntimeProofs --------------------------
(***************************************************************************)
(* The dispatch accounting of the bus loop is exact, and the frames of a   *)
(* session are dispatched one after the other, for any number of sessions, *)
(* frames, permits and snapshot calls, and whichever way the bus is shut   *)
(* down.                                                                   *)
(***************************************************************************)
EXTENDS BusRuntime, FiniteSetTheorems, TLAPS

(***************************************************************************)
(* The inductive invariant                                                 *)
(***************************************************************************)

Distinct(q) == \A i, j \in 1..Len(q) : q[i] = q[j] => i = j

(* A frame waits in the submit channel or in the hands of the loop. *)
Waiting(f) == f \in Range(submit_rx) \/ holding = f

(* The channel holds no frame twice and none that the loop holds. *)
QueueInv ==
    /\ Distinct(submit_rx)
    /\ holding \notin Range(submit_rx)
    /\ run = "permit" <=> holding # NoFrame

PortInv == \A s \in Session : port[s] = "submit" => sent[s] # 0 /\ done[s] = "empty"

(* A frame that waits or is being dispatched is the last one its session   *)
(* has taken, and the session waits for it; a frame that has no dispatch   *)
(* behind it is the last one, and its session does not go on.              *)
FrameInvAt(f) ==
    LET s == f[1]
    IN  /\ Waiting(f) \/ task[f] \in {"dispatch", "done_tx"} =>
              port[s] = "done" /\ done[s] = "empty" /\ f[2] = sent[s]
        /\ Waiting(f) => task[f] = "none"
        /\ task[f] # "none" => f[2] <= sent[s] /\ (f[2] = sent[s] => port[s] # "submit")
        /\ task[f] \in {"none", "panicked"} /\ f[2] <= sent[s] =>
              /\ f[2] = sent[s] /\ port[s] # "recv"
              /\ port[s] = "done" => done[s] # "sent"

FrameInv == \A f \in Frame : FrameInvAt(f)

(* What shutdown is to wait for: it was started, and once the counter was  *)
(* found at zero none of it is running.                                    *)
PendingInv ==
    /\ \A f \in pending : task[f] # "none"
    /\ handle \in {"join", "ok"} => pending \cap At({"dispatch"}) = {}

Counted == At({"dispatch", "done_tx", "fetch_sub", "panicked"})
Permitted == At(TaskPC \ {"none", "ended", "panicked"})

CountInv ==
    /\ in_flight = Cardinality(Counted)
    /\ permits + Cardinality(Permitted) = Permits

Inv == TypeOK /\ QueueInv /\ PortInv /\ FrameInv /\ PendingInv /\ CountInv

-----------------------------------------------------------------------------
(* The channel as a set of frames. *)

LEMMA AppendDistinct ==
    ASSUME NEW S, NEW q \in Seq(S), Distinct(q), NEW x \in S, x \notin Range(q)
    PROVE  /\ Append(q, x) \in Seq(S) /\ Len(Append(q, x)) = Len(q) + 1
           /\ Distinct(Append(q, x)) /\ Range(Append(q, x)) = Range(q) \cup {x}
<1>1. /\ Append(q, x) \in Seq(S) /\ Len(Append(q, x)) = Len(q) + 1
      /\ \A i \in 1..Len(q) : Append(q, x)[i] = q[i]
      /\ Append(q, x)[Len(q) + 1] = x /\ Len(q) \in Nat
      /\ DOMAIN q = 1..Len(q) /\ DOMAIN Append(q, x) = 1..(Len(q) + 1)
  OBVIOUS
<1>2. \A i \in 1..Len(q) : q[i] # x
  BY <1>1 DEF Range
<1>3. Distinct(Append(q, x))
  BY <1>1, <1>2 DEF Distinct
<1>4. Range(Append(q, x)) = Range(q) \cup {x}
  BY <1>1 DEF Range
<1> QED
  BY <1>1, <1>3, <1>4

LEMMA TailDistinct ==
    ASSUME NEW S, NEW q \in Seq(S), Distinct(q), q # <<>>
    PROVE  /\ Tail(q) \in Seq(S) /\ Len(Tail(q)) <= Len(q) /\ Distinct(Tail(q))
           /\ Head(q) \in S /\ Head(q) \in Range(q) /\ Head(q) \notin Range(Tail(q))
           /\ Range(Tail(q)) \cup {Head(q)} = Range(q)
<1>1. /\ Tail(q) \in Seq(S) /\ Len(Tail(q)) = Len(q) - 1 /\ Len(q) \in Nat \ {0}
      /\ \A i \in 1..(Len(q) - 1) : Tail(q)[i] = q[i + 1]
      /\ Head(q) = q[1] /\ Head(q) \in S
      /\ DOMAIN q = 1..Len(q) /\ DOMAIN Tail(q) = 1..(Len(q) - 1)
  OBVIOUS
<1>2. Distinct(Tail(q))
  BY <1>1 DEF Distinct
<1>3. Head(q) \notin Range(Tail(q))
  BY <1>1 DEF Range, Distinct
<1>4. Range(Tail(q)) \cup {Head(q)} = Range(q)
  <2>3. ASSUME NEW i \in 1..Len(q) PROVE q[i] \in Range(Tail(q)) \cup {Head(q)}
    <3>1. CASE i = 1
      BY <1>1, <3>1
    <3>2. CASE i # 1
      <4>1. i - 1 \in DOMAIN Tail(q) /\ Tail(q)[i - 1] = q[i]
        BY <1>1, <3>2
      <4> QED
        BY <4>1, Zenon DEF Range
    <3> QED
      BY <3>1, <3>2
  <2>4. Range(Tail(q)) \subseteq Range(q) /\ Head(q) \in Range(q)
    BY <1>1 DEF Range
  <2> QED
    BY <1>1, <2>3, <2>4 DEF Range
<1> QED
  BY <1>1, <1>2, <1>3, <1>4

(***************************************************************************)
(* Counting tasks                                                          *)
(***************************************************************************)

LEMMA FrameFinite == IsFiniteSet(Frame)
<1>1. IsFiniteSet(1..MaxFrames) /\ IsFiniteSet(Session)
  BY RuntimeAssumption, FS_Interval
<1> QED
  BY <1>1, FS_Product, Zenon DEF Frame

LEMMA AtFinite ==
    ASSUME NEW P
    PROVE  IsFiniteSet(At(P)) /\ Cardinality(At(P)) \in Nat
  BY FrameFinite, FS_Subset, FS_CardinalityType DEF At

(* A task that goes on changes the number of tasks in P by one when it     *)
(* enters or leaves P.                                                     *)
LEMMA AtMoves ==
    ASSUME TypeOK, NEW f \in Frame, NEW pc, TaskGoto(f, pc), NEW P
    PROVE  /\ task[f] \in P /\ pc \in P => At(P)' = At(P)
           /\ task[f] \notin P /\ pc \notin P => At(P)' = At(P)
           /\ task[f] \in P /\ pc \notin P =>
                 Cardinality(At(P)) # 0 /\ Cardinality(At(P)') = Cardinality(At(P)) - 1
           /\ task[f] \notin P /\ pc \in P => Cardinality(At(P)') = Cardinality(At(P)) + 1
<1>1. \A g \in Frame : task'[g] = IF g = f THEN pc ELSE task[g]
  BY DEF TaskGoto, TypeOK
<1>2. ASSUME task[f] \in P <=> pc \in P PROVE At(P)' = At(P)
  BY <1>1, <1>2 DEF At
<1>3. ASSUME task[f] \in P, pc \notin P
      PROVE  Cardinality(At(P)) # 0 /\ Cardinality(At(P)') = Cardinality(At(P)) - 1
  <2>1. At(P)' = At(P) \ {f} /\ f \in At(P)
    BY <1>1, <1>3 DEF At
  <2>2. Cardinality(At(P)') = Cardinality(At(P)) - 1
    BY <2>1, AtFinite, FS_RemoveElement, Zenon
  <2>3. Cardinality(At(P)) # 0
    BY <2>1, AtFinite, FS_EmptySet, Zenon
  <2> QED
    BY <2>2, <2>3
<1>4. ASSUME task[f] \notin P, pc \in P
      PROVE  Cardinality(At(P)') = Cardinality(At(P)) + 1
  <2>1. At(P)' = At(P) \cup {f} /\ f \notin At(P)
    BY <1>1, <1>4 DEF At
  <2> QED
    BY <2>1, AtFinite, FS_AddElement, Zenon
<1> QED
  BY <1>2, <1>3, <1>4

(* A step that leaves the tasks and the counters alone. *)
LEMMA CountSame ==
    ASSUME CountInv, task' = task, permits' = permits, in_flight' = in_flight
    PROVE  CountInv'
  BY DEF CountInv, Counted, Permitted, At

LEMMA CountTask ==
    ASSUME TypeOK, CountInv, NEW f \in Frame,
           TaskDispatch(f) \/ TaskPanic(f) \/ TaskEnd(f)
    PROVE  CountInv' /\ permits' \in 0..Permits /\ in_flight' \in Nat
<1>1. /\ Cardinality(Counted) \in Nat /\ Cardinality(Permitted) \in Nat /\ Permits \in Nat
      /\ permits \in 0..Permits /\ in_flight \in Nat
      /\ in_flight = Cardinality(Counted) /\ permits + Cardinality(Permitted) = Permits
  BY AtFinite, RuntimeAssumption DEF Counted, Permitted, TypeOK, CountInv
<1> DEFINE CountedPC == {"dispatch", "done_tx", "fetch_sub", "panicked"}
           PermittedPC == TaskPC \ {"none", "ended", "panicked"}
<1>a. Counted = At(CountedPC) /\ Permitted = At(PermittedPC)
      /\ Counted' = At(CountedPC)' /\ Permitted' = At(PermittedPC)'
  BY DEF Counted, Permitted
<1>2. CASE TaskDispatch(f)
  <2>1. task[f] = "dispatch" /\ TaskGoto(f, "done_tx") /\ permits' = permits
        /\ in_flight' = in_flight
    BY <1>2 DEF TaskDispatch
  <2>2. Counted' = Counted /\ Permitted' = Permitted
    BY <2>1, <1>a, AtMoves DEF TaskPC
  <2> QED
    BY <1>1, <2>1, <2>2 DEF CountInv
<1>3. CASE TaskPanic(f)
  <2>1. task[f] = "dispatch" /\ TaskGoto(f, "panicked") /\ permits' = permits + 1
        /\ in_flight' = in_flight
    BY <1>3 DEF TaskPanic
  <2>2. Counted' = Counted
    BY <2>1, <1>a, AtMoves
  <2>3. Cardinality(Permitted) # 0 /\ Cardinality(Permitted') = Cardinality(Permitted) - 1
    BY <2>1, <1>a, AtMoves DEF TaskPC
  <2> QED
    BY <1>1, <2>1, <2>2, <2>3 DEF CountInv
<1>4. CASE TaskDoneTx(f)
  <2>1. task[f] = "done_tx" /\ TaskGoto(f, "fetch_sub") /\ permits' = permits
        /\ in_flight' = in_flight
    BY <1>4 DEF TaskDoneTx
  <2>2. Counted' = Counted /\ Permitted' = Permitted
    BY <2>1, <1>a, AtMoves DEF TaskPC
  <2> QED
    BY <1>1, <2>1, <2>2 DEF CountInv
<1>5. CASE TaskFetchSub(f)
  <2>1. /\ task[f] = "fetch_sub" /\ permits' = permits /\ in_flight' = in_flight - 1
        /\ \E pc \in {"notify", "permit"} : TaskGoto(f, pc)
    BY <1>5 DEF TaskFetchSub
  <2>2. Cardinality(Counted) # 0 /\ Cardinality(Counted') = Cardinality(Counted) - 1
    BY <2>1, <1>a, AtMoves
  <2>3. Permitted' = Permitted
    BY <2>1, <1>a, AtMoves DEF TaskPC
  <2> QED
    BY <1>1, <2>1, <2>2, <2>3 DEF CountInv
<1>6. CASE TaskNotify(f)
  <2>1. task[f] = "notify" /\ TaskGoto(f, "permit") /\ permits' = permits
        /\ in_flight' = in_flight
    BY <1>6 DEF TaskNotify
  <2>2. Counted' = Counted /\ Permitted' = Permitted
    BY <2>1, <1>a, AtMoves DEF TaskPC
  <2> QED
    BY <1>1, <2>1, <2>2 DEF CountInv
<1>7. CASE TaskDropPermit(f)
  <2>1. task[f] = "permit" /\ TaskGoto(f, "ended") /\ permits' = permits + 1
        /\ in_flight' = in_flight
    BY <1>7 DEF TaskDropPermit
  <2>2. Counted' = Counted
    BY <2>1, <1>a, AtMoves
  <2>3. Cardinality(Permitted) # 0 /\ Cardinality(Permitted') = Cardinality(Permitted) - 1
    BY <2>1, <1>a, AtMoves DEF TaskPC
  <2> QED
    BY <1>1, <2>1, <2>2, <2>3 DEF CountInv
<1> QED
  BY <1>2, <1>3, <1>4, <1>5, <1>6, <1>7 DEF TaskEnd

LEMMA CountPermit ==
    ASSUME TypeOK, CountInv, RunPermit, holding \in Frame, task[holding] = "none"
    PROVE  CountInv' /\ permits' \in 0..Permits /\ in_flight' \in Nat
<1>1. /\ Cardinality(Counted) \in Nat /\ Cardinality(Permitted) \in Nat /\ Permits \in Nat
      /\ permits \in 0..Permits /\ in_flight \in Nat
      /\ in_flight = Cardinality(Counted) /\ permits + Cardinality(Permitted) = Permits
  BY AtFinite, RuntimeAssumption DEF Counted, Permitted, TypeOK, CountInv
<1>2. TaskGoto(holding, "dispatch") /\ permits > 0 /\ permits' = permits - 1
      /\ in_flight' = in_flight + 1
  BY DEF RunPermit, TaskGoto
<1>3. Cardinality(Counted') = Cardinality(Counted) + 1
  BY <1>2, AtMoves DEF Counted
<1>4. Cardinality(Permitted') = Cardinality(Permitted) + 1
  BY <1>2, AtMoves DEF Permitted, TaskPC
<1> QED
  BY <1>1, <1>2, <1>3, <1>4 DEF CountInv

(***************************************************************************)
(* What a step that leaves a part of the state alone preserves             *)
(***************************************************************************)

LEMMA FrameParts ==
    ASSUME NEW f \in Frame
    PROVE  f[1] \in Session /\ f[2] \in 1..MaxFrames /\ f = <<f[1], f[2]>>
  BY DEF Frame

LEMMA FramesSame ==
    ASSUME PortInv, FrameInv, port' = port, sent' = sent, done' = done,
           submit_rx' = submit_rx, holding' = holding, task' = task
    PROVE  PortInv' /\ FrameInv'
<1>1. PortInv'
  BY DEF PortInv
<1>2. FrameInv'
  BY DEF FrameInv, FrameInvAt, Waiting
<1> QED
  BY <1>1, <1>2

LEMMA QueueSame ==
    ASSUME QueueInv, submit_rx' = submit_rx, holding' = holding,
           run' = run \/ (run # "permit" /\ run' # "permit")
    PROVE  QueueInv'
  BY DEF QueueInv

LEMMA PendingSame ==
    ASSUME PendingInv, task' = task, handle' = handle, pending' = pending
    PROVE  PendingInv'
  BY DEF PendingInv, At

(***************************************************************************)
(* The tasks of the sessions                                               *)
(***************************************************************************)

LEMMA PortRecvInv ==
    ASSUME Inv, NEW s \in Session, PortRecv(s)
    PROVE  Inv'
<1> USE RuntimeAssumption DEF Inv
<1>1. TypeOK'
  BY DEF TypeOK, PortRecv, PortPC, loopVars, taskVars, handleVars
<1>2. QueueInv' /\ PendingInv' /\ CountInv'
  BY QueueSame, PendingSame, CountSame DEF PortRecv, loopVars, taskVars, handleVars
<1>3. /\ port[s] = "recv" /\ sent[s] \in Nat
      /\ \A r \in Session : /\ sent'[r] = IF r = s THEN sent[r] + 1 ELSE sent[r]
                            /\ port'[r] = IF r = s THEN "submit" ELSE port[r]
                            /\ done'[r] = IF r = s THEN "empty" ELSE done[r]
      /\ task' = task /\ submit_rx' = submit_rx /\ holding' = holding
  BY DEF TypeOK, PortRecv, loopVars, taskVars
<1>4. PortInv'
  BY <1>3 DEF PortInv
<1>5. ASSUME NEW f \in Frame PROVE FrameInvAt(f)'
  <2>1. FrameInvAt(f) /\ (Waiting(f)' <=> Waiting(f)) /\ task'[f] = task[f]
    BY <1>3 DEF FrameInv, Waiting
  <2>2. CASE f[1] = s
    <3>1. f[2] \in Nat /\ sent[s] \in Nat
      BY <1>3, FrameParts
    <3>2. ~Waiting(f) /\ task[f] \notin {"dispatch", "done_tx"}
      BY <1>3, <2>1, <2>2, ZenonT(30) DEF FrameInvAt
    <3>3. f[2] <= sent[s] <=> task[f] # "none"
      BY <1>3, <2>1, <2>2, ZenonT(30) DEF FrameInvAt
    <3>4. f[2] <= sent[s] => task[f] # "panicked"
      BY <1>3, <2>1, <2>2, ZenonT(30) DEF FrameInvAt
    <3>5. sent'[f[1]] = sent[s] + 1 /\ port'[f[1]] = "submit"
      BY <1>3, <2>2
    <3> QED
      BY <2>1, <3>1, <3>2, <3>3, <3>4, <3>5 DEF FrameInvAt
  <2>3. CASE f[1] # s
    BY <1>3, <2>1, <2>3, FrameParts DEF FrameInvAt
  <2> QED
    BY <2>2, <2>3
<1> QED
  BY <1>1, <1>2, <1>4, <1>5, ZenonT(30) DEF FrameInv

LEMMA PortSubmitInv ==
    ASSUME Inv, NEW s \in Session, PortSubmit(s)
    PROVE  Inv'
<1> USE RuntimeAssumption DEF Inv
<1> DEFINE g == <<s, sent[s]>>
<1>1. /\ port[s] = "submit" /\ sent[s] \in 1..MaxFrames /\ done[s] = "empty" /\ g \in Frame
      /\ g[1] = s /\ g[2] = sent[s]
  BY DEF TypeOK, PortSubmit, PortInv, Frame
<1>2. ~Waiting(g) /\ task[g] = "none"
  <2>1. FrameInvAt(g)
    BY <1>1 DEF FrameInv
  <2> QED
    BY <1>1, <2>1 DEF FrameInvAt
<1>3. sent' = sent /\ done' = done /\ task' = task /\ run' = run /\ holding' = holding
      /\ PendingInv' /\ CountInv'
  BY PendingSame, CountSame DEF PortSubmit, loopVars, taskVars, handleVars
<1>4. CASE run # "ended" /\ Len(submit_rx) < SubmitCap /\ submit_rx' = Append(submit_rx, g)
           /\ port' = [port EXCEPT ![s] = "done"]
  <2>1. g \notin Range(submit_rx) /\ submit_rx \in Seq(Frame) /\ Distinct(submit_rx)
        /\ holding # g /\ holding \notin Range(submit_rx) /\ Len(submit_rx) \in Nat
    BY <1>2 DEF Waiting, TypeOK, QueueInv
  <2>2. /\ submit_rx' \in Seq(Frame) /\ Len(submit_rx') = Len(submit_rx) + 1
        /\ Distinct(submit_rx') /\ Range(submit_rx') = Range(submit_rx) \cup {g}
    <3> HIDE RuntimeAssumption DEF g, Inv
    <3>0. g \in Frame
      BY <1>1
    <3>1. /\ Append(submit_rx, g) \in Seq(Frame)
          /\ Len(Append(submit_rx, g)) = Len(submit_rx) + 1 /\ Distinct(Append(submit_rx, g))
          /\ Range(Append(submit_rx, g)) = Range(submit_rx) \cup {g}
      BY <2>1, <3>0, AppendDistinct
    <3>2. submit_rx' = Append(submit_rx, g)
      BY <1>4, Zenon
    <3> QED
      BY <3>1, <3>2 DEF Distinct
  <2>3. TypeOK'
    <3>1. Len(submit_rx') <= SubmitCap
      BY <1>4, <2>1, <2>2
    <3> QED
      BY <1>3, <1>4, <2>2, <3>1 DEF TypeOK, PortSubmit, PortPC, loopVars, taskVars, handleVars
  <2>4. QueueInv'
    BY <1>3, <2>1, <2>2 DEF QueueInv
  <2>5. \A r \in Session : port'[r] = IF r = s THEN "done" ELSE port[r]
    BY <1>4 DEF TypeOK
  <2>6. PortInv'
    BY <1>3, <2>5 DEF PortInv
  <2>7. ASSUME NEW f \in Frame PROVE FrameInvAt(f)'
    <3>1. FrameInvAt(f) /\ (Waiting(f)' <=> Waiting(f) \/ f = g) /\ task'[f] = task[f]
      BY <1>3, <2>2, ZenonT(30) DEF FrameInv, Waiting
    <3>2. CASE f = g
      BY <1>1, <1>2, <1>3, <2>5, <3>1, <3>2, ZenonT(30) DEF FrameInvAt
    <3>3. CASE f # g
      <4>1. Waiting(f) \/ task[f] \in {"dispatch", "done_tx"} => f[1] # s
        BY <1>1, <3>1 DEF FrameInvAt
      <4>2. f[1] \in Session /\ (f[1] = s => f[2] # sent[s])
        BY <3>3, FrameParts
      <4> QED
        BY <1>1, <1>3, <2>5, <3>1, <3>3, <4>1, <4>2, ZenonT(30) DEF FrameInvAt
    <3> QED
      BY <3>2, <3>3
  <2> QED
    BY <1>3, <2>3, <2>4, <2>6, <2>7 DEF FrameInv
<1>5. CASE run = "ended" /\ port' = [port EXCEPT ![s] = "ended"] /\ submit_rx' = submit_rx
  <2>1. TypeOK'
    BY <1>5 DEF TypeOK, PortSubmit, PortPC, loopVars, taskVars, handleVars
  <2>2. QueueInv'
    BY <1>3, <1>5, QueueSame
  <2>3. \A r \in Session : port'[r] = IF r = s THEN "ended" ELSE port[r]
    BY <1>5, ZenonT(30) DEF TypeOK
  <2>4. PortInv'
    BY <1>3, <2>3, ZenonT(30) DEF PortInv
  <2>5. ASSUME NEW f \in Frame PROVE FrameInvAt(f)'
    <3>1. FrameInvAt(f) /\ (Waiting(f)' <=> Waiting(f)) /\ task'[f] = task[f] /\ f[1] \in Session
      BY <1>3, <1>5, FrameParts DEF FrameInv, Waiting
    <3> QED
      BY <1>1, <1>3, <2>3, <3>1 DEF FrameInvAt
  <2> QED
    BY <1>3, <2>1, <2>2, <2>4, <2>5 DEF FrameInv
<1> QED
  BY <1>4, <1>5 DEF PortSubmit

LEMMA PortDoneInv ==
    ASSUME Inv, NEW s \in Session, PortDone(s)
    PROVE  Inv'
<1> USE DEF Inv
<1>1. TypeOK'
  BY DEF TypeOK, PortDone, PortPC, loopVars, taskVars, handleVars
<1>2. QueueInv' /\ PendingInv' /\ CountInv'
  BY QueueSame, PendingSame, CountSame, ZenonT(30) DEF PortDone, loopVars, taskVars, handleVars
<1>3. /\ port[s] = "done" /\ done[s] # "empty" /\ sent' = sent /\ done' = done
      /\ \A r \in Session : port'[r] = IF r # s THEN port[r]
                                       ELSE IF done[s] = "sent" THEN "recv" ELSE "ended"
      /\ task' = task /\ submit_rx' = submit_rx /\ holding' = holding
  BY DEF TypeOK, PortDone, loopVars, taskVars
<1>4. PortInv'
  BY <1>3, ZenonT(30) DEF PortInv
<1>5. ASSUME NEW f \in Frame PROVE FrameInvAt(f)'
  <2>1. FrameInvAt(f) /\ (Waiting(f)' <=> Waiting(f)) /\ task'[f] = task[f] /\ f[1] \in Session
    BY <1>3, FrameParts DEF FrameInv, Waiting
  <2> QED
    BY <1>3, <2>1 DEF FrameInvAt
<1> QED
  BY <1>1, <1>2, <1>4, <1>5 DEF FrameInv

(***************************************************************************)
(* The bus loop                                                            *)
(***************************************************************************)

LEMMA SnapshotInv ==
    ASSUME Inv, NEW c \in Snapshot, SnapshotStep(c)
    PROVE  Inv'
<1> USE DEF Inv
<1>1. UNCHANGED <<port, sent, done, submit_rx, run, holding, taskVars, handleVars>>
  BY DEF SnapshotStep, SnapshotSend, SnapshotCollect, portVars, loopVars
<1>2. /\ command_rx' = command_rx \/ command_rx' = Append(command_rx, c)
      /\ \E p \in {"collect", "reply", "have"} : snap' = [snap EXCEPT ![c] = p]
  BY DEF SnapshotStep, SnapshotSend, SnapshotCollect
<1>3. command_rx' \in Seq(Snapshot)
  <2>1. command_rx \in Seq(Snapshot)
    BY DEF TypeOK
  <2> HIDE DEF Inv
  <2>2. Append(command_rx, c) \in Seq(Snapshot)
    BY <2>1
  <2> QED
    BY <1>2, <2>1, <2>2
<1>4. snap' \in [Snapshot -> {"new", "reply", "collect", "have"}]
  BY <1>2 DEF TypeOK
<1>5. TypeOK'
  BY <1>1, <1>3, <1>4 DEF TypeOK, taskVars, handleVars
<1> QED
  BY <1>1, <1>5, FramesSame, QueueSame, PendingSame, CountSame DEF taskVars, handleVars

LEMMA RunQuietInv ==
    ASSUME Inv,
           \/ RunPark \/ RunCommand
           \/ /\ run = "parked" /\ run' = "select"
              /\ UNCHANGED <<portVars, submit_rx, command_rx, snap, holding, taskVars,
                             handleVars>>
    PROVE  Inv'
<1> USE DEF Inv
<1>1. UNCHANGED <<port, sent, done, submit_rx, holding, taskVars, handleVars>>
  BY DEF RunPark, RunCommand, portVars
<1>2. run' \in RunPC /\ (run' = run \/ (run # "permit" /\ run' # "permit"))
  BY DEF TypeOK, RunPark, RunCommand, RunPC
<1>3. command_rx' \in Seq(Snapshot)
  <2>1. command_rx' = command_rx \/ (command_rx # <<>> /\ command_rx' = Tail(command_rx))
    BY DEF RunPark, RunCommand
  <2>2. command_rx \in Seq(Snapshot)
    BY DEF TypeOK
  <2> HIDE DEF Inv
  <2> QED
    BY <2>1, <2>2
<1>4. snap' \in [Snapshot -> {"new", "reply", "collect", "have"}]
  BY DEF TypeOK, RunPark, RunCommand
<1>5. TypeOK'
  BY <1>1, <1>2, <1>3, <1>4 DEF TypeOK, taskVars, handleVars
<1> QED
  BY <1>1, <1>2, <1>5, FramesSame, QueueSame, PendingSame, CountSame DEF taskVars, handleVars

LEMMA RunTakeInv ==
    ASSUME Inv, RunTake
    PROVE  Inv'
<1> USE DEF Inv
<1> DEFINE g == Head(submit_rx)
<1>1. submit_rx \in Seq(Frame) /\ Distinct(submit_rx) /\ submit_rx # <<>>
      /\ Len(submit_rx) <= SubmitCap /\ holding = NoFrame
  BY DEF TypeOK, QueueInv, RunTake
<1>2. /\ holding' = g /\ submit_rx' = Tail(submit_rx) /\ run' = "permit"
      /\ UNCHANGED <<port, sent, done, command_rx, snap, taskVars, handleVars>>
  BY DEF RunTake, portVars
<1>3. /\ Tail(submit_rx) \in Seq(Frame) /\ Len(Tail(submit_rx)) <= Len(submit_rx)
      /\ Distinct(Tail(submit_rx)) /\ g \in Frame /\ g \notin Range(Tail(submit_rx))
      /\ Range(Tail(submit_rx)) \cup {g} = Range(submit_rx)
  <2> HIDE DEF Inv
  <2> QED
    BY <1>1, TailDistinct, Zenon
<1>4. Len(Tail(submit_rx)) <= SubmitCap
  BY <1>1, <1>3, RuntimeAssumption
<1>5. TypeOK'
  BY <1>2, <1>3, <1>4 DEF TypeOK, RunPC, taskVars, handleVars
<1>6. QueueInv'
  BY <1>2, <1>3, RuntimeAssumption, ZenonT(30) DEF QueueInv, Distinct
<1>7. \A f \in Frame : Waiting(f)' <=> Waiting(f)
  BY <1>1, <1>2, <1>3, RuntimeAssumption DEF Waiting
<1>8. PortInv' /\ FrameInv'
  BY <1>2, <1>7 DEF PortInv, FrameInv, FrameInvAt, taskVars
<1> QED
  BY <1>2, <1>5, <1>6, <1>8, PendingSame, CountSame DEF taskVars, handleVars

LEMMA RunPermitInv ==
    ASSUME Inv, RunPermit
    PROVE  Inv'
<1> USE DEF Inv
<1>1. holding \in Frame /\ FrameInvAt(holding) /\ Waiting(holding)
  BY DEF TypeOK, QueueInv, FrameInv, Waiting, RunPermit
<1>2. task[holding] = "none"
  BY <1>1 DEF FrameInvAt
<1>3. CountInv' /\ permits' \in 0..Permits /\ in_flight' \in Nat
  BY <1>1, <1>2, CountPermit
<1>4. /\ holding' = NoFrame /\ run' = "select"
      /\ UNCHANGED <<port, sent, done, submit_rx, command_rx, snap, handleVars>>
      /\ task' = [task EXCEPT ![holding] = "dispatch"]
      /\ \A f \in Frame : task'[f] = IF f = holding THEN "dispatch" ELSE task[f]
  BY DEF RunPermit, portVars, TypeOK
<1>5. TypeOK'
  BY <1>3, <1>4, Zenon DEF TypeOK, RunPC, TaskPC, handleVars
<1>6. QueueInv'
  <2>1. NoFrame \notin Range(submit_rx)
    BY RuntimeAssumption DEF TypeOK, Range
  <2> QED
    BY <1>4, <2>1 DEF QueueInv
<1>7. PortInv'
  BY <1>4 DEF PortInv
<1>8. ASSUME NEW f \in Frame PROVE FrameInvAt(f)'
  <2>1. FrameInvAt(f) /\ f # NoFrame
    BY RuntimeAssumption DEF FrameInv
  <2>2. CASE f = holding
    <3>1. ~Waiting(f)' /\ task'[f] = "dispatch"
      BY <1>4, <2>1, <2>2 DEF Waiting, QueueInv
    <3>2. f[1] \in Session /\ f[2] \in Nat
      BY FrameParts
    <3> QED
      BY <1>1, <1>4, <2>2, <3>1, <3>2 DEF FrameInvAt
  <2>3. CASE f # holding
    <3>1. (Waiting(f)' <=> Waiting(f)) /\ task'[f] = task[f]
      BY <1>4, <2>1, <2>3, ZenonT(30) DEF Waiting
    <3> QED
      BY <1>4, <2>1, <3>1, ZenonT(30) DEF FrameInvAt
  <2> QED
    BY <2>2, <2>3
<1>9. PendingInv'
  BY <1>2, <1>4, RuntimeAssumption DEF PendingInv, TypeOK, At, handleVars
<1> QED
  BY <1>3, <1>5, <1>6, <1>7, <1>8, <1>9 DEF FrameInv

LEMMA EndLoopInv ==
    ASSUME Inv, EndLoop
    PROVE  Inv'
<1> USE DEF Inv
<1> DEFINE dropped == Range(submit_rx) \cup ({holding} \ {NoFrame})
<1>1. /\ run' = "ended" /\ holding' = NoFrame /\ submit_rx' = <<>> /\ command_rx' = <<>>
      /\ UNCHANGED <<port, sent, taskVars, handleVars>>
      /\ \A s \in Session : done'[s] = IF \E f \in dropped : f[1] = s
                                       THEN "dropped" ELSE done[s]
      /\ done' \in [Session -> {"empty", "sent", "dropped"}]
      /\ snap' \in [Snapshot -> {"new", "reply", "collect", "have"}]
  BY DEF EndLoop, TypeOK
<1>2. dropped \subseteq Frame /\ \A f \in dropped : Waiting(f)
  BY DEF TypeOK, Range, Waiting
<1>3. TypeOK'
  BY <1>1, RuntimeAssumption DEF TypeOK, RunPC, taskVars, handleVars
<1>4. Range(submit_rx') = {}
  BY <1>1 DEF Range
<1>5. QueueInv'
  BY <1>1, <1>4 DEF QueueInv, Distinct
<1>6. ASSUME NEW f \in dropped
      PROVE  /\ f \in Frame /\ f[1] \in Session /\ port[f[1]] = "done" /\ f[2] = sent[f[1]]
             /\ task[f] = "none"
  BY <1>2, <1>6, FrameParts, ZenonT(30) DEF FrameInv, FrameInvAt
<1>7. PortInv'
  BY <1>1, <1>6 DEF PortInv
<1>8. ASSUME NEW f \in Frame PROVE FrameInvAt(f)'
  <2>1. FrameInvAt(f) /\ ~Waiting(f)' /\ task'[f] = task[f] /\ f[1] \in Session
    BY <1>1, <1>4, FrameParts, RuntimeAssumption, ZenonT(30) DEF FrameInv, Waiting, taskVars
  <2>2. CASE \E h \in dropped : h[1] = f[1]
    <3>1. PICK h \in dropped : h[1] = f[1]
      BY <2>2
    <3>2. task[f] \notin {"dispatch", "done_tx"}
      <4>1. ASSUME task[f] \in {"dispatch", "done_tx"} PROVE FALSE
        <5>1. f[2] = h[2]
          BY <1>6, <2>1, <3>1, <4>1 DEF FrameInvAt
        <5>2. f = h
          BY <1>6, <3>1, <5>1, FrameParts
        <5> QED
          BY <1>6, <4>1, <5>2, ZenonT(30)
      <4> QED
        BY <4>1
    <3>3. done'[f[1]] = "dropped"
      BY <1>1, <2>1, <2>2, ZenonT(30)
    <3> QED
      BY <1>1, <2>1, <3>2, <3>3 DEF FrameInvAt
  <2>3. CASE ~\E h \in dropped : h[1] = f[1]
    <3>1. done'[f[1]] = done[f[1]]
      BY <1>1, <2>1, <2>3
    <3> QED
      BY <1>1, <2>1, <3>1, ZenonT(30) DEF FrameInvAt
  <2> QED
    BY <2>2, <2>3
<1> QED
  BY <1>1, <1>3, <1>5, <1>7, <1>8, PendingSame, CountSame, ZenonT(30) DEF FrameInv, taskVars, handleVars

(***************************************************************************)
(* The dispatch tasks                                                      *)
(***************************************************************************)

LEMMA TaskInv ==
    ASSUME Inv, NEW f \in Frame, TaskDispatch(f) \/ TaskPanic(f) \/ TaskEnd(f)
    PROVE  Inv'
<1> USE DEF Inv
<1>1. CountInv' /\ permits' \in 0..Permits /\ in_flight' \in Nat
  BY CountTask, ZenonT(30)
<1>2. UNCHANGED <<port, sent, submit_rx, command_rx, snap, run, holding, shutdown, mode,
                  handle, aborting, pending>>
  BY DEF TaskDispatch, TaskPanic, TaskEnd, TaskDoneTx, TaskFetchSub, TaskNotify,
         TaskDropPermit, TaskUnchanged, loopVars
<1>3. f[1] \in Session /\ f[2] \in Nat /\ FrameInvAt(f)
  BY FrameParts DEF FrameInv
<1>4. PICK pc \in TaskPC :
         /\ TaskGoto(f, pc)
         /\ \/ task[f] = "dispatch" /\ pc = "done_tx" /\ done' = done
            \/ task[f] = "dispatch" /\ pc = "panicked" /\ done' = [done EXCEPT ![f[1]] = "dropped"]
            \/ task[f] = "done_tx" /\ pc = "fetch_sub" /\ done' = [done EXCEPT ![f[1]] = "sent"]
            \/ /\ task[f] \in {"fetch_sub", "notify", "permit"} /\ done' = done
               /\ pc \in {"notify", "permit", "ended"}
  BY DEF TaskDispatch, TaskPanic, TaskEnd, TaskDoneTx, TaskFetchSub, TaskNotify,
         TaskDropPermit, TaskPC
<1>5. \A g \in Frame : task'[g] = IF g = f THEN pc ELSE task[g]
  BY <1>4 DEF TaskGoto, TypeOK
<1>6. notified' \in BOOLEAN
  BY Zenon DEF TaskDispatch, TaskPanic, TaskEnd, TaskDoneTx, TaskFetchSub, TaskNotify,
         TaskDropPermit, TypeOK
<1>7. task' \in [Frame -> TaskPC]
  BY <1>4 DEF TaskGoto, TypeOK
<1>8. done' \in [Session -> {"empty", "sent", "dropped"}]
  BY <1>3, <1>4, Zenon DEF TypeOK
<1>9. TypeOK'
  BY <1>1, <1>2, <1>6, <1>7, <1>8 DEF TypeOK
<1>10. QueueInv'
  BY <1>2, QueueSame, ZenonT(30)
<1>11. \A s \in Session : s # f[1] => done'[s] = done[s]
  BY <1>3, <1>4, ZenonT(30) DEF TypeOK
<1>12. task[f] = "dispatch" \/ task[f] = "done_tx" =>
          port[f[1]] = "done" /\ f[2] = sent[f[1]]
  BY <1>3, ZenonT(30) DEF FrameInvAt
<1>13. PortInv'
  <2> SUFFICES ASSUME NEW s \in Session, port[s] = "submit"
               PROVE  sent[s] # 0 /\ done'[s] = "empty"
    BY <1>2 DEF PortInv
  <2>1. sent[s] # 0 /\ done[s] = "empty"
    BY ZenonT(30) DEF PortInv
  <2>2. s # f[1] \/ done' = done
    BY <1>4, <1>12
  <2> QED
    BY <1>11, <2>1, <2>2
<1>14. ASSUME NEW g \in Frame PROVE FrameInvAt(g)'
  <2>1. FrameInvAt(g) /\ (Waiting(g)' <=> Waiting(g)) /\ g[1] \in Session /\ g[2] \in Nat
    BY <1>2, FrameParts DEF FrameInv, Waiting
  <2>2. CASE g = f
    <3>1. task'[g] = pc
      BY <1>5, <2>2
    <3>2. pc = "panicked" => done'[g[1]] = "dropped"
      BY <1>3, <1>4, <2>2 DEF TypeOK
    <3> QED
      BY <1>2, <1>4, <2>1, <2>2, <3>1, <3>2, ZenonT(30) DEF FrameInvAt
  <2>3. CASE g # f /\ g[1] = f[1]
    <3>1. task'[g] = task[g]
      BY <1>5, <2>3, ZenonT(30)
    <3>2. CASE task[f] \in {"dispatch", "done_tx"}
      <4>1. g[2] # sent[g[1]]
        BY <1>12, <2>3, <3>2, FrameParts, ZenonT(30)
      <4> QED
        BY <1>2, <2>1, <3>1, <4>1 DEF FrameInvAt
    <3>3. CASE task[f] \notin {"dispatch", "done_tx"}
      <4>1. done' = done
        BY <1>4, <3>3, ZenonT(30)
      <4> QED
        BY <1>2, <2>1, <3>1, <4>1, ZenonT(30) DEF FrameInvAt
    <3> QED
      BY <3>2, <3>3
  <2>4. CASE g[1] # f[1]
    <3>1. task'[g] = task[g] /\ done'[g[1]] = done[g[1]]
      BY <1>5, <1>11, <2>1, <2>4, ZenonT(30)
    <3> QED
      BY <1>2, <2>1, <3>1, ZenonT(30) DEF FrameInvAt
  <2> QED
    BY <2>2, <2>3, <2>4
<1>15. PendingInv'
  <2>1. pc # "none" /\ pc # "dispatch"
    BY <1>4
  <2>2. pending \subseteq Frame
    BY DEF TypeOK
  <2>3. \A g \in pending : task'[g] # "none" /\ (task'[g] = "dispatch" => task[g] = "dispatch")
    BY <1>5, <2>1, <2>2 DEF PendingInv
  <2> QED
    BY <1>2, <2>2, <2>3 DEF PendingInv, At
<1> QED
  BY <1>1, <1>9, <1>10, <1>13, <1>14, <1>15 DEF FrameInv

(***************************************************************************)
(* The shutdown calls                                                      *)
(***************************************************************************)

(* The counter is at zero only when no dispatch is running. *)
LEMMA DrainedMeansIdle ==
    ASSUME CountInv, in_flight = 0
    PROVE  At({"dispatch"}) = {}
<1>1. Counted = {}
  BY AtFinite, FS_EmptySet, Zenon DEF CountInv, Counted
<1> QED
  BY <1>1 DEF Counted, At

LEMMA HandleInv ==
    ASSUME Inv, HandleStep
    PROVE  Inv'
<1> USE DEF Inv
<1>1. UNCHANGED <<portVars, submit_rx, command_rx, snap, loopVars, taskVars>>
  BY DEF HandleStep, ShutdownCall, ShutdownLoad, ShutdownNotified, ShutdownWoken,
         ShutdownExpire, ShutdownJoin, HandleUnchanged
<1>2. PortInv' /\ FrameInv' /\ QueueInv' /\ CountInv'
  BY <1>1, FramesSame, QueueSame, CountSame DEF portVars, loopVars, taskVars
<1>3. At({"dispatch"}) \subseteq Frame
  BY DEF At
<1>4. /\ shutdown' \in BOOLEAN /\ mode' \in {"shutdown", "timeout"} /\ handle' \in HandlePC
      /\ notified' \in BOOLEAN /\ aborting' \in BOOLEAN /\ pending' \subseteq Frame
  BY <1>3, Zenon DEF TypeOK, HandleStep, ShutdownCall, ShutdownLoad, ShutdownNotified,
         ShutdownWoken, ShutdownExpire, ShutdownJoin, HandlePC
<1>5. TypeOK'
  BY <1>1, <1>4 DEF TypeOK, portVars, loopVars, taskVars
<1>6. task' = task /\ At({"dispatch"})' = At({"dispatch"})
  BY <1>1 DEF taskVars, At
<1>7. PendingInv'
  <2>1. CASE \E m \in {"shutdown", "timeout"} : ShutdownCall(m)
    <3>1. pending' = At({"dispatch"}) /\ handle' = "load"
      BY <2>1 DEF ShutdownCall
    <3> QED
      BY <1>6, <3>1 DEF PendingInv, At
  <2>2. CASE ShutdownLoad
    <3>1. pending' = pending /\ (handle' \in {"join", "ok"} => in_flight = 0)
      BY <2>2 DEF ShutdownLoad
    <3> QED
      BY <1>6, <3>1, DrainedMeansIdle DEF PendingInv
  <2>3. CASE ShutdownNotified \/ ShutdownWoken \/ ShutdownExpire
    <3>1. pending' = pending /\ handle' \notin {"join", "ok"}
      BY <2>3 DEF ShutdownNotified, ShutdownWoken, ShutdownExpire
    <3> QED
      BY <1>6, <3>1 DEF PendingInv
  <2>4. CASE ShutdownJoin
    <3>1. pending' = pending /\ handle = "join"
      BY <2>4 DEF ShutdownJoin
    <3> QED
      BY <1>6, <3>1 DEF PendingInv
  <2> QED
    BY <2>1, <2>2, <2>3, <2>4 DEF HandleStep
<1> QED
  BY <1>2, <1>5, <1>7, ZenonT(30)

-----------------------------------------------------------------------------
LEMMA InvInit == Init => Inv
<1> SUFFICES ASSUME Init PROVE Inv
  OBVIOUS
<1>1. TypeOK
  <2>1. /\ 0 \in 0..MaxFrames /\ Permits \in 0..Permits /\ 0 \in Nat
        /\ submit_rx \in Seq(Frame) /\ Len(submit_rx) <= SubmitCap
        /\ command_rx \in Seq(Snapshot)
    BY RuntimeAssumption DEF Init
  <2> QED
    BY <2>1, Zenon DEF Init, TypeOK, PortPC, RunPC, TaskPC, HandlePC
<1>2. QueueInv /\ PortInv /\ PendingInv
  BY DEF Init, QueueInv, Distinct, PortInv, PendingInv, Range, At
<1>3. FrameInv
  <2> SUFFICES ASSUME NEW f \in Frame PROVE FrameInvAt(f)
    BY DEF FrameInv
  <2>1. ~Waiting(f) /\ task[f] = "none"
    BY RuntimeAssumption DEF Init, Waiting, Range
  <2>2. f[1] \in Session /\ f[2] \in 1..MaxFrames /\ sent[f[1]] = 0
    BY FrameParts DEF Init
  <2> QED
    BY <2>1, <2>2 DEF FrameInvAt
<1>4. CountInv
  <2>1. Counted = {} /\ Permitted = {}
    BY DEF Init, Counted, Permitted, At
  <2>2. permits = Permits /\ in_flight = 0
    BY DEF Init
  <2> QED
    BY <2>1, <2>2, FS_EmptySet, RuntimeAssumption DEF CountInv
<1> QED
  BY <1>1, <1>2, <1>3, <1>4 DEF Inv

LEMMA InvNext == Inv /\ [Next]_vars => Inv'
<1> SUFFICES ASSUME Inv, [Next]_vars PROVE Inv'
  OBVIOUS
<1>1. CASE \E s \in Session : PortStep(s)
  BY <1>1, PortRecvInv, PortSubmitInv, PortDoneInv DEF PortStep
<1>2. CASE \E c \in Snapshot : SnapshotStep(c)
  BY <1>2, SnapshotInv
<1>3. CASE RunStep
  <2>1. CASE RunIdle
    BY <2>1, EndLoopInv, RunQuietInv DEF RunIdle
  <2>2. CASE RunAborted
    BY <2>2, EndLoopInv DEF RunAborted
  <2> QED
    BY <1>3, <2>1, <2>2, RunQuietInv, RunTakeInv, RunPermitInv DEF RunStep
<1>4. CASE \E f \in Frame : TaskDispatch(f) \/ TaskPanic(f) \/ TaskEnd(f)
  BY <1>4, TaskInv
<1>5. CASE HandleStep
  BY <1>5, HandleInv
<1>6. CASE UNCHANGED vars
  <2>1. TypeOK'
    BY <1>6 DEF Inv, TypeOK, vars, portVars, loopVars, taskVars, handleVars
  <2> QED
    BY <1>6, <2>1, FramesSame, QueueSame, PendingSame, CountSame, ZenonT(30)
       DEF Inv, vars, portVars, loopVars, taskVars, handleVars
<1> QED
  BY <1>1, <1>2, <1>3, <1>4, <1>5, <1>6 DEF Next

(* The invariant holds in every reachable state of the bus. *)
THEOREM BusInvariant == Spec => []Inv
  BY InvInit, InvNext, PTL DEF Spec

(* DispatchAccounting, for any number of sessions, frames, permits and     *)
(* snapshot calls: the counter shutdown drains on (in_flight.fetch_add and *)
(* fetch_sub of Bus::run) and dispatch_sem agree with the tasks that run,  *)
(* and a shutdown that returns Ok leaves no dispatch it was called over.   *)
THEOREM AccountingCorrect == Spec => []DispatchAccounting
<1>1. Inv => DispatchAccounting
  BY ZenonT(30) DEF Inv, DispatchAccounting, CountInv, Counted, Permitted, PendingInv
<1> QED
  BY <1>1, BusInvariant, PTL

(* SessionSerial, for any number of sessions, frames and permits: a frame  *)
(* reaches the bus (open_session waits on its oneshot) only when the       *)
(* dispatch of every earlier frame of its session has ended.               *)
THEOREM SerialCorrect == Spec => []SessionSerial
<1>1. Inv => SessionSerial
  <2> SUFFICES ASSUME Inv, NEW s \in Session, NEW n \in 1..MaxFrames, NEW m \in 1..(n - 1),
                      OnBus(<<s, n>>)
               PROVE  task[<<s, m>>] \notin {"none", "dispatch"}
    BY DEF SessionSerial
  <2> DEFINE f == <<s, n>>
             g == <<s, m>>
  <2>1. /\ f \in Frame /\ g \in Frame /\ f[1] = s /\ f[2] = n /\ g[1] = s /\ g[2] = m
        /\ sent[s] \in Nat /\ n \in Nat /\ m \in Nat /\ m < n
    <3>1. n \in Nat /\ m \in 1..MaxFrames /\ m \in Nat /\ m < n
      BY RuntimeAssumption
    <3>2. sent[s] \in Nat
      BY DEF Inv, TypeOK
    <3> QED
      BY <3>1, <3>2 DEF Frame
  <2>2. FrameInvAt(f) /\ FrameInvAt(g) /\ (Waiting(f) \/ task[f] # "none")
    BY <2>1, ZenonT(30) DEF Inv, FrameInv, OnBus, Waiting
  <2>3. n = sent[s] \/ n <= sent[s]
    BY <2>1, <2>2, ZenonT(30) DEF FrameInvAt
  <2>4. m <= sent[s] /\ m # sent[s]
    BY <2>1, <2>3
  <2> QED
    BY <2>1, <2>2, <2>4, ZenonT(30) DEF FrameInvAt
<1> QED
  BY <1>1, BusInvariant, PTL
=============================================================================
