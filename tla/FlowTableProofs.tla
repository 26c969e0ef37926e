-------------------------- MODULE FlowTableProofs --------------------------
(***************************************************************************)
(* The tables of FlowDispatch follow the flow, and the end of an announced *)
(* flow goes unreported in one way only.                                   *)
(***************************************************************************)
EXTENDS FlowDispatchProofs

(***************************************************************************)
(* The inductive invariant                                                 *)
(***************************************************************************)

(* The entries of the flow, along the way of its dispatcher: only one that *)
(* found no FlowState schedules a frame, and an Open inserts the exit it   *)
(* pinned.                                                                 *)
EntryInv(s) ==
    /\ dpc[s] \in {"try", "pin", "insert"} => flow_states[s] = NoExit
    /\ dpc[s] = "ensure" /\ kind[s] = "Data" => flow_states[s] = NoExit
    /\ dpc[s] = "insert" => flow_pins[s] = exit[s]
    /\ dpc[s] \in {"insert", "mark", "publish"} => kind[s] = "Open"
    /\ dpc[s] \in {"mark", "publish", "ensure"} /\ kind[s] = "Open" =>
          flow_states[s] = exit[s] /\ polls[s] = {}
    /\ opened[s] = 0 => carried[s] = {} /\ polls[s] = {}
    /\ flow_states[s] # NoExit =>
          /\ kind[s] # "Close" => flow_pins[s] = flow_states[s]
          /\ carried[s] \subseteq {flow_states[s]}
    /\ dpc[s] = "fsend" => flow_states[s] \in {NoExit, exit[s]}

(* The poll task of an open flow. *)
WatchInv(s) ==
    /\ \A e \in Exit : e \in polls[s] => ppc[s][e] # "off" /\ ~aborted[s][e]
    /\ flow_states[s] # NoExit /\ dpc[s] \in {"idle", "return", "fsend"} /\ s \in receiving =>
          /\ flow_states[s] \in polls[s]
          /\ ppc[s][flow_states[s]] \in {"poll", "deliver", "closing"}

(* What a closer has removed stays removed. *)
RemovedInv(s) ==
    \A a \in Agent :
        /\ closer[s][a] \in {"mark", "unpin", "publish", "return"} => flow_states[s] = NoExit
        /\ closer[s][a] \in {"unpin", "publish", "return"} => s \notin flow_counters

(* The Close frame is the last one, and leaves nothing behind. *)
LastInv(s) ==
    /\ client[s] = "aborted" /\ kind[s] # "Close" =>
          frames[s] # <<>> /\ frames[s][Len(frames[s])] = "Close"
    /\ kind[s] = "Close" =>
          /\ dpc[s] # "close_pin" => flow_pins[s] = NoExit
          /\ dpc[s] \in {"closing", "idle"} => polls[s] = {}
          /\ dpc[s] = "idle" => flow_states[s] = NoExit /\ s \notin flow_counters
    /\ pins_lock = s => dpc[s] = "close_egress"

TableInvAt(s) == EntryInv(s) /\ WatchInv(s) /\ RemovedInv(s) /\ LastInv(s)

TableInv == \A s \in Session : TableInvAt(s)

-----------------------------------------------------------------------------
(* What a step may leave alone.                                            *)

SameTask(s) ==
    /\ kind'[s] = kind[s] /\ frames'[s] = frames[s] /\ client'[s] = client[s]
    /\ exit'[s] = exit[s] /\ opened'[s] = opened[s]

SameEntries(s) ==
    /\ flow_pins'[s] = flow_pins[s] /\ flow_states'[s] = flow_states[s]
    /\ s \in flow_counters' <=> s \in flow_counters
    /\ carried'[s] = carried[s]

SamePolls(s) == polls'[s] = polls[s] /\ ppc'[s] = ppc[s] /\ aborted'[s] = aborted[s]

SameLock(s) == pins_lock' = s => pins_lock = s

SameReceiver(s) == s \in receiving' => s \in receiving

SameTables(s) ==
    /\ SameTask(s) /\ SameEntries(s) /\ SamePolls(s) /\ SameLock(s) /\ SameReceiver(s)
    /\ dpc'[s] = dpc[s] /\ closer'[s] = closer[s]

LEMMA TableInit == Init => TableInv
<1> SUFFICES ASSUME Init, NEW s \in Session PROVE TableInvAt(s)
  BY DEF TableInv
<1>1. EntryInv(s) /\ WatchInv(s)
  BY DEF Init, TablesInit, EntryInv, WatchInv
<1>2. RemovedInv(s) /\ LastInv(s)
  BY DispatchAssumption DEF Init, TablesInit, RemovedInv, LastInv
<1> QED
  BY <1>1, <1>2 DEF TableInvAt

LEMMA SameTablesKeep ==
    ASSUME NEW t \in Session, TableInvAt(t), SameTables(t)
    PROVE  TableInvAt(t)'
<1> USE DEF TableInvAt, SameTables, SameTask, SameEntries, SamePolls, SameLock, SameReceiver
<1>1. EntryInv(t)'
  BY Zenon DEF EntryInv
<1>2. WatchInv(t)'
  BY Zenon DEF WatchInv
<1>3. RemovedInv(t)' /\ LastInv(t)'
  BY Zenon DEF RemovedInv, LastInv
<1> QED
  BY <1>1, <1>2, <1>3

(* A step of one session leaves the entries of every other session alone.  *)
LEMMA OthersTables ==
    ASSUME TypeOK, NEW s \in Session, NEW t \in Session, t # s,
           \/ ClientStep(s) \/ DispatchStep(s)
           \/ \E a \in Agent : CloserStep(s, a)
           \/ \E e \in Exit : PollStep(s, e)
    PROVE  SameTables(t) /\ got'[t] = got[t] /\ made'[t] = made[t]
<1> DEFINE More == /\ exit'[t] = exit[t] /\ flow_pins'[t] = flow_pins[t]
                   /\ (t \in flow_counters' <=> t \in flow_counters)
                   /\ carried'[t] = carried[t] /\ SameLock(t) /\ SameReceiver(t)
                   /\ got'[t] = got[t] /\ made'[t] = made[t]
<1> USE DEF tables, clientVars, dispVars, pollVars, closeVars, eventVars, SameLock, SameReceiver
<1>1. SameAt(t)
  BY OthersSame
<1>2. /\ exit \in [Session -> Exit \cup {NoExit}] /\ flow_pins \in [Session -> Exit \cup {NoExit}]
      /\ carried \in [Session -> SUBSET Exit] /\ got \in [Session -> [Exit -> 0..MaxPayload]]
      /\ made \in [Session -> [Exit -> 0..MaxPayload]]
      /\ t # NoSession
  BY DispatchAssumption, Zenon DEF TypeOK, TablesTypeOK
<1>3. CASE ClientStep(s)
  <2>1. got' = got \/ \E e, n : got' = [got EXCEPT ![s][e] = n]
    BY <1>3, ZenonT(30) DEF ClientStep, ClientConnect, ClientConnectReturn, ClientSend,
       ClientAbort, ClientRecv, ClientDropReceiver, ClientDrop
  <2>2. got'[t] = got[t]
    BY <1>2, <2>1
  <2>3. More
    BY <1>3, <2>2, ZenonT(30) DEF ClientStep, ClientConnect, ClientConnectReturn, ClientSend,
       ClientAbort, ClientRecv, ClientDropReceiver, ClientDrop
  <2> QED
    BY <1>1, <2>3, Zenon DEF SameAt, SameTables, SameTask, SameEntries, SamePolls
<1>4. CASE DispatchStep(s)
  <2>1. ASSUME DispatchClose(s) \/ DispatchForwarderFrame(s) \/ DispatchSchedule(s)
       PROVE  More
    BY <1>2, <2>1, ZenonT(60) DEF DispatchClose, DispatchForwarderFrame, DispatchSchedule, TakeFrame
  <2>2. ASSUME (\E e \in Exit : TrySend(s, e) \/ TrySendFails(s, e)) \/ NoUsableExit(s)
       PROVE  More
    BY <1>2, <2>2, ZenonT(60) DEF TrySend, TrySendFails, NoUsableExit
  <2>3. ASSUME Pin(s) \/ InsertState(s) \/ MarkOpen(s) \/ PublishOpened(s)
       PROVE  More
    BY <1>2, <2>3, ZenonT(60) DEF Pin, pin, InsertState, insert_state, MarkOpen, PublishOpened
  <2>4. ASSUME EnsurePoll(s) \/ Return(s) \/ ForwarderSend(s) \/ ForwarderSendFails(s)
       PROVE  More
    BY <1>2, <2>4, ZenonT(60) DEF EnsurePoll, Return, ForwarderSend, ForwarderSendFails
  <2>5. ASSUME ClosePin(s) \/ CloseEgress(s) \/ AbortSessionPolls(s)
       PROVE  More
    BY <1>2, <2>5, ZenonT(60) DEF ClosePin, unpin, CloseEgress, AbortSessionPolls
  <2>6. More
    BY <1>4, <2>1, <2>2, <2>3, <2>4, <2>5, Zenon DEF DispatchStep
  <2> QED
    BY <1>1, <2>6, Zenon DEF SameAt, SameTables, SameTask, SameEntries, SamePolls
<1>5. ASSUME NEW a \in Agent, CloserStep(s, a) PROVE More
  BY <1>2, <1>5, ZenonT(60) DEF CloserStep, RemoveState, MarkClosed, Unpin, unpin, PublishClosed,
     ReturnClosed, CloserUnchanged
<1>6. ASSUME NEW e \in Exit, PollStep(s, e) PROVE More
  BY <1>2, <1>6, ZenonT(60) DEF PollStep, PollData, PollDeliver, PollClosed, PollExit,
     PollCancelled, PollUnchanged
<1>7. CASE (\E a \in Agent : CloserStep(s, a)) \/ \E e \in Exit : PollStep(s, e)
  BY <1>1, <1>5, <1>6, <1>7, Zenon DEF SameAt, SameTables, SameTask, SameEntries, SamePolls
<1> QED
  BY <1>3, <1>4, <1>7

LEMMA TableClient ==
    ASSUME TypeInv, NEW s \in Session, PollInvAt(s), FlowInvAt(s), TableInvAt(s), ClientStep(s)
    PROVE  TableInvAt(s)'
<1> USE DEF tables, clientVars, dispVars, pollVars, closeVars, eventVars
<1>1. /\ SameEntries(s) /\ SamePolls(s) /\ SameLock(s) /\ SameReceiver(s)
      /\ dpc'[s] = dpc[s] /\ closer'[s] = closer[s] /\ kind'[s] = kind[s] /\ exit'[s] = exit[s]
      /\ opened'[s] = opened[s]
  BY ZenonT(30) DEF ClientStep, ClientConnect, ClientConnectReturn, ClientSend, ClientAbort,
     ClientRecv, ClientDropReceiver, ClientDrop, SameEntries, SamePolls, SameLock, SameReceiver
<1>2. EntryInv(s)'
  BY <1>1, Zenon DEF TableInvAt, EntryInv, SameEntries, SamePolls
<1>3. WatchInv(s)'
  BY <1>1, Zenon DEF TableInvAt, WatchInv, SameEntries, SamePolls, SameReceiver
<1>4. RemovedInv(s)'
  BY <1>1, Zenon DEF TableInvAt, RemovedInv, SameEntries
<1>5. \/ client'[s] = "aborted" => client[s] = "aborted" /\ frames'[s] = frames[s]
      \/ frames'[s] = Append(frames[s], "Close")
  BY ZenonT(30) DEF ClientStep, ClientConnect, ClientConnectReturn, ClientSend, ClientAbort,
     ClientRecv, ClientDropReceiver, ClientDrop, TypeInv, TypeOK
<1>6. frames'[s] = Append(frames[s], "Close") =>
          frames'[s] # <<>> /\ frames'[s][Len(frames'[s])] = "Close"
  <2>1. frames[s] \in Seq({"Open", "Data", "Close"})
    BY DEF TypeInv, TypeOK
  <2> QED
    BY <2>1
<1>7. LastInv(s)'
  BY <1>1, <1>5, <1>6, Zenon DEF TableInvAt, LastInv, SameEntries, SamePolls, SameLock
<1> QED
  BY <1>2, <1>3, <1>4, <1>7 DEF TableInvAt

(* The dispatcher has found no FlowState, or is the one that inserts it:   *)
(* nobody is closing the flow.                                             *)
LEMMA NotOpenYet ==
    ASSUME NEW s \in Session, PollInvAt(s), FlowInvAt(s), TableInvAt(s),
           \/ dpc[s] \in {"insert", "mark", "publish"}
           \/ dpc[s] = "ensure" /\ kind[s] = "Open"
    PROVE  /\ kind[s] # "Close" /\ \A e \in Exit : ppc[s][e] = "off"
           /\ \A a \in Agent : closer[s][a] = "none"
<1>1. kind[s] # "Close"
  BY DEF PollInvAt
<1>2. polls[s] = {}
  BY DEF TableInvAt, EntryInv, FlowInvAt, PhaseInv
<1>3. \A e \in Exit : ppc[s][e] = "off"
  BY <1>1, <1>2 DEF PollInvAt
<1> QED
  BY <1>1, <1>3 DEF FlowInvAt, ClosersInv, Agent

LEMMA OneLess ==
    ASSUME NEW n \in Nat, n >= 1, n # 1, NEW m, m = n - 1
    PROVE  m >= 1
  OBVIOUS

LEMMA TableDispatch ==
    ASSUME TypeInv, NEW s \in Session, PollInvAt(s), FlowInvAt(s), TableInvAt(s), DispatchStep(s)
    PROVE  TableInvAt(s)'
<1> USE DEF tables, clientVars, dispVars, pollVars, closeVars, eventVars, Goto
<1>1. client'[s] = client[s] /\ SameReceiver(s)
  BY ZenonT(30) DEF DispatchStep, DispatchClose, DispatchForwarderFrame, DispatchSchedule,
     TakeFrame, TrySend, TrySendFails, NoUsableExit, Pin, InsertState, MarkOpen, PublishOpened,
     EnsurePoll, Return, ForwarderSend, ForwarderSendFails, ClosePin, CloseEgress,
     AbortSessionPolls, SameReceiver
<1>2. /\ kind[s] \in {"Open", "Data", "Close"} /\ frames[s] \in Seq({"Open", "Data", "Close"})
      /\ s # NoSession
      /\ dpc[s] \in {"pin", "insert", "mark", "publish", "ensure", "fsend"} =>
             exit[s] \in Exit /\ exit[s] # NoExit
  <2>1. kind[s] \in {"Open", "Data", "Close"} /\ frames[s] \in Seq({"Open", "Data", "Close"})
    BY DEF TypeInv, TypeOK
  <2> QED
    BY <2>1, DispatchAssumption, TablesAssumption DEF TypeInv, ExitChosen
<1>3. CASE DispatchClose(s) \/ DispatchForwarderFrame(s) \/ DispatchSchedule(s)
  <2>1. /\ frames'[s] = Tail(frames[s]) /\ kind'[s] = Head(frames[s]) /\ frames[s] # <<>>
        /\ dpc[s] = "idle" /\ SameEntries(s) /\ SamePolls(s) /\ SameLock(s)
        /\ closer'[s] = closer[s] /\ opened'[s] = opened[s]
        /\ \/ dpc'[s] = "close_pin" /\ kind'[s] = "Close"
           \/ dpc'[s] = "fsend" /\ kind'[s] = "Data" /\ exit'[s] = flow_states[s]
           \/ /\ dpc'[s] = "try"
              /\ kind'[s] = "Open" \/ (kind'[s] = "Data" /\ flow_states[s] = NoExit)
    BY <1>3, ZenonT(60) DEF DispatchClose, DispatchForwarderFrame, DispatchSchedule, TakeFrame,
       SameEntries, SamePolls, SameLock, TypeInv, TypeOK
  <2>2. /\ kind'[s] = frames[s][1] /\ 1 \in 1..Len(frames[s])
        /\ Len(frames'[s]) = Len(frames[s]) - 1
        /\ \A i \in 1..Len(frames'[s]) : frames'[s][i] = frames[s][i + 1]
        /\ frames'[s] \in Seq({"Open", "Data", "Close"})
    BY <1>2, <2>1, HeadTailSeq
  <2>3. kind[s] # "Close"
    BY <2>1 DEF PollInvAt
  <2>4. kind'[s] = "Open" => flow_states[s] = NoExit
    <3>1. kind'[s] = "Open" => opened[s] = 0
      BY <2>2, Zenon DEF FlowInvAt, OpenFrameInv
    <3> QED
      BY <2>1, <3>1 DEF FlowInvAt, PhaseInv
  <2>5. EntryInv(s)'
    BY <2>1, <2>3, <2>4 DEF TableInvAt, EntryInv, SameEntries, SamePolls
  <2>6. WatchInv(s)'
    BY <1>1, <2>1, Zenon DEF TableInvAt, WatchInv, SameEntries, SamePolls, SameReceiver
  <2>7. RemovedInv(s)'
    BY <2>1, Zenon DEF TableInvAt, RemovedInv, SameEntries
  <2>8. LastInv(s)'
    <3>1. ASSUME client[s] = "aborted", kind'[s] # "Close"
          PROVE  frames'[s] # <<>> /\ frames'[s][Len(frames'[s])] = "Close"
      <4>1. frames[s][Len(frames[s])] = "Close"
        BY <2>3, <3>1 DEF TableInvAt, LastInv
      <4>2. Len(frames[s]) # 1
        BY <2>2, <3>1, <4>1
      <4>3. Len(frames'[s]) >= 1
        <5>1. Len(frames[s]) \in Nat /\ Len(frames[s]) >= 1 /\ Len(frames'[s]) = Len(frames[s]) - 1
          BY <1>2, <2>1, HeadTailSeq
        <5> QED
          BY <4>2, <5>1, OneLess, Zenon
      <4> QED
        BY <1>2, <2>2, <4>1, <4>3, Z3T(30)
    <3>2. kind'[s] = "Close" => dpc'[s] = "close_pin"
      BY <2>1
    <3> QED
      BY <1>1, <2>1, <3>1, <3>2, Zenon DEF TableInvAt, LastInv, SameLock
  <2> QED
    BY <2>5, <2>6, <2>7, <2>8 DEF TableInvAt
<1>4. CASE (\E e \in Exit : TrySend(s, e) \/ TrySendFails(s, e)) \/ NoUsableExit(s)
  <2>1. /\ flow_pins'[s] = flow_pins[s] /\ flow_states'[s] = flow_states[s]
        /\ (s \in flow_counters' <=> s \in flow_counters)
        /\ carried'[s] = carried[s] \/ kind[s] = "Data"
        /\ SamePolls(s) /\ SameLock(s) /\ closer'[s] = closer[s] /\ opened'[s] = opened[s]
        /\ kind'[s] = kind[s] /\ frames'[s] = frames[s]
        /\ dpc[s] = "try" /\ dpc'[s] \in {"pin", "try", "idle"}
    BY <1>4, ZenonT(60) DEF TrySend, TrySendFails, NoUsableExit, SamePolls, SameLock, TypeInv,
       TypeOK
  <2>2. /\ kind[s] # "Close" /\ flow_states[s] = NoExit
        /\ opened[s] = 0 => kind[s] # "Data"
    BY <2>1, ZenonT(30) DEF TableInvAt, EntryInv, FlowInvAt, PhaseInv, UnopenedInv
  <2>3. EntryInv(s)'
    BY <2>1, <2>2 DEF TableInvAt, EntryInv, SamePolls
  <2>4. WatchInv(s)' /\ RemovedInv(s)'
    BY <2>1, <2>2, Zenon DEF TableInvAt, WatchInv, RemovedInv, SamePolls
  <2>5. LastInv(s)'
    BY <1>1, <2>1, <2>2, Zenon DEF TableInvAt, LastInv, SameLock
  <2> QED
    BY <2>3, <2>4, <2>5 DEF TableInvAt
<1>5. CASE Pin(s)
  <2>1. /\ flow_pins'[s] = exit[s] /\ flow_states'[s] = flow_states[s]
        /\ (s \in flow_counters' <=> s \in flow_counters) /\ carried'[s] = carried[s]
        /\ SamePolls(s) /\ SameLock(s) /\ SameTask(s) /\ closer'[s] = closer[s]
        /\ dpc[s] = "pin" /\ dpc'[s] = IF kind[s] = "Open" THEN "insert" ELSE "ensure"
    BY <1>5, ZenonT(60) DEF Pin, pin, SamePolls, SameLock, SameTask, TypeInv, TypeOK, TablesTypeOK
  <2>2. kind[s] # "Close" /\ flow_states[s] = NoExit
    BY <2>1, Units, ZenonT(30) DEF TableInvAt, EntryInv, FlowInvAt, PhaseInv
  <2>3. EntryInv(s)'
    BY <2>1, <2>2 DEF TableInvAt, EntryInv, SamePolls, SameTask
  <2>4. WatchInv(s)' /\ RemovedInv(s)'
    BY <2>1, <2>2, Zenon DEF TableInvAt, WatchInv, RemovedInv, SamePolls
  <2>5. LastInv(s)'
    BY <2>1, <2>2, Zenon DEF TableInvAt, LastInv, SameLock, SameTask
  <2> QED
    BY <2>3, <2>4, <2>5 DEF TableInvAt
<1>6. CASE InsertState(s)
  <2>1. /\ flow_pins'[s] = flow_pins[s] /\ flow_states'[s] = exit[s] /\ carried'[s] = carried[s]
        /\ SamePolls(s) /\ SameLock(s) /\ SameTask(s) /\ closer'[s] = closer[s]
        /\ dpc[s] = "insert" /\ dpc'[s] = IF flow_states[s] = NoExit THEN "mark" ELSE "publish"
    BY <1>6, ZenonT(60) DEF InsertState, insert_state, SamePolls, SameLock, SameTask, TypeInv,
       TypeOK, TablesTypeOK
  <2>2. /\ kind[s] = "Open" /\ flow_states[s] = NoExit /\ flow_pins[s] = exit[s]
        /\ carried[s] = {} /\ polls[s] = {}
    BY <2>1, ZenonT(30) DEF TableInvAt, EntryInv, FlowInvAt, PhaseInv
  <2>3. \A a \in Agent : closer[s][a] = "none"
    BY <2>1, NotOpenYet, ZenonT(30)
  <2>4. EntryInv(s)'
    BY <1>2, <2>1, <2>2, ZenonT(30) DEF TableInvAt, EntryInv, SamePolls, SameTask
  <2>5. WatchInv(s)' /\ RemovedInv(s)'
    BY <2>1, <2>2, <2>3 DEF WatchInv, RemovedInv, SamePolls
  <2>6. LastInv(s)'
    BY <2>1, <2>2, Zenon DEF TableInvAt, LastInv, SameLock, SameTask
  <2> QED
    BY <2>4, <2>5, <2>6 DEF TableInvAt
<1>7. CASE MarkOpen(s) \/ PublishOpened(s)
  <2>1. /\ SameEntries(s) /\ SamePolls(s) /\ SameLock(s) /\ closer'[s] = closer[s]
        /\ kind'[s] = kind[s] /\ frames'[s] = frames[s] /\ exit'[s] = exit[s]
        /\ dpc[s] \in {"mark", "publish"} /\ dpc'[s] \in {"publish", "ensure"}
    BY <1>7, ZenonT(60) DEF MarkOpen, PublishOpened, SameEntries, SamePolls, SameLock, TypeInv,
       TypeOK
  <2>2. opened[s] = 0
    BY <2>1, ZenonT(30) DEF FlowInvAt, PhaseInv
  <2>3. EntryInv(s)'
    BY <2>1, <2>2 DEF TableInvAt, EntryInv, SameEntries, SamePolls
  <2>4. WatchInv(s)' /\ RemovedInv(s)'
    BY <2>1, Zenon DEF TableInvAt, WatchInv, RemovedInv, SamePolls, SameEntries
  <2>5. LastInv(s)'
    BY <1>1, <2>1, Zenon DEF TableInvAt, LastInv, SameLock, EntryInv
  <2> QED
    BY <2>3, <2>4, <2>5 DEF TableInvAt
<1>8. CASE EnsurePoll(s)
  <2>1. /\ SameEntries(s) /\ SameTask(s) /\ SameLock(s) /\ closer'[s] = closer[s]
        /\ polls'[s] = polls[s] \cup {exit[s]} /\ aborted'[s] = aborted[s]
        /\ dpc[s] = "ensure" /\ dpc'[s] = "return"
    BY <1>8, ZenonT(60) DEF EnsurePoll, SameEntries, SameTask, SameLock, TypeInv, TypeOK
  <2>2. \A e \in Exit : ppc'[s][e] = IF e = exit[s] /\ e \notin polls[s] THEN "poll" ELSE ppc[s][e]
    BY <1>8 DEF EnsurePoll, TypeInv, TypeOK
  <2>a. kind[s] # "Close" /\ \A e \in Exit : ~aborted[s][e]
    BY <2>1, Zenon DEF PollInvAt
  <2>3. /\ kind[s] \in {"Open", "Data"} /\ opened[s] = 1 /\ \A e \in Exit : ~aborted[s][e]
    BY <1>2, <2>1, <2>a, Zenon DEF FlowInvAt, PhaseInv
  <2>4. EntryInv(s)'
    BY <2>1, <2>3, Units, ZenonT(30) DEF TableInvAt, EntryInv, SameEntries, SameTask
  <2>5. flow_states[s] # NoExit => flow_states[s] = exit[s] /\ polls[s] = {}
    BY <2>1, <2>3, ZenonT(30) DEF TableInvAt, EntryInv
  <2>6. WatchInv(s)'
    BY <1>2, <2>1, <2>2, <2>3, <2>5, ZenonT(30) DEF TableInvAt, WatchInv, SameEntries
  <2>7. RemovedInv(s)' /\ LastInv(s)'
    BY <2>1, <2>3, Zenon DEF TableInvAt, RemovedInv, LastInv, SameEntries, SameTask, SameLock
  <2> QED
    BY <2>4, <2>6, <2>7 DEF TableInvAt
<1>9. CASE Return(s) \/ ForwarderSend(s) \/ ForwarderSendFails(s)
  <2>1. /\ flow_pins'[s] = flow_pins[s] /\ flow_states'[s] = flow_states[s]
        /\ (s \in flow_counters' <=> s \in flow_counters)
        /\ \/ carried'[s] = carried[s]
           \/ carried'[s] = carried[s] \cup {exit[s]} /\ dpc[s] = "fsend"
        /\ SamePolls(s) /\ SameLock(s) /\ SameTask(s)
        /\ dpc[s] \in {"return", "fsend"} /\ dpc'[s] \in {"idle", "return", "closing"}
    BY <1>9, ZenonT(60) DEF Return, ForwarderSend, ForwarderSendFails, SamePolls, SameLock,
       SameTask, TypeInv, TypeOK
  <2>2. \A a \in Agent : closer'[s][a] \in {closer[s][a], "remove"}
    <3>1. /\ closer \in [Session -> [Agent -> ClosePC]]
          /\ closer' \in {closer, [closer EXCEPT ![s][Dispatcher] = "remove"]}
      BY <1>9, ZenonT(30) DEF Return, ForwarderSend, ForwarderSendFails, closeVars, TypeInv, TypeOK
    <3> QED
      BY <3>1
  <2>3. kind[s] # "Close" /\ opened[s] = 1
    BY <2>1, Units, ZenonT(30) DEF PollInvAt, FlowInvAt, PhaseInv
  <2>4. EntryInv(s)'
    BY <2>1, <2>3, Z3T(30) DEF TableInvAt, EntryInv, SamePolls, SameTask
  <2>5. WatchInv(s)'
    BY <1>1, <2>1, Zenon DEF TableInvAt, WatchInv, SamePolls, SameReceiver
  <2>6. RemovedInv(s)'
    BY <2>1, <2>2 DEF TableInvAt, RemovedInv
  <2>7. LastInv(s)'
    BY <2>1, <2>3, Zenon DEF TableInvAt, LastInv, SameLock, SameTask
  <2> QED
    BY <2>4, <2>5, <2>6, <2>7 DEF TableInvAt
<1>10. CASE ClosePin(s) \/ CloseEgress(s)
  <2>1. /\ flow_pins'[s] \in {flow_pins[s], NoExit} /\ flow_states'[s] = flow_states[s]
        /\ dpc[s] = "close_pin" => flow_pins'[s] = NoExit
        /\ (s \in flow_counters' <=> s \in flow_counters) /\ carried'[s] = carried[s]
        /\ SamePolls(s) /\ SameTask(s) /\ closer'[s] = closer[s]
        /\ pins_lock' = s => dpc'[s] = "close_egress"
        /\ dpc[s] \in {"close_pin", "close_egress"} /\ dpc'[s] \in {"close_egress", "close_abort"}
    BY <1>2, <1>10, ZenonT(60) DEF ClosePin, unpin, CloseEgress, SamePolls, SameTask, TypeInv, TypeOK,
       TablesTypeOK
  <2>2. kind[s] = "Close"
    BY <2>1, ZenonT(30) DEF PollInvAt
  <2>3. EntryInv(s)'
    BY <2>1, <2>2, Zenon DEF TableInvAt, EntryInv, SamePolls, SameTask
  <2>4. WatchInv(s)' /\ RemovedInv(s)'
    BY <2>1, Zenon DEF TableInvAt, WatchInv, RemovedInv, SamePolls
  <2>5. LastInv(s)'
    BY <2>1, <2>2, Zenon DEF TableInvAt, LastInv, SameTask
  <2> QED
    BY <2>3, <2>4, <2>5 DEF TableInvAt
<1>11. CASE AbortSessionPolls(s)
  <2>1. /\ SameEntries(s) /\ SameTask(s) /\ SameLock(s)
        /\ polls'[s] = {} /\ dpc[s] = "close_abort" /\ dpc'[s] = "closing"
    BY <1>11, ZenonT(60) DEF AbortSessionPolls, SameEntries, SameTask, SameLock, TypeInv, TypeOK
  <2>2. \A a \in Agent : closer'[s][a] \in {closer[s][a], "remove"}
    BY <1>11, Z3T(30) DEF AbortSessionPolls, TypeInv, TypeOK
  <2>3. kind[s] = "Close"
    BY <2>1, ZenonT(30) DEF PollInvAt
  <2>4. EntryInv(s)'
    BY <2>1, <2>3, ZenonT(30) DEF TableInvAt, EntryInv, SameEntries, SameTask
  <2>5. WatchInv(s)' /\ RemovedInv(s)'
    BY <2>1, <2>2, ZenonT(30) DEF TableInvAt, WatchInv, RemovedInv, SameEntries
  <2>6. LastInv(s)'
    BY <2>1, <2>3, Zenon DEF TableInvAt, LastInv, SameEntries, SameTask, SameLock
  <2> QED
    BY <2>4, <2>5, <2>6 DEF TableInvAt
<1> QED
  BY <1>3, <1>4, <1>5, <1>6, <1>7, <1>8, <1>9, <1>10, <1>11, Zenon DEF DispatchStep

LEMMA TableCloser ==
    ASSUME TypeInv, NEW s \in Session, PollInvAt(s), FlowInvAt(s), TableInvAt(s),
           NEW a \in Agent, CloserStep(s, a)
    PROVE  TableInvAt(s)'
<1> USE DEF tables, clientVars, eventVars
<1>1. /\ SameTask(s) /\ SameReceiver(s) /\ SameLock(s) /\ carried'[s] = carried[s]
      /\ polls'[s] = polls[s] /\ aborted'[s] = aborted[s]
  BY ZenonT(30) DEF CloserStep, RemoveState, MarkClosed, Unpin, PublishClosed, ReturnClosed,
     CloserUnchanged, SameTask, SameReceiver, SameLock
<1>2. /\ closer[s][a] # "none" /\ a = Dispatcher => dpc[s] = "closing"
      /\ dpc[s] \notin {"insert", "mark", "publish"}
      /\ ~(dpc[s] = "ensure" /\ kind[s] = "Open")
  <2>1. closer[s][a] # "none"
    BY ZenonT(30) DEF CloserStep, RemoveState, MarkClosed, Unpin, PublishClosed, ReturnClosed, CloserAt
  <2>2. a = Dispatcher => dpc[s] = "closing"
    BY <2>1 DEF FlowInvAt, ClosersInv
  <2> QED
    BY <2>1, <2>2, NotOpenYet, Zenon
<1>3. closer[s][a] \in {"mark", "unpin", "publish", "return"} => flow_states[s] = NoExit
  BY Zenon DEF TableInvAt, RemovedInv
<1>4. ASSUME dpc'[s] = dpc[s], ppc'[s] = ppc[s], flow_states'[s] \in {flow_states[s], NoExit},
             flow_pins'[s] = flow_pins[s] \/ (flow_pins'[s] = NoExit /\ flow_states[s] = NoExit),
             s \in flow_counters' => s \in flow_counters
      PROVE  EntryInv(s)' /\ WatchInv(s)' /\ LastInv(s)'
  <2>1. EntryInv(s)'
    BY <1>1, <1>2, <1>4, ZenonT(30) DEF TableInvAt, EntryInv, SameTask
  <2>2. WatchInv(s)'
    BY <1>1, <1>4, Zenon DEF TableInvAt, WatchInv, SameReceiver
  <2>3. LastInv(s)'
    BY <1>1, <1>4, Zenon DEF TableInvAt, LastInv, SameTask, SameLock
  <2> QED
    BY <2>1, <2>2, <2>3
<1>5. ASSUME NEW pc \in ClosePC, closer' = [closer EXCEPT ![s][a] = pc]
      PROVE  closer'[s][a] = pc /\ \A b \in Agent : b # a => closer'[s][b] = closer[s][b]
  BY <1>5 DEF TypeInv, TypeOK
<1>6. CASE RemoveState(s, a)
  <2>1. /\ dpc'[s] = dpc[s] /\ ppc'[s] = ppc[s] /\ flow_states'[s] = NoExit
        /\ flow_pins'[s] = flow_pins[s] /\ (s \in flow_counters' <=> s \in flow_counters)
        /\ closer' = [closer EXCEPT ![s][a] = "mark"]
    BY <1>6, Zenon DEF RemoveState, remove_state, CloserGoto, TypeInv, TypeOK, TablesTypeOK
  <2>2. RemovedInv(s)'
    BY <1>5, <2>1 DEF TableInvAt, RemovedInv, ClosePC
  <2> QED
    BY <1>4, <2>1, <2>2 DEF TableInvAt
<1>7. CASE MarkClosed(s, a)
  <2>1. /\ dpc'[s] = dpc[s] /\ ppc'[s] = ppc[s] /\ flow_states'[s] = flow_states[s]
        /\ flow_pins'[s] = flow_pins[s] /\ s \notin flow_counters'
        /\ closer' = [closer EXCEPT ![s][a] = "unpin"] /\ closer[s][a] = "mark"
    BY <1>7, Zenon DEF MarkClosed, CloserGoto, CloserAt
  <2>2. RemovedInv(s)'
    BY <1>3, <1>5, <2>1 DEF TableInvAt, RemovedInv, ClosePC
  <2> QED
    BY <1>4, <2>1, <2>2 DEF TableInvAt
<1>8. CASE Unpin(s, a) \/ PublishClosed(s, a)
  <2>1. /\ dpc'[s] = dpc[s] /\ ppc'[s] = ppc[s] /\ flow_states'[s] = flow_states[s]
        /\ flow_pins'[s] \in {flow_pins[s], NoExit}
        /\ (s \in flow_counters' <=> s \in flow_counters)
        /\ closer[s][a] \in {"unpin", "publish"}
        /\ \E pc \in {"publish", "return"} : closer' = [closer EXCEPT ![s][a] = pc]
    BY <1>8, ZenonT(30) DEF Unpin, unpin, PublishClosed, CloserGoto, CloserAt, TypeInv, TypeOK,
       TablesTypeOK
  <2>2. RemovedInv(s)'
    BY <1>3, <1>5, <2>1 DEF TableInvAt, RemovedInv, ClosePC
  <2> QED
    BY <1>3, <1>4, <2>1, <2>2 DEF TableInvAt
<1>9. CASE ReturnClosed(s, a)
  <2>1. /\ SameEntries(s) /\ closer[s][a] = "return"
        /\ closer' = [closer EXCEPT ![s][a] = "none"]
    BY <1>9, Zenon DEF ReturnClosed, CloserGoto, CloserAt, SameEntries
  <2>2. flow_states[s] = NoExit /\ s \notin flow_counters
    BY <2>1, Zenon DEF TableInvAt, RemovedInv
  <2>3. RemovedInv(s)'
    BY <2>1, <2>2, Zenon DEF RemovedInv, SameEntries
  <2>4. /\ dpc'[s] = IF a = Dispatcher THEN "idle" ELSE dpc[s]
        /\ \A e \in Exit : ppc'[s][e] \in {ppc[s][e], "exit"}
    BY <1>9 DEF ReturnClosed, Goto, TypeInv, TypeOK
  <2>5. EntryInv(s)'
    BY <1>1, <1>2, <2>1, <2>2, <2>4, ZenonT(30) DEF TableInvAt, EntryInv, SameTask, SameEntries
  <2>6. WatchInv(s)'
    BY <1>1, <2>1, <2>2, <2>4 DEF TableInvAt, WatchInv, SameEntries
  <2>7. LastInv(s)'
    BY <1>1, <1>2, <2>1, <2>2, <2>4, ZenonT(30) DEF TableInvAt, LastInv, SameTask, SameEntries,
       SameLock
  <2> QED
    BY <2>3, <2>5, <2>6, <2>7 DEF TableInvAt
<1> QED
  BY <1>6, <1>7, <1>8, <1>9, Zenon DEF CloserStep

LEMMA TablePoll ==
    ASSUME TypeInv, NEW s \in Session, PollInvAt(s), FlowInvAt(s), TableInvAt(s),
           NEW e \in Exit, PollStep(s, e)
    PROVE  TableInvAt(s)'
<1> USE DEF tables, clientVars, dispVars, eventVars
<1>1. /\ SameTask(s) /\ SameEntries(s) /\ SameLock(s) /\ SameReceiver(s)
      /\ dpc'[s] = dpc[s] /\ aborted'[s] = aborted[s]
  BY ZenonT(30) DEF PollStep, PollData, PollDeliver, PollClosed, PollExit, PollCancelled,
     PollUnchanged, SameTask, SameEntries, SameLock, SameReceiver
<1>2. e \in Agent /\ \A x \in Exit : x # e => ppc'[s][x] = ppc[s][x]
  BY DEF PollStep, PollData, PollDeliver, PollClosed, PollExit, PollCancelled, TypeInv, TypeOK,
     Agent
<1>3. \A a \in Agent : closer'[s][a] \in {closer[s][a], "remove", "none"}
  BY <1>2 DEF PollStep, PollData, PollDeliver, PollClosed, PollExit, PollCancelled, TypeInv, TypeOK
<1>4. polls'[s] = polls[s] \/ (polls'[s] = polls[s] \ {e} /\ ppc[s][e] = "exit")
  BY ZenonT(30) DEF PollStep, PollData, PollDeliver, PollClosed, PollExit, PollCancelled, TypeInv,
     TypeOK
<1>5. \/ ppc[s][e] \in {"poll", "deliver"} /\ ppc'[s][e] \in {"poll", "deliver", "closing"}
      \/ ppc[s][e] = "deliver" /\ ppc'[s][e] = "exit" /\ s \notin receiving
      \/ ppc[s][e] = "exit" /\ e \notin polls'[s]
      \/ aborted[s][e]
  <2>1. CASE PollData(s, e) \/ PollDeliver(s, e) \/ PollClosed(s, e)
    BY <2>1 DEF PollData, PollDeliver, PollClosed, TypeInv, TypeOK
  <2>2. CASE PollExit(s, e)
    BY <2>2, ZenonT(30) DEF PollExit, TypeInv, TypeOK
  <2> QED
    BY <2>1, <2>2 DEF PollStep, PollCancelled
<1>6. EntryInv(s)'
  BY <1>1, <1>4, ZenonT(30) DEF TableInvAt, EntryInv, SameTask, SameEntries
<1>7. WatchInv(s)'
  <2>1. ASSUME NEW x \in Exit, x \in polls'[s] PROVE ppc'[s][x] # "off" /\ ~aborted'[s][x]
    <3>1. ppc[s][x] # "off" /\ ~aborted[s][x]
      BY <1>4, <2>1 DEF TableInvAt, WatchInv
    <3> QED
      BY <1>1, <1>2, <1>5, <2>1, <3>1, ZenonT(30)
  <2>2. ASSUME flow_states'[s] # NoExit, dpc'[s] \in {"idle", "return", "fsend"},
               s \in receiving'
        PROVE  /\ flow_states'[s] \in polls'[s]
               /\ ppc'[s][flow_states'[s]] \in {"poll", "deliver", "closing"}
    <3>1. /\ flow_states'[s] = flow_states[s] /\ s \in receiving /\ flow_states[s] \in polls[s]
          /\ ppc[s][flow_states[s]] \in {"poll", "deliver", "closing"}
          /\ flow_states[s] \in Exit /\ ~aborted[s][flow_states[s]]
      <4>1. flow_states'[s] = flow_states[s] /\ s \in receiving /\ dpc'[s] = dpc[s]
        BY <1>1, <2>2, Zenon DEF SameEntries, SameReceiver
      <4>2. flow_states[s] \in Exit
        BY <2>2, <4>1, ZenonT(30) DEF TypeInv, TypeOK, TablesTypeOK
      <4> QED
        BY <2>2, <4>1, <4>2, Zenon DEF TableInvAt, WatchInv
    <3>2. CASE flow_states[s] = e
      BY <1>4, <1>5, <3>1, <3>2, ZenonT(30)
    <3>3. CASE flow_states[s] # e
      BY <1>2, <1>4, <3>1, <3>3, ZenonT(30)
    <3> QED
      BY <3>2, <3>3
  <2> QED
    BY <2>1, <2>2, Zenon DEF WatchInv
<1>8. RemovedInv(s)'
  BY <1>1, <1>3 DEF TableInvAt, RemovedInv, SameEntries
<1>9. LastInv(s)'
  <2>1. polls[s] = {} => polls'[s] = {}
    BY <1>4, Zenon
  <2> QED
    BY <1>1, <2>1, ZenonT(60) DEF TableInvAt, LastInv, SameTask, SameEntries, SameLock
<1> QED
  BY <1>6, <1>7, <1>8, <1>9 DEF TableInvAt

LEMMA TableNext ==
    ASSUME Inv, TableInv, [Next]_vars
    PROVE  TableInv'
<1>1. CASE UNCHANGED vars
  <2>1. \A t \in Session : SameTables(t)
    BY <1>1, Zenon DEF vars, tables, clientVars, dispVars, pollVars, closeVars, eventVars,
       SameTables, SameTask, SameEntries, SamePolls, SameLock, SameReceiver
  <2> QED
    BY <2>1, SameTablesKeep DEF TableInv
<1>2. ASSUME NEW s \in Session,
             \/ ClientStep(s) \/ DispatchStep(s)
             \/ \E a \in Agent : CloserStep(s, a)
             \/ \E e \in Exit : PollStep(s, e)
      PROVE  TableInv'
  <2>1. TypeInv /\ TypeOK /\ PollInvAt(s) /\ FlowInvAt(s) /\ TableInvAt(s)
    BY DEF Inv, TypeInv, PollInv, FlowInv, TableInv
  <2>2. TableInvAt(s)'
    BY <1>2, <2>1, TableClient, TableDispatch, TableCloser, TablePoll
  <2>3. ASSUME NEW t \in Session, t # s PROVE TableInvAt(t)'
    BY <1>2, <2>1, <2>3, OthersTables, SameTablesKeep DEF TableInv
  <2> QED
    BY <2>2, <2>3 DEF TableInv
<1> QED
  BY <1>1, <1>2 DEF Next

(* The tables of the kernel follow the flow, for any number of sessions,   *)
(* exits and frames: a flow with a FlowState is pinned to the exit of that *)
(* state (until its Close frame), only that exit took its frames, a live   *)
(* poll task watches it, and an aborted session at rest has no entry left. *)
THEOREM TablesCorrect == Spec => []TablesFollowFlow
<1>1. Inv /\ TableInv => TablesFollowFlow
  <2> SUFFICES ASSUME Inv, TableInv, NEW s \in Session
               PROVE  /\ flow_states[s] # NoExit =>
                            /\ kind[s] # "Close" => flow_pins[s] = flow_states[s]
                            /\ carried[s] \subseteq {flow_states[s]}
                      /\ flow_states[s] # NoExit /\ dpc[s] \in {"idle", "return", "fsend"}
                           /\ s \in receiving =>
                            /\ flow_states[s] \in polls[s]
                            /\ ppc[s][flow_states[s]] \in {"poll", "deliver", "closing"}
                      /\ client[s] = "aborted" /\ AtRest(s) =>
                            /\ flow_pins[s] = NoExit /\ flow_states[s] = NoExit
                            /\ s \notin flow_counters /\ polls[s] = {} /\ pins_lock # s
    BY Zenon DEF Inv, TypeInv, TablesFollowFlow
  <2>1. TableInvAt(s)
    BY DEF TableInv
  <2>2. client[s] = "aborted" /\ AtRest(s) => kind[s] = "Close" /\ dpc[s] = "idle"
    BY <2>1, Zenon DEF TableInvAt, LastInv, AtRest
  <2> QED
    BY <2>1, <2>2, Zenon DEF TableInvAt, EntryInv, WatchInv, LastInv
<1> QED
  BY <1>1, InvInit, InvNext, TableInit, TableNext, PTL DEF Spec

-----------------------------------------------------------------------------
(* How the end of an announced flow can go unreported.                     *)

(* What EndUnreported reads of a session. *)
SameReport(s) ==
    /\ opened'[s] = opened[s] /\ closed'[s] = closed[s] /\ flow_states'[s] = flow_states[s]
    /\ \A a \in Agent : held'[s][a] = held[s][a]

(* A closer that holds the removed FlowState is on its way to publishing.  *)
LEMMA UnreportedIs ==
    ASSUME NEW s \in Session, FlowInvAt(s)
    PROVE  EndUnreported(s) <=> /\ opened[s] > closed[s] /\ flow_states[s] = NoExit
                                /\ \A a \in Agent : ~held[s][a]
  BY Zenon DEF FlowInvAt, ClosersInv, EndUnreported

LEMMA SameReportKeeps ==
    ASSUME NEW s \in Session, FlowInvAt(s), FlowInvAt(s)', SameReport(s), EndUnreported(s)'
    PROVE  EndUnreported(s)
<1>1. (EndUnreported(s) <=> /\ opened[s] > closed[s] /\ flow_states[s] = NoExit
                            /\ \A a \in Agent : ~held[s][a])'
  BY UnreportedIs, Zenon DEF FlowInvAt, ClosersInv, EndUnreported
<1> QED
  BY <1>1, UnreportedIs, Zenon DEF SameReport

LEMMA ClientReport ==
    ASSUME NEW s \in Session, ClientStep(s)
    PROVE  SameReport(s)
  BY Zenon DEF ClientStep, ClientConnect, ClientConnectReturn, ClientSend, ClientAbort, ClientRecv,
     ClientDropReceiver, ClientDrop, SameReport, tables, dispVars, pollVars, closeVars, eventVars

LEMMA DispatchReport ==
    ASSUME TypeInv, NEW s \in Session, FlowInvAt(s), DispatchStep(s)
    PROVE  SameReport(s) \/ ~EndUnreported(s)'
<1> USE DEF tables, clientVars, dispVars, pollVars, closeVars, eventVars
<1>1. CASE InsertState(s)
  <2>1. opened[s] = 0 /\ closed[s] \in {0, 1} /\ closed[s] <= opened[s]
    BY <1>1, Zenon DEF InsertState, FlowInvAt, PhaseInv
  <2>2. closed[s] = 0
    BY <2>1, OneAboveZero, Zenon
  <2>3. opened'[s] = opened[s] /\ closed'[s] = closed[s]
    BY <1>1, Zenon DEF InsertState
  <2> QED
    BY <2>1, <2>2, <2>3, Units, Zenon DEF EndUnreported
<1>2. CASE PublishOpened(s)
  BY <1>2, Zenon DEF PublishOpened, FlowInvAt, PhaseInv, EndUnreported
<1>3. CASE DispatchClose(s) \/ DispatchForwarderFrame(s) \/ DispatchSchedule(s)
  BY <1>3, Zenon DEF DispatchClose, DispatchForwarderFrame, DispatchSchedule, TakeFrame, SameReport
<1>4. CASE \E e \in Exit : TrySend(s, e) \/ TrySendFails(s, e)
  BY <1>4, Zenon DEF TrySend, TrySendFails, SameReport
<1>5. CASE NoUsableExit(s) \/ Pin(s) \/ MarkOpen(s) \/ EnsurePoll(s) \/ Return(s)
  BY <1>5, Zenon DEF NoUsableExit, Pin, MarkOpen, EnsurePoll, Return, SameReport
<1>6. CASE ForwarderSend(s) \/ ForwarderSendFails(s) \/ ClosePin(s) \/ CloseEgress(s)
  BY <1>6, Zenon DEF ForwarderSend, ForwarderSendFails, ClosePin, CloseEgress, SameReport
<1>7. CASE AbortSessionPolls(s)
  BY <1>7, Zenon DEF AbortSessionPolls, SameReport
<1> QED
  BY <1>1, <1>2, <1>3, <1>4, <1>5, <1>6, <1>7 DEF DispatchStep

LEMMA CloserReport ==
    ASSUME TypeInv, NEW s \in Session, FlowInvAt(s), NEW a \in Agent, CloserStep(s, a)
    PROVE  SameReport(s) \/ ~EndUnreported(s)'
<1>1. CASE RemoveState(s, a)
  <2>1. /\ opened'[s] = opened[s] /\ closed'[s] = closed[s] /\ flow_states'[s] = NoExit
        /\ closer'[s][a] = "mark" /\ held'[s][a] = (flow_states[s] # NoExit)
        /\ \A x \in Agent \ {a} : held'[s][x] = held[s][x]
    BY <1>1 DEF RemoveState, remove_state, CloserGoto, eventVars, TypeInv, TypeOK, TablesTypeOK
  <2>2. ~held[s][a]
    BY <1>1, Zenon DEF RemoveState, CloserAt, FlowInvAt, ClosersInv
  <2>3. CASE flow_states[s] = NoExit
    <3>1. held[s][a] = FALSE /\ held'[s][a] = FALSE
      <4>1. held \in [Session -> [Agent -> BOOLEAN]]
        BY Zenon DEF TypeInv, TypeOK
      <4>2. held[s][a] \in BOOLEAN
        BY <4>1, Zenon
      <4> QED
        BY <2>1, <2>2, <2>3, <4>2, Zenon
    <3>2. ASSUME NEW x \in Agent PROVE held'[s][x] = held[s][x]
      <4>1. CASE x = a
        BY <3>1, <4>1, Zenon
      <4>2. CASE x # a
        BY <2>1, <4>2, Zenon
      <4> QED
        BY <4>1, <4>2, Zenon
    <3> QED
      BY <2>1, <2>3, <3>2, Zenon DEF SameReport
  <2>4. CASE flow_states[s] # NoExit
    BY <2>1, <2>4, Zenon DEF EndUnreported
  <2> QED
    BY <2>3, <2>4, Z3T(30)
<1>2. CASE MarkClosed(s, a) \/ Unpin(s, a) \/ ReturnClosed(s, a)
  BY <1>2, Zenon DEF MarkClosed, Unpin, ReturnClosed, SameReport, tables, eventVars
<1>3. CASE PublishClosed(s, a)
  <2>1. opened'[s] = opened[s] /\ closed'[s] = closed[s] + 1
    BY <1>3, Z3T(30) DEF PublishClosed, TypeInv, TypeOK
  <2>2. opened[s] \in {0, 1} /\ closed[s] \in {0, 1}
    BY Z3T(30) DEF FlowInvAt, PhaseInv
  <2> QED
    BY <2>1, <2>2, Z3T(30) DEF EndUnreported
<1> QED
  BY <1>1, <1>2, <1>3 DEF CloserStep

LEMMA PollReport ==
    ASSUME TypeInv, NEW s \in Session, NEW e \in Exit, PollStep(s, e)
    PROVE  SameReport(s) \/ (aborted[s][e] /\ held[s][e])
<1>1. CASE PollData(s, e) \/ PollDeliver(s, e) \/ PollClosed(s, e) \/ PollExit(s, e)
  BY <1>1, Zenon DEF PollData, PollDeliver, PollClosed, PollExit, PollUnchanged, SameReport,
                     tables, eventVars
<1>2. CASE PollCancelled(s, e)
  <2>1. /\ aborted[s][e] /\ opened'[s] = opened[s] /\ closed'[s] = closed[s]
        /\ flow_states'[s] = flow_states[s]
    BY <1>2, Zenon DEF PollCancelled, tables, eventVars
  <2>2. \A a \in Agent : held'[s][a] = IF a = e THEN FALSE ELSE held[s][a]
    BY <1>2, Zenon DEF PollCancelled, TypeInv, TypeOK
  <2>3. \A a \in Agent : held[s][a] \in BOOLEAN
    BY DEF TypeInv, TypeOK
  <2> QED
    BY <2>1, <2>2, <2>3, Zenon DEF SameReport
<1> QED
  BY <1>1, <1>2 DEF PollStep

(* FlowClosed of an announced flow is lost only when a poll task that has  *)
(* removed the FlowState is aborted: every other step of close_flow_if_open *)
(* and of the dispatcher leaves somebody who will publish it.              *)
THEOREM CloseLostCorrect == Spec => CloseLostByAbortOnly
<1>1. ASSUME Inv, Inv', [Next]_vars, NEW s \in Session, ~EndUnreported(s), EndUnreported(s)'
      PROVE  \E e \in Exit : aborted[s][e] /\ held[s][e]
  <2>1. TypeInv /\ TypeOK /\ FlowInvAt(s) /\ FlowInvAt(s)'
    BY <1>1, Zenon DEF Inv, TypeInv, FlowInv
  <2>2. ~SameReport(s)
    BY <1>1, <2>1, SameReportKeeps
  <2>3. CASE UNCHANGED vars
    BY <2>2, <2>3, Zenon DEF vars, tables, closeVars, eventVars, SameReport
  <2>4. ASSUME NEW t \in Session,
               \/ ClientStep(t) \/ DispatchStep(t)
               \/ \E a \in Agent : CloserStep(t, a)
               \/ \E e \in Exit : PollStep(t, e)
        PROVE  \E e \in Exit : aborted[s][e] /\ held[s][e]
    <3>1. t = s
      <4> SUFFICES ASSUME t # s PROVE FALSE
        OBVIOUS
      <4>1. SameAt(s)
        BY <2>1, <2>4, OthersSame
      <4> QED
        BY <2>2, <4>1, Zenon DEF SameAt, SameReport
    <3> QED
      BY <1>1, <2>1, <2>2, <2>4, <3>1, ClientReport, DispatchReport, CloserReport, PollReport
  <2> QED
    BY <1>1, <2>3, <2>4 DEF Next
<1>2. Inv /\ Inv' /\ [Next]_vars =>
        [\A s \in Session : ~EndUnreported(s) /\ EndUnreported(s)'
              => \E e \in Exit : aborted[s][e] /\ held[s][e]]_vars
  BY <1>1
<1> QED
  BY <1>2, InvInit, InvNext, PTL DEF Spec, CloseLostByAbortOnly
=============================================================================
