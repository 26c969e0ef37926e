------------------------- MODULE FlowDispatchProofs -------------------------
(***************************************************************************)
(* FlowDispatch keeps its types, and the events of a flow are ordered: at  *)
(* most one FlowOpened and one FlowClosed, whoever closes it.  For any     *)
(* number of sessions, exits, sources, frames and payloads and any         *)
(* capacity of the return channel.                                         *)
(***************************************************************************)
EXTENDS FlowDispatch, TLAPS

(***************************************************************************)
(* Type correctness                                                        *)
(***************************************************************************)

(* TypeOK is inductive together with two facts about what a task holds     *)
(* between two of its steps: the exit that took the frame, the payload     *)
(* that the exit yielded.                                                  *)
ExitChosen ==
    \A s \in Session :
        dpc[s] \in {"pin", "insert", "mark", "publish", "ensure", "fsend"} => exit[s] \in Exit

PayloadInHand ==
    \A s \in Session, e \in Exit : ppc[s][e] = "deliver" => made[s][e] > 0

TypeInv == TypeOK /\ ExitChosen /\ PayloadInHand

-----------------------------------------------------------------------------
(* Facts about sequences and return events.                                *)

LEMMA AppendSeq ==
    ASSUME NEW S, NEW q \in Seq(S), NEW x \in S
    PROVE  /\ Append(q, x) \in Seq(S)
           /\ Len(Append(q, x)) = Len(q) + 1
           /\ \A i \in 1..Len(q) : Append(q, x)[i] = q[i]
           /\ Append(q, x)[Len(q) + 1] = x
  OBVIOUS

LEMMA AppendRange ==
    ASSUME NEW S, NEW q \in Seq(S), NEW x \in S, NEW i \in 1..Len(Append(q, x))
    PROVE  Append(q, x)[i] = x \/ (i \in 1..Len(q) /\ Append(q, x)[i] = q[i])
  OBVIOUS

(* The arithmetic of counters that are 0 or 1. *)
LEMMA Units ==
    /\ 0 # 1 /\ 0 + 1 = 1 /\ 0 <= 0 /\ 0 <= 1 /\ 1 <= 1
    /\ ~(0 > 0) /\ ~(1 > 1) /\ ~(0 > 1) /\ 1 > 0
  OBVIOUS

LEMMA OneAboveZero == ~(1 <= 0)
  OBVIOUS

LEMMA OnlyElement ==
    ASSUME NEW q, NEW x, Len(q) = 1, q[1] = x
    PROVE  \A i \in 1..Len(q) : q[i] = x
  OBVIOUS

LEMMA EmptyLen ==
    ASSUME NEW S, NEW q \in Seq(S), Len(q) = 0
    PROVE  q = <<>>
  OBVIOUS

LEMMA HeadTailSeq ==
    ASSUME NEW S, NEW q \in Seq(S), q # <<>>
    PROVE  /\ Head(q) \in S /\ Head(q) = q[1]
           /\ Tail(q) \in Seq(S)
           /\ Len(q) >= 1 /\ Len(Tail(q)) = Len(q) - 1
           /\ \A i \in 1..Len(Tail(q)) : Tail(q)[i] = q[i + 1]
           /\ Len(q) = 1 => Tail(q) = <<>>
<1>1. Tail(q) \in Seq(S) /\ Len(Tail(q)) = Len(q) - 1 /\ Len(q) >= 1
  OBVIOUS
<1>2. ASSUME Len(q) = 1 PROVE Tail(q) = <<>>
  <2>1. Len(Tail(q)) = 0
    BY <1>1, <1>2
  <2> HIDE <1>2
  <2> QED
    BY <1>1, <2>1, EmptyLen, Zenon
<1> QED
  BY <1>1, <1>2

LEMMA TailOfEqual ==
    ASSUME NEW S, NEW q \in Seq(S), q # <<>>, NEW x, \A i \in 1..Len(q) : q[i] = x
    PROVE  Head(q) = x /\ \A i \in 1..Len(Tail(q)) : Tail(q)[i] = x
  BY HeadTailSeq

LEMMA DataEvent ==
    ASSUME NEW ev \in ReturnEvent, ev.kind = "Data"
    PROVE  ev.from \in Exit /\ ev.seq \in 0..MaxPayload
  BY DispatchAssumption DEF ReturnEvent, Connected, Reply, ClosedEvent, Data

LEMMA ReturnEvents ==
    /\ Connected \in ReturnEvent /\ Reply \in ReturnEvent /\ ClosedEvent \in ReturnEvent
    /\ \A e \in Exit, n \in 1..MaxPayload : Data(e, n) \in ReturnEvent
  BY DEF ReturnEvent

(* The channel after a Closed that was sent or, without a receiver, not. *)
LEMMA ClosedSent ==
    ASSUME NEW q \in Seq(ReturnEvent), NEW r \in {q, Append(q, ClosedEvent)},
           NEW i \in 1..Len(r)
    PROVE  r[i] = ClosedEvent \/ (i \in 1..Len(q) /\ r[i] = q[i])
  BY ReturnEvents, AppendRange

(* A send on the return channel keeps it a sequence of return events.      *)
LEMMA SendReturnType ==
    ASSUME NEW s \in Session, NEW ev \in ReturnEvent,
           returns \in [Session -> Seq(ReturnEvent)], SendReturn(s, ev)
    PROVE  returns' \in [Session -> Seq(ReturnEvent)]
<1>1. Append(returns[s], ev) \in Seq(ReturnEvent)
  BY AppendSeq
<1> QED
  BY <1>1, Zenon DEF SendReturn

-----------------------------------------------------------------------------
LEMMA TypeInit == Init => TypeInv
  BY DispatchAssumption, TablesAssumption
     DEF Init, TypeInv, TypeOK, TablesInit, TablesTypeOK, ExitChosen, PayloadInHand,
         ClientState, DispatchPC, PollPC, ClosePC

LEMMA MarkClosedType ==
    ASSUME NEW s \in Session, mark_closed(s),
           source_activity \in [Source -> Nat], idle_since \subseteq Source
    PROVE  source_activity' \in [Source -> Nat] /\ idle_since' \subseteq Source
  BY TablesAssumption DEF mark_closed

LEMMA UpdateTable ==
    ASSUME NEW A, NEW B, NEW C, NEW f \in [A -> [B -> C]], NEW a \in A, NEW b \in B,
           NEW c \in C
    PROVE  /\ [f EXCEPT ![a][b] = c] \in [A -> [B -> C]]
           /\ [f EXCEPT ![a][b] = c][a][b] = c
           /\ \A x \in A, y \in B : x # a \/ y # b => [f EXCEPT ![a][b] = c][x][y] = f[x][y]
  OBVIOUS

LEMMA TypeClient ==
    ASSUME TypeInv, NEW s \in Session, ClientStep(s)
    PROVE  TypeInv'
<1> DEFINE ClientType == /\ frames \in [Session -> Seq({"Open", "Data", "Close"})]
                         /\ returns \in [Session -> Seq(ReturnEvent)]
                         /\ client \in [Session -> ClientState]
                         /\ receiving \subseteq Session
                         /\ sent \in [Session -> 0..MaxData]
                         /\ got \in [Session -> [Exit -> 0..MaxPayload]]
<1>a. ClientType
  BY Zenon DEF TypeInv, TypeOK
<1>b. ClientType'
  <2> USE <1>a, DispatchAssumption DEF ClientState
  <2>1. CASE ClientConnect(s)
    BY <2>1, AppendSeq DEF ClientConnect
  <2>2. CASE ClientConnectReturn(s)
    BY <2>2, HeadTailSeq, DataEvent, Zenon DEF ClientConnectReturn
  <2>3. CASE ClientSend(s)
    BY <2>3, AppendSeq DEF ClientSend
  <2>4. CASE ClientAbort(s)
    BY <2>4, AppendSeq DEF ClientAbort
  <2>5. CASE ClientRecv(s)
    BY <2>5, HeadTailSeq, DataEvent, Zenon DEF ClientRecv
  <2>6. CASE ClientDropReceiver(s)
    BY <2>6 DEF ClientDropReceiver
  <2>7. CASE ClientDrop(s)
    BY <2>7 DEF ClientDrop
  <2> QED
    BY <2>1, <2>2, <2>3, <2>4, <2>5, <2>6, <2>7, Zenon DEF ClientStep
<1>c. UNCHANGED <<tables, pins_lock, dispVars, pollVars, closeVars, eventVars>>
  BY Zenon DEF ClientStep, ClientConnect, ClientConnectReturn, ClientSend, ClientAbort,
               ClientRecv, ClientDropReceiver, ClientDrop
<1> HIDE DEF ClientType
<1> QED
  <2>1. TablesTypeOK' /\ ExitChosen' /\ PayloadInHand'
    BY <1>c, Zenon DEF TypeInv, TypeOK, TablesTypeOK, ExitChosen, PayloadInHand, tables,
                       dispVars, pollVars
  <2> QED
    BY <1>b, <1>c, <2>1, Zenon
       DEF TypeInv, TypeOK, ClientType, dispVars, pollVars, closeVars, eventVars

LEMMA TypeDispatch ==
    ASSUME TypeInv, NEW s \in Session, DispatchStep(s)
    PROVE  TypeInv'
<1> USE DispatchAssumption, TablesAssumption
<1> USE DEF TypeInv, TypeOK, TablesTypeOK, ExitChosen, PayloadInHand, tables, clientVars,
            dispVars, pollVars, closeVars, eventVars, DispatchPC, ClosePC, Goto
<1>1. CASE DispatchClose(s)
  BY <1>1, HeadTailSeq, Zenon DEF DispatchClose, TakeFrame
<1>2. CASE DispatchForwarderFrame(s)
  BY <1>2, HeadTailSeq, Zenon DEF DispatchForwarderFrame, TakeFrame
<1>3. CASE DispatchSchedule(s)
  <2>1. /\ frames' \in [Session -> Seq({"Open", "Data", "Close"})]
        /\ kind' \in [Session -> {"Open", "Data", "Close"}]
    BY <1>3, HeadTailSeq DEF DispatchSchedule, TakeFrame
  <2>2. cand' \in [Session -> SUBSET Exit] /\ dpc' = [dpc EXCEPT ![s] = "try"]
    <3>1. /\ cand \in [Session -> SUBSET Exit] /\ dpc' = [dpc EXCEPT ![s] = "try"]
          /\ \E c \in SUBSET Exit : cand' = [cand EXCEPT ![s] = c]
      BY <1>3, Zenon DEF DispatchSchedule
    <3> HIDE DEF TypeInv, TypeOK, TablesTypeOK
    <3> QED
      BY <3>1
  <2> QED
    BY <1>3, <2>1, <2>2, ZenonT(30) DEF DispatchSchedule, TakeFrame
<1>4. ASSUME NEW e \in Exit, TrySend(s, e) PROVE TypeInv'
  BY <1>4, ZenonT(30) DEF TrySend
<1>5. ASSUME NEW e \in Exit, TrySendFails(s, e) PROVE TypeInv'
  BY <1>5, Zenon DEF TrySendFails
<1>6. CASE NoUsableExit(s)
  BY <1>6, SendReturnType, ReturnEvents, Zenon DEF NoUsableExit
<1>7. CASE Pin(s)
  <2>1. flow_pins' \in [Session -> Exit \cup {NoExit}]
    BY <1>7, Zenon DEF Pin, pin
  <2> QED
    BY <1>7, <2>1, Zenon DEF Pin
<1>8. CASE InsertState(s)
  BY <1>8, Zenon DEF InsertState, insert_state
<1>9. CASE MarkOpen(s)
  <2>1. source_activity' \in [Source -> Nat] /\ idle_since' \subseteq Source
    <3>1. /\ source_activity \in [Source -> Nat] /\ idle_since \subseteq Source
          /\ mark_open(s) /\ SourceOf[s] \in Source
      BY <1>9, Zenon DEF MarkOpen
    <3> HIDE DEF TypeInv, TypeOK, TablesTypeOK
    <3> QED
      BY <3>1 DEF mark_open
  <2> QED
    BY <1>9, <2>1, Zenon DEF MarkOpen
<1>10. CASE PublishOpened(s)
  <2>1. opened' \in [Session -> Nat]
    BY <1>10 DEF PublishOpened
  <2> QED
    BY <1>10, <2>1, Zenon DEF PublishOpened
<1>11. CASE EnsurePoll(s)
  BY <1>11, ZenonT(30) DEF EnsurePoll, PollPC
<1>12. CASE Return(s)
  BY <1>12, SendReturnType, ReturnEvents, Zenon DEF Return
<1>13. CASE ForwarderSend(s)
  BY <1>13, ZenonT(30) DEF ForwarderSend
<1>14. CASE ForwarderSendFails(s)
  BY <1>14, Zenon DEF ForwarderSendFails, Agent
<1>15. CASE ClosePin(s)
  <2>1. /\ flow_pins' \in [Session -> Exit \cup {NoExit}]
        /\ pins_lock' \in Session \cup {NoSession}
    BY <1>15 DEF ClosePin, unpin
  <2>2. /\ dpc' \in [Session -> DispatchPC]
        /\ \A t \in Session : dpc'[t] = dpc[t] \/ dpc'[t] \in {"close_abort", "close_egress"}
    BY <1>15, ZenonT(30) DEF ClosePin
  <2> QED
    BY <1>15, <2>1, <2>2, Zenon DEF ClosePin
<1>16. CASE CloseEgress(s)
  BY <1>16, Zenon DEF CloseEgress
<1>17. CASE AbortSessionPolls(s)
  BY <1>17, Zenon DEF AbortSessionPolls, Agent
<1> QED
  BY <1>1, <1>2, <1>3, <1>4, <1>5, <1>6, <1>7, <1>8, <1>9, <1>10, <1>11, <1>12, <1>13,
     <1>14, <1>15, <1>16, <1>17, ZenonT(60) DEF DispatchStep

LEMMA TypeCloser ==
    ASSUME TypeInv, NEW s \in Session, NEW a \in Agent, CloserStep(s, a)
    PROVE  TypeInv'
<1> USE DispatchAssumption, TablesAssumption
<1> USE DEF TypeInv, TypeOK, TablesTypeOK, ExitChosen, PayloadInHand, tables, clientVars,
            eventVars, ClosePC, CloserUnchanged, CloserAt, CloserGoto
<1>1. CASE RemoveState(s, a)
  BY <1>1, Zenon DEF RemoveState, remove_state
<1>2. CASE MarkClosed(s, a)
  <2>1. source_activity' \in [Source -> Nat] /\ idle_since' \subseteq Source
    BY <1>2, MarkClosedType, Zenon DEF MarkClosed
  <2> QED
    BY <1>2, <2>1, Zenon DEF MarkClosed
<1>3. CASE Unpin(s, a)
  BY <1>3, Zenon DEF Unpin, unpin
<1>4. CASE PublishClosed(s, a)
  <2>1. closed' \in [Session -> Nat]
    BY <1>4 DEF PublishClosed
  <2> QED
    BY <1>4, <2>1, Zenon DEF PublishClosed
<1>5. CASE ReturnClosed(s, a)
  <2>1. returns' \in [Session -> Seq(ReturnEvent)]
    BY <1>5, SendReturnType, ReturnEvents, ZenonT(60) DEF ReturnClosed
  <2>2. /\ dpc' \in [Session -> DispatchPC]
        /\ \A t \in Session : dpc'[t] = dpc[t] \/ dpc'[t] = "idle"
    BY <1>5, Zenon DEF ReturnClosed, Goto, DispatchPC
  <2>3. /\ ppc' \in [Session -> [Exit -> PollPC]]
        /\ \A t \in Session, e \in Exit : ppc'[t][e] = ppc[t][e] \/ ppc'[t][e] = "exit"
    <3>1. CASE a = Dispatcher
      BY <1>5, <3>1 DEF ReturnClosed
    <3>2. CASE a \in Exit
      <4>1. ppc' = [ppc EXCEPT ![s][a] = "exit"]
        BY <1>5, <3>2 DEF ReturnClosed
      <4>2. "exit" \in PollPC /\ ppc \in [Session -> [Exit -> PollPC]]
        BY DEF PollPC
      <4>3. ppc' \in [Session -> [Exit -> PollPC]]
        <5> HIDE DEF TypeInv, TypeOK, PollPC
        <5> QED
          BY <4>1, <4>2, <3>2, ZenonT(30)
      <4>4. ASSUME NEW t \in Session, NEW e \in Exit
            PROVE  ppc'[t][e] = ppc[t][e] \/ ppc'[t][e] = "exit"
        BY <4>1, <4>2, <3>2, UpdateTable
      <4> QED
        BY <4>3, <4>4
    <3> QED
      BY <3>1, <3>2, ZenonT(60) DEF Agent
  <2> QED
    BY <1>5, <2>1, <2>2, <2>3, Zenon DEF ReturnClosed
<1> QED
  BY <1>1, <1>2, <1>3, <1>4, <1>5, Zenon DEF CloserStep

LEMMA TypePoll ==
    ASSUME TypeInv, NEW s \in Session, NEW e \in Exit, PollStep(s, e)
    PROVE  TypeInv'
<1> USE DispatchAssumption, TablesAssumption
<1> USE DEF TypeInv, TypeOK, TablesTypeOK, ExitChosen, PayloadInHand, tables, clientVars,
            dispVars, eventVars, PollPC, ClosePC, PollUnchanged, Agent
<1>1. CASE PollData(s, e)
  <2>1. made[s][e] + 1 \in 1..MaxPayload /\ made' = [made EXCEPT ![s][e] = made[s][e] + 1]
    BY <1>1 DEF PollData
  <2>2. /\ made' \in [Session -> [Exit -> 0..MaxPayload]]
        /\ made'[s][e] > 0
        /\ \A t \in Session, x \in Exit : t # s \/ x # e => made'[t][x] = made[t][x]
    BY <2>1, UpdateTable
  <2>3. /\ ppc' \in [Session -> [Exit -> PollPC]]
        /\ \A t \in Session, x \in Exit : t # s \/ x # e => ppc'[t][x] = ppc[t][x]
    BY <1>1, UpdateTable DEF PollData
  <2>4. ASSUME NEW t \in Session, NEW x \in Exit, ppc'[t][x] = "deliver"
        PROVE  made'[t][x] > 0
    <3>1. CASE t = s /\ x = e
      BY <2>2, <3>1
    <3>2. CASE t # s \/ x # e
      BY <2>2, <2>3, <2>4, <3>2, ZenonT(60)
    <3> QED
      BY <3>1, <3>2
  <2> QED
    BY <1>1, <2>2, <2>3, <2>4, Zenon DEF PollData
<1>2. CASE PollDeliver(s, e)
  <2>1. Data(e, made[s][e]) \in ReturnEvent
    BY <1>2, ReturnEvents DEF PollDeliver
  <2> QED
    BY <1>2, <2>1, SendReturnType, ZenonT(30) DEF PollDeliver
<1>3. CASE PollClosed(s, e)
  BY <1>3, ZenonT(30) DEF PollClosed
<1>4. CASE PollExit(s, e)
  BY <1>4, ZenonT(30) DEF PollExit
<1>5. CASE PollCancelled(s, e)
  BY <1>5, ZenonT(30) DEF PollCancelled
<1> QED
  BY <1>1, <1>2, <1>3, <1>4, <1>5, Zenon DEF PollStep

LEMMA TypeStutter == TypeInv /\ UNCHANGED vars => TypeInv'
  BY DEF TypeInv, TypeOK, TablesTypeOK, ExitChosen, PayloadInHand, vars, tables, clientVars,
         dispVars, pollVars, closeVars, eventVars

LEMMA TypeNext == TypeInv /\ [Next]_vars => TypeInv'
  BY TypeClient, TypeDispatch, TypeCloser, TypePoll, TypeStutter DEF Next

(* Every variable of the dispatcher keeps its type: in particular an exit  *)
(* is known wherever the code indexes egresses with it.                    *)
THEOREM TypeCorrect == Spec => []TypeOK
<1>1. TypeInv => TypeOK
  BY DEF TypeInv
<1> QED
  BY <1>1, TypeInit, TypeNext, PTL DEF Spec

(***************************************************************************)
(* What a flow and its poll tasks look like between two steps, and that    *)
(* the poll table names every task that runs                               *)
(***************************************************************************)

(* Who may close a flow: the FlowState, or else at most one closer that    *)
(* removed it, is the right to publish FlowClosed.                         *)

ClosersInv(s) ==
    /\ closer[s][Dispatcher] # "none" => dpc[s] = "closing"
    /\ \A e \in Exit : closer[s][e] # "none" => ppc[s][e] = "closing"
    /\ \A a \in Agent : held[s][a] => closer[s][a] \in {"mark", "unpin", "publish"}
    /\ \A a \in Agent : closer[s][a] = "publish" => held[s][a]
    /\ \A a, b \in Agent : held[s][a] /\ held[s][b] => a = b
    /\ \A a \in Agent : held[s][a] => flow_states[s] = NoExit /\ closed[s] = 0 /\ opened[s] = 1

(* How far the flow has come, and where its dispatcher can be.             *)
PhaseInv(s) ==
    /\ opened[s] \in {0, 1} /\ closed[s] \in {0, 1} /\ closed[s] <= opened[s]
    /\ flow_states[s] # NoExit => closed[s] = 0
    /\ flow_states[s] # NoExit /\ dpc[s] \notin {"mark", "publish"} => opened[s] = 1
    /\ dpc[s] \in {"insert", "mark", "publish"} => opened[s] = 0
    /\ dpc[s] = "insert" => flow_states[s] = NoExit
    /\ dpc[s] \in {"mark", "publish"} => flow_states[s] # NoExit
    /\ dpc[s] \in {"try", "pin"} => kind[s] # "Close" /\ (kind[s] = "Open" => opened[s] = 0)
    /\ dpc[s] \in {"ensure", "return", "fsend"} => opened[s] = 1

(* Before FlowOpened is published there is no poll task, nothing but       *)
(* Closed has been returned and the client cannot have sent data.          *)
UnopenedInv(s) ==
    opened[s] = 0 =>
        /\ \A e \in Exit : ppc[s][e] = "off"
        /\ \A i \in 1..Len(returns[s]) : returns[s][i] = ClosedEvent
        /\ \A i \in 1..Len(frames[s]) : frames[s][i] # "Data"
        /\ kind[s] # "Data" \/ dpc[s] = "idle"
        /\ client[s] # "open"

(* The one Open frame of a session comes before everything else.           *)
OpenFrameInv(s) ==
    /\ client[s] = "new" =>
         frames[s] = <<>> /\ dpc[s] = "idle" /\ opened[s] = 0 /\ returns[s] = <<>>
    /\ (\E i \in 1..Len(frames[s]) : frames[s][i] = "Open") =>
         /\ Len(frames[s]) = 1 /\ dpc[s] = "idle" /\ opened[s] = 0
         /\ returns[s] = <<>> /\ client[s] \in {"connecting", "dropped"}

FlowInvAt(s) == ClosersInv(s) /\ PhaseInv(s) /\ UnopenedInv(s) /\ OpenFrameInv(s)

FlowInv == \A s \in Session : FlowInvAt(s)

-----------------------------------------------------------------------------
(* A step of one session leaves the flow of every other session alone.     *)

SameAt(t) ==
    /\ dpc'[t] = dpc[t] /\ kind'[t] = kind[t] /\ frames'[t] = frames[t]
    /\ returns'[t] = returns[t] /\ client'[t] = client[t] /\ ppc'[t] = ppc[t]
    /\ closer'[t] = closer[t] /\ held'[t] = held[t] /\ flow_states'[t] = flow_states[t]
    /\ opened'[t] = opened[t] /\ closed'[t] = closed[t]
    /\ polls'[t] = polls[t] /\ aborted'[t] = aborted[t]

LEMMA OthersSame ==
    ASSUME TypeOK, NEW s \in Session, NEW t \in Session, t # s,
           \/ ClientStep(s) \/ DispatchStep(s)
           \/ \E a \in Agent : CloserStep(s, a)
           \/ \E e \in Exit : PollStep(s, e)
    PROVE  SameAt(t)
<1> USE DEF TypeOK, TablesTypeOK, SameAt, tables, clientVars, dispVars, pollVars, closeVars,
            eventVars
<1>1. CASE ClientStep(s)
  BY <1>1, Zenon DEF ClientStep, ClientConnect, ClientConnectReturn, ClientSend, ClientAbort,
              ClientRecv, ClientDropReceiver, ClientDrop
<1>2. CASE DispatchClose(s) \/ DispatchForwarderFrame(s) \/ DispatchSchedule(s)
  BY <1>2, ZenonT(60) DEF DispatchClose, DispatchForwarderFrame, DispatchSchedule, TakeFrame, Goto
<1>3. CASE (\E e \in Exit : TrySend(s, e) \/ TrySendFails(s, e)) \/ NoUsableExit(s)
  BY <1>3, ZenonT(60) DEF TrySend, TrySendFails, NoUsableExit, SendReturn, Goto
<1>4. CASE Pin(s) \/ InsertState(s) \/ MarkOpen(s) \/ PublishOpened(s)
  BY <1>4, ZenonT(60) DEF Pin, InsertState, insert_state, MarkOpen, PublishOpened, Goto
<1>5. CASE EnsurePoll(s) \/ Return(s) \/ ForwarderSend(s) \/ ForwarderSendFails(s)
  <2>1. CASE EnsurePoll(s)
    BY <2>1, ZenonT(60) DEF EnsurePoll, Goto
  <2>2. CASE Return(s) \/ ForwarderSend(s) \/ ForwarderSendFails(s)
    BY <2>2, ZenonT(60) DEF Return, SendReturn, ForwarderSend, ForwarderSendFails, Goto
  <2> QED
    BY <1>5, <2>1, <2>2, Zenon
<1>6. CASE ClosePin(s) \/ CloseEgress(s) \/ AbortSessionPolls(s)
  BY <1>6, ZenonT(60) DEF ClosePin, CloseEgress, AbortSessionPolls, Goto
<1>7. ASSUME NEW a \in Agent, CloserStep(s, a) PROVE SameAt(t)
  <2> USE DEF CloserGoto, CloserUnchanged
  <2>1. CASE RemoveState(s, a)
    BY <2>1, ZenonT(60) DEF RemoveState, remove_state
  <2>2. CASE MarkClosed(s, a) \/ Unpin(s, a)
    BY <2>2, ZenonT(60) DEF MarkClosed, Unpin
  <2>3. CASE PublishClosed(s, a)
    BY <2>3, ZenonT(60) DEF PublishClosed
  <2>4. CASE ReturnClosed(s, a)
    <3>1. returns'[t] = returns[t] /\ dpc'[t] = dpc[t] /\ ppc'[t] = ppc[t]
      BY <2>4, ZenonT(60) DEF ReturnClosed, SendReturn, Goto
    <3> QED
      BY <2>4, <3>1, ZenonT(60) DEF ReturnClosed
  <2> QED
    BY <1>7, <2>1, <2>2, <2>3, <2>4, Zenon DEF CloserStep
<1>8. ASSUME NEW e \in Exit, PollData(s, e) \/ PollDeliver(s, e) \/ PollClosed(s, e)
      PROVE  SameAt(t)
  BY <1>8, ZenonT(60) DEF PollData, PollDeliver, SendReturn, PollClosed, PollUnchanged
<1>9. ASSUME NEW e \in Exit, PollExit(s, e) \/ PollCancelled(s, e)
      PROVE  SameAt(t)
  BY <1>9, ZenonT(60) DEF PollExit, PollCancelled, PollUnchanged
<1> QED
  BY <1>1, <1>2, <1>3, <1>4, <1>5, <1>6, <1>7, <1>8, <1>9, Zenon DEF DispatchStep, PollStep

-----------------------------------------------------------------------------
(* The Close frame is the last frame of a session.  From then on nothing   *)
(* is sent or polled for it, so a poll task is missing from                *)
(* active_stream_polls only after it was aborted, and ensure_stream_poll   *)
(* never starts a second task beside a running one.                        *)
PollInvAt(s) ==
    /\ \A i \in 1..Len(frames[s]) :
           frames[s][i] = "Close" => i = Len(frames[s]) /\ client[s] = "aborted"
    /\ kind[s] = "Close" => /\ frames[s] = <<>> /\ client[s] = "aborted"
                            /\ dpc[s] \in {"idle", "close_pin", "close_egress", "close_abort",
                                           "closing"}
    /\ dpc[s] \in {"close_pin", "close_egress", "close_abort"} => kind[s] = "Close"
    /\ \A e \in Exit : aborted[s][e] => kind[s] = "Close"
    /\ \A e \in Exit : ppc[s][e] # "off" => e \in polls[s] \/ aborted[s][e]

PollInv == \A s \in Session : PollInvAt(s)

LEMMA PollInit == Init => PollInv
  BY DEF Init, PollInv, PollInvAt

LEMMA PollSame ==
    ASSUME NEW t \in Session, PollInvAt(t), SameAt(t)
    PROVE  PollInvAt(t)'
  BY DEF PollInvAt, SameAt

LEMMA PollClient ==
    ASSUME TypeOK, NEW s \in Session, PollInvAt(s), ClientStep(s)
    PROVE  PollInvAt(s)'
<1> USE DEF clientVars, dispVars, pollVars
<1>1. kind' = kind /\ dpc' = dpc /\ aborted' = aborted /\ ppc' = ppc /\ polls' = polls
  BY DEF ClientStep, ClientConnect, ClientConnectReturn, ClientSend, ClientAbort, ClientRecv,
         ClientDropReceiver, ClientDrop
<1>2. CASE client[s] \in {"connecting", "open", "failed", "aborted"} /\ frames' = frames
           /\ client'[s] # client[s]
  <2>1. client[s] # "aborted"
    BY <1>2, ZenonT(30) DEF ClientStep, ClientConnect, ClientConnectReturn, ClientSend, ClientAbort,
                ClientRecv, ClientDropReceiver, ClientDrop
  <2> QED
    BY <1>1, <1>2, <2>1, ZenonT(30) DEF PollInvAt
<1>3. CASE frames' = frames /\ client'[s] = client[s]
  BY <1>1, <1>3 DEF PollInvAt
<1>4. ASSUME NEW f \in {"Open", "Data", "Close"}, frames'[s] = Append(frames[s], f),
             client[s] # "aborted", f = "Close" => client'[s] = "aborted"
      PROVE  PollInvAt(s)'
  <2>1. frames[s] \in Seq({"Open", "Data", "Close"})
    BY DEF TypeOK
  <2>2. ASSUME NEW i \in 1..Len(frames'[s]), frames'[s][i] = "Close"
        PROVE  i = Len(frames'[s]) /\ client'[s] = "aborted"
    BY <1>4, <2>1, <2>2, AppendSeq DEF PollInvAt
  <2> QED
    BY <1>1, <1>4, <2>2, Zenon DEF PollInvAt
<1>5. \/ frames' = frames /\ client'[s] = client[s]
      \/ client[s] \in {"connecting", "open", "failed", "aborted"} /\ frames' = frames
         /\ client'[s] # client[s]
      \/ \E f \in {"Open", "Data", "Close"} :
             /\ frames'[s] = Append(frames[s], f) /\ client[s] # "aborted"
             /\ f = "Close" => client'[s] = "aborted"
  BY ZenonT(60) DEF ClientStep, ClientConnect, ClientConnectReturn, ClientSend, ClientAbort,
         ClientRecv, ClientDropReceiver, ClientDrop, TypeOK
<1> QED
  BY <1>2, <1>3, <1>4, <1>5, Zenon

LEMMA PollDispatch ==
    ASSUME TypeInv, NEW s \in Session, PollInvAt(s), DispatchStep(s)
    PROVE  PollInvAt(s)'
<1> USE DEF tables, clientVars, dispVars, pollVars, closeVars, eventVars, Goto
<1> DEFINE Same == /\ kind'[s] = kind[s] /\ frames'[s] = frames[s] /\ client'[s] = client[s]
                   /\ aborted'[s] = aborted[s] /\ ppc'[s] = ppc[s] /\ polls'[s] = polls[s]
<1>1. CASE DispatchClose(s) \/ DispatchForwarderFrame(s) \/ DispatchSchedule(s)
  <2>1. /\ frames'[s] = Tail(frames[s]) /\ kind'[s] = Head(frames[s]) /\ frames[s] # <<>>
        /\ dpc'[s] = "close_pin" <=> kind'[s] = "Close"
        /\ dpc'[s] \in {"close_pin", "fsend", "try"} /\ client'[s] = client[s]
        /\ aborted'[s] = aborted[s] /\ ppc'[s] = ppc[s] /\ polls'[s] = polls[s]
    BY <1>1 DEF DispatchClose, DispatchForwarderFrame, DispatchSchedule, TakeFrame, TypeInv, TypeOK
  <2>2. frames[s] \in Seq({"Open", "Data", "Close"})
    BY DEF TypeInv, TypeOK
  <2>3. /\ kind'[s] = frames[s][1] /\ 1 \in 1..Len(frames[s])
        /\ Len(frames'[s]) = Len(frames[s]) - 1
        /\ \A i \in 1..Len(frames'[s]) : frames'[s][i] = frames[s][i + 1]
        /\ Len(frames[s]) = 1 => frames'[s] = <<>>
    BY <2>1, <2>2, HeadTailSeq
  <2>4. ASSUME NEW i \in 1..Len(frames'[s]), frames'[s][i] = "Close"
        PROVE  i = Len(frames'[s]) /\ client[s] = "aborted"
    <3>1. i + 1 \in 1..Len(frames[s]) /\ frames[s][i + 1] = "Close"
      BY <2>2, <2>3, <2>4
    <3>2. i + 1 = Len(frames[s]) /\ client[s] = "aborted"
      BY <3>1 DEF PollInvAt
    <3> QED
      BY <2>3, <3>2
  <2>5. kind'[s] = "Close" => frames'[s] = <<>> /\ client[s] = "aborted"
    BY <2>2, <2>3, ZenonT(30) DEF PollInvAt
  <2>6. kind[s] # "Close"
    BY <2>1, ZenonT(30) DEF PollInvAt
  <2>7. \A e \in Exit : ~aborted[s][e]
    BY <2>6 DEF PollInvAt
  <2> QED
    BY <2>1, <2>4, <2>5, <2>7, ZenonT(30) DEF PollInvAt
<1>2. CASE EnsurePoll(s)
  BY <1>2 DEF EnsurePoll, ExitChosen, PollInvAt, TypeInv, TypeOK
<1>3. CASE AbortSessionPolls(s)
  BY <1>3, ZenonT(60) DEF AbortSessionPolls, PollInvAt, TypeInv, TypeOK
<1>4. CASE ClosePin(s) \/ CloseEgress(s)
  <2>1. /\ Same /\ dpc[s] \in {"close_pin", "close_egress"}
        /\ dpc'[s] \in {"close_egress", "close_abort"}
    BY <1>4, ZenonT(30) DEF ClosePin, CloseEgress, TypeInv, TypeOK
  <2> QED
    BY <2>1 DEF PollInvAt
<1>5. CASE \/ \E e \in Exit : TrySend(s, e) \/ TrySendFails(s, e)
           \/ NoUsableExit(s) \/ Pin(s) \/ InsertState(s) \/ MarkOpen(s) \/ PublishOpened(s)
           \/ Return(s) \/ ForwarderSend(s) \/ ForwarderSendFails(s)
  <2>1. /\ Same
        /\ dpc[s] \in {"try", "pin", "insert", "mark", "publish", "return", "fsend"}
        /\ dpc'[s] \notin {"close_pin", "close_egress", "close_abort"}
    BY <1>5, ZenonT(60) DEF TrySend, TrySendFails, NoUsableExit, Pin, InsertState, MarkOpen,
       PublishOpened, Return, ForwarderSend, ForwarderSendFails, TypeInv, TypeOK
  <2> QED
    BY <2>1 DEF PollInvAt
<1> QED
  BY <1>1, <1>2, <1>3, <1>4, <1>5 DEF DispatchStep

LEMMA PollCloser ==
    ASSUME TypeOK, NEW s \in Session, PollInvAt(s), NEW a \in Agent, CloserStep(s, a),
           FlowInvAt(s)
    PROVE  PollInvAt(s)'
<1>1. /\ kind'[s] = kind[s] /\ frames'[s] = frames[s] /\ client'[s] = client[s]
      /\ aborted'[s] = aborted[s] /\ polls'[s] = polls[s]
      /\ dpc'[s] = dpc[s] \/ dpc'[s] = "idle"
  BY DEF CloserStep, RemoveState, MarkClosed, Unpin, PublishClosed, ReturnClosed, Goto,
         CloserUnchanged, TypeOK, clientVars
<1>2. ASSUME NEW e \in Exit PROVE ppc'[s][e] = ppc[s][e] \/ ppc[s][e] = "closing"
  <2>1. CASE ppc' = ppc
    BY <2>1, ZenonT(30)
  <2>2. CASE a \in Exit /\ closer[s][a] # "none" /\ ppc' = [ppc EXCEPT ![s][a] = "exit"]
    BY <2>2 DEF FlowInvAt, ClosersInv, TypeOK
  <2>3. ppc' = ppc \/ (a \in Exit /\ closer[s][a] # "none" /\ ppc' = [ppc EXCEPT ![s][a] = "exit"])
    BY DEF CloserStep, RemoveState, MarkClosed, Unpin, PublishClosed, ReturnClosed, CloserAt,
           Agent
  <2> QED
    BY <2>1, <2>2, <2>3, ZenonT(30)
<1> QED
  BY <1>1, <1>2, ZenonT(30) DEF PollInvAt

LEMMA PollPoll ==
    ASSUME TypeOK, NEW s \in Session, PollInvAt(s), NEW e \in Exit, PollStep(s, e)
    PROVE  PollInvAt(s)'
<1>1. /\ kind'[s] = kind[s] /\ frames'[s] = frames[s] /\ client'[s] = client[s]
      /\ aborted'[s] = aborted[s] /\ dpc'[s] = dpc[s]
  BY ZenonT(60) DEF PollStep, PollData, PollDeliver, PollClosed, PollExit, PollCancelled,
         PollUnchanged, clientVars, dispVars
<1>2. ASSUME NEW x \in Exit, ppc'[s][x] # "off"
      PROVE  x \in polls'[s] \/ aborted[s][x]
  BY <1>2 DEF PollStep, PollData, PollDeliver, PollClosed, PollExit, PollCancelled,
              PollUnchanged, TypeOK, PollInvAt
<1> QED
  BY <1>1, <1>2, ZenonT(60) DEF PollInvAt

(***************************************************************************)
(* The client and the dispatcher keep the flow invariant                   *)
(***************************************************************************)

LEMMA FlowInit == Init => FlowInv
  BY DispatchAssumption, Z3T(30)
     DEF Init, TablesInit, FlowInv, FlowInvAt, ClosersInv, PhaseInv, UnopenedInv, OpenFrameInv,
         Agent

LEMMA SameAtKeeps ==
    ASSUME NEW t \in Session, FlowInvAt(t), SameAt(t)
    PROVE  FlowInvAt(t)'
  BY DEF FlowInvAt, ClosersInv, PhaseInv, UnopenedInv, OpenFrameInv, SameAt

LEMMA FlowClient ==
    ASSUME TypeOK, NEW s \in Session, FlowInvAt(s), ClientStep(s)
    PROVE  FlowInvAt(s)'
<1> DEFINE Core == /\ dpc' = dpc /\ kind' = kind /\ ppc' = ppc /\ closer' = closer
                   /\ held' = held /\ flow_states' = flow_states
                   /\ opened' = opened /\ closed' = closed
<1>1. Core /\ ClosersInv(s)' /\ PhaseInv(s)'
  <2>1. Core
    BY ZenonT(30) DEF ClientStep, ClientConnect, ClientConnectReturn, ClientSend, ClientAbort,
                      ClientRecv, ClientDropReceiver, ClientDrop,
                      tables, clientVars, dispVars, pollVars, closeVars, eventVars
  <2> QED
    BY <2>1, ZenonT(30) DEF FlowInvAt, ClosersInv, PhaseInv
<1>2. /\ frames[s] \in Seq({"Open", "Data", "Close"}) /\ returns[s] \in Seq(ReturnEvent)
      /\ DOMAIN client = Session /\ DOMAIN frames = Session /\ DOMAIN returns = Session
      /\ client = [x \in Session |-> client[x]] /\ frames = [x \in Session |-> frames[x]]
      /\ returns = [x \in Session |-> returns[x]]
  BY DEF TypeOK
<1>3. UnopenedInv(s) /\ OpenFrameInv(s)
  BY Zenon DEF FlowInvAt
<1>4. UnopenedInv(s)' /\ OpenFrameInv(s)'
  <2>1. CASE ClientConnect(s)
    <3>1. /\ client'[s] = "connecting" /\ returns'[s] = returns[s]
          /\ frames'[s] = Append(frames[s], "Open") /\ client[s] = "new"
      BY <1>2, <2>1, ZenonT(30) DEF ClientConnect
    <3>2. frames[s] = <<>> /\ dpc[s] = "idle" /\ opened[s] = 0 /\ returns[s] = <<>>
      BY <1>3, <3>1, Zenon DEF OpenFrameInv
    <3>3. Len(frames'[s]) = 1 /\ frames'[s][1] = "Open"
      BY <3>1, <3>2
    <3>4. \A i \in 1..Len(frames'[s]) : frames'[s][i] = "Open"
      BY <3>3, OnlyElement, Zenon
    <3>5. UnopenedInv(s)'
      BY <1>1, <1>3, <3>1, <3>2, <3>4, ZenonT(30) DEF UnopenedInv
    <3>6. OpenFrameInv(s)'
      BY <1>1, <3>1, <3>2, <3>3, ZenonT(30) DEF OpenFrameInv
    <3> QED
      BY <3>5, <3>6, Zenon
  <2>2. CASE ClientConnectReturn(s)
    <3>1. /\ client'[s] = IF Head(returns[s]) = ClosedEvent THEN "failed" ELSE "open"
          /\ returns'[s] = Tail(returns[s]) /\ frames'[s] = frames[s]
          /\ client[s] = "connecting" /\ returns[s] # <<>>
      BY <1>2, <2>2, ZenonT(30) DEF ClientConnectReturn
    <3>2. UnopenedInv(s)'
      <4>1. opened[s] = 0 =>
               /\ Head(returns[s]) = ClosedEvent
               /\ \A i \in 1..Len(Tail(returns[s])) : Tail(returns[s])[i] = ClosedEvent
        <5> SUFFICES ASSUME opened[s] = 0
                     PROVE  /\ Head(returns[s]) = ClosedEvent
                            /\ \A i \in 1..Len(Tail(returns[s])) :
                                  Tail(returns[s])[i] = ClosedEvent
          BY Zenon
        <5>1. \A i \in 1..Len(returns[s]) : returns[s][i] = ClosedEvent
          BY <1>3, Zenon DEF UnopenedInv
        <5>2. returns[s] \in Seq(ReturnEvent) /\ returns[s] # <<>>
          BY <1>2, <3>1, Zenon
        <5> QED
          BY <5>1, <5>2, TailOfEqual, ZenonT(30)
      <4> QED
        BY <1>1, <1>3, <3>1, <4>1, ZenonT(30) DEF UnopenedInv
    <3>3. OpenFrameInv(s)'
      BY <1>1, <1>3, <3>1, ZenonT(30) DEF OpenFrameInv
    <3> QED
      BY <3>2, <3>3, Zenon
  <2>3. CASE ClientSend(s) \/ ClientAbort(s)
    <3>1. PICK k \in {"Data", "Close"} : frames'[s] = Append(frames[s], k)
      BY <1>2, <2>3, ZenonT(30) DEF ClientSend, ClientAbort
    <3>2. /\ returns'[s] = returns[s] /\ client[s] \in {"open", "failed"}
          /\ client'[s] = client[s] \/ client'[s] = "aborted"
      BY <1>2, <2>3, ZenonT(30) DEF ClientSend, ClientAbort
    <3>3. k = "Data" => client[s] = "open"
      <4>1. CASE ClientSend(s)
        BY <4>1, Zenon DEF ClientSend
      <4>2. CASE ClientAbort(s)
        <5>1. frames'[s] = Append(frames[s], "Close")
          BY <1>2, <4>2, ZenonT(30) DEF ClientAbort
        <5> QED
          BY <1>2, <3>1, <5>1, AppendSeq
      <4> QED
        BY <2>3, <4>1, <4>2, Zenon
    <3>4. \A i \in 1..Len(frames'[s]) :
             frames'[s][i] = k \/ (i \in 1..Len(frames[s]) /\ frames'[s][i] = frames[s][i])
      <4>1. k \in {"Open", "Data", "Close"}
        BY <3>1, Zenon
      <4> QED
        BY <1>2, <3>1, <4>1, AppendRange
    <3>5. UnopenedInv(s)'
      BY <1>1, <1>3, <3>1, <3>2, <3>3, <3>4, ZenonT(30) DEF UnopenedInv
    <3>6. OpenFrameInv(s)'
      BY <1>1, <1>3, <3>1, <3>2, <3>4, ZenonT(30) DEF OpenFrameInv
    <3> QED
      BY <3>5, <3>6, Zenon
  <2>4. CASE ClientRecv(s)
    <3>1. /\ client'[s] = client[s] /\ returns'[s] = Tail(returns[s]) /\ frames'[s] = frames[s]
          /\ client[s] \in {"open", "aborted"} /\ returns[s] # <<>>
      BY <1>2, <2>4, ZenonT(30) DEF ClientRecv
    <3>2. UnopenedInv(s)'
      <4>1. opened[s] = 0 =>
               /\ Head(returns[s]) = ClosedEvent
               /\ \A i \in 1..Len(Tail(returns[s])) : Tail(returns[s])[i] = ClosedEvent
        <5> SUFFICES ASSUME opened[s] = 0
                     PROVE  /\ Head(returns[s]) = ClosedEvent
                            /\ \A i \in 1..Len(Tail(returns[s])) :
                                  Tail(returns[s])[i] = ClosedEvent
          BY Zenon
        <5>1. \A i \in 1..Len(returns[s]) : returns[s][i] = ClosedEvent
          BY <1>3, Zenon DEF UnopenedInv
        <5>2. returns[s] \in Seq(ReturnEvent) /\ returns[s] # <<>>
          BY <1>2, <3>1, Zenon
        <5> QED
          BY <5>1, <5>2, TailOfEqual, ZenonT(30)
      <4> QED
        BY <1>1, <1>3, <3>1, <4>1, ZenonT(30) DEF UnopenedInv
    <3>3. OpenFrameInv(s)'
      BY <1>1, <1>3, <3>1, ZenonT(30) DEF OpenFrameInv
    <3> QED
      BY <3>2, <3>3, Zenon
  <2>5. CASE ClientDropReceiver(s) \/ ClientDrop(s)
    <3>1. /\ client'[s] = client[s] \/ client'[s] = "dropped"
          /\ returns'[s] = <<>> /\ frames'[s] = frames[s]
          /\ client[s] # "new"
      BY <1>2, <2>5, ZenonT(30) DEF ClientDropReceiver, ClientDrop
    <3>2. \A i \in 1..Len(returns'[s]) : returns'[s][i] = ClosedEvent
      BY <3>1
    <3>3. UnopenedInv(s)'
      BY <1>1, <1>3, <3>1, <3>2, ZenonT(30) DEF UnopenedInv
    <3>4. OpenFrameInv(s)'
      BY <1>1, <1>3, <3>1, ZenonT(30) DEF OpenFrameInv
    <3> QED
      BY <3>3, <3>4, Zenon
  <2> QED
    BY <2>1, <2>2, <2>3, <2>4, <2>5, ZenonT(60) DEF ClientStep
<1> QED
  BY <1>1, <1>4, Zenon DEF FlowInvAt

(* What most steps of the dispatcher keep of their own session.            *)
SameFlow(s) ==
    /\ kind'[s] = kind[s] /\ frames'[s] = frames[s] /\ client'[s] = client[s]
    /\ closer'[s] = closer[s] /\ held'[s] = held[s] /\ closed'[s] = closed[s]

LEMMA DispatcherMoves ==
    ASSUME NEW s \in Session, FlowInvAt(s), SameFlow(s), dpc[s] \notin {"idle", "closing"},
           ppc'[s] = ppc[s], opened'[s] = opened[s], returns'[s] = returns[s],
           flow_states'[s] = flow_states[s] \/ opened[s] = 0
    PROVE  ClosersInv(s)' /\ UnopenedInv(s)' /\ OpenFrameInv(s)'
<1>1. ClosersInv(s)'
  BY DEF FlowInvAt, ClosersInv, SameFlow
<1>2. UnopenedInv(s)'
  BY ZenonT(30) DEF FlowInvAt, UnopenedInv, SameFlow
<1>3. OpenFrameInv(s)'
  BY Zenon DEF FlowInvAt, OpenFrameInv, SameFlow
<1> QED
  BY <1>1, <1>2, <1>3, ZenonT(30)

LEMMA FlowDispatchStep ==
    ASSUME TypeInv, NEW s \in Session, PollInvAt(s), FlowInvAt(s), DispatchStep(s)
    PROVE  FlowInvAt(s)'
<1> USE DEF tables, clientVars, dispVars, pollVars, closeVars, eventVars, Goto
<1> DEFINE Same == /\ SameFlow(s) /\ ppc'[s] = ppc[s] /\ opened'[s] = opened[s]
                   /\ returns'[s] = returns[s]
<1>1. CASE DispatchClose(s) \/ DispatchForwarderFrame(s) \/ DispatchSchedule(s)
  <2>1. /\ frames'[s] = Tail(frames[s]) /\ kind'[s] = Head(frames[s]) /\ frames[s] # <<>>
        /\ client'[s] = client[s] /\ closer'[s] = closer[s] /\ held'[s] = held[s]
        /\ closed'[s] = closed[s] /\ ppc'[s] = ppc[s] /\ opened'[s] = opened[s]
        /\ returns'[s] = returns[s] /\ flow_states'[s] = flow_states[s]
        /\ dpc[s] = "idle" /\ dpc'[s] \in {"close_pin", "fsend", "try"}
        /\ dpc'[s] = "fsend" => flow_states[s] # NoExit
        /\ dpc'[s] = "try" => kind'[s] # "Close"
    BY <1>1, ZenonT(60) DEF DispatchClose, DispatchForwarderFrame, DispatchSchedule, TakeFrame, TypeInv,
                TypeOK
  <2> frames[s] \in Seq({"Open", "Data", "Close"})
    BY DEF TypeInv, TypeOK
  <2>2. /\ kind'[s] = frames[s][1] /\ 1 \in 1..Len(frames[s])
        /\ Len(frames'[s]) = Len(frames[s]) - 1
        /\ \A i \in 1..Len(frames'[s]) : i + 1 \in 1..Len(frames[s])
                                        /\ frames'[s][i] = frames[s][i + 1]
    BY <2>1, HeadTailSeq
  <2>3. kind'[s] = "Open" => opened[s] = 0
    BY <2>2, Zenon DEF FlowInvAt, OpenFrameInv
  <2>4. ClosersInv(s)'
    BY <2>1 DEF FlowInvAt, ClosersInv
  <2>5. PhaseInv(s)'
    BY <2>1, <2>3, ZenonT(30) DEF FlowInvAt, PhaseInv
  <2>6. UnopenedInv(s)'
    BY <2>1, <2>2, ZenonT(30) DEF FlowInvAt, UnopenedInv
  <2>7. OpenFrameInv(s)'
    <3>1. ASSUME NEW i \in 1..Len(frames'[s]), frames'[s][i] = "Open" PROVE FALSE
      <4>1. i + 1 \in 1..Len(frames[s]) /\ frames[s][i + 1] = "Open"
        BY <2>2, <3>1
      <4>2. Len(frames[s]) = 1
        BY <4>1, Zenon DEF FlowInvAt, OpenFrameInv
      <4> QED
        BY <4>1, <4>2
    <3> QED
      BY <2>1, <3>1, ZenonT(30) DEF FlowInvAt, OpenFrameInv
  <2> QED
    BY <2>4, <2>5, <2>6, <2>7 DEF FlowInvAt
<1>2. ASSUME NEW e \in Exit, TrySend(s, e) \/ TrySendFails(s, e) PROVE FlowInvAt(s)'
  <2>1. /\ Same /\ flow_states'[s] = flow_states[s]
        /\ dpc[s] = "try" /\ dpc'[s] \in {"try", "pin"}
    BY <1>2, ZenonT(60) DEF TrySend, TrySendFails, SameFlow, TypeInv, TypeOK
  <2>2. PhaseInv(s)'
    BY <2>1 DEF FlowInvAt, SameFlow, PhaseInv
  <2> QED
    BY <2>1, <2>2, DispatcherMoves, Zenon DEF FlowInvAt
<1>3. CASE Pin(s)
  <2>1. /\ Same /\ flow_states'[s] = flow_states[s] /\ dpc[s] = "pin"
        /\ dpc'[s] = IF kind[s] = "Open" THEN "insert" ELSE "ensure"
        /\ kind[s] \in {"Open", "Data", "Close"}
    BY <1>3 DEF Pin, SameFlow, TypeInv, TypeOK, TablesTypeOK
  <2>a. kind[s] = "Data" => opened[s] = 1
    BY <2>1, ZenonT(30) DEF FlowInvAt, PhaseInv, UnopenedInv
  <2>2. PhaseInv(s)'
    <3>1. CASE kind[s] = "Open"
      BY <2>1, <3>1, Units, ZenonT(30) DEF FlowInvAt, SameFlow, PhaseInv
    <3>2. CASE kind[s] # "Open"
      <4>1. kind[s] = "Data" /\ dpc'[s] = "ensure"
        BY <2>1, <3>2, ZenonT(30) DEF FlowInvAt, PhaseInv
      <4> QED
        BY <2>1, <2>a, <4>1, ZenonT(60) DEF FlowInvAt, SameFlow, PhaseInv
    <3> QED
      BY <3>1, <3>2, Zenon
  <2> QED
    BY <2>1, <2>2, DispatcherMoves, ZenonT(30) DEF FlowInvAt
<1>4. CASE InsertState(s)
  <2>1. /\ Same /\ dpc[s] = "insert" /\ dpc'[s] \in {"mark", "publish"}
        /\ flow_states'[s] # NoExit
    BY <1>4, TablesAssumption
       DEF InsertState, insert_state, SameFlow, TypeInv, TypeOK, TablesTypeOK, ExitChosen
  <2>2. PhaseInv(s)' /\ opened[s] = 0
    <3>1. opened[s] = 0 /\ closed[s] = 0 /\ opened'[s] = 0 /\ closed'[s] = 0
      <4>1. opened[s] = 0 /\ closed[s] \in {0, 1} /\ closed[s] <= opened[s]
        BY <2>1, Zenon DEF FlowInvAt, PhaseInv
      <4>2. closed[s] = 0
        BY <4>1, OneAboveZero, Zenon
      <4> QED
        BY <2>1, <4>1, <4>2, Zenon DEF SameFlow
    <3> QED
      BY <2>1, <3>1, Units, ZenonT(60) DEF PhaseInv
  <2> QED
    BY <2>1, <2>2, DispatcherMoves, ZenonT(30) DEF FlowInvAt
<1>5. CASE MarkOpen(s)
  <2>1. /\ Same /\ flow_states'[s] = flow_states[s] /\ dpc[s] = "mark" /\ dpc'[s] = "publish"
    BY <1>5, Z3T(30) DEF MarkOpen, SameFlow, TypeInv, TypeOK
  <2>2. PhaseInv(s)'
    BY <2>1, ZenonT(30) DEF FlowInvAt, SameFlow, PhaseInv
  <2> QED
    BY <2>1, <2>2, DispatcherMoves, ZenonT(30) DEF FlowInvAt
<1>6. CASE ForwarderSend(s)
  <2>1. /\ Same /\ flow_states'[s] = flow_states[s] /\ dpc[s] = "fsend" /\ dpc'[s] = "return"
    BY <1>6, ZenonT(30) DEF ForwarderSend, SameFlow, TypeInv, TypeOK
  <2>2. PhaseInv(s)'
    BY <2>1 DEF FlowInvAt, SameFlow, PhaseInv
  <2> QED
    BY <2>1, <2>2, DispatcherMoves, ZenonT(30) DEF FlowInvAt
<1>7. CASE ClosePin(s) \/ CloseEgress(s)
  <2>1. /\ Same /\ flow_states'[s] = flow_states[s] /\ dpc[s] \in {"close_pin", "close_egress"}
        /\ dpc'[s] \in {"close_egress", "close_abort"}
    BY <1>7 DEF ClosePin, CloseEgress, SameFlow, TypeInv, TypeOK, TablesTypeOK
  <2>2. PhaseInv(s)'
    BY <2>1, Zenon DEF FlowInvAt, SameFlow, PhaseInv
  <2> QED
    BY <2>1, <2>2, DispatcherMoves, ZenonT(30) DEF FlowInvAt
<1>8. CASE NoUsableExit(s) \/ Return(s)
  <2>1. /\ SameFlow(s) /\ ppc'[s] = ppc[s] /\ opened'[s] = opened[s]
        /\ flow_states'[s] = flow_states[s] /\ dpc[s] \in {"try", "return"} /\ dpc'[s] = "idle"
        /\ dpc[s] = "try" => returns'[s] \in {returns[s], Append(returns[s], ClosedEvent)}
    BY <1>8 DEF NoUsableExit, Return, SendReturn, SameFlow, TypeInv, TypeOK
  <2>2. ASSUME NEW i \in 1..Len(returns'[s]), opened[s] = 0
        PROVE  \/ returns'[s][i] = ClosedEvent
               \/ i \in 1..Len(returns[s]) /\ returns'[s][i] = returns[s][i]
    <3>1. returns[s] \in Seq(ReturnEvent)
      BY Zenon DEF TypeInv, TypeOK
    <3>2. dpc[s] = "try"
      BY <2>1, <2>2, Units, Zenon DEF FlowInvAt, PhaseInv
    <3> QED
      BY <2>1, <2>2, <3>1, <3>2, ClosedSent, Zenon
  <2>3. ClosersInv(s)'
    BY <2>1, ZenonT(30) DEF FlowInvAt, SameFlow, ClosersInv
  <2>4. PhaseInv(s)'
    BY <2>1, ZenonT(30) DEF FlowInvAt, SameFlow, PhaseInv
  <2>5. UnopenedInv(s)'
    BY <2>1, <2>2, ZenonT(30) DEF FlowInvAt, SameFlow, UnopenedInv
  <2>6. OpenFrameInv(s)'
    BY <2>1, Zenon DEF FlowInvAt, SameFlow, OpenFrameInv
  <2> QED
    BY <2>3, <2>4, <2>5, <2>6, ZenonT(30) DEF FlowInvAt
<1>9. CASE PublishOpened(s)
  <2>1. /\ SameFlow(s) /\ ppc'[s] = ppc[s] /\ flow_states'[s] = flow_states[s]
        /\ returns'[s] = returns[s] /\ dpc[s] = "publish" /\ dpc'[s] = "ensure"
        /\ opened'[s] = opened[s] + 1
    BY <1>9 DEF PublishOpened, SameFlow, TypeInv, TypeOK
  <2>a. opened[s] = 0 /\ flow_states[s] # NoExit /\ closed[s] = 0
    BY <2>1, ZenonT(60) DEF FlowInvAt, PhaseInv
  <2>2. opened[s] = 0 /\ opened'[s] = 1
    BY <2>1, <2>a, Units, Zenon
  <2>3. ClosersInv(s)'
    BY <2>1, <2>2, ZenonT(60) DEF FlowInvAt, SameFlow, ClosersInv
  <2>4. PhaseInv(s)'
    <3>1. /\ closed'[s] = 0 /\ opened'[s] = 1 /\ flow_states'[s] # NoExit
          /\ dpc'[s] = "ensure"
      BY <2>1, <2>2, <2>a, Zenon DEF SameFlow
    <3>2. closed'[s] <= opened'[s]
      BY <3>1, Units, Zenon
    <3> QED
      BY <3>1, <3>2, Zenon DEF PhaseInv
  <2>5. UnopenedInv(s)' /\ OpenFrameInv(s)'
    BY <2>1, <2>2, ZenonT(30) DEF FlowInvAt, SameFlow, UnopenedInv, OpenFrameInv
  <2> QED
    BY <2>3, <2>4, <2>5 DEF FlowInvAt
<1>10. CASE EnsurePoll(s)
  <2>1. /\ SameFlow(s) /\ flow_states'[s] = flow_states[s] /\ opened'[s] = opened[s]
        /\ returns'[s] = returns[s] /\ dpc[s] = "ensure" /\ dpc'[s] = "return"
    BY <1>10 DEF EnsurePoll, SameFlow, TypeInv, TypeOK
  <2>2. \A e \in Exit : ppc[s][e] = "closing" => ppc'[s][e] = "closing"
    BY <1>10 DEF EnsurePoll, PollInvAt, TypeInv, TypeOK
  <2>3. opened[s] = 1
    BY <2>1, ZenonT(30) DEF FlowInvAt, PhaseInv
  <2>4. ClosersInv(s)'
    BY <2>1, <2>2 DEF FlowInvAt, SameFlow, ClosersInv
  <2>5. PhaseInv(s)'
    BY <2>1, ZenonT(30) DEF FlowInvAt, SameFlow, PhaseInv
  <2>6. UnopenedInv(s)' /\ OpenFrameInv(s)'
    BY <2>1, <2>3, Units, ZenonT(30) DEF FlowInvAt, SameFlow, UnopenedInv, OpenFrameInv
  <2> QED
    BY <2>4, <2>5, <2>6, Zenon DEF FlowInvAt
<1>11. CASE ForwarderSendFails(s) \/ AbortSessionPolls(s)
  <2>1. /\ kind'[s] = kind[s] /\ frames'[s] = frames[s] /\ client'[s] = client[s]
        /\ held'[s] = held[s] /\ closed'[s] = closed[s] /\ ppc'[s] = ppc[s]
        /\ flow_states'[s] = flow_states[s] /\ opened'[s] = opened[s]
        /\ returns'[s] = returns[s] /\ dpc[s] \in {"fsend", "close_abort"}
        /\ dpc'[s] = "closing"
    BY <1>11, ZenonT(30) DEF ForwarderSendFails, AbortSessionPolls, TypeInv, TypeOK
  <2>2. \A a \in Agent : closer'[s][a] = IF a = Dispatcher THEN "remove" ELSE closer[s][a]
    <3>1. /\ closer' = [closer EXCEPT ![s][Dispatcher] = "remove"]
          /\ closer \in [Session -> [Agent -> ClosePC]]
      BY <1>11, ZenonT(30) DEF ForwarderSendFails, AbortSessionPolls, TypeInv, TypeOK
    <3> QED
      BY <3>1
  <2>3. ClosersInv(s)'
    <3>1. /\ Dispatcher \in Agent /\ dpc[s] # "closing"
          /\ \A e \in Exit : e \in Agent /\ e # Dispatcher
      BY <2>1, DispatchAssumption, ZenonT(30) DEF Agent
    <3>2. closer[s][Dispatcher] = "none"
      BY <3>1, Zenon DEF FlowInvAt, ClosersInv
    <3>3. ~held[s][Dispatcher]
      BY <3>1, <3>2, Zenon DEF FlowInvAt, ClosersInv
    <3>4. /\ closer'[s][Dispatcher] = "remove"
          /\ \A a \in Agent : a # Dispatcher => closer'[s][a] = closer[s][a]
      BY <2>2, <3>1, ZenonT(30)
    <3> QED
      BY <2>1, <3>1, <3>3, <3>4, ZenonT(60) DEF FlowInvAt, ClosersInv
  <2>4. PhaseInv(s)'
    BY <2>1, ZenonT(30) DEF FlowInvAt, PhaseInv
  <2>5. UnopenedInv(s)' /\ OpenFrameInv(s)'
    BY <2>1, Zenon DEF FlowInvAt, UnopenedInv, OpenFrameInv
  <2> QED
    BY <2>3, <2>4, <2>5 DEF FlowInvAt
<1> QED
  BY <1>1, <1>2, <1>3, <1>4, <1>5, <1>6, <1>7, <1>8, <1>9, <1>10, <1>11 DEF DispatchStep

(***************************************************************************)
(* The closers and the poll tasks keep it                                  *)
(***************************************************************************)

(* What the steps of close_flow_if_open keep of their session.             *)
SameSession(s) ==
    /\ kind'[s] = kind[s] /\ frames'[s] = frames[s] /\ client'[s] = client[s]
    /\ opened'[s] = opened[s]

LEMMA FlowCloser ==
    ASSUME TypeOK, NEW s \in Session, FlowInvAt(s), NEW a \in Agent, CloserStep(s, a)
    PROVE  FlowInvAt(s)'
<1> USE DispatchAssumption
<1> DEFINE Quiet == /\ SameSession(s) /\ dpc'[s] = dpc[s] /\ ppc'[s] = ppc[s]
                    /\ returns'[s] = returns[s]
<1>1. /\ a = Dispatcher => dpc[s] = "closing"
      /\ a \in Exit => ppc[s][a] = "closing" /\ opened[s] = 1
  BY ZenonT(30) DEF CloserStep, RemoveState, MarkClosed, Unpin, PublishClosed, ReturnClosed, CloserAt,
         FlowInvAt, ClosersInv, UnopenedInv, PhaseInv
<1>2. /\ dpc[s] \notin {"insert", "mark", "publish"}
      /\ flow_states[s] # NoExit => opened[s] = 1
  <2>1. /\ dpc[s] \in {"insert", "mark", "publish"} => opened[s] = 0
        /\ flow_states[s] # NoExit /\ dpc[s] \notin {"mark", "publish"} => opened[s] = 1
    BY Zenon DEF FlowInvAt, PhaseInv
  <2>2. a = Dispatcher \/ a \in Exit
    BY DEF Agent
  <2> QED
    BY <1>1, <2>1, <2>2, Z3T(30)
<1>3. ASSUME Quiet PROVE UnopenedInv(s)' /\ OpenFrameInv(s)'
  BY <1>3, Zenon DEF FlowInvAt, UnopenedInv, OpenFrameInv, SameSession
<1>4. CASE RemoveState(s, a)
  <2>1. /\ Quiet /\ closed'[s] = closed[s] /\ flow_states'[s] = NoExit
    BY <1>4 DEF RemoveState, remove_state, CloserUnchanged, SameSession, clientVars, eventVars,
                TypeOK, TablesTypeOK
  <2>2. ASSUME NEW x \in Agent
        PROVE  /\ closer'[s][x] = IF x = a THEN "mark" ELSE closer[s][x]
               /\ held'[s][x] = IF x = a THEN flow_states[s] # NoExit ELSE held[s][x]
    BY <1>4, ZenonT(60) DEF RemoveState, CloserGoto, TypeOK
  <2>a. flow_states[s] # NoExit => closed[s] = 0 /\ \A x \in Agent : ~held[s][x]
    BY ZenonT(30) DEF FlowInvAt, ClosersInv, PhaseInv
  <2>b. \A x, y \in Agent : held'[s][x] /\ held'[s][y] => x = y
    BY <2>2, <2>a, ZenonT(30) DEF FlowInvAt, ClosersInv
  <2>c. \A x \in Agent : held'[s][x] => closed'[s] = 0 /\ opened'[s] = 1
    BY <1>2, <2>1, <2>2, <2>a, Zenon DEF FlowInvAt, ClosersInv, SameSession
  <2>3. ClosersInv(s)'
    <3>1. /\ closer'[s][Dispatcher] # "none" => dpc'[s] = "closing"
          /\ \A e \in Exit : closer'[s][e] # "none" => ppc'[s][e] = "closing"
      BY <1>1, <2>1, <2>2, ZenonT(60) DEF FlowInvAt, ClosersInv, Agent
    <3>2. ASSUME NEW x \in Agent
          PROVE  /\ held'[s][x] => closer'[s][x] \in {"mark", "unpin", "publish"}
                 /\ closer'[s][x] = "publish" => held'[s][x]
      BY <2>2, ZenonT(30) DEF FlowInvAt, ClosersInv
    <3> QED
      BY <2>1, <2>b, <2>c, <3>1, <3>2, ZenonT(30) DEF ClosersInv
  <2>4. PhaseInv(s)'
    BY <1>2, <2>1, Zenon DEF FlowInvAt, PhaseInv, SameSession
  <2> QED
    BY <1>3, <2>1, <2>3, <2>4, ZenonT(30) DEF FlowInvAt
<1>5. CASE MarkClosed(s, a) \/ Unpin(s, a)
  <2>1. /\ Quiet /\ closed'[s] = closed[s] /\ flow_states'[s] = flow_states[s]
        /\ held'[s] = held[s]
    BY <1>5, ZenonT(30) DEF MarkClosed, Unpin, CloserUnchanged, SameSession, clientVars,
       eventVars, TypeOK,
                TablesTypeOK
  <2>2. \A x \in Agent : x # a => closer'[s][x] = closer[s][x]
    BY <1>5, Z3T(30) DEF MarkClosed, Unpin, CloserGoto, TypeOK
  <2>3. /\ held[s][a] => closer'[s][a] \in {"unpin", "publish"}
        /\ closer'[s][a] = "publish" => held[s][a]
    BY <1>5 DEF MarkClosed, Unpin, CloserGoto, TypeOK
  <2>4. ClosersInv(s)'
    BY <1>1, <2>1, <2>2, <2>3, ZenonT(60) DEF FlowInvAt, ClosersInv, SameSession, Agent
  <2>5. PhaseInv(s)'
    BY <2>1, Zenon DEF FlowInvAt, PhaseInv, SameSession
  <2> QED
    BY <1>3, <2>1, <2>4, <2>5, ZenonT(60) DEF FlowInvAt
<1>6. CASE PublishClosed(s, a)
  <2>1. /\ Quiet /\ closed'[s] = closed[s] + 1 /\ flow_states'[s] = flow_states[s]
    BY <1>6 DEF PublishClosed, CloserUnchanged, SameSession, clientVars, tables, TypeOK,
                TablesTypeOK
  <2>2. ASSUME NEW x \in Agent
        PROVE  /\ closer'[s][x] = IF x = a THEN "return" ELSE closer[s][x]
               /\ held'[s][x] = IF x = a THEN FALSE ELSE held[s][x]
    BY <1>6, Zenon DEF PublishClosed, CloserGoto, TypeOK
  <2>3. held[s][a] /\ closer[s][a] = "publish"
    BY <1>6 DEF PublishClosed, CloserAt, FlowInvAt, ClosersInv
  <2>a. closed[s] = 0 /\ closed'[s] = 1 /\ opened[s] = 1 /\ flow_states[s] = NoExit
    <3>1. closed[s] = 0 /\ opened[s] = 1 /\ flow_states[s] = NoExit
      BY <2>3, Zenon DEF FlowInvAt, ClosersInv
    <3> QED
      BY <2>1, <3>1, Units, Zenon
  <2>b. ASSUME NEW x \in Agent PROVE ~held'[s][x]
    BY <2>2, <2>3, Zenon DEF FlowInvAt, ClosersInv
  <2>4. /\ closed[s] = 0 /\ closed'[s] = 1 /\ opened[s] = 1 /\ flow_states[s] = NoExit
        /\ \A x \in Agent : ~held'[s][x]
    BY <2>a, <2>b, ZenonT(60)
  <2>5. ClosersInv(s)'
    <3>1. ASSUME NEW x \in Agent, closer'[s][x] # "none"
          PROVE  closer[s][x] # "none" /\ closer'[s][x] # "publish"
      BY <2>2, <2>3, <3>1, <2>4, ZenonT(30) DEF FlowInvAt, ClosersInv
    <3>2. Dispatcher \in Agent /\ Exit \subseteq Agent
      BY DEF Agent
    <3> QED
      BY <2>1, <2>4, <3>1, <3>2 DEF FlowInvAt, ClosersInv
  <2>6. PhaseInv(s)'
    <3>1. dpc[s] \in {"try", "pin"} =>
              kind[s] # "Close" /\ (kind[s] = "Open" => opened[s] = 0)
      BY Zenon DEF FlowInvAt, PhaseInv
    <3>2. dpc'[s] = dpc[s] /\ kind'[s] = kind[s] /\ opened'[s] = 1 /\ closed'[s] = 1
          /\ flow_states'[s] = NoExit
      BY <2>1, <2>4, Zenon DEF SameSession
    <3>3. dpc[s] \notin {"insert", "mark", "publish"}
      BY <2>4, Z3T(30) DEF FlowInvAt, PhaseInv
    <3> QED
      BY <2>4, <3>1, <3>2, <3>3, Units, ZenonT(60) DEF PhaseInv
  <2> QED
    BY <1>3, <2>1, <2>5, <2>6, ZenonT(30) DEF FlowInvAt
<1>7. CASE ReturnClosed(s, a)
  <2>1. /\ SameSession(s) /\ closed'[s] = closed[s] /\ flow_states'[s] = flow_states[s]
        /\ held'[s] = held[s]
    BY <1>7 DEF ReturnClosed, CloserUnchanged, SameSession, clientVars, eventVars, tables
  <2>2. ASSUME NEW x \in Agent
        PROVE  closer'[s][x] = IF x = a THEN "none" ELSE closer[s][x]
    BY <1>7, ZenonT(60) DEF ReturnClosed, CloserGoto, TypeOK
  <2>3. closer[s][a] = "return" /\ ~held[s][a]
    BY <1>7 DEF ReturnClosed, CloserAt, FlowInvAt, ClosersInv
  <2>4. CASE a = Dispatcher
    <3>1. /\ dpc[s] = "closing" /\ dpc'[s] = "idle" /\ ppc'[s] = ppc[s]
          /\ returns'[s] \in {returns[s], Append(returns[s], ClosedEvent)}
      BY <1>1, <1>7, <2>4 DEF ReturnClosed, Goto, SendReturn, TypeOK
    <3>2. ASSUME NEW i \in 1..Len(returns'[s])
          PROVE  \/ returns'[s][i] = ClosedEvent
                 \/ i \in 1..Len(returns[s]) /\ returns'[s][i] = returns[s][i]
      <4>1. returns[s] \in Seq(ReturnEvent)
        BY Zenon DEF TypeOK
      <4> QED
        BY <3>1, <3>2, <4>1, ClosedSent, Zenon
    <3>3. ClosersInv(s)'
      BY <2>1, <2>2, <2>3, <2>4, <3>1, ZenonT(60) DEF FlowInvAt, ClosersInv, SameSession, Agent
    <3>4. PhaseInv(s)'
      BY <2>1, <3>1, ZenonT(30) DEF FlowInvAt, PhaseInv, SameSession
    <3>5. UnopenedInv(s)'
      <4>1. /\ opened'[s] = opened[s] /\ kind'[s] = kind[s] /\ frames'[s] = frames[s]
            /\ client'[s] = client[s]
        BY <2>1, Zenon DEF SameSession
      <4>2. opened[s] = 0 => \A i \in 1..Len(returns'[s]) : returns'[s][i] = ClosedEvent
        BY <3>2, ZenonT(60) DEF FlowInvAt, UnopenedInv
      <4> QED
        BY <3>1, <4>1, <4>2, ZenonT(60) DEF FlowInvAt, UnopenedInv
    <3>6. OpenFrameInv(s)'
      BY <2>1, <3>1, ZenonT(30) DEF FlowInvAt, OpenFrameInv, SameSession
    <3> QED
      BY <3>3, <3>4, <3>5, <3>6, ZenonT(30) DEF FlowInvAt
  <2>5. CASE a \in Exit
    <3>1. dpc'[s] = dpc[s] /\ \A e \in Exit : e # a => ppc'[s][e] = ppc[s][e]
      BY <1>7, <2>5 DEF ReturnClosed, TypeOK
    <3>2. opened[s] = 1
      BY <1>1, <2>5
    <3>3. ClosersInv(s)'
      BY <2>1, <2>2, <2>3, <2>5, <3>1, ZenonT(60) DEF FlowInvAt, ClosersInv, SameSession, Agent
    <3>4. PhaseInv(s)'
      BY <2>1, <3>1, ZenonT(30) DEF FlowInvAt, PhaseInv, SameSession
    <3>5. UnopenedInv(s)'
      <4>1. opened'[s] # 0
        BY <2>1, <3>2 DEF SameSession
      <4> QED
        BY <4>1, Zenon DEF UnopenedInv
    <3>6. OpenFrameInv(s)'
      BY <2>1, <3>1, <3>2 DEF FlowInvAt, OpenFrameInv, SameSession
    <3> QED
      BY <3>3, <3>4, <3>5, <3>6 DEF FlowInvAt
  <2> QED
    BY <2>4, <2>5 DEF Agent
<1> QED
  BY <1>4, <1>5, <1>6, <1>7, ZenonT(60) DEF CloserStep

LEMMA FlowPoll ==
    ASSUME TypeOK, NEW s \in Session, FlowInvAt(s), NEW e \in Exit, PollStep(s, e)
    PROVE  FlowInvAt(s)'
<1>1. /\ SameSession(s) /\ closed'[s] = closed[s] /\ flow_states'[s] = flow_states[s]
      /\ dpc'[s] = dpc[s]
  BY ZenonT(30) DEF PollStep, PollData, PollDeliver, PollClosed, PollExit, PollCancelled,
     PollUnchanged,
         SameSession, clientVars, dispVars, eventVars, tables
<1>2. ppc[s][e] # "off" /\ opened[s] = 1
  BY DEF PollStep, PollData, PollDeliver, PollClosed, PollExit, PollCancelled, FlowInvAt,
         UnopenedInv, PhaseInv
<1>3. PhaseInv(s)'
  BY <1>1, ZenonT(30) DEF FlowInvAt, PhaseInv, SameSession
<1>4. UnopenedInv(s)' /\ OpenFrameInv(s)'
  BY <1>1, <1>2, Zenon DEF FlowInvAt, UnopenedInv, OpenFrameInv, SameSession
<1>5. ClosersInv(s)'
  <2>1. CASE PollData(s, e) \/ PollDeliver(s, e) \/ PollExit(s, e)
    <3>1. /\ closer'[s] = closer[s] /\ held'[s] = held[s] /\ ppc[s][e] # "closing"
          /\ \A x \in Exit : x # e => ppc'[s][x] = ppc[s][x]
      BY <2>1 DEF PollData, PollDeliver, PollExit, PollUnchanged, TypeOK
    <3> QED
      BY <1>1, <3>1, ZenonT(60) DEF FlowInvAt, ClosersInv, SameSession
  <2>2. CASE PollClosed(s, e) \/ PollCancelled(s, e)
    <3>1. \A x \in Exit : x # e => ppc'[s][x] = ppc[s][x]
      BY <2>2 DEF PollClosed, PollCancelled, TypeOK
    <3>2. ASSUME NEW x \in Agent, x # e
          PROVE  closer'[s][x] = closer[s][x] /\ held'[s][x] = held[s][x]
      BY <2>2, <3>2, Z3T(30) DEF PollClosed, PollCancelled, PollUnchanged, TypeOK
    <3>3. /\ ~held'[s][e]
          /\ closer'[s][e] = "none" \/ (closer'[s][e] = "remove" /\ ppc'[s][e] = "closing")
      <4>a. e \in Agent
        BY ZenonT(30) DEF Agent
      <4>1. CASE PollClosed(s, e)
        <5>1. ~held[s][e]
          BY <4>1, <4>a, Zenon DEF PollClosed, FlowInvAt, ClosersInv
        <5>2. held'[s][e] = held[s][e] /\ closer'[s][e] = "remove" /\ ppc'[s][e] = "closing"
          BY <4>1, <4>a, ZenonT(30) DEF PollClosed, PollUnchanged, TypeOK
        <5> QED
          BY <5>1, <5>2
      <4>2. CASE PollCancelled(s, e)
        BY <4>2, <4>a DEF PollCancelled, TypeOK
      <4> QED
        BY <2>2, <4>1, <4>2, Zenon
    <3> QED
      BY <1>1, <3>1, <3>2, <3>3, DispatchAssumption, ZenonT(60)
         DEF FlowInvAt, ClosersInv, SameSession, Agent
  <2> QED
    BY <2>1, <2>2 DEF PollStep
<1> QED
  BY <1>3, <1>4, <1>5 DEF FlowInvAt

-----------------------------------------------------------------------------
Inv == TypeInv /\ PollInv /\ FlowInv

LEMMA InvInit == Init => Inv
  BY TypeInit, PollInit, FlowInit DEF Inv

LEMMA InvNext == Inv /\ [Next]_vars => Inv'
<1> SUFFICES ASSUME Inv, [Next]_vars
             PROVE  Inv'
  OBVIOUS
<1> USE DEF Inv, TypeInv
<1>1. TypeInv'
  BY TypeNext
<1>2. CASE UNCHANGED vars
  <2>1. \A t \in Session : SameAt(t)
    BY <1>2, Zenon DEF vars, SameAt, tables, clientVars, dispVars, pollVars, closeVars, eventVars
  <2> QED
    BY <1>1, <2>1, PollSame, SameAtKeeps DEF PollInv, FlowInv
<1>3. ASSUME NEW s \in Session,
             \/ ClientStep(s) \/ DispatchStep(s)
             \/ \E a \in Agent : CloserStep(s, a)
             \/ \E e \in Exit : PollStep(s, e)
      PROVE  Inv'
  <2>1. ASSUME NEW t \in Session, t # s PROVE PollInvAt(t)' /\ FlowInvAt(t)'
    BY <1>3, <2>1, OthersSame, PollSame, SameAtKeeps DEF PollInv, FlowInv
  <2>2. PollInvAt(s) /\ FlowInvAt(s)
    BY DEF PollInv, FlowInv
  <2>3. PollInvAt(s)'
    BY <1>3, <2>2, PollClient, PollDispatch, PollCloser, PollPoll
  <2>4. FlowInvAt(s)'
    BY <1>3, <2>2, FlowClient, FlowDispatchStep, FlowCloser, FlowPoll
  <2> QED
    BY <1>1, <2>1, <2>3, <2>4 DEF PollInv, FlowInv
<1> QED
  BY <1>2, <1>3 DEF Next

(* FlowOpened and FlowClosed are each published at most once per flow, in  *)
(* that order, whichever of the dispatcher and the poll tasks closes it.   *)
THEOREM FlowEventsCorrect == Spec => []FlowEventsOrdered
<1>1. Inv => FlowEventsOrdered
  BY DEF Inv, FlowInv, FlowInvAt, PhaseInv, UnopenedInv, FlowEventsOrdered
<1> QED
  BY <1>1, InvInit, InvNext, PTL DEF Spec
=============================================================================
