------------------------ MODULE ForwarderFlowProofs ------------------------
(***************************************************************************)
(* A flow over a direct transport is closed at most once and only after    *)
(* its cleanup, and the source activity table counts exactly the flows     *)
(* that are open, for any number of sessions, exits, sources and any       *)
(* choice of relays.                                                       *)
(***************************************************************************)
EXTENDS ForwarderFlow, FiniteSetTheorems, TLAPS

(***************************************************************************)
(* The inductive invariant                                                 *)
(***************************************************************************)

OpenPC == {"try", "pin", "insert", "mark", "store", "publish", "return"}
CloseFramePC == {"close_pin", "close_egress", "close_stored", "closing"}
RelayAgent == {"recv", "send", "splice"}

(* No Open frame of s has reached the tables. *)
Fresh(s) == Clean(s) /\ opened[s] = 0 /\ closed[s] = 0

(* Where a session is: its client, its frames and its dispatcher. *)
StageInv(s) ==
    /\ frames[s] \in {<<>>, <<"Open">>, <<"Close">>}
    /\ frames[s] # <<>> => dpc[s] = "idle"
    /\ frames[s] = <<"Open">> => client[s] \in {"connecting", "dropped"} /\ answer[s] = "none"
    /\ frames[s] = <<"Close">> => client[s] = "aborted"
    /\ dpc[s] \in OpenPC => client[s] \in {"connecting", "dropped"} /\ answer[s] = "none"
    /\ dpc[s] \in CloseFramePC => client[s] = "aborted"
    /\ client[s] = "new" => answer[s] = "none" /\ frames[s] = <<>> /\ dpc[s] = "idle"
    /\ answer[s] = "none" => client[s] \in {"new", "connecting", "dropped"}
    /\ client[s] \in {"connected", "relaying", "ended"} => answer[s] = "connected"
    /\ client[s] = "failed" => answer[s] = "closed"
    /\ recv[s] # "off" \/ send[s] # "off" \/ s \in guard => client[s] \in {"relaying", "ended"}

(* What the tables hold of it, and what was published. *)
EntryInv(s) ==
    /\ answer[s] = "closed" => Fresh(s)
    /\ answer[s] = "none" /\ dpc[s] \in {"idle", "try", "pin"} => Fresh(s)
    /\ dpc[s] = "insert" => flow_states[s] = NoExit
    /\ dpc[s] \in {"mark", "store", "publish", "return"} => flow_states[s] # NoExit
    /\ dpc[s] \in {"insert", "mark", "store", "publish"} => opened[s] = 0
    /\ dpc[s] \in OpenPC => closed[s] = 0
    /\ dpc[s] = "return" \/ answer[s] = "connected" => opened[s] = 1
    /\ client[s] \in {"connected", "failed", "relaying", "ended", "aborted"} =>
          s \notin forwarder_streams
    /\ client[s] \in {"connecting", "dropped", "connected"} => closed[s] = 0
    /\ client[s] \in {"relaying", "ended"} /\ s \notin guard => closed[s] = 0
    /\ answer[s] = "connected" /\ client[s] \in {"connecting", "connected"} =>
          flow_states[s] # NoExit
    /\ client[s] = "aborted" /\ (frames[s] # <<>> \/ dpc[s] \in CloseFramePC \ {"closing"}) =>
          closed[s] = 0 /\ (answer[s] = "connected" => flow_states[s] # NoExit)
    /\ client[s] = "aborted" /\ frames[s] = <<>> /\ dpc[s] = "idle" =>
          Clean(s) /\ closed[s] = opened[s]
    /\ closed[s] <= 1
    /\ closed[s] > 0 => Clean(s)

(* The agent has taken the close of the flow on itself. *)
Passed(s, a) == closer[s][a] \in {"remove", "mark", "unpin", "publish"}

(* Which tasks may be closing it. *)
CloserTasks(s) ==
    /\ closer[s]["dispatcher"] # "none" <=> dpc[s] = "closing"
    /\ closer[s]["dispatcher"] # "swap"
    /\ \A a \in RelayAgent : closer[s][a] # "none" => client[s] \in {"relaying", "ended"}
    /\ closer[s]["recv"] # "none" => recv[s] = "closing"
    /\ closer[s]["send"] # "none" => send[s] \notin {"off", "run"}
    /\ closer[s]["splice"] # "none" => send[s] # "off"

(* One agent at most passes, through the swap or with the Close frame. *)
CloserOne(s) ==
    /\ \A a \in RelayAgent : Passed(s, a) => s \in guard
    /\ \A a, b \in Agent : Passed(s, a) /\ Passed(s, b) => a = b
    /\ \A a \in Agent : Passed(s, a) => closed[s] = 0

(* How far the cleanup of each is. *)
CleanupAt(s, a) ==
    /\ closer[s][a] \in {"mark", "unpin", "publish"} => flow_states[s] = NoExit
    /\ closer[s][a] \in {"unpin", "publish"} => s \notin flow_counters
    /\ closer[s][a] = "publish" => flow_pins[s] = NoExit
    /\ held[s][a] => closer[s][a] \in {"mark", "unpin", "publish"}
    /\ answer[s] = "closed" => ~held[s][a]

Cleanup(s) ==
    /\ \A a \in Agent : CleanupAt(s, a)
    /\ answer[s] = "connected" =>
        /\ closer[s]["dispatcher"] = "remove" => flow_states[s] # NoExit
        /\ closer[s]["dispatcher"] \in {"mark", "unpin", "publish"} => held[s]["dispatcher"]

CloserInv(s) == CloserTasks(s) /\ CloserOne(s) /\ Cleanup(s)

FlowInvAt(s) == StageInv(s) /\ EntryInv(s) /\ CloserInv(s)
FlowInv == \A s \in Session : FlowInvAt(s)

Inv == TypeOK /\ FlowInv

-----------------------------------------------------------------------------
(* Types.                                                                  *)

LEMMA AppendSeq ==
    ASSUME NEW S, NEW q \in Seq(S), NEW x \in S
    PROVE  Append(q, x) \in Seq(S)
  OBVIOUS

LEMMA HeadTailSeq ==
    ASSUME NEW S, NEW q \in Seq(S), q # <<>>
    PROVE  Tail(q) \in Seq(S)
  OBVIOUS

LEMMA ShortFrames ==
    /\ Append(<<>>, "Open") = <<"Open">> /\ Append(<<>>, "Close") = <<"Close">>
    /\ Tail(<<"Open">>) = <<>> /\ Head(<<"Open">>) = "Open"
    /\ Tail(<<"Close">>) = <<>> /\ Head(<<"Close">>) = "Close"
    /\ <<"Open">> # <<>> /\ <<"Close">> # <<>> /\ <<"Open">> # <<"Close">>
  OBVIOUS

LEMMA TypeInit == Init => TypeOK
  BY ForwarderAssumption, TablesAssumption
     DEF Init, TypeOK, TablesInit, TablesTypeOK, ClientState, DispatchPC, ClosePC

LEMMA TypeClient ==
    ASSUME TypeOK, NEW s \in Session, ClientStep(s)
    PROVE  TypeOK'
<1> USE DEF TypeOK, TablesTypeOK, tables, eventVars, ClientState, ClientGoto, KernelUnchanged
<1>1. CASE ClientConnect(s)
  BY <1>1, AppendSeq, Zenon DEF ClientConnect
<1>2. CASE ClientConnectReturn(s)
  BY <1>2, Zenon DEF ClientConnectReturn
<1>3. CASE ClientConnectTimeout(s) \/ ClientReplyFails(s) \/ StartSpliceFails(s)
  <2>1. client' = [client EXCEPT ![s] = "dropped"] /\ UNCHANGED <<frames, answer, relay>>
    BY <1>3, Zenon DEF ClientConnectTimeout, ClientReplyFails, StartSpliceFails
  <2> QED
    BY <1>3, <2>1, Zenon DEF ClientConnectTimeout, ClientReplyFails, StartSpliceFails
<1>4. CASE ClientAbort(s)
  BY <1>4, AppendSeq, Zenon DEF ClientAbort
<1>5. ASSUME NEW r \in Relay, StartRelay(s, r) PROVE TypeOK'
  BY <1>5, Zenon DEF StartRelay
<1>6. CASE StartSplice(s)
  BY <1>6, Zenon DEF StartSplice
<1> QED
  BY <1>1, <1>2, <1>3, <1>4, <1>5, <1>6, Zenon DEF ClientStep

LEMMA TypeRelay ==
    ASSUME TypeOK, NEW s \in Session, RelayStep(s)
    PROVE  TypeOK'
<1> USE DEF TypeOK, TablesTypeOK, tables, eventVars, dispVars, ClientState, ClientGoto,
            RelayUnchanged, StartClose, ClosePC, Agent
<1>1. CASE RecvEof(s)
  BY <1>1, Zenon DEF RecvEof
<1>2. CASE RecvWriteFails(s)
  BY <1>2, Zenon DEF RecvWriteFails
<1>3. CASE SelectSendDone(s)
  BY <1>3, Zenon DEF SelectSendDone
<1>4. CASE SendEnds(s) \/ SelectRecvDone(s)
  BY <1>4, ZenonT(30) DEF SendEnds, SelectRecvDone
<1>5. CASE PeerClose(s)
  BY <1>5, Zenon DEF PeerClose
<1>6. CASE RecvCancelled(s)
  BY <1>6, Zenon DEF RecvCancelled
<1>7. CASE SpliceEnds(s)
  BY <1>7, Zenon DEF SpliceEnds
<1>8. CASE RelayEnds(s)
  BY <1>8, Zenon DEF RelayEnds
<1> QED
  BY <1>1, <1>2, <1>5, <1>6, <1>7, <1>8, <1>4, <1>3, Zenon DEF RelayStep

LEMMA TypeDispatch ==
    ASSUME TypeOK, NEW s \in Session, DispatchStep(s)
    PROVE  TypeOK'
<1> USE ForwarderAssumption, TablesAssumption
<1> USE DEF TypeOK, TablesTypeOK, tables, clientVars, closeVars, eventVars, DispatchPC, Goto
<1>1. CASE DispatchOpen(s)
  <2>1. frames' \in [Session -> Seq({"Open", "Close"})]
    BY <1>1, HeadTailSeq, Zenon DEF DispatchOpen
  <2>2. PICK c \in SUBSET Exit : cand' = [cand EXCEPT ![s] = c]
    BY <1>1, Zenon DEF DispatchOpen
  <2>3. cand' \in [Session -> SUBSET Exit]
    BY <2>2, Zenon
  <2> QED
    BY <1>1, <2>1, <2>3, ZenonT(30) DEF DispatchOpen
<1>2. ASSUME NEW e \in Exit, OpenForwarder(s, e) PROVE TypeOK'
  BY <1>2, ZenonT(30) DEF OpenForwarder
<1>3. ASSUME NEW e \in Exit, OpenForwarderFails(s, e) PROVE TypeOK'
  BY <1>3, ZenonT(30) DEF OpenForwarderFails
<1>4. CASE NoUsableExit(s) \/ StoreForwarder(s) \/ ReturnConnected(s)
  <2>1. CASE NoUsableExit(s)
    BY <2>1, ZenonT(30) DEF NoUsableExit
  <2>2. CASE StoreForwarder(s)
    BY <2>2, ZenonT(30) DEF StoreForwarder
  <2>3. CASE ReturnConnected(s)
    BY <2>3, ZenonT(30) DEF ReturnConnected
  <2> QED
    BY <1>4, <2>1, <2>2, <2>3, Zenon
<1>5. CASE Pin(s)
  BY <1>5, ZenonT(30) DEF Pin, pin
<1>6. CASE InsertState(s)
  BY <1>6, ZenonT(30) DEF InsertState, insert_state
<1>7. CASE MarkOpen(s)
  <2>1. source_activity' \in [Source -> Nat] /\ idle_since' \subseteq Source
    <3>1. /\ source_activity \in [Source -> Nat] /\ idle_since \subseteq Source
          /\ mark_open(s) /\ SourceOf[s] \in Source
      BY <1>7, Zenon DEF MarkOpen
    <3> HIDE DEF TypeOK, TablesTypeOK
    <3> QED
      BY <3>1 DEF mark_open
  <2> QED
    BY <1>7, <2>1, Zenon DEF MarkOpen
<1>8. CASE PublishOpened(s)
  <2>1. opened' \in [Session -> Nat]
    BY <1>8 DEF PublishOpened
  <2> QED
    BY <1>8, <2>1, Zenon DEF PublishOpened
<1>9. CASE CloseFrame(s)
  BY <1>9, HeadTailSeq, ZenonT(30) DEF CloseFrame
<1>10. CASE ClosePin(s)
  <2>1. /\ flow_pins' \in [Session -> Exit \cup {NoExit}]
        /\ pins_lock' \in Session \cup {NoSession}
    BY <1>10 DEF ClosePin, unpin
  <2>2. /\ dpc' \in [Session -> DispatchPC]
        /\ \A t \in Session : dpc'[t] = dpc[t] \/ dpc'[t] \in {"close_stored", "close_egress"}
    <3>1. dpc \in [Session -> DispatchPC]
      BY Zenon
    <3>2. \E pc \in {"close_stored", "close_egress"} : dpc' = [dpc EXCEPT ![s] = pc]
      BY <1>10, Zenon DEF ClosePin
    <3> HIDE DEF TypeOK, TablesTypeOK
    <3> QED
      BY <3>1, <3>2
  <2> QED
    BY <1>10, <2>1, <2>2, Zenon DEF ClosePin
<1>11. CASE CloseEgress(s)
  BY <1>11, ZenonT(30) DEF CloseEgress
<1>12. CASE CloseStored(s)
  BY <1>12, ZenonT(30) DEF CloseStored, ClosePC, Agent
<1> QED
  BY <1>1, <1>2, <1>3, <1>4, <1>5, <1>6, <1>7, <1>8, <1>9, <1>10, <1>11, <1>12, ZenonT(60)
     DEF DispatchStep

(* What a close leaves of the tasks of its session. *)
LEMMA CloseDoneType ==
    ASSUME TypeOK, NEW s \in Session, NEW a \in Agent, CloseDone(s, a)
    PROVE  /\ closer' \in [Session -> [Agent -> ClosePC]]
           /\ recv' \in [Session -> {"off", "run", "closing", "done"}]
           /\ send' \in [Session -> {"off", "run", "closing", "done"}]
           /\ dpc' \in [Session -> DispatchPC]
           /\ \A t \in Session : dpc'[t] = dpc[t] \/ dpc'[t] = "idle"
<1> USE DEF TypeOK, CloseDone, Goto, CloserGoto, ClosePC, DispatchPC
<1>1. closer' \in [Session -> [Agent -> ClosePC]]
  BY Zenon
<1>2. recv' \in [Session -> {"off", "run", "closing", "done"}]
  BY Zenon
<1>3. send' \in [Session -> {"off", "run", "closing", "done"}]
  BY Zenon
<1>4. dpc' \in [Session -> DispatchPC] /\ \A t \in Session : dpc'[t] = dpc[t] \/ dpc'[t] = "idle"
  BY Zenon
<1> QED
  BY <1>1, <1>2, <1>3, <1>4

LEMMA TypeCloser ==
    ASSUME TypeOK, NEW s \in Session, NEW a \in Agent, CloserStep(s, a)
    PROVE  TypeOK'
<1> USE TablesAssumption
<1> USE DEF TypeOK, TablesTypeOK, tables, CloserUnchanged, CloserGoto, ClosePC
<1>1. CASE Swap(s, a)
  <2>1. CASE s \in guard
    BY <1>1, <2>1, CloseDoneType, ZenonT(30) DEF Swap
  <2>2. CASE s \notin guard
    <3>1. closer' = [closer EXCEPT ![s][a] = "remove"] /\ UNCHANGED <<recv, send, dpc>>
      BY <1>1, <2>2, Zenon DEF Swap
    <3>2. closer' \in [Session -> [Agent -> ClosePC]]
      BY <3>1, Zenon
    <3> QED
      BY <1>1, <3>1, <3>2, ZenonT(30) DEF Swap
  <2> QED
    BY <2>1, <2>2, Zenon
<1>2. CASE RemoveState(s, a)
  BY <1>2, ZenonT(30) DEF RemoveState, remove_state
<1>3. CASE MarkClosed(s, a)
  <2>1. source_activity' \in [Source -> Nat] /\ idle_since' \subseteq Source
    <3>1. CASE held[s][a]
      <4>1. /\ source_activity \in [Source -> Nat] /\ idle_since \subseteq Source
            /\ mark_closed(s) /\ SourceOf[s] \in Source
        BY <1>3, <3>1, Zenon DEF MarkClosed
      <4> HIDE DEF TypeOK, TablesTypeOK
      <4> QED
        BY <4>1 DEF mark_closed
    <3>2. CASE ~held[s][a]
      BY <1>3, <3>2, Zenon DEF MarkClosed
    <3> QED
      BY <3>1, <3>2
  <2> QED
    BY <1>3, <2>1, ZenonT(30) DEF MarkClosed
<1>4. CASE Unpin(s, a)
  BY <1>4, ZenonT(30) DEF Unpin, unpin
<1>5. CASE PublishClosed(s, a)
  <2>1. closed' \in [Session -> Nat]
    BY <1>5 DEF PublishClosed
  <2>2. held' \in [Session -> [Agent -> BOOLEAN]]
    BY <1>5, Zenon DEF PublishClosed
  <2> QED
    BY <1>5, <2>1, <2>2, CloseDoneType, ZenonT(30) DEF PublishClosed
<1> QED
  BY <1>1, <1>2, <1>3, <1>4, <1>5, Zenon DEF CloserStep

LEMMA TypeNext == TypeOK /\ [Next]_vars => TypeOK'
<1>1. TypeOK /\ UNCHANGED vars => TypeOK'
  BY ZenonT(30) DEF TypeOK, TablesTypeOK, vars, tables, clientVars, dispVars, closeVars, eventVars
<1> QED
  BY <1>1, TypeClient, TypeRelay, TypeDispatch, TypeCloser DEF Next

-----------------------------------------------------------------------------
(* A step of one session leaves the others alone. *)
SameAt(t) ==
    /\ frames'[t] = frames[t] /\ answer'[t] = answer[t] /\ client'[t] = client[t]
    /\ recv'[t] = recv[t] /\ send'[t] = send[t] /\ dpc'[t] = dpc[t]
    /\ flow_pins'[t] = flow_pins[t] /\ flow_states'[t] = flow_states[t]
    /\ t \in flow_counters' <=> t \in flow_counters
    /\ t \in forwarder_streams' <=> t \in forwarder_streams
    /\ t \in guard' <=> t \in guard
    /\ closer'[t] = closer[t] /\ held'[t] = held[t]
    /\ opened'[t] = opened[t] /\ closed'[t] = closed[t]

LEMMA OthersSame ==
    ASSUME TypeOK, NEW s \in Session, NEW t \in Session, t # s,
           ClientStep(s) \/ RelayStep(s) \/ DispatchStep(s) \/ \E a \in Agent : CloserStep(s, a)
    PROVE  SameAt(t)
<1> USE DEF TypeOK, TablesTypeOK, SameAt, tables, clientVars, dispVars, closeVars, eventVars
<1>1. CASE ClientStep(s)
  <2> USE DEF ClientGoto, KernelUnchanged
  <2>1. CASE ClientConnect(s) \/ ClientConnectReturn(s) \/ ClientConnectTimeout(s)
    BY <2>1, ZenonT(60) DEF ClientConnect, ClientConnectReturn, ClientConnectTimeout
  <2>2. CASE ClientReplyFails(s) \/ ClientAbort(s) \/ StartSplice(s) \/ StartSpliceFails(s)
    BY <2>2, ZenonT(60) DEF ClientReplyFails, ClientAbort, StartSplice, StartSpliceFails
  <2>3. ASSUME NEW r \in Relay, StartRelay(s, r) PROVE SameAt(t)
    BY <2>3, ZenonT(60) DEF StartRelay
  <2> QED
    BY <1>1, <2>1, <2>2, <2>3, Zenon DEF ClientStep
<1>2. CASE RelayStep(s)
  <2> USE DEF RelayUnchanged, StartClose, ClientGoto
  <2>1. CASE RecvEof(s) \/ PeerClose(s) \/ SpliceEnds(s)
    BY <2>1, ZenonT(60) DEF RecvEof, PeerClose, SpliceEnds
  <2>2. CASE RecvWriteFails(s) \/ SendEnds(s) \/ SelectRecvDone(s) \/ SelectSendDone(s)
    BY <2>2, ZenonT(60) DEF RecvWriteFails, SendEnds, SelectRecvDone, SelectSendDone
  <2>3. CASE RecvCancelled(s) \/ RelayEnds(s)
    BY <2>3, ZenonT(60) DEF RecvCancelled, RelayEnds
  <2> QED
    BY <1>2, <2>1, <2>2, <2>3, Zenon DEF RelayStep
<1>3. CASE DispatchStep(s)
  <2> USE DEF Goto
  <2>1. CASE DispatchOpen(s) \/ (\E e \in Exit : OpenForwarder(s, e) \/ OpenForwarderFails(s, e))
    BY <2>1, ZenonT(60) DEF DispatchOpen, OpenForwarder, OpenForwarderFails
  <2>2. CASE NoUsableExit(s) \/ Pin(s) \/ InsertState(s) \/ MarkOpen(s)
    BY <2>2, ZenonT(60) DEF NoUsableExit, Pin, pin, InsertState, insert_state, MarkOpen
  <2>3. CASE StoreForwarder(s) \/ PublishOpened(s) \/ ReturnConnected(s)
    BY <2>3, ZenonT(60) DEF StoreForwarder, PublishOpened, ReturnConnected
  <2>4. CASE CloseFrame(s) \/ CloseEgress(s) \/ CloseStored(s)
    BY <2>4, ZenonT(60) DEF CloseFrame, CloseEgress, CloseStored
  <2>5. CASE ClosePin(s)
    BY <2>5, ZenonT(60) DEF ClosePin, unpin
  <2> QED
    BY <1>3, <2>1, <2>2, <2>3, <2>4, <2>5, Zenon DEF DispatchStep
<1>4. ASSUME NEW a \in Agent, CloserStep(s, a) PROVE SameAt(t)
  <2> USE DEF CloserGoto, CloserUnchanged
  <2>1. ASSUME CloseDone(s, a)
        PROVE  closer'[t] = closer[t] /\ recv'[t] = recv[t] /\ send'[t] = send[t]
               /\ dpc'[t] = dpc[t]
    BY <2>1, ZenonT(60) DEF CloseDone, Goto
  <2>2. CASE Swap(s, a)
    BY <2>1, <2>2, ZenonT(60) DEF Swap
  <2>3. CASE RemoveState(s, a)
    BY <2>3, ZenonT(60) DEF RemoveState, remove_state
  <2>4. CASE MarkClosed(s, a) \/ Unpin(s, a)
    BY <2>4, ZenonT(60) DEF MarkClosed, Unpin, unpin
  <2>5. CASE PublishClosed(s, a)
    BY <2>1, <2>5, ZenonT(60) DEF PublishClosed
  <2> QED
    BY <1>4, <2>2, <2>3, <2>4, <2>5, Zenon DEF CloserStep
<1> QED
  BY <1>1, <1>2, <1>3, <1>4, Zenon

-----------------------------------------------------------------------------
(* The session of the step.  What most steps keep of it: *)
SameEntries(s) ==
    /\ flow_pins'[s] = flow_pins[s] /\ flow_states'[s] = flow_states[s]
    /\ s \in flow_counters' <=> s \in flow_counters
    /\ s \in forwarder_streams' <=> s \in forwarder_streams
    /\ opened'[s] = opened[s] /\ closed'[s] = closed[s]

SameClosers(s) ==
    closer'[s] = closer[s] /\ held'[s] = held[s] /\ (s \in guard' <=> s \in guard)

SameTasks(s) ==
    frames'[s] = frames[s] /\ answer'[s] = answer[s] /\ dpc'[s] = dpc[s]

SameClient(s) ==
    client'[s] = client[s] /\ recv'[s] = recv[s] /\ send'[s] = send[s]

LEMMA FlowInit == Init => FlowInv
<1> SUFFICES ASSUME Init, NEW s \in Session PROVE FlowInvAt(s)
  BY DEF FlowInv
<1>1. /\ frames[s] = <<>> /\ answer[s] = "none" /\ client[s] = "new" /\ dpc[s] = "idle"
      /\ recv[s] = "off" /\ send[s] = "off" /\ s \notin guard
      /\ \A a \in Agent : closer[s][a] = "none" /\ ~held[s][a]
      /\ Fresh(s)
  BY DEF Init, TablesInit, Fresh, Clean
<1>2. StageInv(s)
  BY <1>1 DEF StageInv, OpenPC, CloseFramePC
<1>3. EntryInv(s)
  BY <1>1 DEF EntryInv, Fresh, OpenPC, CloseFramePC
<1>4. CloserInv(s)
  BY <1>1 DEF CloserInv, CloserTasks, CloserOne, Cleanup, CleanupAt, Passed, RelayAgent, Agent
<1> QED
  BY <1>2, <1>3, <1>4 DEF FlowInvAt

LEMMA SameAtKeeps ==
    ASSUME NEW t \in Session, FlowInvAt(t), SameAt(t)
    PROVE  FlowInvAt(t)'
<1>1. StageInv(t)'
  BY DEF FlowInvAt, StageInv, SameAt
<1>2. EntryInv(t)'
  BY ZenonT(30) DEF FlowInvAt, EntryInv, Fresh, Clean, SameAt
<1>3. CloserInv(t)'
  BY DEF FlowInvAt, CloserInv, CloserTasks, CloserOne, Cleanup, CleanupAt, Passed, SameAt
<1> QED
  BY <1>1, <1>2, <1>3, ZenonT(30) DEF FlowInvAt

LEMMA FlowClient ==
    ASSUME TypeOK, NEW s \in Session, FlowInvAt(s), ClientStep(s)
    PROVE  FlowInvAt(s)'
<1> USE DEF FlowInvAt
<1>1. /\ SameClosers(s) /\ answer'[s] = answer[s] /\ dpc'[s] = dpc[s]
      /\ flow_pins'[s] = flow_pins[s] /\ flow_states'[s] = flow_states[s]
      /\ s \in flow_counters' <=> s \in flow_counters
      /\ opened'[s] = opened[s] /\ closed'[s] = closed[s]
  BY ZenonT(30) DEF ClientStep, ClientConnect, ClientConnectReturn, ClientConnectTimeout,
     ClientReplyFails, ClientAbort, StartRelay, StartSplice, StartSpliceFails, KernelUnchanged,
     tables, eventVars, SameClosers
<1>2. dpc[s] \in DispatchPC /\ answer[s] \in {"none", "connected", "closed"}
  BY DEF TypeOK
<1>3. CASE ClientConnect(s)
  <2>1. /\ client[s] = "new" /\ client'[s] = "connecting" /\ frames[s] = <<>>
        /\ frames'[s] = <<"Open">> /\ recv'[s] = recv[s] /\ send'[s] = send[s]
        /\ s \in forwarder_streams' <=> s \in forwarder_streams
    BY <1>3, ShortFrames, ZenonT(30) DEF ClientConnect, ClientGoto, TypeOK, StageInv
  <2>2. StageInv(s)'
    BY <1>1, <2>1, ShortFrames, ZenonT(30) DEF StageInv, SameClosers, OpenPC, CloseFramePC
  <2>3. EntryInv(s)'
    BY <1>1, <2>1, ZenonT(30) DEF StageInv, EntryInv, Fresh, Clean, SameClosers, OpenPC, CloseFramePC
  <2>4. CloserInv(s)'
    BY <1>1, <2>1, ZenonT(30) DEF CloserInv, CloserTasks, CloserOne, Cleanup, CleanupAt, Passed, SameClosers
  <2> QED
    BY <2>2, <2>3, <2>4
<1>4. CASE ClientConnectReturn(s)
  <2>1. /\ client[s] = "connecting" /\ answer[s] # "none"
        /\ client'[s] = IF answer[s] = "connected" THEN "connected" ELSE "failed"
        /\ frames'[s] = frames[s] /\ recv'[s] = recv[s] /\ send'[s] = send[s]
        /\ answer[s] = "connected" => s \notin forwarder_streams'
        /\ s \in forwarder_streams' => s \in forwarder_streams
    BY <1>4, ZenonT(30) DEF ClientConnectReturn, ClientGoto, TypeOK
  <2>2. StageInv(s)'
    BY <1>1, <1>2, <2>1, ZenonT(30) DEF StageInv, SameClosers, OpenPC, CloseFramePC
  <2>3. EntryInv(s)'
    BY <1>1, <1>2, <2>1, ZenonT(30) DEF StageInv, EntryInv, Fresh, Clean, SameClosers, OpenPC, CloseFramePC
  <2>4. CloserInv(s)'
    BY <1>1, <2>1, ZenonT(30) DEF CloserInv, CloserTasks, CloserOne, Cleanup, CleanupAt, Passed, SameClosers
  <2> QED
    BY <2>2, <2>3, <2>4
<1>5. CASE ClientConnectTimeout(s) \/ ClientReplyFails(s) \/ StartSpliceFails(s)
  <2>1. /\ client[s] \in {"connecting", "connected"} /\ client'[s] = "dropped"
        /\ frames'[s] = frames[s] /\ recv'[s] = recv[s] /\ send'[s] = send[s]
        /\ s \in forwarder_streams' <=> s \in forwarder_streams
    BY <1>5, ZenonT(30) DEF ClientConnectTimeout, ClientReplyFails, StartSpliceFails, ClientGoto, TypeOK
  <2>2. StageInv(s)'
    BY <1>1, <1>2, <2>1, ZenonT(30) DEF StageInv, SameClosers, OpenPC, CloseFramePC
  <2>3. EntryInv(s)'
    BY <1>1, <1>2, <2>1, ZenonT(30) DEF StageInv, EntryInv, Fresh, Clean, SameClosers, OpenPC, CloseFramePC
  <2>4. CloserInv(s)'
    BY <1>1, <2>1 DEF CloserInv, CloserTasks, CloserOne, Cleanup, CleanupAt, Passed, SameClosers
  <2> QED
    BY <2>2, <2>3, <2>4
<1>6. CASE ClientAbort(s)
  <2>1. /\ client[s] \in {"connected", "failed"} /\ client'[s] = "aborted"
        /\ frames'[s] = Append(frames[s], "Close") /\ recv'[s] = recv[s] /\ send'[s] = send[s]
        /\ s \in forwarder_streams' <=> s \in forwarder_streams
    BY <1>6 DEF ClientAbort, ClientGoto, TypeOK
  <2>2. frames[s] = <<>> /\ dpc[s] = "idle" /\ answer[s] # "none"
    BY <1>2, <2>1 DEF StageInv, OpenPC, CloseFramePC, DispatchPC
  <2>3. frames'[s] = <<"Close">>
    BY <2>1, <2>2, ShortFrames, ZenonT(30)
  <2>4. StageInv(s)'
    BY <1>1, <2>1, <2>2, <2>3, ShortFrames, ZenonT(30) DEF StageInv, SameClosers, OpenPC, CloseFramePC
  <2>5. EntryInv(s)'
    BY <1>1, <1>2, <2>1, <2>2, <2>3, ZenonT(30)
       DEF StageInv, EntryInv, Fresh, Clean, SameClosers, OpenPC, CloseFramePC
  <2>6. CloserInv(s)'
    BY <1>1, <2>1 DEF CloserInv, CloserTasks, CloserOne, Cleanup, CleanupAt, Passed, SameClosers
  <2> QED
    BY <2>4, <2>5, <2>6
<1>7. CASE (\E r \in Relay : StartRelay(s, r)) \/ StartSplice(s)
  <2>1. /\ client[s] = "connected" /\ client'[s] = "relaying"
        /\ frames'[s] = frames[s]
        /\ s \in forwarder_streams' <=> s \in forwarder_streams
    BY <1>7 DEF StartRelay, StartSplice, ClientGoto, TypeOK
  <2>2. StageInv(s)'
    BY <1>1, <1>2, <2>1, ZenonT(30) DEF StageInv, SameClosers, OpenPC, CloseFramePC
  <2>3. EntryInv(s)'
    BY <1>1, <1>2, <2>1, ZenonT(30) DEF StageInv, EntryInv, Fresh, Clean, SameClosers, OpenPC, CloseFramePC
  <2>4. CloserInv(s)'
    BY <1>1, <2>1 DEF CloserInv, CloserTasks, CloserOne, Cleanup, CleanupAt, Passed, SameClosers, RelayAgent
  <2> QED
    BY <2>2, <2>3, <2>4
<1> QED
  BY <1>3, <1>4, <1>5, <1>6, <1>7 DEF ClientStep

LEMMA FlowRelay ==
    ASSUME TypeOK, NEW s \in Session, FlowInvAt(s), RelayStep(s)
    PROVE  FlowInvAt(s)'
<1> USE DEF FlowInvAt
<1>1. SameEntries(s) /\ SameTasks(s) /\ (s \in guard' <=> s \in guard)
  BY ZenonT(30) DEF RelayStep, RecvEof, RecvWriteFails, SendEnds, PeerClose, SelectRecvDone,
     SelectSendDone, RecvCancelled, SpliceEnds, RelayEnds, RelayUnchanged, tables, dispVars,
     eventVars, SameEntries, SameTasks
<1>2. /\ recv[s] \in {"off", "run", "closing", "done"}
      /\ send[s] \in {"off", "run", "closing", "done"}
      /\ \A a \in Agent : closer[s][a] \in ClosePC /\ held[s][a] \in BOOLEAN
  BY DEF TypeOK
<1>3. EntryInv(s)' /\ StageInv(s)'
  <2>1. client'[s] = client[s] \/ (client[s] = "relaying" /\ client'[s] = "ended")
    BY ZenonT(30) DEF RelayStep, RecvEof, RecvWriteFails, SendEnds, PeerClose, SelectRecvDone,
       SelectSendDone, RecvCancelled, SpliceEnds, RelayEnds, ClientGoto, TypeOK
  <2>2. EntryInv(s)'
    BY <1>1, <2>1, ZenonT(30) DEF EntryInv, Fresh, Clean, SameEntries, SameTasks
  <2>3. recv'[s] # "off" \/ send'[s] # "off" \/ s \in guard =>
           client[s] \in {"relaying", "ended"}
    <3>1. \/ client[s] = "relaying" \/ recv[s] \in {"run", "closing"} \/ send[s] = "run"
          \/ (recv' = recv /\ send' = send)
      BY ZenonT(30) DEF RelayStep, RecvEof, RecvWriteFails, SendEnds, PeerClose,
         SelectRecvDone, SelectSendDone, RecvCancelled, SpliceEnds, RelayEnds
    <3> QED
      BY <1>1, <1>2, <3>1 DEF StageInv
  <2>4. StageInv(s)'
    BY <1>1, <2>1, <2>3 DEF StageInv, SameTasks
  <2> QED
    BY <2>2, <2>4
<1>4. CASE RecvEof(s)
  <2>1. /\ recv[s] = "run" /\ recv'[s] = "closing" /\ send'[s] = send[s]
        /\ client'[s] = client[s] /\ held'[s] = held[s]
        /\ closer'[s]["recv"] = "swap"
        /\ \A a \in Agent : a # "recv" => closer'[s][a] = closer[s][a]
    BY <1>4, ZenonT(30) DEF RecvEof, StartClose, TypeOK, Agent
  <2>2. closer[s]["recv"] = "none" /\ client[s] \in {"relaying", "ended"}
    BY <2>1, ZenonT(30) DEF CloserInv, CloserTasks, CloserOne, Cleanup, CleanupAt, StageInv
  <2>3. CloserInv(s)'
    BY <1>1, <2>1, <2>2 DEF CloserInv, CloserTasks, CloserOne, Cleanup, CleanupAt, Passed, Agent, RelayAgent, SameEntries, SameTasks
  <2> QED
    BY <1>3, <2>3
<1>5. CASE RecvWriteFails(s) \/ SendEnds(s) \/ SelectRecvDone(s) \/ SelectSendDone(s) \/ RelayEnds(s)
  <2>1. /\ closer'[s] = closer[s] /\ held'[s] = held[s]
        /\ client[s] \in {"relaying", "ended"} => client'[s] \in {"relaying", "ended"}
        /\ recv'[s] = recv[s] \/ (recv[s] = "run" /\ recv'[s] = "done")
        /\ send'[s] = send[s] \/ (send[s] = "run" /\ send'[s] = "done")
    BY <1>5, ZenonT(30) DEF RecvWriteFails, SendEnds, SelectRecvDone, SelectSendDone, RelayEnds,
       ClientGoto, TypeOK
  <2>2. CloserInv(s)'
    BY <1>1, <2>1 DEF CloserInv, CloserTasks, CloserOne, Cleanup, CleanupAt, Passed, SameEntries, SameTasks
  <2> QED
    BY <1>3, <2>2
<1>6. CASE PeerClose(s)
  <2>1. /\ send[s] = "run" /\ send'[s] = "closing" /\ recv'[s] = recv[s]
        /\ client'[s] = client[s] /\ held'[s] = held[s]
        /\ closer'[s]["send"] = "swap"
        /\ \A a \in Agent : a # "send" => closer'[s][a] = closer[s][a]
    BY <1>6, ZenonT(30) DEF PeerClose, StartClose, TypeOK, Agent
  <2>2. closer[s]["send"] = "none" /\ client[s] \in {"relaying", "ended"}
    BY <2>1, ZenonT(30) DEF CloserInv, CloserTasks, CloserOne, Cleanup, CleanupAt, StageInv
  <2>3. CloserInv(s)'
    BY <1>1, <2>1, <2>2 DEF CloserInv, CloserTasks, CloserOne, Cleanup, CleanupAt, Passed, Agent, RelayAgent, SameEntries, SameTasks
  <2> QED
    BY <1>3, <2>3
<1>7. CASE SpliceEnds(s)
  <2>1. /\ send[s] = "off" /\ send'[s] = "closing" /\ recv'[s] = recv[s]
        /\ client[s] = "relaying" /\ client'[s] = client[s] /\ held'[s] = held[s]
        /\ closer'[s]["splice"] = "swap"
        /\ \A a \in Agent : a # "splice" => closer'[s][a] = closer[s][a]
    BY <1>7 DEF SpliceEnds, StartClose, TypeOK, Agent
  <2>2. closer[s]["splice"] = "none"
    BY <2>1, ZenonT(30) DEF CloserInv, CloserTasks
  <2>3. CloserInv(s)'
    BY <1>1, <2>1, <2>2, ZenonT(30) DEF CloserInv, CloserTasks, CloserOne, Cleanup, CleanupAt, Passed, Agent, RelayAgent, SameEntries, SameTasks
  <2> QED
    BY <1>3, <2>3
<1>8. CASE RecvCancelled(s)
  <2>1. /\ recv'[s] = "done" /\ send'[s] = send[s] /\ client'[s] = client[s]
        /\ closer'[s]["recv"] = "none" /\ ~held'[s]["recv"]
        /\ \A a \in Agent : a # "recv" => closer'[s][a] = closer[s][a] /\ held'[s][a] = held[s][a]
    BY <1>8, ZenonT(30) DEF RecvCancelled, TypeOK, Agent
  <2>2. CloserInv(s)'
    BY <1>1, <2>1 DEF CloserInv, CloserTasks, CloserOne, Cleanup, CleanupAt, Passed, Agent, RelayAgent, SameEntries, SameTasks
  <2> QED
    BY <1>3, <2>2
<1> QED
  BY <1>4, <1>5, <1>6, <1>7, <1>8 DEF RelayStep

LEMMA FlowDispatcher ==
    ASSUME TypeOK, NEW s \in Session, FlowInvAt(s), DispatchStep(s)
    PROVE  FlowInvAt(s)'
<1> USE DEF FlowInvAt
<1>1. SameClient(s) /\ (s \in guard' <=> s \in guard) /\ held'[s] = held[s] /\ closed'[s] = closed[s]
  BY ZenonT(60) DEF DispatchStep, DispatchOpen, OpenForwarder, OpenForwarderFails, NoUsableExit,
     Pin, InsertState, MarkOpen, StoreForwarder, PublishOpened, ReturnConnected, CloseFrame,
     ClosePin, CloseEgress, CloseStored, clientVars, closeVars, eventVars, SameClient
<1>2. dpc[s] \in DispatchPC /\ answer[s] \in {"none", "connected", "closed"}
      /\ frames[s] \in {<<>>, <<"Open">>, <<"Close">>}
  BY ZenonT(30) DEF TypeOK, StageInv
<1>3. client[s] \notin {"relaying", "ended"} /\ dpc[s] # "closing"
  <2>1. frames[s] # <<>> \/ dpc[s] \in OpenPC \cup (CloseFramePC \ {"closing"})
    BY ZenonT(60) DEF DispatchStep, DispatchOpen, OpenForwarder, OpenForwarderFails,
       NoUsableExit, Pin, InsertState, MarkOpen, StoreForwarder, PublishOpened, ReturnConnected,
       CloseFrame, ClosePin, CloseEgress, CloseStored, OpenPC, CloseFramePC
  <2> QED
    BY <2>1 DEF StageInv, OpenPC, CloseFramePC
<1>4. \A a \in Agent : closer[s][a] = "none" /\ ~held[s][a]
  BY <1>3, ZenonT(30) DEF CloserInv, CloserTasks, CloserOne, Cleanup, CleanupAt, Agent, RelayAgent
<1>5. ASSUME closer'[s] = closer[s], dpc'[s] # "closing" PROVE CloserInv(s)'
  BY <1>1, <1>4, <1>5, ZenonT(30) DEF CloserInv, CloserTasks, CloserOne, Cleanup, CleanupAt, Passed, Agent, RelayAgent
<1>6. CASE DispatchOpen(s) \/ CloseFrame(s)
  <2>1. /\ dpc[s] = "idle" /\ frames[s] # <<>> /\ frames'[s] = Tail(frames[s])
        /\ dpc'[s] = IF Head(frames[s]) = "Open" THEN "try" ELSE "close_pin"
        /\ answer'[s] = answer[s] /\ SameEntries(s) /\ closer'[s] = closer[s]
    BY <1>6 DEF DispatchOpen, CloseFrame, Goto, TypeOK, tables, closeVars, eventVars, SameEntries
  <2>2. /\ frames'[s] = <<>>
        /\ \/ frames[s] = <<"Open">> /\ dpc'[s] = "try"
           \/ frames[s] = <<"Close">> /\ dpc'[s] = "close_pin"
    BY <1>2, <2>1, ShortFrames, Zenon
  <2>3. StageInv(s)'
    BY <1>1, <2>1, <2>2, ShortFrames, Zenon DEF StageInv, SameClient, OpenPC, CloseFramePC
  <2>4. EntryInv(s)'
    BY <1>1, <2>1, <2>2, ShortFrames, ZenonT(30)
       DEF StageInv, EntryInv, Fresh, Clean, SameClient, SameEntries, OpenPC, CloseFramePC
  <2> QED
    BY <1>5, <2>1, <2>2, <2>3, <2>4, ZenonT(30)
<1>7. CASE \E e \in Exit : OpenForwarder(s, e) \/ OpenForwarderFails(s, e)
  <2>1. /\ dpc[s] = "try" /\ dpc'[s] \in {"try", "pin"} /\ frames'[s] = frames[s]
        /\ answer'[s] = answer[s] /\ SameEntries(s) /\ closer'[s] = closer[s]
    BY <1>7, ZenonT(30) DEF OpenForwarder, OpenForwarderFails, Goto, TypeOK, tables, closeVars, eventVars,
                SameEntries
  <2>2. StageInv(s)'
    BY <1>1, <2>1, ZenonT(30) DEF StageInv, SameClient, OpenPC, CloseFramePC
  <2>3. EntryInv(s)'
    BY <1>1, <2>1, ZenonT(30) DEF StageInv, EntryInv, Fresh, Clean, SameClient, SameEntries, OpenPC, CloseFramePC
  <2> QED
    BY <1>5, <2>1, <2>2, <2>3, ZenonT(30)
<1>8. CASE NoUsableExit(s)
  <2>1. /\ dpc[s] = "try" /\ dpc'[s] = "idle" /\ frames'[s] = frames[s]
        /\ answer'[s] = "closed" /\ SameEntries(s) /\ closer'[s] = closer[s]
    BY <1>8, Z3T(30) DEF NoUsableExit, Goto, TypeOK, tables, closeVars, eventVars, SameEntries
  <2>2. StageInv(s)'
    BY <1>1, <2>1, ShortFrames, Zenon DEF StageInv, SameClient, OpenPC, CloseFramePC
  <2>3. EntryInv(s)'
    BY <1>1, <2>1, ZenonT(30) DEF StageInv, EntryInv, Fresh, Clean, SameClient, SameEntries, OpenPC, CloseFramePC
  <2> QED
    BY <1>5, <2>1, <2>2, <2>3, ZenonT(30)
<1>9. CASE Pin(s)
  <2>1. /\ dpc[s] = "pin" /\ dpc'[s] = "insert" /\ frames'[s] = frames[s]
        /\ answer'[s] = answer[s] /\ flow_states'[s] = flow_states[s]
        /\ s \in forwarder_streams' <=> s \in forwarder_streams
        /\ opened'[s] = opened[s] /\ closer'[s] = closer[s]
    BY <1>9, ZenonT(30) DEF Pin, Goto, TypeOK, closeVars, eventVars
  <2>2. StageInv(s)'
    BY <1>1, <2>1, ZenonT(30) DEF StageInv, SameClient, OpenPC, CloseFramePC
  <2>3. EntryInv(s)'
    BY <1>1, <2>1, Z3T(30) DEF StageInv, EntryInv, Fresh, Clean, SameClient, OpenPC, CloseFramePC
  <2> QED
    BY <1>5, <2>1, <2>2, <2>3, ZenonT(30)
<1>10. CASE InsertState(s)
  <2>1. /\ dpc[s] = "insert" /\ dpc'[s] = "mark" /\ frames'[s] = frames[s]
        /\ answer'[s] = answer[s] /\ flow_states'[s] # NoExit
        /\ s \in forwarder_streams' <=> s \in forwarder_streams
        /\ opened'[s] = opened[s] /\ closer'[s] = closer[s]
    <3>1. dpc[s] = "insert" /\ flow_states[s] = NoExit /\ exit[s] # NoExit
      BY <1>10, TablesAssumption, ZenonT(30) DEF InsertState, TypeOK, EntryInv
    <3> QED
      BY <1>10, <3>1, ZenonT(30) DEF InsertState, insert_state, Goto, TypeOK, TablesTypeOK, closeVars, eventVars
  <2>2. StageInv(s)'
    BY <1>1, <2>1, ZenonT(30) DEF StageInv, SameClient, OpenPC, CloseFramePC
  <2>3. EntryInv(s)'
    BY <1>1, <2>1, Z3T(30) DEF StageInv, EntryInv, Fresh, Clean, SameClient, OpenPC, CloseFramePC
  <2> QED
    BY <1>5, <2>1, <2>2, <2>3, ZenonT(30)
<1>11. CASE MarkOpen(s) \/ StoreForwarder(s) \/ PublishOpened(s)
  <2>1. /\ \/ dpc[s] = "mark" /\ dpc'[s] = "store" /\ opened'[s] = opened[s]
           \/ dpc[s] = "store" /\ dpc'[s] = "publish" /\ opened'[s] = opened[s]
           \/ dpc[s] = "publish" /\ dpc'[s] = "return" /\ opened'[s] = opened[s] + 1
        /\ frames'[s] = frames[s] /\ answer'[s] = answer[s] /\ flow_states'[s] = flow_states[s]
        /\ closer'[s] = closer[s]
    BY <1>11, ZenonT(30) DEF MarkOpen, StoreForwarder, PublishOpened, Goto, TypeOK, tables, closeVars, eventVars
  <2>2. StageInv(s)'
    BY <1>1, <2>1, ZenonT(30) DEF StageInv, SameClient, OpenPC, CloseFramePC
  <2>3. EntryInv(s)'
    BY <1>1, <2>1, Z3T(30) DEF StageInv, EntryInv, Fresh, Clean, SameClient, OpenPC, CloseFramePC
  <2> QED
    BY <1>5, <2>1, <2>2, <2>3, ZenonT(30)
<1>12. CASE ReturnConnected(s)
  <2>1. /\ dpc[s] = "return" /\ dpc'[s] = "idle" /\ frames'[s] = frames[s]
        /\ answer'[s] = "connected" /\ SameEntries(s) /\ closer'[s] = closer[s]
    BY <1>12, ZenonT(30) DEF ReturnConnected, Goto, TypeOK, tables, closeVars, eventVars, SameEntries
  <2>2. StageInv(s)'
    BY <1>1, <2>1, ShortFrames, Zenon DEF StageInv, SameClient, OpenPC, CloseFramePC
  <2>3. EntryInv(s)'
    BY <1>1, <2>1, ZenonT(30) DEF StageInv, EntryInv, Fresh, Clean, SameClient, SameEntries, OpenPC, CloseFramePC
  <2> QED
    BY <1>5, <2>1, <2>2, <2>3, ZenonT(30)
<1>13. CASE ClosePin(s) \/ CloseEgress(s)
  <2>1. /\ dpc[s] \in {"close_pin", "close_egress"} /\ dpc'[s] \in {"close_egress", "close_stored"}
        /\ frames'[s] = frames[s] /\ answer'[s] = answer[s]
        /\ flow_states'[s] = flow_states[s] /\ flow_pins'[s] \in {flow_pins[s], NoExit}
        /\ s \in flow_counters' <=> s \in flow_counters
        /\ s \in forwarder_streams' <=> s \in forwarder_streams
        /\ opened'[s] = opened[s] /\ closer'[s] = closer[s]
    BY <1>13, ZenonT(30) DEF ClosePin, unpin, CloseEgress, Goto, TypeOK, TablesTypeOK, tables, closeVars,
                 eventVars
  <2>2. StageInv(s)'
    BY <1>1, <2>1, ZenonT(30) DEF StageInv, SameClient, OpenPC, CloseFramePC
  <2>3. EntryInv(s)'
    BY <1>1, <2>1, ZenonT(30) DEF StageInv, EntryInv, Fresh, Clean, SameClient, OpenPC, CloseFramePC
  <2> QED
    BY <1>5, <2>1, <2>2, <2>3, ZenonT(30)
<1>14. CASE CloseStored(s)
  <2>1. /\ dpc[s] = "close_stored" /\ dpc'[s] = "closing"
        /\ frames'[s] = frames[s] /\ answer'[s] = answer[s]
        /\ flow_states'[s] = flow_states[s] /\ flow_pins'[s] = flow_pins[s]
        /\ s \in flow_counters' <=> s \in flow_counters
        /\ s \notin forwarder_streams' /\ opened'[s] = opened[s]
        /\ closer'[s]["dispatcher"] = "remove"
        /\ \A a \in Agent : a # "dispatcher" => closer'[s][a] = closer[s][a]
    BY <1>14, ZenonT(30) DEF CloseStored, Goto, TypeOK, tables, eventVars, Agent
  <2>2. StageInv(s)'
    BY <1>1, <2>1, ZenonT(30) DEF StageInv, SameClient, OpenPC, CloseFramePC
  <2>3. EntryInv(s)'
    BY <1>1, <2>1, ZenonT(30) DEF StageInv, EntryInv, Fresh, Clean, SameClient, OpenPC, CloseFramePC
  <2>4. closed[s] = 0 /\ (answer[s] = "connected" => flow_states[s] # NoExit)
    BY <2>1, ZenonT(30) DEF StageInv, EntryInv, CloseFramePC
  <2>5. CloserInv(s)'
    BY <1>1, <1>4, <2>1, <2>4, ZenonT(30) DEF CloserInv, CloserTasks, CloserOne, Cleanup, CleanupAt, Passed, Agent, RelayAgent
  <2> QED
    BY <2>2, <2>3, <2>5
<1> QED
  BY <1>6, <1>7, <1>8, <1>9, <1>10, <1>11, <1>12, <1>13, <1>14 DEF DispatchStep

(* The arithmetic of counters that are 0 or 1. *)
LEMMA Units == 0 # 1 /\ 0 + 1 = 1 /\ 0 <= 0 /\ 0 <= 1 /\ 1 <= 1 /\ ~(0 > 0) /\ 1 > 0
  OBVIOUS

(* CloserOne holds when one agent at most passes, through the swap. *)
LEMMA OnePasses ==
    ASSUME NEW s \in Session, NEW a \in Agent, closed'[s] = 0,
           \A b \in Agent : b # a => ~Passed(s, b)',
           a # "dispatcher" => s \in guard'
    PROVE  CloserOne(s)'
<1>1. RelayAgent \subseteq Agent /\ "dispatcher" \notin RelayAgent
  BY DEF RelayAgent, Agent
<1> QED
  BY <1>1, Zenon DEF CloserOne

LEMMA FlowCloser ==
    ASSUME TypeOK, NEW s \in Session, FlowInvAt(s), NEW a \in Agent, CloserStep(s, a)
    PROVE  FlowInvAt(s)'
<1> USE DEF FlowInvAt
<1>1. /\ client'[s] = client[s] /\ frames'[s] = frames[s] /\ answer'[s] = answer[s]
      /\ s \in forwarder_streams' <=> s \in forwarder_streams
      /\ opened'[s] = opened[s]
  BY ZenonT(30) DEF CloserStep, Swap, RemoveState, MarkClosed, Unpin, PublishClosed,
     CloserUnchanged
<1>2. \A b \in Agent : b # a => closer'[s][b] = closer[s][b] /\ held'[s][b] = held[s][b]
  <2>1. \E pc \in ClosePC : closer' = [closer EXCEPT ![s][a] = pc]
    BY ZenonT(30) DEF CloserStep, Swap, RemoveState, MarkClosed, Unpin, PublishClosed,
       CloseDone, CloserGoto, ClosePC
  <2>2. held' = held \/ \E h \in BOOLEAN : held' = [held EXCEPT ![s][a] = h]
    BY ZenonT(30) DEF CloserStep, Swap, RemoveState, MarkClosed, Unpin, PublishClosed
  <2> QED
    BY <2>1, <2>2 DEF TypeOK
<1>3. /\ \A b \in Agent : closer[s][b] \in ClosePC
      /\ closed[s] \in Nat /\ closer[s][a] # "none"
  BY Z3T(30) DEF TypeOK, CloserStep, Swap, RemoveState, MarkClosed, Unpin, PublishClosed
<1>4. /\ a = "dispatcher" => client[s] = "aborted" /\ dpc[s] = "closing" /\ frames[s] = <<>>
      /\ a # "dispatcher" => /\ client[s] \in {"relaying", "ended"} /\ answer[s] = "connected"
                             /\ dpc[s] = "idle" /\ frames[s] = <<>>
                             /\ closer[s]["dispatcher"] = "none"
  <2>1. dpc[s] \in DispatchPC
    BY ZenonT(30) DEF TypeOK
  <2>2. CASE a = "dispatcher"
    BY <1>3, <2>2, ZenonT(30) DEF StageInv, CloserInv, CloserTasks, CloserOne, Cleanup, CleanupAt, CloseFramePC
  <2>3. CASE a # "dispatcher"
    <3>1. client[s] \in {"relaying", "ended"}
      BY <1>3, <2>3, ZenonT(30) DEF CloserInv, CloserTasks, CloserOne, Cleanup, CleanupAt, Agent, RelayAgent
    <3>2. dpc[s] = "idle" /\ frames[s] = <<>> /\ answer[s] = "connected"
      BY <2>1, <3>1, ZenonT(30) DEF StageInv, DispatchPC, OpenPC, CloseFramePC
    <3> QED
      BY <2>3, <3>1, <3>2, ZenonT(30) DEF CloserInv, CloserTasks
  <2> QED
    BY <2>2, <2>3, Z3T(30)
<1>5. /\ Agent = RelayAgent \cup {"dispatcher"} /\ "dispatcher" \notin RelayAgent
      /\ s \notin forwarder_streams
  BY <1>4 DEF Agent, RelayAgent, EntryInv
(* The close is over: by agent, what its task does next. *)
<1>6. ASSUME CloseDone(s, a)
      PROVE  /\ closer'[s][a] = "none"
             /\ recv'[s] = IF a = "recv" THEN "done" ELSE recv[s]
             /\ send'[s] = IF a \in {"send", "splice"} THEN "done" ELSE send[s]
             /\ dpc'[s] = IF a = "dispatcher" THEN "idle" ELSE dpc[s]
  BY <1>6 DEF CloseDone, CloserGoto, Goto, TypeOK
<1>7. CASE Swap(s, a)
  <2>1. /\ closer[s][a] = "swap" /\ a # "dispatcher" /\ s \in guard' /\ SameEntries(s)
        /\ held'[s] = held[s] /\ ~held[s][a]
    BY <1>7 DEF Swap, CloserInv, CloserTasks, CloserOne, Cleanup, CleanupAt, CloserUnchanged, tables, SameEntries
  <2>2. CASE s \in guard
    <3>1. CloseDone(s, a)
      BY <1>7, <2>2, ZenonT(30) DEF Swap
    <3>2. StageInv(s)'
      BY <1>1, <1>4, <1>6, <2>1, <3>1, ZenonT(30) DEF StageInv
    <3>3. EntryInv(s)'
      BY <1>1, <1>4, <1>6, <2>1, <2>2, <3>1, ZenonT(30) DEF EntryInv, Fresh, Clean, SameEntries
    <3>4. CloserTasks(s)'
      BY <1>1, <1>2, <1>4, <1>5, <1>6, <2>1, <3>1, ZenonT(30) DEF CloserInv, CloserTasks, Agent, RelayAgent
    <3>5. CloserOne(s)'
      BY <1>2, <1>5, <1>6, <2>1, <3>1, ZenonT(30) DEF CloserInv, CloserOne, Passed, SameEntries
    <3>6. Cleanup(s)'
      <4>1. ASSUME NEW b \in Agent PROVE CleanupAt(s, b)'
        <5>1. CASE b = a
          BY <1>6, <2>1, <3>1, <5>1, ZenonT(30) DEF CleanupAt
        <5>2. CASE b # a
          BY <1>1, <1>2, <2>1, <5>2, Z3T(30) DEF CloserInv, Cleanup, CleanupAt, SameEntries
        <5> QED
          BY <5>1, <5>2, ZenonT(30)
      <4> QED
        BY <1>2, <1>4, <2>1, <4>1, ZenonT(30) DEF Cleanup, Agent
    <3> QED
      BY <3>2, <3>3, <3>4, <3>5, <3>6, ZenonT(30) DEF CloserInv
  <2>3. CASE s \notin guard
    <3>1. /\ closer'[s][a] = "remove" /\ recv'[s] = recv[s] /\ send'[s] = send[s]
          /\ dpc'[s] = dpc[s]
      BY <1>7, <2>3, Z3T(30) DEF Swap, CloserGoto, TypeOK
    <3>2. closed[s] = 0 /\ \A b \in Agent : ~Passed(s, b)
      BY <1>3, <1>4, <1>5, <2>1, <2>3, ZenonT(30) DEF EntryInv, CloserInv, CloserTasks, CloserOne, Cleanup, CleanupAt, Passed
    <3>3. StageInv(s)'
      BY <1>1, <1>4, <2>1, <3>1, ZenonT(30) DEF StageInv
    <3>4. EntryInv(s)'
      BY <1>1, <1>4, <2>1, <3>1, <3>2, ZenonT(30) DEF EntryInv, Fresh, Clean, SameEntries
    <3>5. CloserTasks(s)'
      BY <1>1, <1>2, <1>4, <2>1, <3>1, ZenonT(30) DEF CloserInv, CloserTasks, Agent, RelayAgent
    <3>6. CloserOne(s)'
      <4>1. closed'[s] = 0 /\ s \in guard'
        BY <2>1, <3>2, Zenon DEF SameEntries
      <4>2. \A b \in Agent : b # a => ~Passed(s, b)'
        BY <1>2, <3>2, Zenon DEF Passed
      <4> QED
        BY <4>1, <4>2, OnePasses, Zenon
    <3>7. Cleanup(s)'
      <4>1. ASSUME NEW b \in Agent PROVE CleanupAt(s, b)'
        <5>1. CASE b = a
          BY <2>1, <3>1, <5>1, ZenonT(30) DEF CleanupAt
        <5>2. CASE b # a
          BY <1>1, <1>2, <2>1, <5>2, ZenonT(30) DEF CloserInv, Cleanup, CleanupAt, SameEntries
        <5> QED
          BY <5>1, <5>2
      <4> QED
        BY <1>2, <1>4, <2>1, <4>1, ZenonT(30) DEF Cleanup, Agent
    <3> QED
      BY <3>3, <3>4, <3>5, <3>6, <3>7, ZenonT(30) DEF CloserInv
  <2> QED
    BY <2>2, <2>3, ZenonT(30)
<1>8. ASSUME Passed(s, a)
      PROVE  /\ closed[s] = 0 /\ \A b \in Agent : b # a => ~Passed(s, b) /\ ~held[s][b]
             /\ a # "dispatcher" => s \in guard
  BY <1>5, <1>8 DEF CloserInv, CloserTasks, CloserOne, Cleanup, CleanupAt, Passed
<1>9. CASE RemoveState(s, a)
  <2>1. /\ closer[s][a] = "remove" /\ closer'[s][a] = "mark" /\ flow_states'[s] = NoExit
        /\ held'[s][a] <=> flow_states[s] # NoExit
        /\ flow_pins'[s] = flow_pins[s] /\ (s \in flow_counters' <=> s \in flow_counters)
        /\ recv'[s] = recv[s] /\ send'[s] = send[s] /\ dpc'[s] = dpc[s]
        /\ s \in guard' <=> s \in guard
        /\ closed'[s] = closed[s]
    BY <1>9, Zenon DEF RemoveState, remove_state, CloserGoto, TypeOK, TablesTypeOK
  <2>2. StageInv(s)'
    BY <1>1, <2>1, ZenonT(30) DEF StageInv
  <2>3. EntryInv(s)'
    BY <1>1, <1>4, <2>1, ZenonT(30) DEF EntryInv, Fresh, Clean, OpenPC
  <2>4. answer[s] = "closed" => flow_states[s] = NoExit
    BY ZenonT(30) DEF EntryInv, Fresh, Clean
  <2>5. CloserTasks(s)'
    BY <1>1, <1>2, <1>4, <2>1 DEF CloserInv, CloserTasks, Agent, RelayAgent
  <2>6. CloserOne(s)'
    <3>1. Passed(s, a)
      BY <2>1, Zenon DEF Passed
    <3>2. closed'[s] = 0 /\ (a # "dispatcher" => s \in guard')
      BY <1>8, <2>1, <3>1, Zenon
    <3>3. \A b \in Agent : b # a => ~Passed(s, b)'
      BY <1>2, <1>8, <3>1, Zenon DEF Passed
    <3> QED
      BY <3>2, <3>3, OnePasses, Zenon
  <2>7. Cleanup(s)'
    <3>1. \A b \in Agent : b # a => ~Passed(s, b) /\ ~held[s][b]
      BY <1>8, <2>1, ZenonT(30) DEF Passed
    <3>2. ASSUME NEW b \in Agent PROVE CleanupAt(s, b)'
      <4>1. CASE b = a
        BY <1>1, <2>1, <2>4, <4>1, ZenonT(30) DEF CleanupAt
      <4>2. CASE b # a
        BY <1>2, <3>1, <4>2, ZenonT(30) DEF CleanupAt, Passed
      <4> QED
        BY <4>1, <4>2
    <3>3. answer'[s] = "connected" /\ closer'[s]["dispatcher"] # "none" =>
              closer'[s]["dispatcher"] = "mark" /\ held'[s]["dispatcher"]
      BY <1>1, <1>2, <1>4, <2>1, ZenonT(30) DEF CloserInv, Cleanup, Agent
    <3> QED
      BY <3>2, <3>3, ZenonT(30) DEF Cleanup
  <2> QED
    BY <2>2, <2>3, <2>5, <2>6, <2>7 DEF CloserInv
<1>10. CASE MarkClosed(s, a) \/ Unpin(s, a)
  <2>1. /\ \/ /\ closer[s][a] = "mark" /\ closer'[s][a] = "unpin" /\ s \notin flow_counters'
              /\ flow_pins'[s] = flow_pins[s]
           \/ /\ closer[s][a] = "unpin" /\ closer'[s][a] = "publish" /\ flow_pins'[s] = NoExit
              /\ s \in flow_counters' <=> s \in flow_counters
        /\ flow_states'[s] = flow_states[s] /\ held'[s] = held[s]
        /\ recv'[s] = recv[s] /\ send'[s] = send[s] /\ dpc'[s] = dpc[s]
        /\ s \in guard' <=> s \in guard
        /\ closed'[s] = closed[s]
    BY <1>10, Z3T(30) DEF MarkClosed, Unpin, unpin, CloserGoto, TypeOK, TablesTypeOK
  <2>2. StageInv(s)'
    BY <1>1, <2>1, ZenonT(30) DEF StageInv
  <2>3. EntryInv(s)'
    BY <1>1, <1>4, <2>1, ZenonT(30) DEF EntryInv, Fresh, Clean, OpenPC
  <2>4. CloserTasks(s)'
    BY <1>1, <1>2, <1>4, <2>1, Zenon DEF CloserInv, CloserTasks, Agent, RelayAgent
  <2>5. CloserOne(s)'
    BY <1>2, <1>5, <1>8, <2>1, ZenonT(30) DEF CloserOne, Passed
  <2>6. Cleanup(s)'
    <3>1. \A b \in Agent : b # a => ~Passed(s, b) /\ ~held[s][b]
      BY <1>8, <2>1, ZenonT(30) DEF Passed
    <3>2. ASSUME NEW b \in Agent PROVE CleanupAt(s, b)'
      <4>1. CASE b = a
        BY <1>1, <2>1, <4>1, ZenonT(30) DEF CloserInv, Cleanup, CleanupAt
      <4>2. CASE b # a
        BY <1>2, <2>1, <3>1, <4>2, ZenonT(30) DEF CleanupAt, Passed
      <4> QED
        BY <4>1, <4>2
    <3>3. answer'[s] = "connected" /\ closer'[s]["dispatcher"] # "none" =>
              closer'[s]["dispatcher"] \in {"unpin", "publish"} /\ held'[s]["dispatcher"]
      BY <1>1, <1>2, <1>4, <2>1 DEF CloserInv, Cleanup, Agent
    <3> QED
      BY <3>2, <3>3, ZenonT(30) DEF Cleanup
  <2> QED
    BY <2>2, <2>3, <2>4, <2>5, <2>6 DEF CloserInv
<1>11. CASE PublishClosed(s, a)
  <2>1. /\ closer[s][a] = "publish" /\ CloseDone(s, a) /\ ~held'[s][a]
        /\ closed'[s] = IF a # "dispatcher" \/ held[s][a] THEN closed[s] + 1 ELSE closed[s]
        /\ flow_pins'[s] = flow_pins[s] /\ flow_states'[s] = flow_states[s]
        /\ s \in flow_counters' <=> s \in flow_counters
        /\ s \in guard' <=> s \in guard
    BY <1>11, ZenonT(30) DEF PublishClosed, TypeOK, tables
  <2>2. Clean(s) /\ Clean(s)' /\ closed[s] = 0
    BY <1>1, <1>3, <1>5, <1>8, <2>1, ZenonT(30) DEF CloserInv, CloserTasks, CloserOne, Cleanup, CleanupAt, Clean, Passed
  <2>3. StageInv(s)'
    BY <1>1, <1>4, <1>6, <2>1, ZenonT(30) DEF StageInv, OpenPC, CloseFramePC
  <2>4. closed'[s] \in {0, 1} /\ (answer[s] = "closed" => closed'[s] = 0)
        /\ (a = "dispatcher" => closed'[s] = opened[s])
    <3>1. CASE a = "dispatcher"
      <4>1. answer[s] \in {"connected", "closed"}
        <5>1. answer[s] \in {"none", "connected", "closed"}
          BY DEF TypeOK
        <5> QED
          BY <1>4, <3>1, <5>1, ZenonT(30) DEF StageInv
      <4>2. CASE answer[s] = "connected"
        <5>1. opened[s] = 1 /\ held[s][a]
          BY <2>1, <3>1, <4>2, Zenon DEF EntryInv, CloserInv, Cleanup
        <5>2. closed'[s] = 1
          BY <2>1, <2>2, <5>1, Units, Zenon
        <5> QED
          BY <4>2, <5>1, <5>2, Zenon
      <4>3. CASE answer[s] = "closed"
        <5>1. opened[s] = 0 /\ ~held[s][a]
          BY <4>3, Zenon DEF EntryInv, Fresh, CloserInv, Cleanup, CleanupAt
        <5> QED
          BY <2>1, <2>2, <3>1, <5>1, Zenon
      <4> QED
        BY <4>1, <4>2, <4>3, Zenon
    <3>2. CASE a # "dispatcher"
      <4>1. closed'[s] = 1
        BY <2>1, <2>2, <3>2, Units, Zenon
      <4> QED
        BY <1>4, <3>2, <4>1, Zenon
    <3> QED
      BY <3>1, <3>2
  <2>5. EntryInv(s)'
    <3>1. /\ dpc'[s] = "idle" /\ frames'[s] = <<>> /\ (a # "dispatcher" => s \in guard)
          /\ client'[s] \in {"relaying", "ended"} \/ (client'[s] = "aborted" /\ a = "dispatcher")
      BY <1>1, <1>4, <1>6, <1>8, <2>1, ZenonT(30) DEF Passed
    <3>2. answer[s] # "none"
      BY <1>4, ZenonT(30) DEF StageInv
    <3>3. /\ answer[s] = "closed" => opened[s] = 0
          /\ answer[s] = "connected" => opened[s] = 1
          /\ s \notin forwarder_streams
      BY <1>5, ZenonT(30) DEF EntryInv, Fresh
    <3>a. closed'[s] <= 1
      BY <2>4, Units, Zenon
    <3>b. "idle" \notin OpenPC \cup CloseFramePC
      BY DEF OpenPC, CloseFramePC
    <3>c. /\ client'[s] = client[s] /\ answer'[s] = answer[s] /\ opened'[s] = opened[s]
          /\ s \notin forwarder_streams' /\ (a # "dispatcher" => s \in guard')
      BY <1>1, <2>1, <3>1, <3>3, Zenon
    <3>4. CASE a = "dispatcher"
      <4>1. client'[s] = "aborted" /\ closed'[s] = opened'[s]
        BY <1>4, <2>4, <3>4, <3>c, Zenon
      <4> QED
        BY <2>2, <2>4, <3>1, <3>2, <3>3, <3>a, <3>b, <3>c, <4>1, ZenonT(30) DEF EntryInv, Fresh
    <3>5. CASE a # "dispatcher"
      <4>1. client'[s] \in {"relaying", "ended"} /\ answer'[s] = "connected" /\ s \in guard'
        BY <1>4, <3>5, <3>c, Zenon
      <4> QED
        BY <2>2, <2>4, <3>1, <3>3, <3>a, <3>b, <3>c, <4>1, ZenonT(30) DEF EntryInv, Fresh
    <3> QED
      BY <3>4, <3>5, ZenonT(30)
  <2>6. CloserTasks(s)'
    BY <1>1, <1>2, <1>4, <1>5, <1>6, <2>1, ZenonT(30) DEF CloserInv, CloserTasks, Agent, RelayAgent
  <2>7. CloserOne(s)' /\ Cleanup(s)'
    <3>1. \A b \in Agent : b # a => ~Passed(s, b) /\ ~held[s][b]
      BY <1>8, <2>1, ZenonT(30) DEF Passed
    <3>2. \A b \in Agent : ~Passed(s, b)' /\ ~held'[s][b]
      BY <1>2, <1>6, <2>1, <3>1 DEF Passed
    <3> QED
      BY <1>5, <3>2, ZenonT(30) DEF CloserOne, Cleanup, CleanupAt, Passed
  <2> QED
    BY <2>3, <2>5, <2>6, <2>7, ZenonT(30) DEF CloserInv
<1> QED
  BY <1>7, <1>9, <1>10, <1>11 DEF CloserStep

LEMMA InvInit == Init => Inv
  BY TypeInit, FlowInit DEF Inv

LEMMA InvNext == Inv /\ [Next]_vars => Inv'
<1> SUFFICES ASSUME Inv, [Next]_vars PROVE Inv'
  OBVIOUS
<1>1. TypeOK'
  BY TypeNext DEF Inv
<1>2. CASE UNCHANGED vars
  <2>1. \A t \in Session : SameAt(t)
    BY <1>2, Zenon DEF vars, SameAt, tables, clientVars, dispVars, closeVars, eventVars
  <2> QED
    BY <1>1, <2>1, SameAtKeeps DEF Inv, FlowInv
<1>3. ASSUME NEW s \in Session,
             ClientStep(s) \/ RelayStep(s) \/ DispatchStep(s) \/ \E a \in Agent : CloserStep(s, a)
      PROVE  FlowInv'
  <2>1. FlowInvAt(s)'
    BY <1>3, FlowClient, FlowRelay, FlowDispatcher, FlowCloser DEF Inv, FlowInv
  <2>2. ASSUME NEW t \in Session, t # s PROVE FlowInvAt(t)'
    BY <1>3, <2>2, OthersSame, SameAtKeeps DEF Inv, FlowInv
  <2> QED
    BY <2>1, <2>2 DEF FlowInv
<1> QED
  BY <1>1, <1>2, <1>3 DEF Next, Inv

(* FlowClosedOnce, for any number of sessions, exits and relays: a flow is *)
(* reported closed at most once and after it was reported open, whichever  *)
(* of the ends of its transport, the splice or a Close frame closes it     *)
(* (ForwarderClose::close_once, close_flow_if_open); the tables are clean  *)
(* from then on, and an aborted session is reported closed.                *)
THEOREM ClosedOnceCorrect == Spec => []FlowClosedOnce
<1>1. Inv => FlowClosedOnce
  <2> SUFFICES ASSUME Inv, NEW s \in Session
               PROVE  /\ closed[s] <= opened[s] /\ opened[s] <= 1
                      /\ closed[s] > 0 => Clean(s)
                      /\ client[s] = "aborted" /\ AtRest(s) => Clean(s) /\ closed[s] = opened[s]
    BY DEF Inv, FlowClosedOnce
  <2>1. /\ FlowInvAt(s) /\ opened[s] \in Nat /\ closed[s] \in Nat
        /\ dpc[s] \in DispatchPC /\ answer[s] \in {"none", "connected", "closed"}
        /\ client[s] \in ClientState
    BY DEF Inv, FlowInv, TypeOK
  <2>2. closed[s] <= opened[s] /\ opened[s] <= 1
    <3>1. CASE answer[s] = "none"
      <4>1. dpc[s] \notin CloseFramePC
        BY <2>1, <3>1, Zenon DEF FlowInvAt, StageInv
      <4>2. \/ dpc[s] \in {"idle", "try", "pin"}
            \/ dpc[s] \in {"insert", "mark", "store", "publish"} /\ dpc[s] \in OpenPC
            \/ dpc[s] = "return" /\ dpc[s] \in OpenPC
        BY <2>1, <4>1, Zenon DEF DispatchPC, OpenPC, CloseFramePC
      <4>3. closed[s] = 0 /\ opened[s] \in {0, 1}
        BY <2>1, <3>1, <4>2, Zenon DEF FlowInvAt, EntryInv, Fresh
      <4> QED
        BY <4>3, Units, Zenon
    <3>2. CASE answer[s] = "connected"
      BY <2>1, <3>2, Units, Zenon DEF FlowInvAt, EntryInv
    <3>3. CASE answer[s] = "closed"
      BY <2>1, <3>3, Units, Zenon DEF FlowInvAt, EntryInv, Fresh
    <3> QED
      BY <2>1, <3>1, <3>2, <3>3
  <2>3. closed[s] > 0 => Clean(s)
    BY <2>1, ZenonT(30) DEF FlowInvAt, EntryInv
  <2>4. client[s] = "aborted" /\ AtRest(s) => Clean(s) /\ closed[s] = opened[s]
    BY <2>1 DEF FlowInvAt, EntryInv, AtRest
  <2> QED
    BY <2>2, <2>3, <2>4
<1> QED
  BY <1>1, InvInit, InvNext, PTL DEF Spec

-----------------------------------------------------------------------------
(* Source activity: only mark_open and mark_closed change which flows are  *)
(* counted, and each of them changes it for one flow.                      *)

LEMMA CountedSame ==
    ASSUME NEW t \in Session, SameAt(t)
    PROVE  Counted(t)' <=> Counted(t)
  BY Zenon DEF SameAt, Counted

LEMMA CountedClient ==
    ASSUME NEW s \in Session, ClientStep(s)
    PROVE  /\ source_activity' = source_activity /\ idle_since' = idle_since
           /\ Counted(s)' <=> Counted(s)
<1>1. /\ source_activity' = source_activity /\ idle_since' = idle_since
      /\ flow_states' = flow_states /\ dpc' = dpc /\ held' = held /\ closer' = closer
  BY ZenonT(30) DEF ClientStep, ClientConnect, ClientConnectReturn, ClientConnectTimeout,
     ClientReplyFails, ClientAbort, StartRelay, StartSplice, StartSpliceFails, KernelUnchanged,
     tables
<1> QED
  BY <1>1 DEF Counted

(* A receive task that starts a close, or is cancelled in one, does not    *)
(* hold a state still to be discounted.                                    *)
LEMMA CountedRelay ==
    ASSUME TypeOK, NEW s \in Session, FlowInvAt(s), RelayStep(s)
    PROVE  /\ source_activity' = source_activity /\ idle_since' = idle_since
           /\ Counted(s)' <=> Counted(s)
<1>1. /\ source_activity' = source_activity /\ idle_since' = idle_since
      /\ flow_states' = flow_states /\ dpc' = dpc
  BY ZenonT(30) DEF RelayStep, RecvEof, RecvWriteFails, SendEnds, PeerClose, SelectRecvDone,
     SelectSendDone, RecvCancelled, SpliceEnds, RelayEnds, RelayUnchanged, tables, dispVars
<1>2. /\ closer \in [Session -> [Agent -> ClosePC]]
      /\ held \in [Session -> [Agent -> BOOLEAN]]
      /\ {"recv", "send", "splice"} \subseteq Agent
  BY Zenon DEF TypeOK, Agent
<1>3. \/ closer' = closer /\ held' = held
      \/ \E a \in Agent : /\ closer' = [closer EXCEPT ![s][a] = "swap"] /\ held' = held
                          /\ closer[s][a] = "none"
      \/ /\ closer' = [closer EXCEPT ![s]["recv"] = "none"]
         /\ held' = [held EXCEPT ![s]["recv"] = FALSE]
         /\ closer[s]["recv"] # "mark"
  <2>1. /\ recv[s] = "run" => closer[s]["recv"] = "none"
        /\ send[s] = "run" => closer[s]["send"] = "none"
        /\ send[s] = "off" => closer[s]["splice"] = "none"
    BY DEF FlowInvAt, CloserInv, CloserTasks
  <2>2. CASE RecvEof(s)
    BY <1>2, <2>1, <2>2, Zenon DEF RecvEof, StartClose
  <2>3. CASE PeerClose(s)
    BY <1>2, <2>1, <2>3, Zenon DEF PeerClose, StartClose
  <2>4. CASE SpliceEnds(s)
    BY <1>2, <2>1, <2>4, Zenon DEF SpliceEnds, StartClose
  <2>5. CASE RecvCancelled(s)
    BY <2>1, <2>5, ZenonT(30) DEF RecvCancelled
  <2> QED
    BY <2>2, <2>3, <2>4, <2>5, Zenon DEF RelayStep, RecvWriteFails, SendEnds, SelectRecvDone,
       SelectSendDone, RelayEnds
<1>4. \A a \in Agent : (held'[s][a] /\ closer'[s][a] = "mark")
                           <=> (held[s][a] /\ closer[s][a] = "mark")
  BY <1>2, <1>3
<1> QED
  BY <1>1, <1>4 DEF Counted

LEMMA CountedDispatch ==
    ASSUME TypeOK, NEW s \in Session, FlowInvAt(s), DispatchStep(s), ~MarkOpen(s)
    PROVE  /\ source_activity' = source_activity /\ idle_since' = idle_since
           /\ Counted(s)' <=> Counted(s)
<1> USE DEF Goto, tables, closeVars, eventVars
<1>1. CASE InsertState(s)
  <2>1. /\ held' = held /\ closer' = closer /\ dpc[s] = "insert"
        /\ flow_states[s] = NoExit /\ dpc'[s] = "mark"
    BY <1>1 DEF InsertState, FlowInvAt, EntryInv, TypeOK
  <2> QED
    BY <1>1, <2>1, ZenonT(30) DEF InsertState, Counted
<1>2. CASE CloseStored(s)
  <2>1. /\ held' = held /\ flow_states' = flow_states
        /\ dpc[s] = "close_stored" /\ dpc'[s] = "closing"
        /\ closer'[s]["dispatcher"] = "remove"
        /\ \A a \in Agent : a # "dispatcher" => closer'[s][a] = closer[s][a]
    BY <1>2, ZenonT(30) DEF CloseStored, TypeOK, Agent
  <2>2. closer[s]["dispatcher"] = "none"
    BY <2>1, ZenonT(30) DEF FlowInvAt, CloserInv, CloserTasks
  <2>3. Counted(s)' <=> Counted(s)
    BY <2>1, <2>2, Zenon DEF Counted
  <2> QED
    BY <1>2, <2>3, ZenonT(30) DEF CloseStored
<1>3. CASE ~InsertState(s) /\ ~CloseStored(s)
  <2>1. /\ held' = held /\ closer' = closer /\ flow_states' = flow_states
        /\ source_activity' = source_activity /\ idle_since' = idle_since
    BY <1>3, ZenonT(30) DEF DispatchStep, DispatchOpen, OpenForwarder, OpenForwarderFails,
       NoUsableExit, Pin, StoreForwarder, PublishOpened, ReturnConnected, CloseFrame, ClosePin,
       CloseEgress
  <2>2. dpc[s] # "mark" /\ dpc'[s] # "mark"
    BY <1>3, ZenonT(60) DEF DispatchStep, DispatchOpen, OpenForwarder, OpenForwarderFails,
       NoUsableExit, Pin, StoreForwarder, PublishOpened, ReturnConnected, CloseFrame, ClosePin,
       CloseEgress, TypeOK
  <2> QED
    BY <2>1, <2>2, ZenonT(30) DEF Counted
<1> QED
  BY <1>1, <1>2, <1>3

LEMMA CountedCloser ==
    ASSUME TypeOK, NEW s \in Session, FlowInvAt(s), NEW a \in Agent, CloserStep(s, a),
           ~(MarkClosed(s, a) /\ held[s][a])
    PROVE  /\ source_activity' = source_activity /\ idle_since' = idle_since
           /\ Counted(s)' <=> Counted(s)
<1>1. dpc[s] # "mark" /\ dpc'[s] # "mark"
  <2>1. closer[s][a] # "none"
    BY DEF CloserStep, Swap, RemoveState, MarkClosed, Unpin, PublishClosed
  <2>2. dpc[s] # "mark"
    BY <2>1, ZenonT(30) DEF FlowInvAt, CloserInv, CloserTasks, StageInv, Agent, RelayAgent, OpenPC
  <2> QED
    BY <2>2, ZenonT(30) DEF CloserStep, Swap, RemoveState, MarkClosed, Unpin, PublishClosed,
       CloseDone, Goto, TypeOK
<1>2. \A x \in Agent : x # a => closer'[s][x] = closer[s][x] /\ held'[s][x] = held[s][x]
  <2>1. \E pc \in ClosePC : closer' = [closer EXCEPT ![s][a] = pc]
    BY ZenonT(30) DEF CloserStep, Swap, RemoveState, MarkClosed, Unpin, PublishClosed,
       CloseDone, CloserGoto, ClosePC
  <2>2. held' = held \/ \E h \in BOOLEAN : held' = [held EXCEPT ![s][a] = h]
    BY ZenonT(30) DEF CloserStep, Swap, RemoveState, MarkClosed, Unpin, PublishClosed
  <2> QED
    BY <2>1, <2>2 DEF TypeOK
<1>3. source_activity' = source_activity /\ idle_since' = idle_since
  BY DEF CloserStep, Swap, RemoveState, MarkClosed, Unpin, PublishClosed, tables
<1>4. CASE RemoveState(s, a)
  <2>1. /\ flow_states'[s] = NoExit /\ closer[s][a] = "remove" /\ closer'[s][a] = "mark"
        /\ held'[s][a] <=> flow_states[s] # NoExit
    BY <1>4, ZenonT(30) DEF RemoveState, remove_state, CloserGoto, TypeOK, TablesTypeOK
  <2>2. Counted(s)' <=> Counted(s)
    BY <1>1, <1>2, <2>1, ZenonT(60) DEF Counted
  <2> QED
    BY <1>3, <2>2
<1>5. CASE ~RemoveState(s, a)
  <2>1. /\ flow_states' = flow_states
        /\ ~(held[s][a] /\ closer[s][a] = "mark")
    BY <1>5, ZenonT(30) DEF CloserStep, Swap, MarkClosed, Unpin, PublishClosed, tables
  <2>2. ~(held'[s][a] /\ closer'[s][a] = "mark")
    <3>1. \E pc \in {"none", "remove", "unpin", "publish"} : closer' = [closer EXCEPT ![s][a] = pc]
      BY <1>5, ZenonT(30) DEF CloserStep, Swap, MarkClosed, Unpin, PublishClosed, CloseDone,
         CloserGoto
    <3> QED
      BY <3>1 DEF TypeOK
  <2>3. Counted(s)' <=> Counted(s)
    BY <1>1, <1>2, <2>1, <2>2, Zenon DEF Counted
  <2> QED
    BY <1>3, <2>3
<1> QED
  BY <1>4, <1>5

CountedOf(k) == {s \in Session : SourceOf[s] = k /\ Counted(s)}

LEMMA CountedFinite ==
    ASSUME NEW k \in Source
    PROVE  IsFiniteSet(CountedOf(k)) /\ Cardinality(CountedOf(k)) \in Nat
  BY TablesAssumption, FS_Subset, FS_CardinalityType, ZenonT(30) DEF CountedOf

LEMMA ActivityMarkOpen ==
    ASSUME Inv, ActivityMatchesFlows, NEW s \in Session, MarkOpen(s)
    PROVE  ActivityMatchesFlows'
<1>1. ASSUME NEW t \in Session, t # s PROVE Counted(t)' <=> Counted(t)
  BY <1>1, OthersSame, CountedSame DEF Inv, DispatchStep
<1>2. ~Counted(s) /\ Counted(s)'
  <2>1. /\ dpc[s] = "mark" /\ dpc'[s] = "store" /\ flow_states' = flow_states
    BY ZenonT(30) DEF MarkOpen, Goto, Inv, TypeOK
  <2>2. flow_states[s] # NoExit
    BY <2>1, ZenonT(30) DEF Inv, FlowInv, FlowInvAt, EntryInv
  <2>3. ASSUME NEW a \in Agent PROVE ~(held[s][a] /\ closer[s][a] = "mark")
    BY <2>1, <2>3, <2>2, ZenonT(30) DEF Inv, FlowInv, FlowInvAt, CloserInv, Cleanup, CleanupAt
  <2> QED
    BY <2>1, <2>2, <2>3, ZenonT(30) DEF Counted
<1>3. ASSUME NEW k \in Source
      PROVE  /\ source_activity'[k] = Cardinality(CountedOf(k)')
             /\ k \in idle_since' => source_activity'[k] = 0
  <2>1. /\ source_activity[k] = Cardinality(CountedOf(k))
        /\ k \in idle_since => source_activity[k] = 0
    BY ZenonT(30) DEF ActivityMatchesFlows, CountedOf
  <2>2. CASE k = SourceOf[s]
    <3>1. CountedOf(k)' = CountedOf(k) \cup {s} /\ s \notin CountedOf(k)
      BY <1>1, <1>2, <2>2 DEF CountedOf
    <3>2. Cardinality(CountedOf(k)') = Cardinality(CountedOf(k)) + 1
      BY <3>1, CountedFinite, FS_AddElement, ZenonT(30)
    <3>3. source_activity'[k] = source_activity[k] + 1 /\ k \notin idle_since'
      BY <2>2 DEF MarkOpen, mark_open, Inv, TypeOK, TablesTypeOK
    <3> QED
      BY <2>1, <3>2, <3>3, ZenonT(30)
  <2>3. CASE k # SourceOf[s]
    <3>1. CountedOf(k)' = CountedOf(k)
      BY <1>1, <2>3, ZenonT(30) DEF CountedOf
    <3>2. source_activity'[k] = source_activity[k] /\ (k \in idle_since' => k \in idle_since)
      BY <2>3 DEF MarkOpen, mark_open, Inv, TypeOK, TablesTypeOK
    <3> QED
      BY <2>1, <3>1, <3>2, Zenon
  <2> QED
    BY <2>2, <2>3, ZenonT(30)
<1> QED
  BY <1>3 DEF ActivityMatchesFlows, CountedOf

LEMMA ActivityMarkClosed ==
    ASSUME Inv, ActivityMatchesFlows, NEW s \in Session, NEW a \in Agent, MarkClosed(s, a),
           held[s][a]
    PROVE  ActivityMatchesFlows'
<1>1. ASSUME NEW t \in Session, t # s PROVE Counted(t)' <=> Counted(t)
  BY <1>1, OthersSame, CountedSame, ZenonT(30) DEF Inv, CloserStep
<1>2. Counted(s) /\ ~Counted(s)'
  <2>1. /\ closer[s][a] = "mark" /\ closer'[s][a] = "unpin"
        /\ flow_states' = flow_states /\ held' = held
        /\ \A x \in Agent : x # a => closer'[s][x] = closer[s][x]
    BY ZenonT(30) DEF MarkClosed, CloserGoto, Inv, TypeOK
  <2>2. flow_states[s] = NoExit
    BY <2>1, ZenonT(30) DEF Inv, FlowInv, FlowInvAt, CloserInv, Cleanup, CleanupAt
  <2>3. \A x \in Agent : closer[s][x] = "mark" => x = a
    BY <2>1, ZenonT(30) DEF Inv, FlowInv, FlowInvAt, CloserInv, CloserOne, Passed
  <2> QED
    BY <2>1, <2>2, <2>3, ZenonT(30) DEF Counted
<1>3. ASSUME NEW k \in Source
      PROVE  /\ source_activity'[k] = Cardinality(CountedOf(k)')
             /\ k \in idle_since' => source_activity'[k] = 0
  <2>1. /\ source_activity[k] = Cardinality(CountedOf(k)) /\ source_activity[k] \in Nat
        /\ k \in idle_since => source_activity[k] = 0
    BY ZenonT(30) DEF ActivityMatchesFlows, CountedOf, Inv, TypeOK, TablesTypeOK
  <2>2. CASE k = SourceOf[s]
    <3>1. CountedOf(k)' = CountedOf(k) \ {s} /\ s \in CountedOf(k)
      BY <1>1, <1>2, <2>2 DEF CountedOf
    <3>2. Cardinality(CountedOf(k)') = Cardinality(CountedOf(k)) - 1
      BY <3>1, CountedFinite, FS_RemoveElement, ZenonT(30)
    <3>3. CountedOf(k) # {} /\ Cardinality(CountedOf(k)) # 0
      BY <3>1, CountedFinite, FS_EmptySet, ZenonT(30)
    <3>4. /\ source_activity'[k] = source_activity[k] - 1
          /\ k \in idle_since' => k \in idle_since \/ source_activity'[k] = 0
      BY <2>1, <2>2, <3>3 DEF MarkClosed, mark_closed, Inv, TypeOK, TablesTypeOK
    <3> QED
      BY <2>1, <3>2, <3>3, <3>4, ZenonT(60)
  <2>3. CASE k # SourceOf[s]
    <3>1. CountedOf(k)' = CountedOf(k)
      BY <1>1, <2>3, ZenonT(30) DEF CountedOf
    <3>2. source_activity'[k] = source_activity[k] /\ (k \in idle_since' => k \in idle_since)
      BY <2>3 DEF MarkClosed, mark_closed, Inv, TypeOK, TablesTypeOK
    <3> QED
      BY <2>1, <3>1, <3>2, ZenonT(30)
  <2> QED
    BY <2>2, <2>3
<1> QED
  BY <1>3, Zenon DEF ActivityMatchesFlows, CountedOf

LEMMA ActivityOther ==
    ASSUME ActivityMatchesFlows, source_activity' = source_activity, idle_since' = idle_since,
           \A t \in Session : Counted(t)' <=> Counted(t)
    PROVE  ActivityMatchesFlows'
<1>1. ASSUME NEW k \in Source PROVE CountedOf(k)' = CountedOf(k)
  BY DEF CountedOf
<1> QED
  BY <1>1, Zenon DEF ActivityMatchesFlows, CountedOf

LEMMA ActivityNext ==
    ASSUME Inv, ActivityMatchesFlows, [Next]_vars
    PROVE  ActivityMatchesFlows'
<1>1. CASE UNCHANGED vars
  <2>1. \A t \in Session : SameAt(t)
    BY <1>1, Zenon DEF vars, SameAt, tables, clientVars, dispVars, closeVars, eventVars
  <2>2. source_activity' = source_activity /\ idle_since' = idle_since
    BY <1>1 DEF vars, tables
  <2> QED
    BY <2>1, <2>2, CountedSame, ActivityOther, Zenon
<1>2. ASSUME NEW s \in Session,
             ClientStep(s) \/ RelayStep(s) \/ DispatchStep(s) \/ \E a \in Agent : CloserStep(s, a)
      PROVE  ActivityMatchesFlows'
  <2>1. ASSUME NEW t \in Session, t # s PROVE Counted(t)' <=> Counted(t)
    BY <1>2, <2>1, OthersSame, CountedSame DEF Inv
  <2>2. TypeOK /\ FlowInvAt(s)
    BY DEF Inv, FlowInv
  <2>3. CASE MarkOpen(s)
    BY <2>3, ActivityMarkOpen
  <2>4. CASE \E a \in Agent : MarkClosed(s, a) /\ held[s][a]
    BY <2>4, ActivityMarkClosed
  <2>5. CASE ~MarkOpen(s) /\ ~(\E a \in Agent : MarkClosed(s, a) /\ held[s][a])
    <3>1. CASE ClientStep(s)
      BY <2>1, <3>1, CountedClient, ActivityOther, ZenonT(30)
    <3>2. CASE RelayStep(s)
      BY <2>1, <2>2, <3>2, CountedRelay, ActivityOther, ZenonT(30)
    <3>3. CASE DispatchStep(s)
      BY <2>1, <2>2, <2>5, <3>3, CountedDispatch, ActivityOther, ZenonT(30)
    <3>4. CASE \E a \in Agent : CloserStep(s, a)
      BY <2>1, <2>2, <2>5, <3>4, CountedCloser, ActivityOther, SMTT(60)
    <3> QED
      BY <1>2, <3>1, <3>2, <3>3, <3>4, ZenonT(30)
  <2> QED
    BY <2>3, <2>4, <2>5
<1> QED
  BY <1>1, <1>2 DEF Next

LEMMA ActivityInit == Init => ActivityMatchesFlows
<1> SUFFICES ASSUME Init PROVE ActivityMatchesFlows
  BY ZenonT(30)
<1>1. \A t \in Session : ~Counted(t)
  BY DEF Init, TablesInit, Counted
<1>2. \A k \in Source : {s \in Session : SourceOf[s] = k /\ Counted(s)} = {}
  BY <1>1
<1> QED
  BY <1>2, FS_EmptySet, Zenon DEF Init, TablesInit, ActivityMatchesFlows

(* ActivityMatchesFlows, for any number of sessions, exits and sources:    *)
(* the activity counter of a source is the number of its open flows,       *)
(* whichever task removes the state, and however far a cancelled           *)
(* close_once had come.                                                    *)
THEOREM ForwarderActivityCorrect == Spec => []ActivityMatchesFlows
<1>1. Init => Inv /\ ActivityMatchesFlows
  BY InvInit, ActivityInit
<1>2. Inv /\ ActivityMatchesFlows /\ [Next]_vars => (Inv /\ ActivityMatchesFlows)'
  BY InvNext, ActivityNext
<1> QED
  BY <1>1, <1>2, PTL DEF Spec
=============================================================================
