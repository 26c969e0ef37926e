-------------------------- MODULE FlowLedgerProofs --------------------------
(***************************************************************************)
(* What FlowDispatch counts: the payloads of an exit reach the client in   *)
(* order and none is missing, and the source activity table counts exactly *)
(* the flows that are open.                                                *)
(***************************************************************************)
EXTENDS FlowTableProofs, FiniteSetTheorems

(* The payloads of e between the exit and the client. *)
PayloadInvAt(s, e) ==
    s \in receiving =>
        /\ \A i, j \in DataAt(returns[s], e) : i < j => returns[s][i].seq < returns[s][j].seq
        /\ \E n \in got[s][e]..made[s][e] :
            /\ {returns[s][i].seq : i \in DataAt(returns[s], e)} = (got[s][e] + 1)..n
            /\ ~aborted[s][e] \/ ppc[s][e] # "off" =>
                 n + (IF ppc[s][e] = "deliver" THEN 1 ELSE 0) = made[s][e]

PayloadInv == \A s \in Session, e \in Exit : PayloadInvAt(s, e)

(* The payloads of an exit.                                                *)

Seqs(q, e) == {q[i].seq : i \in DataAt(q, e)}
Rising(q, e) == \A i, j \in DataAt(q, e) : i < j => q[i].seq < q[j].seq

(* An event that is no payload of e may be queued behind its payloads.     *)
LEMMA QueueOther ==
    ASSUME NEW e \in Exit, NEW q \in Seq(ReturnEvent), NEW ev \in ReturnEvent,
           ~(ev.kind = "Data" /\ ev.from = e)
    PROVE  DataAt(Append(q, ev), e) = DataAt(q, e)
           /\ \A i \in DataAt(q, e) : Append(q, ev)[i] = q[i]
<1> DEFINE r == Append(q, ev)
<1>1. /\ DOMAIN q = 1..Len(q) /\ DOMAIN r = 1..(Len(q) + 1) /\ Len(q) \in Nat
      /\ \A i \in 1..Len(q) : r[i] = q[i]
      /\ r[Len(q) + 1] = ev
  BY AppendSeq
<1> HIDE DEF r
<1>2. ASSUME NEW i PROVE i \in DataAt(r, e) <=> i \in DataAt(q, e)
  <2>1. CASE i \in 1..Len(q)
    BY <1>1, <2>1 DEF DataAt
  <2>2. CASE i = Len(q) + 1
    BY <1>1, <2>2 DEF DataAt
  <2>3. CASE i \notin 1..(Len(q) + 1)
    BY <1>1, <2>3 DEF DataAt
  <2> QED
    BY <1>1, <2>1, <2>2, <2>3
<1>3. DataAt(r, e) = DataAt(q, e) /\ \A i \in DataAt(q, e) : r[i] = q[i]
  BY <1>1, <1>2 DEF DataAt
<1> QED
  BY <1>3, Zenon DEF r

LEMMA QueuePayload ==
    ASSUME NEW e \in Exit, NEW q \in Seq(ReturnEvent), NEW m \in 1..MaxPayload,
           Rising(q, e), \A x \in Seqs(q, e) : x < m
    PROVE  Rising(Append(q, Data(e, m)), e) /\ Seqs(Append(q, Data(e, m)), e) = Seqs(q, e) \cup {m}
<1> DEFINE r == Append(q, Data(e, m))
<1>1. Data(e, m) \in ReturnEvent /\ Data(e, m).kind = "Data" /\ Data(e, m).from = e
      /\ Data(e, m).seq = m
  BY ReturnEvents, Z3T(30) DEF Data
<1>2. /\ DOMAIN q = 1..Len(q) /\ DOMAIN r = 1..(Len(q) + 1) /\ Len(q) \in Nat
      /\ \A i \in 1..Len(q) : r[i] = q[i]
      /\ r[Len(q) + 1] = Data(e, m)
  BY <1>1, AppendSeq
<1> HIDE DEF r
<1>3. ASSUME NEW i PROVE i \in DataAt(r, e) <=> i \in DataAt(q, e) \/ i = Len(q) + 1
  <2>1. CASE i \in 1..Len(q)
    BY <1>2, <2>1 DEF DataAt
  <2>2. CASE i = Len(q) + 1
    BY <1>1, <1>2, <2>2 DEF DataAt
  <2>3. CASE i \notin 1..(Len(q) + 1)
    BY <1>2, <2>3 DEF DataAt
  <2> QED
    BY <1>2, <2>1, <2>2, <2>3
<1>4. /\ r[Len(q) + 1].seq = m
      /\ \A i \in DataAt(q, e) : r[i].seq = q[i].seq /\ i \in 1..Len(q) /\ q[i].seq < m
  BY <1>1, <1>2 DEF DataAt, Seqs
<1>5. Rising(r, e)
  BY <1>2, <1>3, <1>4 DEF Rising
<1>6. Seqs(r, e) = Seqs(q, e) \cup {m}
  BY <1>3, <1>4, ZenonT(30) DEF Seqs
<1> QED
  BY <1>5, <1>6 DEF r

(* The payloads behind the first event. *)
LEMMA QueueTail ==
    ASSUME NEW e \in Exit, NEW q \in Seq(ReturnEvent), q # <<>>, Rising(q, e)
    PROVE  /\ Rising(Tail(q), e)
           /\ ~(Head(q).kind = "Data" /\ Head(q).from = e) => Seqs(Tail(q), e) = Seqs(q, e)
           /\ Head(q).kind = "Data" /\ Head(q).from = e =>
                 /\ Seqs(Tail(q), e) = Seqs(q, e) \ {Head(q).seq}
                 /\ Head(q).seq \in Seqs(q, e)
                 /\ \A x \in Seqs(q, e) : x = Head(q).seq \/ Head(q).seq < x
<1> DEFINE r == Tail(q)
<1> DEFINE h == Head(q)
<1>1. /\ DOMAIN q = 1..Len(q) /\ DOMAIN r = 1..(Len(q) - 1) /\ Len(q) \in Nat /\ Len(q) >= 1
      /\ \A i \in 1..(Len(q) - 1) : r[i] = q[i + 1]
      /\ h = q[1]
  BY HeadTailSeq
<1> HIDE DEF r, h
<1>2. /\ \A i \in DataAt(r, e) : i + 1 \in DataAt(q, e) /\ r[i].seq = q[i + 1].seq /\ i \in Nat
      /\ \A j \in DataAt(q, e) : j # 1 => j - 1 \in DataAt(r, e) /\ r[j - 1].seq = q[j].seq
      /\ \A j \in DataAt(q, e) : j \in Nat /\ j >= 1
      /\ 1 \in DataAt(q, e) <=> h.kind = "Data" /\ h.from = e
  BY <1>1 DEF DataAt
<1>3. Rising(r, e)
  BY <1>2 DEF Rising
<1>4. ASSUME NEW x PROVE x \in Seqs(r, e) <=> \E j \in DataAt(q, e) : j # 1 /\ x = q[j].seq
  <2>1. ASSUME NEW i \in DataAt(r, e), x = r[i].seq
        PROVE  \E j \in DataAt(q, e) : j # 1 /\ x = q[j].seq
    <3>1. i + 1 \in DataAt(q, e) /\ i + 1 # 1 /\ x = q[i + 1].seq
      <4>1. i + 1 # 1
        BY <1>1 DEF DataAt
      <4> QED
        BY <1>2, <2>1, <4>1, Zenon
    <3> QED
      BY <3>1, Zenon
  <2>2. ASSUME NEW j \in DataAt(q, e), j # 1, x = q[j].seq
        PROVE  \E i \in DataAt(r, e) : x = r[i].seq
    BY <1>2, <2>2, Zenon
  <2> QED
    BY <2>1, <2>2, Zenon DEF Seqs
<1>5. CASE ~(h.kind = "Data" /\ h.from = e)
  <2>1. Seqs(r, e) = Seqs(q, e)
    BY <1>2, <1>4, <1>5 DEF Seqs
  <2> QED
    BY <1>3, <1>5, <2>1, ZenonT(30) DEF r, h
<1>6. CASE h.kind = "Data" /\ h.from = e
  <2>1. 1 \in DataAt(q, e) /\ \A j \in DataAt(q, e) : j # 1 => h.seq < q[j].seq
    BY <1>1, <1>2, <1>6 DEF Rising
  <2>2. \A j \in DataAt(q, e) : q[j].seq \in Nat
    <3>1. \A j \in DataAt(q, e) : q[j] \in ReturnEvent /\ q[j].kind = "Data"
      BY <1>1 DEF DataAt
    <3> QED
      BY <3>1, DataEvent, DispatchAssumption
  <2>3. Seqs(r, e) = Seqs(q, e) \ {h.seq}
    <3>1. ASSUME NEW j \in DataAt(q, e), j # 1 PROVE q[j].seq # h.seq
      BY <1>1, <2>1, <2>2, <3>1
    <3>2. ASSUME NEW x PROVE x \in Seqs(r, e) <=> x \in Seqs(q, e) /\ x # h.seq
      <4>1. ASSUME x \in Seqs(r, e) PROVE x \in Seqs(q, e) /\ x # h.seq
        <5>1. PICK j \in DataAt(q, e) : j # 1 /\ x = q[j].seq
          BY <1>4, <4>1
        <5> QED
          BY <5>1, <3>1, Zenon DEF Seqs
      <4>2. ASSUME x \in Seqs(q, e), x # h.seq PROVE x \in Seqs(r, e)
        <5>1. PICK j \in DataAt(q, e) : x = q[j].seq
          BY <4>2, Zenon DEF Seqs
        <5>2. j # 1
          BY <1>1, <4>2, <5>1, Zenon
        <5> QED
          BY <1>4, <5>1, <5>2, ZenonT(30)
      <4> QED
        BY <4>1, <4>2, Zenon
    <3> QED
      BY <3>2
  <2>4. h.seq \in Seqs(q, e) /\ \A x \in Seqs(q, e) : x = h.seq \/ h.seq < x
    BY <1>1, <2>1 DEF Seqs
  <2> QED
    BY <1>3, <1>6, <2>3, <2>4, ZenonT(30) DEF r, h
<1> QED
  BY <1>5, <1>6

PayloadsAt(s, e) ==
    /\ Rising(returns[s], e)
    /\ \E n \in got[s][e]..made[s][e] :
        /\ Seqs(returns[s], e) = (got[s][e] + 1)..n
        /\ ~aborted[s][e] \/ ppc[s][e] # "off" =>
             n + (IF ppc[s][e] = "deliver" THEN 1 ELSE 0) = made[s][e]

LEMMA PayloadsAtIs ==
    ASSUME NEW s \in Session, NEW e \in Exit
    PROVE  PayloadInvAt(s, e) <=> (s \in receiving => PayloadsAt(s, e))
  BY Zenon DEF PayloadInvAt, PayloadsAt, Rising, Seqs

LEMMA PayloadsAtIsNext ==
    ASSUME NEW s \in Session, NEW e \in Exit
    PROVE  PayloadInvAt(s, e)' <=> (s \in receiving' => PayloadsAt(s, e)')
  BY Zenon DEF PayloadInvAt, PayloadsAt, Rising, Seqs

LEMMA PayloadInit == Init => PayloadInv
<1> SUFFICES ASSUME Init, NEW s \in Session, NEW e \in Exit PROVE PayloadInvAt(s, e)
  BY DEF PayloadInv
<1>1. /\ returns[s] = <<>> /\ got[s][e] = 0 /\ made[s][e] = 0 /\ ppc[s][e] = "off"
  BY DEF Init
<1>2. DataAt(returns[s], e) = {}
  BY <1>1 DEF DataAt
<1>3. {returns[s][i].seq : i \in DataAt(returns[s], e)} = (got[s][e] + 1)..0
  BY <1>1, <1>2
<1> QED
  BY <1>1, <1>2, <1>3 DEF PayloadInvAt

(* A step that neither queues nor takes a payload of e. *)
LEMMA PayloadKeeps ==
    ASSUME NEW s \in Session, NEW e \in Exit, PayloadInvAt(s, e),
           SameReceiver(s), got'[s][e] = got[s][e], made'[s][e] = made[s][e],
           Rising(returns[s], e) => Rising(returns'[s], e),
           Seqs(returns'[s], e) = Seqs(returns[s], e),
           \/ aborted'[s][e] /\ ppc'[s][e] = "off"
           \/ /\ ~aborted[s][e] \/ ppc[s][e] # "off"
              /\ ppc'[s][e] = "deliver" <=> ppc[s][e] = "deliver"
           \/ (aborted[s][e] => aborted'[s][e]) /\ ppc'[s][e] = ppc[s][e]
    PROVE  PayloadInvAt(s, e)'
<1> SUFFICES ASSUME s \in receiving' PROVE PayloadsAt(s, e)'
  BY PayloadsAtIsNext, ZenonT(30)
<1>1. PayloadsAt(s, e)
  BY PayloadsAtIs, ZenonT(30) DEF SameReceiver
<1>2. PICK n \in got[s][e]..made[s][e] :
        /\ Seqs(returns[s], e) = (got[s][e] + 1)..n
        /\ ~aborted[s][e] \/ ppc[s][e] # "off" =>
             n + (IF ppc[s][e] = "deliver" THEN 1 ELSE 0) = made[s][e]
  BY <1>1 DEF PayloadsAt
<1>3. /\ n \in got'[s][e]..made'[s][e]
      /\ Seqs(returns'[s], e) = (got'[s][e] + 1)..n
      /\ ~aborted'[s][e] \/ ppc'[s][e] # "off" =>
             n + (IF ppc'[s][e] = "deliver" THEN 1 ELSE 0) = made'[s][e]
  BY <1>2, Zenon
<1>4. Rising(returns'[s], e)
  BY <1>1, Zenon DEF PayloadsAt
<1> QED
  BY <1>3, <1>4, Zenon DEF PayloadsAt

LEMMA RunTail ==
    ASSUME NEW a \in Nat, NEW n \in Nat
    PROVE  a..n \ {a} = (a + 1)..n
  OBVIOUS

(* The client takes the first event. *)
LEMMA PayloadTaken ==
    ASSUME TypeInv, NEW s \in Session, NEW e \in Exit, PayloadInvAt(s, e), SameReceiver(s),
           returns[s] # <<>>, returns'[s] = Tail(returns[s]),
           got' = IF Head(returns[s]).kind = "Data"
                  THEN [got EXCEPT ![s][Head(returns[s]).from] = Head(returns[s]).seq] ELSE got,
           made'[s][e] = made[s][e], aborted'[s][e] = aborted[s][e], ppc'[s][e] = ppc[s][e]
    PROVE  PayloadInvAt(s, e)'
<1> DEFINE h == Head(returns[s])
<1>1. /\ returns[s] \in Seq(ReturnEvent) /\ got \in [Session -> [Exit -> 0..MaxPayload]]
      /\ h \in ReturnEvent
  <2>1. /\ returns[s] \in Seq(ReturnEvent) /\ got \in [Session -> [Exit -> 0..MaxPayload]]
    BY Z3T(30) DEF TypeInv, TypeOK
  <2> QED
    BY <2>1, HeadTailSeq, ZenonT(30)
<1> SUFFICES ASSUME s \in receiving' PROVE PayloadsAt(s, e)'
  BY PayloadsAtIsNext, ZenonT(30)
<1>2. PayloadsAt(s, e)
  BY PayloadsAtIs, ZenonT(30) DEF SameReceiver
<1>3. CASE ~(h.kind = "Data" /\ h.from = e)
  <2>1. got'[s][e] = got[s][e]
    BY <1>1, <1>3, ZenonT(30)
  <2>2. Rising(returns'[s], e) /\ Seqs(returns'[s], e) = Seqs(returns[s], e)
    BY <1>1, <1>2, <1>3, QueueTail, Zenon DEF PayloadsAt
  <2>3. PayloadInvAt(s, e)'
    BY <2>1, <2>2, PayloadKeeps
  <2> QED
    BY <2>3, PayloadsAtIsNext, ZenonT(30)
<1>4. CASE h.kind = "Data" /\ h.from = e
  <2>1. got'[s][e] = h.seq
    BY <1>1, <1>4, Z3T(30)
  <2>2. /\ Rising(returns'[s], e) /\ Seqs(returns'[s], e) = Seqs(returns[s], e) \ {h.seq}
        /\ h.seq \in Seqs(returns[s], e)
        /\ \A x \in Seqs(returns[s], e) : x = h.seq \/ h.seq < x
    BY <1>1, <1>2, <1>4, QueueTail, Zenon DEF PayloadsAt
  <2>3. PICK n \in got[s][e]..made[s][e] :
          /\ Seqs(returns[s], e) = (got[s][e] + 1)..n
          /\ ~aborted[s][e] \/ ppc[s][e] # "off" =>
               n + (IF ppc[s][e] = "deliver" THEN 1 ELSE 0) = made[s][e]
    BY <1>2 DEF PayloadsAt
  <2>4. got[s][e] \in Nat /\ made[s][e] \in Nat /\ h.seq \in Nat
    <3>1. got[s][e] \in 0..MaxPayload /\ made[s][e] \in 0..MaxPayload
      BY ZenonT(30) DEF TypeInv, TypeOK
    <3>2. h.seq \in 0..MaxPayload
      BY <1>1, <1>4, DataEvent, ZenonT(30)
    <3> QED
      BY <3>1, <3>2, DispatchAssumption
  <2>5. h.seq = got[s][e] + 1 /\ h.seq <= n
    BY <2>2, <2>3, <2>4, Z3T(30)
  <2>6. Seqs(returns'[s], e) = (h.seq + 1)..n
    <3>1. h.seq..n \ {h.seq} = (h.seq + 1)..n
      BY <2>3, <2>4, RunTail, Z3T(30)
    <3> QED
      BY <2>2, <2>3, <2>5, <3>1, Zenon
  <2>7. n \in got'[s][e]..made'[s][e]
    BY <2>1, <2>3, <2>4, <2>5
  <2> QED
    BY <2>1, <2>2, <2>3, <2>6, <2>7, Zenon DEF PayloadsAt
<1> QED
  BY <1>3, <1>4, ZenonT(30)

(* A poll task hands its payload to the return channel. *)
LEMMA PayloadQueued ==
    ASSUME TypeInv, NEW s \in Session, NEW e \in Exit, PayloadInvAt(s, e), SameReceiver(s),
           ppc[s][e] = "deliver", ppc'[s][e] = "poll", made'[s][e] = made[s][e],
           got'[s][e] = got[s][e],
           s \in receiving => returns'[s] = Append(returns[s], Data(e, made[s][e]))
    PROVE  PayloadInvAt(s, e)'
<1> SUFFICES ASSUME s \in receiving' PROVE PayloadsAt(s, e)'
  BY PayloadsAtIsNext, ZenonT(30)
<1>1. /\ PayloadsAt(s, e)
      /\ returns'[s] = Append(returns[s], Data(e, made[s][e]))
  BY PayloadsAtIs DEF SameReceiver
<1>2. /\ returns[s] \in Seq(ReturnEvent) /\ got[s][e] \in Nat /\ made[s][e] \in Nat
      /\ made[s][e] \in 1..MaxPayload
  <2>1. returns[s] \in Seq(ReturnEvent) /\ got[s][e] \in 0..MaxPayload /\ made[s][e] \in 0..MaxPayload
    BY ZenonT(30) DEF TypeInv, TypeOK
  <2>2. made[s][e] > 0
    BY Z3T(30) DEF TypeInv, PayloadInHand
  <2> QED
    BY <2>1, <2>2, DispatchAssumption, Z3T(30)
<1>3. PICK n \in got[s][e]..made[s][e] :
        Seqs(returns[s], e) = (got[s][e] + 1)..n /\ n + 1 = made[s][e]
  BY <1>1, ZenonT(30) DEF PayloadsAt
<1>4. \A x \in Seqs(returns[s], e) : x < made[s][e]
  BY <1>2, <1>3
<1>5. /\ Rising(returns'[s], e)
      /\ Seqs(returns'[s], e) = Seqs(returns[s], e) \cup {made[s][e]}
  BY <1>1, <1>2, <1>4, QueuePayload, Zenon DEF PayloadsAt
<1>6. Seqs(returns'[s], e) = (got[s][e] + 1)..made[s][e]
  BY <1>2, <1>3, <1>5, Z3T(30)
<1>7. made[s][e] \in got[s][e]..made[s][e] /\ made[s][e] + 0 = made[s][e]
  BY <1>2, <1>3
<1> QED
  BY <1>5, <1>6, <1>7, Zenon DEF PayloadsAt

(* Nothing, or an event that is no payload of e, is queued.                *)
LEMMA PayloadOther ==
    ASSUME TypeInv, NEW s \in Session, NEW e \in Exit, PayloadInvAt(s, e), SameReceiver(s),
           got'[s][e] = got[s][e], made'[s][e] = made[s][e],
           \/ returns'[s] = returns[s]
           \/ \E ev \in ReturnEvent : /\ ~(ev.kind = "Data" /\ ev.from = e)
                                      /\ returns'[s] = Append(returns[s], ev),
           \/ aborted'[s][e] /\ ppc'[s][e] = "off"
           \/ /\ ~aborted[s][e] \/ ppc[s][e] # "off"
              /\ ppc'[s][e] = "deliver" <=> ppc[s][e] = "deliver"
           \/ (aborted[s][e] => aborted'[s][e]) /\ ppc'[s][e] = ppc[s][e]
    PROVE  PayloadInvAt(s, e)'
<1>1. returns[s] \in Seq(ReturnEvent)
  BY Z3T(30) DEF TypeInv, TypeOK
<1>2. /\ DataAt(returns'[s], e) = DataAt(returns[s], e)
      /\ \A i \in DataAt(returns[s], e) : returns'[s][i] = returns[s][i]
  <2>1. CASE returns'[s] = returns[s]
    BY <2>1, Zenon
  <2>2. ASSUME NEW ev \in ReturnEvent, ~(ev.kind = "Data" /\ ev.from = e),
               returns'[s] = Append(returns[s], ev)
        PROVE  /\ DataAt(returns'[s], e) = DataAt(returns[s], e)
               /\ \A i \in DataAt(returns[s], e) : returns'[s][i] = returns[s][i]
    <3>1. DataAt(Append(returns[s], ev), e) = DataAt(returns[s], e)
          /\ \A i \in DataAt(returns[s], e) : Append(returns[s], ev)[i] = returns[s][i]
      BY <1>1, <2>2, QueueOther, Zenon
    <3> QED
      BY <2>2, <3>1, Zenon
  <2> QED
    BY <2>1, <2>2, Zenon
<1>3. /\ Rising(returns[s], e) => Rising(returns'[s], e)
      /\ Seqs(returns'[s], e) = Seqs(returns[s], e)
  <2>1. Rising(returns[s], e) => Rising(returns'[s], e)
    BY <1>2, Zenon DEF Rising
  <2>2. Seqs(returns'[s], e) = Seqs(returns[s], e)
    BY <1>2 DEF Seqs
  <2> QED
    BY <2>1, <2>2, Z3T(30)
<1> QED
  BY <1>3, PayloadKeeps, Zenon

LEMMA SendReturnQueues ==
    ASSUME NEW s \in Session, NEW ev, returns \in [Session -> Seq(ReturnEvent)], SendReturn(s, ev)
    PROVE  \/ s \in receiving /\ returns'[s] = Append(returns[s], ev)
           \/ s \notin receiving /\ returns'[s] = returns[s]
  BY Zenon DEF SendReturn

LEMMA NoPayload ==
    ASSUME NEW ev \in {Connected, Reply, ClosedEvent}
    PROVE  ev \in ReturnEvent /\ ev.kind # "Data"
<1>1. ev \in ReturnEvent
  BY ReturnEvents
<1>2. ev.kind # "Data"
  BY DEF Connected, Reply, ClosedEvent
<1> QED
  BY <1>1, <1>2

LEMMA PayloadClient ==
    ASSUME TypeInv, NEW s \in Session, NEW e \in Exit, PayloadInvAt(s, e), ClientStep(s)
    PROVE  PayloadInvAt(s, e)'
<1> USE DEF tables, clientVars, dispVars, pollVars, closeVars, eventVars
<1>1. aborted' = aborted /\ ppc' = ppc /\ made' = made /\ SameReceiver(s)
  BY ZenonT(30) DEF ClientStep, ClientConnect, ClientConnectReturn, ClientSend, ClientAbort,
     ClientRecv, ClientDropReceiver, ClientDrop, SameReceiver
<1>2. CASE ClientConnect(s) \/ ClientSend(s) \/ ClientAbort(s)
  <2>1. returns' = returns /\ got' = got
    BY <1>2, Zenon DEF ClientConnect, ClientSend, ClientAbort
  <2> QED
    BY <1>1, <2>1, PayloadOther, Zenon
<1>3. CASE ClientConnectReturn(s) \/ ClientRecv(s)
  <2>1. /\ returns[s] # <<>> /\ returns' = [returns EXCEPT ![s] = Tail(@)]
        /\ got' = IF Head(returns[s]).kind = "Data"
                  THEN [got EXCEPT ![s][Head(returns[s]).from] = Head(returns[s]).seq] ELSE got
    BY <1>3, Zenon DEF ClientConnectReturn, ClientRecv
  <2>2. returns'[s] = Tail(returns[s])
    BY <2>1, ZenonT(30) DEF TypeInv, TypeOK
  <2> QED
    BY <1>1, <2>1, <2>2, PayloadTaken, Zenon
<1>4. CASE ClientDropReceiver(s) \/ ClientDrop(s)
  BY <1>4 DEF ClientDropReceiver, ClientDrop, PayloadInvAt
<1> QED
  BY <1>2, <1>3, <1>4, ZenonT(30) DEF ClientStep

LEMMA PayloadDispatch ==
    ASSUME TypeInv, NEW s \in Session, PollInvAt(s), NEW e \in Exit, PayloadInvAt(s, e),
           DispatchStep(s)
    PROVE  PayloadInvAt(s, e)'
<1> USE DEF tables, clientVars, dispVars, pollVars, closeVars, eventVars
<1>1. receiving' = receiving /\ got' = got /\ made' = made
  <2>1. CASE DispatchClose(s) \/ DispatchForwarderFrame(s) \/ DispatchSchedule(s)
    BY <2>1, Zenon DEF DispatchClose, DispatchForwarderFrame, DispatchSchedule, TakeFrame
  <2>2. CASE (\E x \in Exit : TrySend(s, x) \/ TrySendFails(s, x)) \/ NoUsableExit(s) \/ Pin(s)
             \/ InsertState(s) \/ MarkOpen(s) \/ PublishOpened(s)
    BY <2>2, Zenon DEF TrySend, TrySendFails, NoUsableExit, Pin, InsertState, MarkOpen,
       PublishOpened
  <2>3. CASE EnsurePoll(s) \/ Return(s) \/ ForwarderSend(s) \/ ForwarderSendFails(s)
             \/ ClosePin(s) \/ CloseEgress(s) \/ AbortSessionPolls(s)
    BY <2>3, Zenon DEF EnsurePoll, Return, ForwarderSend, ForwarderSendFails, ClosePin,
       CloseEgress, AbortSessionPolls
  <2> QED
    BY <2>1, <2>2, <2>3, ZenonT(30) DEF DispatchStep
<1>2. SameReceiver(s)
  BY <1>1 DEF SameReceiver
<1>3. CASE NoUsableExit(s) \/ Return(s)
  <2>1. /\ aborted' = aborted /\ ppc' = ppc
        /\ returns' = returns \/ \E ev \in {Connected, Reply, ClosedEvent} : SendReturn(s, ev)
    BY <1>3 DEF NoUsableExit, Return
  <2>2. \/ returns'[s] = returns[s]
        \/ \E ev \in {Connected, Reply, ClosedEvent} : returns'[s] = Append(returns[s], ev)
    <3>1. returns \in [Session -> Seq(ReturnEvent)]
      BY DEF TypeInv, TypeOK
    <3> QED
      BY <2>1, <3>1, SendReturnQueues, Zenon
  <2> QED
    BY <1>1, <1>2, <2>1, <2>2, NoPayload, PayloadOther, Zenon
<1>4. CASE EnsurePoll(s)
  <2>1. /\ returns' = returns /\ aborted' = aborted /\ dpc[s] = "ensure"
        /\ ppc' = IF exit[s] \in polls[s] THEN ppc ELSE [ppc EXCEPT ![s][exit[s]] = "poll"]
    BY <1>4, Zenon DEF EnsurePoll
  <2>2. ~aborted[s][e]
    BY <2>1, ZenonT(30) DEF PollInvAt
  <2>3. ppc'[s][e] = ppc[s][e] \/ (exit[s] = e /\ e \notin polls[s] /\ ppc'[s][e] = "poll")
    <3>1. ppc[s] \in [Exit -> PollPC] /\ ppc \in [Session -> [Exit -> PollPC]]
      BY ZenonT(30) DEF TypeInv, TypeOK
    <3> QED
      BY <2>1, <3>1, ZenonT(30)
  <2>4. e \notin polls[s] => ppc[s][e] = "off"
    BY <2>2 DEF PollInvAt
  <2>5. ppc'[s][e] = "deliver" <=> ppc[s][e] = "deliver"
    BY <2>3, <2>4
  <2> QED
    BY <1>1, <1>2, <2>1, <2>2, <2>5, PayloadOther, Zenon
<1>5. CASE AbortSessionPolls(s)
  <2>1. /\ returns' = returns /\ ppc' = ppc
        /\ aborted[s][e] => aborted'[s][e]
    BY <1>5 DEF AbortSessionPolls, TypeInv, TypeOK
  <2> QED
    BY <1>1, <1>2, <2>1, PayloadOther, Zenon
<1>6. CASE \/ DispatchClose(s) \/ DispatchForwarderFrame(s) \/ DispatchSchedule(s)
           \/ \E x \in Exit : TrySend(s, x) \/ TrySendFails(s, x)
           \/ Pin(s) \/ InsertState(s) \/ MarkOpen(s) \/ PublishOpened(s)
           \/ ForwarderSend(s) \/ ForwarderSendFails(s) \/ ClosePin(s) \/ CloseEgress(s)
  <2>1. returns' = returns /\ aborted' = aborted /\ ppc' = ppc
    BY <1>6, ZenonT(30) DEF DispatchClose, DispatchForwarderFrame, DispatchSchedule, TakeFrame,
       TrySend, TrySendFails, Pin, InsertState, MarkOpen, PublishOpened, ForwarderSend,
       ForwarderSendFails, ClosePin, CloseEgress
  <2> QED
    BY <1>1, <1>2, <2>1, PayloadOther, Zenon
<1> QED
  BY <1>3, <1>4, <1>5, <1>6, Zenon DEF DispatchStep

LEMMA PayloadCloser ==
    ASSUME TypeInv, NEW s \in Session, FlowInvAt(s), NEW e \in Exit, PayloadInvAt(s, e),
           NEW a \in Agent, CloserStep(s, a)
    PROVE  PayloadInvAt(s, e)'
<1> USE DEF tables, clientVars, eventVars
<1>1. receiving' = receiving /\ got' = got /\ made' = made /\ aborted' = aborted
  BY Zenon DEF CloserStep, RemoveState, MarkClosed, Unpin, PublishClosed, ReturnClosed,
     CloserUnchanged
<1>2. SameReceiver(s)
  BY <1>1 DEF SameReceiver
<1>3. CASE RemoveState(s, a) \/ MarkClosed(s, a) \/ Unpin(s, a) \/ PublishClosed(s, a)
  <2>1. returns' = returns /\ ppc' = ppc
    BY <1>3, Zenon DEF RemoveState, MarkClosed, Unpin, PublishClosed
  <2> QED
    BY <1>1, <1>2, <2>1, PayloadOther, Zenon
<1>4. CASE ReturnClosed(s, a)
  <2>1. /\ SendReturn(s, ClosedEvent) /\ closer[s][a] = "return"
        /\ ppc' = ppc \/ (a # Dispatcher /\ ppc' = [ppc EXCEPT ![s][a] = "exit"])
    BY <1>4, Zenon DEF ReturnClosed, CloserAt
  <2>2. returns'[s] = returns[s] \/ returns'[s] = Append(returns[s], ClosedEvent)
    <3>1. returns \in [Session -> Seq(ReturnEvent)]
      BY DEF TypeInv, TypeOK
    <3> QED
      BY <2>1, <3>1, SendReturnQueues, Zenon
  <2>3. ppc'[s][e] = ppc[s][e] \/ (a = e /\ ppc'[s][e] = "exit")
    <3>1. ppc[s] \in [Exit -> PollPC] /\ ppc \in [Session -> [Exit -> PollPC]]
      BY ZenonT(30) DEF TypeInv, TypeOK
    <3> QED
      BY <2>1, <3>1, ZenonT(30)
  <2>4. a = e => ppc[s][e] = "closing"
    BY <2>1 DEF FlowInvAt, ClosersInv
  <2>5. \/ /\ ~aborted[s][e] \/ ppc[s][e] # "off"
           /\ ppc'[s][e] = "deliver" <=> ppc[s][e] = "deliver"
        \/ (aborted[s][e] => aborted'[s][e]) /\ ppc'[s][e] = ppc[s][e]
    BY <1>1, <2>3, <2>4, ZenonT(30)
  <2> QED
    BY <1>1, <1>2, <2>2, <2>5, NoPayload, PayloadOther, Zenon
<1> QED
  BY <1>3, <1>4 DEF CloserStep

LEMMA PayloadPoll ==
    ASSUME TypeInv, NEW s \in Session, NEW e \in Exit, PayloadInvAt(s, e),
           NEW x \in Exit, PollStep(s, x)
    PROVE  PayloadInvAt(s, e)'
<1> USE DEF tables, clientVars, dispVars, eventVars
<1>1. receiving' = receiving /\ got' = got /\ aborted' = aborted
  BY Zenon DEF PollStep, PollData, PollDeliver, PollClosed, PollExit, PollCancelled, PollUnchanged
<1>2. SameReceiver(s)
  BY <1>1 DEF SameReceiver
<1>3. /\ returns \in [Session -> Seq(ReturnEvent)] /\ ppc \in [Session -> [Exit -> PollPC]]
      /\ made \in [Session -> [Exit -> 0..MaxPayload]]
  BY Zenon DEF TypeInv, TypeOK
<1>4. CASE PollData(s, x)
  <2>1. /\ ppc[s][x] = "poll" /\ returns' = returns /\ ppc' = [ppc EXCEPT ![s][x] = "deliver"]
        /\ made' = [made EXCEPT ![s][x] = @ + 1]
    BY <1>4, Zenon DEF PollData
  <2>2. CASE x # e
    <3>1. ppc'[s][e] = ppc[s][e] /\ made'[s][e] = made[s][e]
      BY <1>3, <2>1, <2>2, ZenonT(30)
    <3> QED
      BY <1>1, <1>2, <2>1, <3>1, PayloadOther, Zenon
  <2>3. CASE x = e
    <3>1. /\ ppc[s][e] = "poll" /\ ppc'[s][e] = "deliver" /\ made'[s][e] = made[s][e] + 1
          /\ made[s][e] \in 0..MaxPayload /\ got[s][e] \in 0..MaxPayload
      BY <1>3, <2>1, <2>3, ZenonT(30) DEF TypeInv, TypeOK
    <3> SUFFICES ASSUME s \in receiving' PROVE PayloadsAt(s, e)'
      BY PayloadsAtIsNext
    <3>2. PayloadsAt(s, e)
      BY <1>1, PayloadsAtIs, ZenonT(30)
    <3>3. PICK n \in got[s][e]..made[s][e] :
            Seqs(returns[s], e) = (got[s][e] + 1)..n /\ n = made[s][e]
      BY <3>1, <3>2 DEF PayloadsAt
    <3>4. n \in got[s][e]..(made[s][e] + 1) /\ n + 1 = made[s][e] + 1
      BY <3>1, <3>3, DispatchAssumption
    <3>5. Rising(returns'[s], e) /\ Seqs(returns'[s], e) = (got'[s][e] + 1)..n
      BY <1>1, <2>1, <3>2, <3>3, Zenon DEF PayloadsAt
    <3>6. n \in got'[s][e]..made'[s][e]
      BY <1>1, <3>1, <3>4, Zenon
    <3>7. n + (IF ppc'[s][e] = "deliver" THEN 1 ELSE 0) = made'[s][e]
      BY <3>1, <3>4, Zenon
    <3> QED
      BY <3>5, <3>6, <3>7, Zenon DEF PayloadsAt
  <2> QED
    BY <2>2, <2>3
<1>5. CASE PollDeliver(s, x)
  <2>1. /\ ppc[s][x] = "deliver" /\ SendReturn(s, Data(x, made[s][x])) /\ made' = made
        /\ ppc' = [ppc EXCEPT ![s][x] = IF s \in receiving THEN "poll" ELSE "exit"]
    BY <1>5, Zenon DEF PollDeliver
  <2>2. s \in receiving => returns'[s] = Append(returns[s], Data(x, made[s][x]))
    BY <1>3, <2>1, SendReturnQueues, Zenon
  <2>3. CASE s \notin receiving
    BY <1>1, <2>3, PayloadsAtIsNext, ZenonT(30)
  <2>4. CASE s \in receiving /\ x # e
    <3>1. ppc'[s][e] = ppc[s][e] /\ made'[s][e] = made[s][e]
      BY <1>3, <2>1, <2>4, ZenonT(30)
    <3>2. Data(x, made[s][x]) \in ReturnEvent
      <4>1. made[s][x] \in 0..MaxPayload
        BY <1>3
      <4>2. made[s][x] > 0
        BY <2>1, ZenonT(30) DEF TypeInv, PayloadInHand
      <4>3. made[s][x] \in 1..MaxPayload
        BY <4>1, <4>2, DispatchAssumption
      <4> QED
        BY <4>3, ReturnEvents, ZenonT(30)
    <3>3. Data(x, made[s][x]).from # e
      BY <2>4 DEF Data
    <3> QED
      BY <1>1, <1>2, <2>2, <2>4, <3>1, <3>2, <3>3, PayloadOther, Zenon
  <2>5. CASE s \in receiving /\ x = e
    <3>1. ppc[s][e] = "deliver" /\ ppc'[s][e] = "poll" /\ made'[s][e] = made[s][e]
      BY <1>3, <2>1, <2>5, ZenonT(30)
    <3> QED
      BY <1>1, <1>2, <2>2, <2>5, <3>1, PayloadQueued, Zenon
  <2> QED
    BY <2>3, <2>4, <2>5
<1>6. CASE PollClosed(s, x) \/ PollExit(s, x) \/ PollCancelled(s, x)
  <2>1. returns' = returns /\ made' = made
    BY <1>6, Zenon DEF PollClosed, PollExit, PollCancelled
  <2>2. \/ ppc[s][x] = "poll" /\ ppc' = [ppc EXCEPT ![s][x] = "closing"]
        \/ ppc[s][x] = "exit" /\ ppc' = [ppc EXCEPT ![s][x] = "off"]
        \/ aborted[s][x] /\ ppc' = [ppc EXCEPT ![s][x] = "off"]
    BY <1>6, Zenon DEF PollClosed, PollExit, PollCancelled
  <2>3. \/ aborted'[s][e] /\ ppc'[s][e] = "off"
        \/ /\ ~aborted[s][e] \/ ppc[s][e] # "off"
           /\ ppc'[s][e] = "deliver" <=> ppc[s][e] = "deliver"
        \/ (aborted[s][e] => aborted'[s][e]) /\ ppc'[s][e] = ppc[s][e]
    <3>1. CASE x = e
      BY <1>1, <1>3, <2>2, <3>1, Z3T(30)
    <3>2. CASE x # e
      BY <1>1, <1>3, <2>2, <3>2, ZenonT(30)
    <3> QED
      BY <3>1, <3>2, ZenonT(30)
  <2> QED
    BY <1>1, <1>2, <2>1, <2>3, PayloadOther, Zenon
<1> QED
  BY <1>4, <1>5, <1>6, ZenonT(30) DEF PollStep

LEMMA PayloadNext ==
    ASSUME Inv, PayloadInv, [Next]_vars
    PROVE  PayloadInv'
<1> SUFFICES ASSUME NEW t \in Session, NEW e \in Exit PROVE PayloadInvAt(t, e)'
  BY DEF PayloadInv
<1>1. TypeInv /\ TypeOK /\ PollInvAt(t) /\ FlowInvAt(t) /\ PayloadInvAt(t, e)
  BY DEF Inv, TypeInv, PollInv, FlowInv, PayloadInv
<1>2. CASE UNCHANGED vars
  BY <1>1, <1>2, Zenon DEF vars, tables, clientVars, dispVars, pollVars, closeVars, eventVars,
     PayloadInvAt
<1>3. ASSUME NEW s \in Session,
             \/ ClientStep(s) \/ DispatchStep(s)
             \/ \E a \in Agent : CloserStep(s, a)
             \/ \E x \in Exit : PollStep(s, x)
      PROVE  PayloadInvAt(t, e)'
  <2>1. CASE t = s
    BY <1>1, <1>3, <2>1, PayloadClient, PayloadDispatch, PayloadCloser, PayloadPoll, Zenon
  <2>2. CASE t # s
    <3>1. /\ SameTables(t) /\ SameAt(t) /\ got'[t] = got[t] /\ made'[t] = made[t]
      BY <1>1, <1>3, <2>2, OthersTables, OthersSame, ZenonT(30)
    <3> QED
      BY <1>1, <3>1, PayloadOther, Zenon DEF SameTables, SameAt
  <2> QED
    BY <2>1, <2>2
<1> QED
  BY <1>2, <1>3 DEF Next

(* While its receiver lives, the client of a session gets the payloads of  *)
(* every exit in the order the exit yielded them, for any number of        *)
(* sessions, exits and payloads: what the poll task has delivered and the  *)
(* client has not taken is the next run of payloads, in order, and none is *)
(* missing until a Close frame aborts the task.                            *)
THEOREM PayloadsCorrect == Spec => []PayloadsContiguous
<1>1. PayloadInv => PayloadsContiguous
  BY Zenon DEF PayloadInv, PayloadInvAt, PayloadsContiguous
<1> QED
  BY <1>1, InvInit, InvNext, PayloadInit, PayloadNext, PTL DEF Spec

-----------------------------------------------------------------------------
(* Source activity: only mark_open and mark_closed change which flows are  *)
(* counted, and each of them changes it for one flow.                      *)

LEMMA CountedSame ==
    ASSUME NEW t \in Session, SameAt(t)
    PROVE  Counted(t)' <=> Counted(t)
  BY Zenon DEF SameAt, Counted

LEMMA CountedDispatch ==
    ASSUME TypeInv, NEW s \in Session, FlowInvAt(s), DispatchStep(s), ~MarkOpen(s)
    PROVE  /\ source_activity' = source_activity /\ idle_since' = idle_since
           /\ Counted(s)' <=> Counted(s)
<1> USE DEF Goto, tables, closeVars, eventVars
<1>1. CASE InsertState(s)
  <2>1. /\ held'[s] = held[s] /\ closer'[s] = closer[s] /\ dpc[s] = "insert"
        /\ flow_states[s] = NoExit /\ dpc'[s] = "mark"
    BY <1>1, ZenonT(30) DEF InsertState, FlowInvAt, PhaseInv, TypeInv, TypeOK
  <2> QED
    BY <1>1, <2>1, ZenonT(30) DEF InsertState, Counted
<1>2. CASE ForwarderSendFails(s) \/ AbortSessionPolls(s)
  <2>1. /\ held'[s] = held[s] /\ flow_states'[s] = flow_states[s]
        /\ dpc[s] \in {"fsend", "close_abort"} /\ dpc'[s] = "closing"
    BY <1>2, ZenonT(30) DEF ForwarderSendFails, AbortSessionPolls, TypeInv, TypeOK
  <2>2. \A a \in Agent : a # Dispatcher => closer'[s][a] = closer[s][a]
    BY <1>2 DEF ForwarderSendFails, AbortSessionPolls, TypeInv, TypeOK
  <2>3. ~held[s][Dispatcher]
    BY <2>1, Zenon DEF FlowInvAt, ClosersInv, Agent
  <2>4. Counted(s)' <=> Counted(s)
    BY <2>1, <2>2, <2>3, ZenonT(30) DEF Counted
  <2> QED
    BY <1>2, <2>4, ZenonT(30) DEF ForwarderSendFails, AbortSessionPolls
<1>3. CASE ~InsertState(s) /\ ~ForwarderSendFails(s) /\ ~AbortSessionPolls(s)
  <2>1. /\ held' = held /\ closer' = closer /\ flow_states' = flow_states
        /\ source_activity' = source_activity /\ idle_since' = idle_since
    BY <1>3, ZenonT(30) DEF DispatchStep, DispatchClose, DispatchForwarderFrame,
       DispatchSchedule, TakeFrame,
                TrySend, TrySendFails, NoUsableExit, Pin, PublishOpened, EnsurePoll, Return,
                ForwarderSend, ClosePin, CloseEgress
  <2>2. dpc[s] # "mark" /\ dpc'[s] # "mark"
    BY <1>3, ZenonT(60) DEF DispatchStep, DispatchClose, DispatchForwarderFrame, DispatchSchedule,
       TakeFrame,
                TrySend, TrySendFails, NoUsableExit, Pin, PublishOpened, EnsurePoll, Return,
                ForwarderSend, ClosePin, CloseEgress, TypeInv, TypeOK
  <2> QED
    BY <2>1, <2>2, ZenonT(30) DEF Counted
<1> QED
  BY <1>1, <1>2, <1>3, ZenonT(30)

LEMMA CountedCloser ==
    ASSUME TypeInv, NEW s \in Session, FlowInvAt(s), NEW a \in Agent, CloserStep(s, a),
           ~(MarkClosed(s, a) /\ held[s][a])
    PROVE  /\ source_activity' = source_activity /\ idle_since' = idle_since
           /\ Counted(s)' <=> Counted(s)
<1>1. dpc[s] # "mark" /\ dpc'[s] # "mark"
  <2>1. closer[s][a] # "none"
    BY DEF CloserStep, RemoveState, MarkClosed, Unpin, PublishClosed, ReturnClosed, CloserAt
  <2>2. dpc[s] # "mark"
    BY <2>1, ZenonT(30) DEF FlowInvAt, ClosersInv, PhaseInv, UnopenedInv, Agent
  <2> QED
    BY <2>2, ZenonT(30) DEF CloserStep, RemoveState, MarkClosed, Unpin, PublishClosed, ReturnClosed, Goto,
                TypeInv, TypeOK
<1>2. \A x \in Agent : x # a => closer'[s][x] = closer[s][x] /\ held'[s][x] = held[s][x]
  BY DEF CloserStep, RemoveState, MarkClosed, Unpin, PublishClosed, ReturnClosed, CloserGoto,
         TypeInv, TypeOK
<1>3. source_activity' = source_activity /\ idle_since' = idle_since
  BY DEF CloserStep, RemoveState, MarkClosed, Unpin, PublishClosed, ReturnClosed, tables
<1>4. CASE RemoveState(s, a)
  <2>1. /\ flow_states'[s] = NoExit /\ closer[s][a] = "remove" /\ closer'[s][a] = "mark"
        /\ held'[s][a] <=> flow_states[s] # NoExit
    BY <1>4, ZenonT(30) DEF RemoveState, remove_state, CloserAt, CloserGoto, TypeInv, TypeOK,
       TablesTypeOK
  <2>2. Counted(s)' <=> Counted(s)
    BY <1>1, <1>2, <2>1, ZenonT(60) DEF Counted
  <2> QED
    BY <1>3, <2>2
<1>5. CASE ~RemoveState(s, a)
  <2>1. /\ flow_states' = flow_states
        /\ ~(held[s][a] /\ closer[s][a] = "mark")
    BY <1>5, ZenonT(30) DEF CloserStep, MarkClosed, Unpin, PublishClosed, ReturnClosed, CloserAt, tables
  <2>2. closer'[s][a] # "mark"
    BY <1>5 DEF CloserStep, MarkClosed, Unpin, PublishClosed, ReturnClosed, CloserGoto, TypeInv,
                TypeOK
  <2>3. Counted(s)' <=> Counted(s)
    BY <1>1, <1>2, <2>1, <2>2, Zenon DEF Counted
  <2> QED
    BY <1>3, <2>3
<1> QED
  BY <1>4, <1>5, ZenonT(30)

LEMMA CountedPoll ==
    ASSUME TypeInv, NEW s \in Session, FlowInvAt(s), NEW e \in Exit, PollStep(s, e)
    PROVE  /\ source_activity' = source_activity /\ idle_since' = idle_since
           /\ Counted(s)' <=> Counted(s)
<1>1. /\ source_activity' = source_activity /\ idle_since' = idle_since
      /\ flow_states' = flow_states /\ dpc' = dpc
  BY ZenonT(30) DEF PollStep, PollData, PollDeliver, PollClosed, PollExit, PollCancelled,
     PollUnchanged,
         tables, dispVars
<1>a. e \in Agent /\ closer \in [Session -> [Agent -> ClosePC]]
      /\ held \in [Session -> [Agent -> BOOLEAN]]
  BY Zenon DEF TypeInv, TypeOK, Agent
<1>b. \/ closer' = closer /\ held' = held /\ ppc[s][e] # "closing"
      \/ closer' = [closer EXCEPT ![s][e] = "remove"] /\ held' = held /\ ppc[s][e] # "closing"
      \/ /\ closer' = [closer EXCEPT ![s][e] = "none"] /\ held' = [held EXCEPT ![s][e] = FALSE]
         /\ closer[s][e] # "mark" \/ ppc[s][e] # "closing"
  BY ZenonT(60) DEF PollStep, PollData, PollDeliver, PollClosed, PollExit, PollCancelled,
                    PollUnchanged
<1>2. \A x \in Agent : x # e => closer'[s][x] = closer[s][x] /\ held'[s][x] = held[s][x]
  BY <1>a, <1>b
<1>3. ~(held[s][e] /\ closer[s][e] = "mark") /\ ~(held'[s][e] /\ closer'[s][e] = "mark")
  <2>1. closer[s][e] # "none" => ppc[s][e] = "closing"
    BY Zenon DEF FlowInvAt, ClosersInv
  <2> QED
    BY <1>a, <1>b, <2>1, ZenonT(30)
<1> QED
  BY <1>1, <1>2, <1>3, ZenonT(30) DEF Counted

CountedOf(k) == {s \in Session : SourceOf[s] = k /\ Counted(s)}

LEMMA CountedFinite ==
    ASSUME NEW k \in Source
    PROVE  IsFiniteSet(CountedOf(k)) /\ Cardinality(CountedOf(k)) \in Nat
  BY TablesAssumption, FS_Subset, FS_CardinalityType, ZenonT(30) DEF CountedOf

LEMMA ActivityMarkOpen ==
    ASSUME Inv, ActivityMatchesFlows, NEW s \in Session, MarkOpen(s)
    PROVE  ActivityMatchesFlows'
<1>1. ASSUME NEW t \in Session, t # s PROVE Counted(t)' <=> Counted(t)
  BY <1>1, OthersSame, CountedSame, ZenonT(30) DEF Inv, TypeInv, DispatchStep
<1>2. ~Counted(s) /\ Counted(s)'
  <2>1. /\ dpc[s] = "mark" /\ dpc'[s] = "publish" /\ flow_states' = flow_states
    BY ZenonT(30) DEF MarkOpen, Goto, Inv, TypeInv, TypeOK
  <2>2. flow_states[s] # NoExit /\ \A a \in Agent : ~held[s][a]
    BY <2>1, ZenonT(30) DEF Inv, FlowInv, FlowInvAt, PhaseInv, ClosersInv
  <2> QED
    BY <2>1, <2>2, ZenonT(30) DEF Counted
<1>3. ASSUME NEW k \in Source
      PROVE  /\ source_activity'[k] = Cardinality(CountedOf(k)')
             /\ k \in idle_since' => source_activity'[k] = 0
  <2>1. /\ source_activity[k] = Cardinality(CountedOf(k))
        /\ k \in idle_since => source_activity[k] = 0
    BY ZenonT(30) DEF ActivityMatchesFlows, CountedOf
  <2>2. CASE k = SourceOf[s]
    <3>1. CountedOf(k)' = CountedOf(k) \cup {s} /\ s \notin CountedOf(k)
      BY <1>1, <1>2, <2>2, ZenonT(30) DEF CountedOf
    <3>2. Cardinality(CountedOf(k)') = Cardinality(CountedOf(k)) + 1
      BY <3>1, CountedFinite, FS_AddElement, ZenonT(30)
    <3>3. source_activity'[k] = source_activity[k] + 1 /\ k \notin idle_since'
      BY <2>2 DEF MarkOpen, mark_open, Inv, TypeInv, TypeOK, TablesTypeOK
    <3> QED
      BY <2>1, <3>2, <3>3, ZenonT(30)
  <2>3. CASE k # SourceOf[s]
    <3>1. CountedOf(k)' = CountedOf(k)
      BY <1>1, <2>3, ZenonT(30) DEF CountedOf
    <3>2. source_activity'[k] = source_activity[k] /\ (k \in idle_since' => k \in idle_since)
      BY <2>3 DEF MarkOpen, mark_open, Inv, TypeInv, TypeOK, TablesTypeOK
    <3> QED
      BY <2>1, <3>1, <3>2, Zenon
  <2> QED
    BY <2>2, <2>3, ZenonT(30)
<1> QED
  BY <1>3, ZenonT(30) DEF ActivityMatchesFlows, CountedOf

LEMMA ActivityMarkClosed ==
    ASSUME Inv, ActivityMatchesFlows, NEW s \in Session, NEW a \in Agent, MarkClosed(s, a),
           held[s][a]
    PROVE  ActivityMatchesFlows'
<1>1. ASSUME NEW t \in Session, t # s PROVE Counted(t)' <=> Counted(t)
  BY <1>1, OthersSame, CountedSame, ZenonT(30) DEF Inv, TypeInv, CloserStep
<1>2. Counted(s) /\ ~Counted(s)'
  <2>1. /\ closer[s][a] = "mark" /\ closer'[s][a] = "unpin"
        /\ flow_states' = flow_states /\ held' = held
    BY ZenonT(30) DEF MarkClosed, CloserAt, CloserGoto, Inv, TypeInv, TypeOK
  <2>2. flow_states[s] = NoExit /\ \A x \in Agent : held[s][x] => x = a
    BY ZenonT(30) DEF Inv, FlowInv, FlowInvAt, ClosersInv
  <2> QED
    BY <2>1, <2>2, ZenonT(30) DEF Counted
<1>3. ASSUME NEW k \in Source
      PROVE  /\ source_activity'[k] = Cardinality(CountedOf(k)')
             /\ k \in idle_since' => source_activity'[k] = 0
  <2>1. /\ source_activity[k] = Cardinality(CountedOf(k)) /\ source_activity[k] \in Nat
        /\ k \in idle_since => source_activity[k] = 0
    BY ZenonT(30) DEF ActivityMatchesFlows, CountedOf, Inv, TypeInv, TypeOK, TablesTypeOK
  <2>2. CASE k = SourceOf[s]
    <3>1. CountedOf(k)' = CountedOf(k) \ {s} /\ s \in CountedOf(k)
      BY <1>1, <1>2, <2>2, ZenonT(30) DEF CountedOf
    <3>2. Cardinality(CountedOf(k)') = Cardinality(CountedOf(k)) - 1
      BY <3>1, CountedFinite, FS_RemoveElement, ZenonT(30)
    <3>3. CountedOf(k) # {} /\ Cardinality(CountedOf(k)) # 0
      BY <3>1, CountedFinite, FS_EmptySet, ZenonT(30)
    <3>4. /\ source_activity'[k] = source_activity[k] - 1
          /\ k \in idle_since' => k \in idle_since \/ source_activity'[k] = 0
      BY <2>1, <2>2, <3>3, ZenonT(30) DEF MarkClosed, mark_closed, Inv, TypeInv, TypeOK, TablesTypeOK
    <3> QED
      BY <2>1, <3>2, <3>3, <3>4, ZenonT(60)
  <2>3. CASE k # SourceOf[s]
    <3>1. CountedOf(k)' = CountedOf(k)
      BY <1>1, <2>3, ZenonT(30) DEF CountedOf
    <3>2. source_activity'[k] = source_activity[k] /\ (k \in idle_since' => k \in idle_since)
      BY <2>3 DEF MarkClosed, mark_closed, Inv, TypeInv, TypeOK, TablesTypeOK
    <3> QED
      BY <2>1, <3>1, <3>2, ZenonT(30)
  <2> QED
    BY <2>2, <2>3, ZenonT(30)
<1> QED
  BY <1>3, Zenon DEF ActivityMatchesFlows, CountedOf

LEMMA ActivityOther ==
    ASSUME ActivityMatchesFlows, source_activity' = source_activity, idle_since' = idle_since,
           \A t \in Session : Counted(t)' <=> Counted(t)
    PROVE  ActivityMatchesFlows'
<1>1. ASSUME NEW k \in Source PROVE CountedOf(k)' = CountedOf(k)
  BY DEF CountedOf
<1> QED
  BY <1>1, Zenon DEF ActivityMatchesFlows, CountedOf

LEMMA ActivityNext ==
    ASSUME Inv, ActivityMatchesFlows, [Next]_vars
    PROVE  ActivityMatchesFlows'
<1>1. CASE UNCHANGED vars
  <2>1. \A t \in Session : SameAt(t)
    BY <1>1, Zenon DEF vars, SameAt, tables, clientVars, dispVars, pollVars, closeVars, eventVars
  <2>2. source_activity' = source_activity /\ idle_since' = idle_since
    BY <1>1 DEF vars, tables
  <2> QED
    BY <2>1, <2>2, CountedSame, ActivityOther, Zenon
<1>2. ASSUME NEW s \in Session,
             \/ ClientStep(s) \/ DispatchStep(s)
             \/ \E a \in Agent : CloserStep(s, a)
             \/ \E e \in Exit : PollStep(s, e)
      PROVE  ActivityMatchesFlows'
  <2>1. ASSUME NEW t \in Session, t # s PROVE Counted(t)' <=> Counted(t)
    BY <1>2, <2>1, OthersSame, CountedSame, ZenonT(30) DEF Inv, TypeInv
  <2>2. TypeInv /\ FlowInvAt(s)
    BY DEF Inv, FlowInv
  <2>3. CASE MarkOpen(s)
    BY <2>3, ActivityMarkOpen, ZenonT(30)
  <2>4. CASE \E a \in Agent : MarkClosed(s, a) /\ held[s][a]
    BY <2>4, ActivityMarkClosed, ZenonT(30)
  <2>5. CASE ~MarkOpen(s) /\ ~(\E a \in Agent : MarkClosed(s, a) /\ held[s][a])
    <3>1. CASE ClientStep(s)
      <4>1. /\ source_activity' = source_activity /\ idle_since' = idle_since
            /\ flow_states' = flow_states /\ dpc' = dpc /\ held' = held /\ closer' = closer
        BY <3>1, ZenonT(30) DEF ClientStep, ClientConnect, ClientConnectReturn, ClientSend,
           ClientAbort,
                    ClientRecv, ClientDropReceiver, ClientDrop, tables, dispVars, closeVars
      <4>2. Counted(s)' <=> Counted(s)
        BY <4>1, ZenonT(30) DEF Counted
      <4> QED
        BY <2>1, <4>1, <4>2, ActivityOther, ZenonT(30)
    <3>2. CASE DispatchStep(s)
      BY <2>1, <2>2, <2>5, <3>2, CountedDispatch, ActivityOther, ZenonT(30)
    <3>3. CASE \E a \in Agent : CloserStep(s, a)
      BY <2>1, <2>2, <2>5, <3>3, CountedCloser, ActivityOther, ZenonT(30)
    <3>4. CASE \E e \in Exit : PollStep(s, e)
      BY <2>1, <2>2, <3>4, CountedPoll, ActivityOther, ZenonT(30)
    <3> QED
      BY <1>2, <3>1, <3>2, <3>3, <3>4, ZenonT(30)
  <2> QED
    BY <2>3, <2>4, <2>5, ZenonT(30)
<1> QED
  BY <1>1, <1>2 DEF Next

LEMMA ActivityInit == Init => ActivityMatchesFlows
<1> SUFFICES ASSUME Init PROVE ActivityMatchesFlows
  BY ZenonT(30)
<1>1. \A t \in Session : ~Counted(t)
  BY DEF Init, TablesInit, Counted
<1>2. \A k \in Source : {s \in Session : SourceOf[s] = k /\ Counted(s)} = {}
  BY <1>1
<1> QED
  BY <1>2, FS_EmptySet, Zenon DEF Init, TablesInit, ActivityMatchesFlows

(* The activity counter the schedulers read for a source never drifts from *)
(* the flows it has, for any number of sessions closing in any order.      *)
THEOREM ActivityCorrect == Spec => []ActivityMatchesFlows
<1>1. Init => Inv /\ ActivityMatchesFlows
  BY InvInit, ActivityInit, ZenonT(30)
<1>2. Inv /\ ActivityMatchesFlows /\ [Next]_vars => (Inv /\ ActivityMatchesFlows)'
  BY InvNext, ActivityNext
<1> QED
  BY <1>1, <1>2, PTL DEF Spec
=============================================================================
