--------------------------- MODULE MeshRepairProofs ---------------------------
(***************************************************************************)
(* The bus session of a mesh stream is sent its chunks in order, once each *)
(* and without a hole, for every window, ring depth and number of chunks,  *)
(* losses, copies and evictions, when the link is sealed.  Without MeshSec *)
(* keys there is no replay cache, and a family entry that starts again at  *)
(* 1 takes the old datagrams once more.                                    *)
(***************************************************************************)
EXTENDS MeshRepair, ReorderProofs

(***************************************************************************)
(* The inductive invariant                                                 *)
(***************************************************************************)

(* The entry the next package is pushed to, absent or not. *)
EntryInv ==
    /\ FamilyOK(Entry)
    /\ Entry.next_expected_seq >= 1
    /\ Entry.buffer \subseteq replay
    /\ Entry.highest_seen \in Seqs \cup {None}

(* What the bus has was accepted by the replay cache, so that an entry     *)
(* that starts again waits for a number which never comes.                 *)
BusInv ==
    /\ \A i \in 1 .. Len(bus) : bus[i] = i
    /\ \A i \in 1 .. Len(bus) : i \in replay
    /\ session = "open" =>
          \/ Entry.next_expected_seq = Len(bus) + 1
          \/ Entry.next_expected_seq = 1 /\ 1 \in replay
    /\ session = "open" /\ ~overflowed /\ evictions = 0 =>
          Entry.next_expected_seq = Len(bus) + 1

Inv == TypeOK /\ EntryInv /\ BusInv

(***************************************************************************)
(* Sequences of numbers                                                    *)
(***************************************************************************)

LEMMA BudgetTypes == MaxSend \in Nat /\ MaxLoss \in Nat /\ MaxCopy \in Nat
  BY RepairAssumption

LEMMA SpendOne ==
    ASSUME NEW m \in Nat, NEW n \in 0 .. m, n < m
    PROVE  n + 1 \in 0 .. m
  OBVIOUS

LEMMA NumberOne ==
    ASSUME NEW m \in Nat, NEW n \in 1 .. m + 1, n <= m
    PROVE  n \in 1 .. m /\ n + 1 \in 1 .. m + 1
  OBVIOUS

LEMMA RingKeeps ==
    ASSUME NEW q \in Seq(Seqs), Len(q) <= RingDepth, NEW x \in Seqs
    PROVE  /\ Append(q, x) \in Seq(Seqs)
           /\ Len(Append(q, x)) > RingDepth => /\ Tail(Append(q, x)) \in Seq(Seqs)
                                               /\ Len(Tail(Append(q, x))) <= RingDepth
<1>1. RingDepth \in Nat \ {0} /\ Len(q) \in Nat
  BY RepairAssumption
<1>2. Append(q, x) \in Seq(Seqs) /\ Len(Append(q, x)) = Len(q) + 1
  OBVIOUS
<1>3. Append(q, x) # <<>>
  OBVIOUS
<1>4. Tail(Append(q, x)) \in Seq(Seqs) /\ Len(Tail(Append(q, x))) = Len(q)
  BY <1>1, <1>2, <1>3
<1> QED
  BY <1>2, <1>4

LEMMA PartType ==
    ASSUME NEW q \in Seq(Seqs), NEW a \in 1 .. Len(q) + 1, NEW b \in 0 .. Len(q)
    PROVE  /\ SubSeq(q, a, b) \in Seq(Seqs)
           /\ Len(SubSeq(q, a, b)) = IF a <= b THEN b - a + 1 ELSE 0
           /\ \A i \in 1 .. Len(SubSeq(q, a, b)) : SubSeq(q, a, b)[i] = q[a + i - 1]
  OBVIOUS

LEMMA ConcatType ==
    ASSUME NEW p \in Seq(Seqs), NEW q \in Seq(Seqs)
    PROVE  /\ p \o q \in Seq(Seqs) /\ Len(p \o q) = Len(p) + Len(q)
           /\ \A i \in 1 .. Len(p) : (p \o q)[i] = p[i]
           /\ \A i \in 1 .. Len(q) : (p \o q)[Len(p) + i] = q[i]
  OBVIOUS

LEMMA ParkType ==
    ASSUME NEW run \in Seq(Seqs), pending \in Seq(Seqs), Len(pending) <= PendingMax
    PROVE  Park(run) \in Seq(Seqs) /\ Len(Park(run)) <= PendingMax
<1> DEFINE all == pending \o run
<1>1. all \in Seq(Seqs) /\ Len(all) \in Nat /\ PendingMax \in Nat
  BY ConcatType, RepairAssumption
<1>2. CASE Len(all) > PendingMax
  <2>1. 1 \in 1 .. Len(all) + 1 /\ PendingMax \in 0 .. Len(all)
    BY <1>1, <1>2
  <2>2. SubSeq(all, 1, PendingMax) \in Seq(Seqs) /\ Len(SubSeq(all, 1, PendingMax)) <= PendingMax
    BY <1>1, <2>1, PartType
  <2> QED
    BY <1>2, <2>2 DEF Park
<1>3. CASE ~(Len(all) > PendingMax)
  BY <1>1, <1>3 DEF Park
<1> QED
  BY <1>2, <1>3

(***************************************************************************)
(* Init and the steps that leave the stream's data where it is             *)
(***************************************************************************)

LEMMA InvInit == Init => Inv
<1> SUFFICES ASSUME Init PROVE Inv
  OBVIOUS
<1>1. TypeOK
  <2>1. /\ next_seq \in 1 .. MaxSend + 1 /\ losses \in 0 .. MaxLoss /\ copies \in 0 .. MaxCopy
        /\ evictions \in 0 .. MaxEvict
    BY RepairAssumption DEF Init
  <2>2. ring \in Seq(Seqs) /\ Len(ring) <= RingDepth
    BY RepairAssumption DEF Init
  <2>3. pending \in Seq(Seqs) /\ Len(pending) <= PendingMax /\ bus \in Seq(Seqs)
    BY RepairAssumption DEF Init
  <2> QED
    BY <2>1, <2>2, <2>3, Zenon DEF Init, TypeOK
<1>2. Entry = new(1)
  BY DEF Init, Entry
<1>3. EntryInv
  BY <1>2, NewFamily DEF EntryInv
<1>4. BusInv
  BY <1>2, NewFamily DEF Init, BusInv
<1> QED
  BY <1>1, <1>3, <1>4 DEF Inv

(* The ingress as EntryInv and BusInv see it. *)
SameIngress ==
    /\ family' = family /\ replay' = replay /\ bus' = bus
    /\ session' = "open" => session = "open"
    /\ ~overflowed' => ~overflowed
    /\ evictions' = 0 => evictions = 0

LEMMA IngressKeeps ==
    ASSUME EntryInv, BusInv, SameIngress
    PROVE  EntryInv' /\ BusInv'
<1>1. Entry' = Entry
  BY DEF SameIngress, Entry
<1>2. EntryInv'
  BY <1>1, Zenon DEF SameIngress, EntryInv
<1>3. BusInv'
  BY <1>1, Zenon DEF SameIngress, BusInv
<1> QED
  BY <1>2, <1>3

LEMMA InvEgress ==
    ASSUME Inv, Egress
    PROVE  Inv'
<1> USE DEF egressVars, netVars, ingressVars, ghostVars, budgets
<1>1. SameIngress
  <2>1. CASE Send \/ SendBufferFull \/ shutdown_write \/ abort \/ CloseNotice
    <3>1. UNCHANGED <<ingressVars, overflowed, evictions>>
      BY <2>1 DEF Send, SendBufferFull, shutdown_write, abort, CloseNotice
    <3> QED
      BY <3>1, Zenon DEF SameIngress
  <2>2. ASSUME NEW missing \in nacks, enqueue_retransmit(missing) PROVE SameIngress
    BY <2>2, Zenon DEF enqueue_retransmit, SameIngress
  <2>3. ASSUME NEW seq \in Seqs, DownstreamGap(seq) PROVE SameIngress
    BY <2>3, Zenon DEF DownstreamGap, SameIngress
  <2> QED
    BY <2>1, <2>2, <2>3, Zenon DEF Egress
<1>2. TypeOK
  BY DEF Inv
<1>3. TypeOK'
  <2>1. CASE Send
    <3>1. next_seq \in Seqs /\ next_seq' \in 1 .. MaxSend + 1
      BY <1>2, <2>1, BudgetTypes, NumberOne, Zenon DEF Send, TypeOK, Seqs
    <3>2. ring' \in Seq(Seqs) /\ Len(ring') <= RingDepth
      <4>1. ring \in Seq(Seqs) /\ Len(ring) <= RingDepth /\ ring' = remember(next_seq)
        BY <1>2, <2>1, Zenon DEF Send, TypeOK
      <4>2. Len(Append(ring, next_seq)) \in Nat /\ RingDepth \in Nat
        BY <3>1, <4>1, RepairAssumption
      <4>3. /\ Append(ring, next_seq) \in Seq(Seqs)
            /\ Len(Append(ring, next_seq)) > RingDepth =>
                  /\ Tail(Append(ring, next_seq)) \in Seq(Seqs)
                  /\ Len(Tail(Append(ring, next_seq))) <= RingDepth
        BY <3>1, <4>1, RingKeeps, Zenon
      <4>4. ~(Len(Append(ring, next_seq)) > RingDepth) => Len(Append(ring, next_seq)) <= RingDepth
        BY <4>2
      <4> QED
        BY <4>1, <4>3, <4>4, Zenon DEF remember
    <3>3. net' \subseteq Seqs
      BY <1>2, <2>1, <3>1, Zenon DEF Send, TypeOK
    <3> QED
      BY <1>2, <2>1, <3>1, <3>2, <3>3, Zenon DEF Send, TypeOK
  <2>2. CASE SendBufferFull
    <3>1. next_seq' \in 1 .. MaxSend + 1
      BY <1>2, <2>2, BudgetTypes, NumberOne, Zenon DEF SendBufferFull, TypeOK
    <3> QED
      BY <1>2, <2>2, <3>1, Zenon DEF SendBufferFull, TypeOK
  <2>3. CASE shutdown_write \/ abort \/ CloseNotice
    BY <1>2, <2>3, Zenon DEF shutdown_write, abort, CloseNotice, TypeOK
  <2>4. ASSUME NEW missing \in nacks, enqueue_retransmit(missing) PROVE TypeOK'
    BY <1>2, <2>4, Zenon DEF enqueue_retransmit, TypeOK
  <2>5. ASSUME NEW seq \in Seqs, DownstreamGap(seq) PROVE TypeOK'
    <3>1. copies' \in 0 .. MaxCopy
      BY <1>2, <2>5, BudgetTypes, SpendOne, Zenon DEF DownstreamGap, TypeOK
    <3> QED
      BY <1>2, <2>5, <3>1, Zenon DEF DownstreamGap, TypeOK
  <2> QED
    BY <2>1, <2>2, <2>3, <2>4, <2>5, Zenon DEF Egress
<1> QED
  BY <1>1, <1>3, IngressKeeps DEF Inv

LEMMA InvNetwork ==
    ASSUME Inv, LoseControl \/ \E seq \in Seqs : Lose(seq)
    PROVE  Inv'
<1> USE DEF egressVars, netVars, ingressVars, ghostVars, budgets
<1>1. SameIngress
  <2>1. CASE LoseControl
    BY <2>1, Zenon DEF LoseControl, SameIngress
  <2>2. ASSUME NEW seq \in Seqs, Lose(seq) PROVE SameIngress
    BY <2>2, Zenon DEF Lose, SameIngress
  <2> QED
    BY <2>1, <2>2
<1>2. TypeOK
  BY DEF Inv
<1>3. losses' \in 0 .. MaxLoss
  BY <1>2, BudgetTypes, SpendOne, Zenon DEF LoseControl, Lose, TypeOK
<1>4. TypeOK'
  <2>1. CASE LoseControl
    BY <1>2, <1>3, <2>1, Zenon DEF LoseControl, TypeOK
  <2>2. ASSUME NEW seq \in Seqs, Lose(seq) PROVE TypeOK'
    BY <1>2, <1>3, <2>2, Zenon DEF Lose, TypeOK
  <2> QED
    BY <2>1, <2>2
<1> QED
  BY <1>1, <1>4, IngressKeeps DEF Inv

(***************************************************************************)
(* The ingress                                                             *)
(***************************************************************************)

LEMMA ArriveType ==
    ASSUME TypeOK, NEW seq \in Seqs, NEW copy \in BOOLEAN, Arrive(seq, copy)
    PROVE  /\ net' \subseteq Seqs /\ copies' \in 0 .. MaxCopy
           /\ losses' \in 0 .. MaxLoss /\ evictions' \in 0 .. MaxEvict /\ evictions' = evictions
<1>1. copies' \in 0 .. MaxCopy
  BY BudgetTypes, SpendOne, Zenon DEF Arrive, TypeOK
<1> QED
  BY <1>1, Zenon DEF Arrive, TypeOK

(* The family entry goes: the session that is still open has its first     *)
(* chunk behind it, or none.                                               *)
LEMMA EntryGoes ==
    ASSUME Inv, family' = NoFamily, replay \subseteq replay', bus' = bus, overflowed' \/ evictions' # 0
           \/ session' # "open"
    PROVE  EntryInv' /\ BusInv'
<1>1. Entry' = new(1)
  BY DEF Entry
<1>2. Len(bus) \in Nat
  BY DEF Inv, TypeOK
<1>3. EntryInv'
  BY <1>1, NewFamily DEF EntryInv
<1>4. new(1).next_expected_seq = 1
  BY NewFamily
<1>5. 1 = Len(bus) + 1 \/ 1 \in replay
  BY <1>2 DEF Inv, BusInv
<1>6. BusInv'
  BY <1>1, <1>4, <1>5, Zenon DEF Inv, BusInv
<1> QED
  BY <1>3, <1>6

LEMMA InvReplay ==
    ASSUME Inv, NEW seq \in Seqs, NEW copy \in BOOLEAN, ReceiveReplay(seq, copy)
    PROVE  Inv'
<1> USE DEF egressVars, netVars, ingressVars, ghostVars
<1>1. TypeOK
  BY DEF Inv
<1>2. Arrive(seq, copy)
  BY DEF ReceiveReplay
<1>3. SameIngress
  BY <1>1, <1>2, ArriveType, Zenon DEF ReceiveReplay, SameIngress
<1>4. /\ net' \subseteq Seqs /\ copies' \in 0 .. MaxCopy
      /\ losses' \in 0 .. MaxLoss /\ evictions' \in 0 .. MaxEvict
  BY <1>1, <1>2, ArriveType
<1>5. TypeOK'
  BY <1>1, <1>4, Zenon DEF ReceiveReplay, TypeOK
<1> QED
  BY <1>3, <1>5, IngressKeeps DEF Inv

LEMMA InvStore ==
    ASSUME Inv, NEW seq \in Seqs, NEW copy \in BOOLEAN,
           ReceiveGap(seq, copy) \/ ReceiveQuiet(seq, copy)
    PROVE  Inv'
<1> USE DEF egressVars, ghostVars
<1>1. TypeOK /\ EntryInv /\ BusInv
  BY DEF Inv
<1>2. /\ Arrive(seq, copy) /\ replay' = replay \cup {seq} /\ family' = push_state(Entry, seq)
      /\ push_outcome(Entry, seq) \in {"Gap", "Buffered", "Duplicate"}
      /\ session' = session /\ pending' = pending /\ bus' = bus /\ overflowed' = overflowed
  BY Zenon DEF ReceiveGap, ReceiveQuiet, Opened
<1>3. /\ FamilyOK(family') /\ family'.next_expected_seq = Entry.next_expected_seq
      /\ family'.buffer \subseteq Entry.buffer \cup {seq}
      /\ family'.highest_seen \in {Entry.highest_seen, seq}
  <2>1. seq \in Nat
    BY DEF Seqs
  <2>2. CASE push_outcome(Entry, seq) = "Duplicate"
    BY <1>1, <1>2, <2>2, PushDuplicate, Zenon DEF EntryInv
  <2>3. CASE push_outcome(Entry, seq) \in {"Gap", "Buffered"}
    BY <1>1, <1>2, <2>1, <2>3, PushStores, Zenon DEF EntryInv
  <2> QED
    BY <1>2, <2>2, <2>3
<1>4. Entry' = family'
  BY <1>3, RepairAssumption DEF Entry, FamilyOK
<1>5. EntryInv'
  <2>1. Entry'.next_expected_seq >= 1 /\ FamilyOK(Entry')
    BY <1>1, <1>3, <1>4, Zenon DEF EntryInv
  <2>2. Entry'.buffer \subseteq replay' /\ Entry'.highest_seen \in Seqs \cup {None}
    BY <1>1, <1>2, <1>3, <1>4, Zenon DEF EntryInv
  <2> QED
    BY <2>1, <2>2 DEF EntryInv
<1>6. BusInv'
  BY <1>1, <1>2, <1>3, <1>4, ArriveType, Zenon DEF BusInv
<1>7. /\ nacks' \subseteq SUBSET Seqs /\ asked' \subseteq Seqs
      /\ UNCHANGED <<next_seq, ring, sender, told, control, notices, reentered, spoilt>>
  <2>1. CASE ReceiveQuiet(seq, copy)
    BY <1>1, <2>1, Zenon DEF ReceiveQuiet, TypeOK
  <2>2. CASE ReceiveGap(seq, copy)
    <3>1. Missing(family') \subseteq Seqs
      <4>1. family'.next_expected_seq \in Nat /\ family'.highest_seen \in Seqs \cup {None}
        BY <1>4, <1>5, FamilyFields DEF EntryInv
      <4>2. family'.next_expected_seq >= 1
        BY <1>4, <1>5 DEF EntryInv
      <4> QED
        BY <4>1, <4>2, RepairAssumption DEF Missing, Seqs, None
    <3>2. nacks' = nacks \cup {Missing(family')} /\ asked' = asked \cup Missing(family')
      BY <2>2, Zenon DEF ReceiveGap
    <3>3. nacks \subseteq SUBSET Seqs /\ asked \subseteq Seqs
      BY <1>1, Zenon DEF TypeOK
    <3>4. UNCHANGED <<next_seq, ring, sender, told, control, notices, reentered, spoilt>>
      BY <2>2, Zenon DEF ReceiveGap
    <3>5. nacks' \subseteq SUBSET Seqs /\ asked' \subseteq Seqs
      BY <3>1, <3>2, <3>3, Zenon
    <3> QED
      BY <3>4, <3>5
  <2> QED
    BY <2>1, <2>2
<1>8. TypeOK'
  <2>1. family' \in Family /\ replay' \subseteq Seqs
    BY <1>1, <1>2, <1>3, Zenon DEF FamilyOK, TypeOK
  <2>2. /\ net' \subseteq Seqs /\ copies' \in 0 .. MaxCopy
        /\ losses' \in 0 .. MaxLoss /\ evictions' \in 0 .. MaxEvict
    BY <1>1, <1>2, ArriveType
  <2> QED
    BY <1>1, <1>2, <1>7, <2>1, <2>2, Zenon DEF TypeOK
<1> QED
  BY <1>5, <1>6, <1>8 DEF Inv

LEMMA InvOverflow ==
    ASSUME Inv, NEW seq \in Seqs, NEW copy \in BOOLEAN, ReceiveOverflow(seq, copy)
    PROVE  Inv'
<1> USE DEF egressVars
<1>1. /\ Arrive(seq, copy) /\ replay' = replay \cup {seq} /\ family' = NoFamily /\ overflowed'
      /\ notices' \in BOOLEAN
      /\ UNCHANGED <<next_seq, ring, sender, told, nacks, control, session, pending, bus,
                     reentered, asked, spoilt>> /\ overflowed' \in BOOLEAN
  BY Zenon DEF ReceiveOverflow, Opened
<1>2. EntryInv' /\ BusInv'
  <2>1. replay \subseteq replay' /\ bus' = bus
    BY <1>1, Zenon
  <2> QED
    BY <1>1, <2>1, EntryGoes, Zenon
<1>3. TypeOK
  BY DEF Inv
<1>4. /\ net' \subseteq Seqs /\ copies' \in 0 .. MaxCopy
      /\ losses' \in 0 .. MaxLoss /\ evictions' \in 0 .. MaxEvict
  BY <1>1, <1>3, ArriveType
<1>5. TypeOK'
  BY <1>1, <1>3, <1>4, Zenon DEF TypeOK
<1> QED
  BY <1>2, <1>5 DEF Inv

LEMMA InvControl ==
    ASSUME Inv, ReceiveShutdownWrite \/ ReceiveClose \/ Evict
    PROVE  Inv'
<1> USE DEF egressVars, netVars, ghostVars, budgets
<1>1. TypeOK
  BY DEF Inv
<1>2. CASE ReceiveShutdownWrite
  <2>1. SameIngress
    BY <1>2, Zenon DEF ReceiveShutdownWrite, SameIngress
  <2>2. TypeOK'
    BY <1>1, <1>2, Zenon DEF ReceiveShutdownWrite, TypeOK
  <2> QED
    BY <2>1, <2>2, IngressKeeps DEF Inv
<1>3. CASE ReceiveClose
  <2>1. EntryInv' /\ BusInv'
    BY <1>3, EntryGoes, Zenon DEF ReceiveClose
  <2>2. pending' \in Seq(Seqs) /\ Len(pending') <= PendingMax
    BY <1>3, RepairAssumption DEF ReceiveClose
  <2>3. TypeOK'
    BY <1>1, <1>3, <2>2, Zenon DEF ReceiveClose, TypeOK
  <2> QED
    BY <2>1, <2>3 DEF Inv
<1>4. CASE Evict
  <2>1. evictions' \in 0 .. MaxEvict /\ evictions' # 0
    BY <1>1, <1>4, RepairAssumption DEF Evict, TypeOK
  <2>2. EntryInv' /\ BusInv'
    BY <1>4, <2>1, EntryGoes, Zenon DEF Evict
  <2>3. TypeOK'
    BY <1>1, <1>4, <2>1, Zenon DEF Evict, TypeOK
  <2> QED
    BY <2>2, <2>3 DEF Inv
<1> QED
  BY <1>2, <1>3, <1>4

(***************************************************************************)
(* A delivery                                                              *)
(***************************************************************************)

LEMMA RunType ==
    ASSUME NEW m \in Nat, NEW seq \in Nat, \A i \in 1 .. m : seq + i - 1 \in Seqs
    PROVE  /\ [i \in 1 .. m |-> seq + i - 1] \in Seq(Seqs)
           /\ Len([i \in 1 .. m |-> seq + i - 1]) = m
  OBVIOUS

(* The run of a delivery starts with the package, and the rest is what the *)
(* entry had buffered.                                                     *)
LEMMA RunIs ==
    ASSUME Inv, NEW seq \in Seqs, push_outcome(Entry, seq) = "Deliver"
    PROVE  LET run == push_delivers(Entry, seq)
               next == push_state(Entry, seq)
           IN  /\ run \in Seq(Seqs) /\ Len(run) \in Nat
               /\ \A i \in 1 .. Len(run) : run[i] = seq + i - 1 /\ run[i] \in replay \cup {seq}
               /\ FamilyOK(next) /\ next.next_expected_seq = seq + Len(run)
               /\ next.buffer \subseteq replay /\ next.highest_seen \in Seqs \cup {None}
               /\ seq = Entry.next_expected_seq
<1> DEFINE q == EndOfRun(Entry.buffer, seq)
           run == push_delivers(Entry, seq)
           next == push_state(Entry, seq)
<1>1. seq \in Nat /\ FamilyOK(Entry) /\ Entry.buffer \subseteq replay /\ replay \subseteq Seqs
      /\ Entry.highest_seen \in Seqs \cup {None}
  BY DEF Inv, EntryInv, TypeOK, Seqs
<1>2. /\ seq = Entry.next_expected_seq /\ q \in Nat /\ q > seq
      /\ \A r \in seq + 1 .. q - 1 : r \in Entry.buffer
      /\ run = [i \in 1 .. q - seq |-> seq + i - 1]
      /\ FamilyOK(next) /\ next.next_expected_seq = q
      /\ next.buffer \subseteq Entry.buffer /\ next.highest_seen = Entry.highest_seen
  BY <1>1, PushDelivers, Zenon
<1> HIDE DEF q, run, next
<1>3. \A i \in 1 .. q - seq : seq + i - 1 \in replay \cup {seq}
  <2>1. ASSUME NEW i \in 1 .. q - seq, i # 1 PROVE seq + i - 1 \in seq + 1 .. q - 1
    BY <1>1, <1>2, <2>1
  <2>2. ASSUME NEW i \in 1 .. q - seq, i = 1 PROVE seq + i - 1 = seq
    BY <1>1, <2>2
  <2> QED
    BY <1>1, <1>2, <2>1, <2>2, Zenon
<1>4. \A i \in 1 .. q - seq : seq + i - 1 \in Seqs
  BY <1>1, <1>3, Zenon
<1>5. run \in Seq(Seqs) /\ Len(run) = q - seq
  <2>1. q - seq \in Nat
    BY <1>1, <1>2
  <2> QED
    BY <1>1, <1>2, <1>4, <2>1, RunType, Zenon
<1>6. \A i \in 1 .. Len(run) : run[i] = seq + i - 1 /\ run[i] \in replay \cup {seq}
  BY <1>2, <1>3, <1>5, Zenon
<1>7. next.next_expected_seq = seq + Len(run) /\ Len(run) \in Nat
  BY <1>1, <1>2, <1>5
<1> QED
  BY <1>1, <1>2, <1>5, <1>6, <1>7, Zenon DEF run, next

LEMMA BusSendType ==
    ASSUME TypeOK, NEW run \in Seq(Seqs), BusSend(run)
    PROVE  /\ session' \in {"open", "half", "gone"}
           /\ pending' \in Seq(Seqs) /\ Len(pending') <= PendingMax /\ bus' \in Seq(Seqs)
<1>1. /\ session \in {"open", "half", "gone"} /\ pending \in Seq(Seqs)
      /\ Len(pending) <= PendingMax /\ bus \in Seq(Seqs) /\ Len(run) \in Nat
  <2>1. Len(run) \in Nat
    OBVIOUS
  <2> QED
    BY <2>1, Zenon DEF TypeOK
<1>2. ASSUME session # "gone", NEW k \in 0 .. Len(run),
             bus' = (IF session = "open" THEN bus \o SubSeq(run, 1, k) ELSE bus),
             IF k = Len(run) THEN UNCHANGED <<session, pending>>
             ELSE session' = "gone" /\ pending' = Park(SubSeq(run, k + 2, Len(run)))
      PROVE  /\ session' \in {"open", "half", "gone"}
             /\ pending' \in Seq(Seqs) /\ Len(pending') <= PendingMax /\ bus' \in Seq(Seqs)
  <2>1. SubSeq(run, 1, k) \in Seq(Seqs)
    <3>1. 1 \in 1 .. Len(run) + 1
      BY <1>1
    <3> QED
      BY <1>2, <3>1, PartType, Zenon
  <2>2. bus' \in Seq(Seqs)
    BY <1>1, <1>2, <2>1, ConcatType, Zenon
  <2>3. CASE k = Len(run)
    BY <1>1, <1>2, <2>2, <2>3, Zenon
  <2>4. CASE k # Len(run)
    <3>1. k + 2 \in 1 .. Len(run) + 1 /\ Len(run) \in 0 .. Len(run)
      BY <1>1, <2>4
    <3>2. SubSeq(run, k + 2, Len(run)) \in Seq(Seqs)
      BY <3>1, PartType, Zenon
    <3> QED
      BY <1>1, <1>2, <2>2, <2>4, <3>2, ParkType, Zenon
  <2> QED
    BY <2>3, <2>4
<1>3. CASE session = "gone" /\ pending' = Park(run) /\ UNCHANGED <<session, bus>>
  BY <1>1, <1>3, ParkType, Zenon
<1> QED
  BY <1>2, <1>3, Zenon DEF BusSend

(* An open session is sent the run or a first part of it, and stays open   *)
(* only if it took the whole run.                                          *)
LEMMA BusSendOpen ==
    ASSUME TypeOK, NEW run \in Seq(Seqs), BusSend(run), session = "open"
    PROVE  \E k \in 0 .. Len(run) :
              /\ bus' = bus \o SubSeq(run, 1, k)
              /\ session' = "open" => k = Len(run)
  BY Zenon DEF BusSend

LEMMA BusSendShut ==
    ASSUME TypeOK, NEW run, BusSend(run), session # "open"
    PROVE  bus' = bus /\ session' # "open"
  BY Zenon DEF BusSend

LEMMA InvDeliver ==
    ASSUME Sealed, Inv, NEW seq \in Seqs, NEW copy \in BOOLEAN, ReceiveDeliver(seq, copy)
    PROVE  Inv'
<1> USE DEF egressVars
<1> DEFINE run == push_delivers(Entry, seq)
<1>1. TypeOK /\ EntryInv /\ BusInv
  BY DEF Inv
<1>2. /\ Arrive(seq, copy) /\ replay' = replay \cup {seq} /\ seq \notin replay
      /\ push_outcome(Entry, seq) = "Deliver" /\ family' = push_state(Entry, seq)
      /\ BusSend(run) /\ reentered' \in BOOLEAN
      /\ UNCHANGED <<next_seq, ring, sender, told, nacks, control, notices, overflowed, asked,
                     spoilt>>
  <2>1. reentered' = (reentered \/ (overflowed /\ bus' # bus))
    BY DEF ReceiveDeliver
  <2>2. reentered' \in BOOLEAN
    BY <2>1, Zenon
  <2> QED
    BY <2>2, Zenon DEF ReceiveDeliver, Opened, Replayed
<1>3. /\ run \in Seq(Seqs) /\ Len(run) \in Nat
      /\ \A i \in 1 .. Len(run) : run[i] = seq + i - 1 /\ run[i] \in replay'
      /\ FamilyOK(family') /\ family'.next_expected_seq = seq + Len(run)
      /\ family'.buffer \subseteq replay' /\ family'.highest_seen \in Seqs \cup {None}
      /\ seq = Entry.next_expected_seq /\ seq \in Nat /\ seq >= 1
  <2>1. seq \in Nat /\ seq >= 1
    BY DEF Seqs
  <2> QED
    BY <1>2, <2>1, RunIs, Zenon
<1> HIDE DEF run
<1>4. Entry' = family'
  BY <1>3, RepairAssumption DEF Entry, FamilyOK
<1>5. EntryInv'
  <2>1. seq + Len(run) >= 1
    BY <1>3
  <2> QED
    BY <1>3, <1>4, <2>1, Zenon DEF EntryInv
<1>6. TypeOK'
  <2>1. family' \in Family /\ replay' \subseteq Seqs
    BY <1>1, <1>2, <1>3, Zenon DEF FamilyOK, TypeOK
  <2>2. /\ net' \subseteq Seqs /\ copies' \in 0 .. MaxCopy
        /\ losses' \in 0 .. MaxLoss /\ evictions' \in 0 .. MaxEvict
    BY <1>1, <1>2, ArriveType
  <2>3. /\ session' \in {"open", "half", "gone"}
        /\ pending' \in Seq(Seqs) /\ Len(pending') <= PendingMax /\ bus' \in Seq(Seqs)
    BY <1>1, <1>2, <1>3, BusSendType
  <2> QED
    BY <1>1, <1>2, <2>1, <2>2, <2>3, Zenon DEF TypeOK
<1>7. bus \in Seq(Seqs) /\ Len(bus) \in Nat
  BY <1>1 DEF TypeOK
<1>8. CASE session # "open"
  <2>1. bus' = bus /\ session' # "open"
    BY <1>1, <1>2, <1>8, BusSendShut, Zenon
  <2>2. BusInv'
    BY <1>1, <1>2, <2>1, Zenon DEF BusInv
  <2> QED
    BY <1>5, <1>6, <2>2 DEF Inv
<1>9. CASE session = "open"
  <2>1. seq = Len(bus) + 1
    BY <1>1, <1>2, <1>3, <1>9, Zenon DEF BusInv
  <2>2. PICK k \in 0 .. Len(run) : /\ bus' = bus \o SubSeq(run, 1, k)
                                   /\ session' = "open" => k = Len(run)
    BY <1>1, <1>2, <1>3, <1>9, BusSendOpen, Zenon
  <2>3. /\ SubSeq(run, 1, k) \in Seq(Seqs) /\ Len(SubSeq(run, 1, k)) = k
        /\ \A i \in 1 .. k : SubSeq(run, 1, k)[i] = run[i] /\ i \in 1 .. Len(run)
    <3>1. 1 \in 1 .. Len(run) + 1 /\ k \in Nat
      BY <1>3
    <3>2. /\ SubSeq(run, 1, k) \in Seq(Seqs)
          /\ Len(SubSeq(run, 1, k)) = IF 1 <= k THEN k - 1 + 1 ELSE 0
          /\ \A i \in 1 .. Len(SubSeq(run, 1, k)) : SubSeq(run, 1, k)[i] = run[1 + i - 1]
      BY <1>3, <3>1, PartType, Zenon
    <3>3. Len(SubSeq(run, 1, k)) = k
      BY <3>1, <3>2
    <3> QED
      BY <1>3, <3>1, <3>2, <3>3
  <2>4. /\ Len(bus') = Len(bus) + k
        /\ \A i \in 1 .. Len(bus) : bus'[i] = bus[i]
        /\ \A i \in 1 .. k : bus'[Len(bus) + i] = run[i]
    <3> DEFINE part == SubSeq(run, 1, k)
    <3>1. bus' = bus \o part /\ part \in Seq(Seqs) /\ Len(part) = k
          /\ \A i \in 1 .. k : part[i] = run[i]
      BY <2>2, <2>3, Zenon
    <3> HIDE DEF part
    <3>2. /\ Len(bus \o part) = Len(bus) + Len(part)
          /\ \A i \in 1 .. Len(bus) : (bus \o part)[i] = bus[i]
          /\ \A i \in 1 .. Len(part) : (bus \o part)[Len(bus) + i] = part[i]
      BY <1>7, <3>1, ConcatType, Zenon
    <3> QED
      BY <3>1, <3>2, Zenon
  <2>5. ASSUME NEW i \in 1 .. Len(bus') PROVE bus'[i] = i /\ i \in replay'
    <3>1. CASE i <= Len(bus)
      <4>1. i \in 1 .. Len(bus)
        BY <1>7, <3>1
      <4> QED
        BY <1>1, <1>2, <2>4, <4>1, Zenon DEF BusInv
    <3>2. CASE i > Len(bus)
      <4>1. i - Len(bus) \in 1 .. k /\ Len(bus) + (i - Len(bus)) = i
        BY <1>3, <1>7, <2>4, <3>2
      <4>2. bus'[i] = run[i - Len(bus)] /\ i - Len(bus) \in 1 .. Len(run)
        BY <2>3, <2>4, <4>1, Zenon
      <4>3. seq + (i - Len(bus)) - 1 = i
        BY <1>7, <2>1, <4>1
      <4> QED
        BY <1>3, <4>2, <4>3, Zenon
    <3> QED
      BY <1>7, <3>1, <3>2
  <2>6. session' = "open" => Entry'.next_expected_seq = Len(bus') + 1
    <3>1. (Len(bus) + 1) + Len(run) = (Len(bus) + Len(run)) + 1
      BY <1>3, <1>7
    <3> QED
      BY <1>3, <1>4, <2>1, <2>2, <2>4, <3>1, Zenon
  <2>7. BusInv'
    BY <2>5, <2>6, Zenon DEF BusInv
  <2> QED
    BY <1>5, <1>6, <2>7 DEF Inv
<1> QED
  BY <1>8, <1>9

(***************************************************************************)
(* The theorem                                                             *)
(***************************************************************************)

LEMMA InvNext ==
    ASSUME Sealed, Inv, [Next]_vars
    PROVE  Inv'
<1>1. CASE UNCHANGED vars
  <2>1. SameIngress
    BY <1>1, Zenon DEF vars, egressVars, netVars, ingressVars, ghostVars, budgets, SameIngress
  <2>2. TypeOK'
    BY <1>1, Zenon DEF vars, egressVars, netVars, ingressVars, ghostVars, budgets, Inv, TypeOK
  <2> QED
    BY <2>1, <2>2, IngressKeeps DEF Inv
<1>2. CASE Ingress
  <2>1. ASSUME NEW seq \in Seqs, NEW copy \in BOOLEAN, Receive(seq, copy) PROVE Inv'
    BY <2>1, InvReplay, InvDeliver, InvStore, InvOverflow, Zenon DEF Receive
  <2> QED
    BY <1>2, <2>1, InvControl, Zenon DEF Ingress
<1> QED
  BY <1>1, <1>2, InvEgress, InvNetwork, Zenon DEF Next, Quiet

(* On a sealed link the bus session of a stream is sent the chunks 1, 2,   *)
(* ... in order, each once and without a hole, whatever the network loses, *)
(* repeats or reorders, the repair ring sends again, an overflow closes or *)
(* another family evicts; and all the first family entry released is sent. *)
THEOREM BusOrderCorrect == ASSUME Sealed PROVE Spec => []BusInOrder
<1>1. Inv => BusInOrder
  BY Zenon DEF Inv, BusInv, BusInOrder, Entry
<1>2. Inv /\ [Next]_vars => Inv'
  BY InvNext
<1> QED
  BY <1>1, <1>2, InvInit, PTL DEF Spec
=============================================================================
