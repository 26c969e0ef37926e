------------------------------ MODULE MeshRepair ------------------------------
(***************************************************************************)
(* One stream of a mesh peer, upstream, over Secure UDP: the send half and *)
(* the repair ring of mesh-bus-egress-mesh-peer-udp, a network that loses, *)
(* repeats and reorders datagrams, and the receive loop of                 *)
(* mesh-bus-ingress-mesh-peer-udp with its replay cache, its family table  *)
(* and the bus session of the stream.  A data datagram is its sequence     *)
(* number: the ring keeps the sealed bytes, so a repaired datagram is the  *)
(* same datagram and carries the same MeshSec counter.  The stream is past *)
(* its StreamOpen: the session exists and the egress has been accepted.    *)
(***************************************************************************)
EXTENDS ReorderOps, FiniteSets

CONSTANTS
    NoFamily,       \* no entry in family_states
    Sealed,         \* MeshSec keys are configured (else debug-clear)
    Repair,         \* the delivery mode of the egress is DeliveryMode::Repair
    RingDepth,      \* REPAIR_RING_DEPTH
    PendingMax,     \* frames that fit in pending_stream_data_max_bytes
    MaxSend,        \* bound: chunks the client sends
    MaxLoss,        \* bound: datagrams the network loses
    MaxCopy,        \* bound: datagrams that arrive once more (network or Replicate)
    MaxEvict        \* bound: evictions of the family by other families

ASSUME RepairAssumption ==
    /\ Sealed \in BOOLEAN /\ Repair \in BOOLEAN /\ NoFamily \notin Family
    /\ {RingDepth, MaxSend} \subseteq Nat \ {0}
    /\ {PendingMax, MaxLoss, MaxCopy, MaxEvict} \subseteq Nat

VARIABLES
    next_seq,       \* egress: the number of the next StreamData
    ring,           \* egress: EgressPolicy.retransmit
    sender,         \* egress send half: "open", "shutdown", "failed" or "aborted"
    net,            \* data datagrams in flight
    nacks,          \* AckNack frames in flight, each its set of missing numbers
    control,        \* StreamShutdownWrite and StreamClose frames in flight to the ingress
    notices,        \* StreamClose replies in flight to the egress
    told,           \* egress: the recv half has been told of the close
    replay,         \* ingress: the counters MeshSecReplayCache has accepted
    family,         \* ingress: the entry of family_states, or NoFamily
    session,        \* ingress: the entry of stream_sessions: "open", "half" or "gone"
    pending,        \* ingress: the entry of pending_stream_data
    bus,            \* what the bus session was sent, in order
    overflowed,     \* ghost: a WindowOverflow has closed the family
    reentered,      \* ghost: data entered the bus after that
    asked,          \* ghost: the numbers some AckNack has asked for
    spoilt,         \* ghost: feedback or a repair was lost, or the ring had dropped it
    losses, copies, evictions

egressVars == <<next_seq, ring, sender, told>>
netVars == <<net, nacks, control, notices>>
ingressVars == <<replay, family, session, pending, bus>>
ghostVars == <<overflowed, reentered, asked, spoilt>>
budgets == <<losses, copies, evictions>>
vars == <<egressVars, netVars, ingressVars, ghostVars, budgets>>

Seqs == 1 .. MaxSend
Missing(f) == {q \in f.next_expected_seq .. f.highest_seen : q \notin f.buffer}
Elems(s) == {s[i] : i \in 1 .. Len(s)}

TypeOK ==
    /\ next_seq \in 1 .. MaxSend + 1
    /\ ring \in Seq(Seqs) /\ Len(ring) <= RingDepth
    /\ sender \in {"open", "shutdown", "failed", "aborted"}
    /\ net \subseteq Seqs
    /\ nacks \subseteq SUBSET Seqs
    /\ control \subseteq {"StreamShutdownWrite", "StreamClose"}
    /\ notices \in BOOLEAN /\ told \in BOOLEAN
    /\ replay \subseteq Seqs
    /\ family \in Family \cup {NoFamily}
    /\ session \in {"open", "half", "gone"}
    /\ pending \in Seq(Seqs) /\ Len(pending) <= PendingMax
    /\ bus \in Seq(Seqs)
    /\ {overflowed, reentered, spoilt} \subseteq BOOLEAN /\ asked \subseteq Seqs
    /\ losses \in 0 .. MaxLoss /\ copies \in 0 .. MaxCopy /\ evictions \in 0 .. MaxEvict

Init ==
    /\ next_seq = 1 /\ ring = <<>> /\ sender = "open" /\ told = FALSE
    /\ net = {} /\ nacks = {} /\ control = {} /\ notices = FALSE
    /\ replay = {} /\ family = NoFamily /\ session = "open" /\ pending = <<>> /\ bus = <<>>
    /\ overflowed = FALSE /\ reentered = FALSE /\ asked = {} /\ spoilt = FALSE
    /\ losses = 0 /\ copies = 0 /\ evictions = 0

(***************************************************************************)
(* The egress                                                              *)
(***************************************************************************)

(* remember(): the ring keeps the last RingDepth datagrams of Repair mode. *)
remember(seq) ==
    IF ~Repair THEN ring
    ELSE LET r == Append(ring, seq)
         IN  IF Len(r) > RingDepth THEN Tail(r) ELSE r

(* send(): a chunk takes its number, is remembered and goes out. *)
Send ==
    /\ sender = "open" /\ next_seq <= MaxSend
    /\ next_seq' = next_seq + 1
    /\ ring' = remember(next_seq)
    /\ net' = net \cup {next_seq}
    /\ UNCHANGED <<sender, told, nacks, control, notices, ingressVars, ghostVars, budgets>>

(* send(): the queue of the sender is full.  The number is spent, nothing  *)
(* is encoded and the caller gets the error.                               *)
SendBufferFull ==
    /\ sender = "open" /\ next_seq <= MaxSend
    /\ next_seq' = next_seq + 1
    /\ sender' = "failed"
    /\ UNCHANGED <<ring, told, netVars, ingressVars, ghostVars, budgets>>

shutdown_write ==
    /\ sender = "open"
    /\ sender' = "shutdown"
    /\ control' = control \cup {"StreamShutdownWrite"}
    /\ UNCHANGED <<next_seq, ring, told, net, nacks, notices, ingressVars, ghostVars, budgets>>

abort ==
    /\ sender # "aborted"
    /\ sender' = "aborted"
    /\ control' = control \cup {"StreamClose"}
    /\ UNCHANGED <<next_seq, ring, told, net, nacks, notices, ingressVars, ghostVars, budgets>>

(* Mutant: only the first range of an AckNack is served. *)
enqueue_retransmitFirst(missing) ==
    /\ missing \in nacks
    /\ nacks' = nacks \ {missing}
    /\ net' = net \cup {q \in missing \cap Elems(ring) : \A r \in missing : q <= r}
    /\ spoilt' = (spoilt \/ ~(missing \subseteq Elems(ring) \cup replay))
    /\ UNCHANGED <<egressVars, control, notices, ingressVars, overflowed, reentered,
                   asked, budgets>>

(* handle_common_frame(AckNack): everything of the ring that the peer      *)
(* misses is sent again.                                                   *)
enqueue_retransmit(missing) ==
    /\ missing \in nacks
    /\ nacks' = nacks \ {missing}
    /\ net' = net \cup (missing \cap Elems(ring))
    /\ spoilt' = (spoilt \/ ~(missing \subseteq Elems(ring) \cup replay))
    /\ UNCHANGED <<egressVars, control, notices, ingressVars, overflowed, reentered,
                   asked, budgets>>

(* A gap in the packages of the other direction is served from this ring   *)
(* too: decode_native_event calls enqueue_retransmit with its own ack.     *)
DownstreamGap(seq) ==
    /\ seq \in Elems(ring) \ net
    /\ copies < MaxCopy
    /\ copies' = copies + 1
    /\ net' = net \cup {seq}
    /\ UNCHANGED <<egressVars, nacks, control, notices, ingressVars, ghostVars, losses, evictions>>

(* The driver hands a StreamClose to the recv half. *)
CloseNotice ==
    /\ notices
    /\ notices' = FALSE
    /\ told' = TRUE
    /\ UNCHANGED <<next_seq, ring, sender, net, nacks, control, ingressVars, ghostVars, budgets>>

(***************************************************************************)
(* The network                                                             *)
(***************************************************************************)

Lose(seq) ==
    /\ seq \in net /\ losses < MaxLoss
    /\ losses' = losses + 1
    /\ net' = net \ {seq}
    /\ spoilt' = (spoilt \/ seq \in asked)
    /\ UNCHANGED <<egressVars, nacks, control, notices, ingressVars, overflowed, reentered,
                   asked, copies, evictions>>

(* A control frame is lost on the way, or at a full queue (try_send). *)
LoseControl ==
    /\ losses < MaxLoss
    /\ losses' = losses + 1
    /\ \/ \E m \in nacks : nacks' = nacks \ {m} /\ UNCHANGED <<control, notices>>
       \/ \E c \in control : control' = control \ {c} /\ UNCHANGED <<nacks, notices>>
       \/ notices /\ notices' = FALSE /\ UNCHANGED <<nacks, control>>
    /\ spoilt' = (spoilt \/ nacks' # nacks)
    /\ UNCHANGED <<egressVars, net, ingressVars, overflowed, reentered, asked, copies, evictions>>

(* A datagram reaches the ingress; when copy holds it will arrive again. *)
Arrive(seq, copy) ==
    /\ seq \in net
    /\ copy => copies < MaxCopy
    /\ net' = IF copy THEN net ELSE net \ {seq}
    /\ copies' = IF copy THEN copies + 1 ELSE copies
    /\ UNCHANGED <<losses, evictions>>

(***************************************************************************)
(* The ingress                                                             *)
(***************************************************************************)

(* Mutant: the replay cache is not consulted. *)
ReplayedNever(seq) == FALSE

(* open_bytes(): the replay cache has this counter already. *)
Replayed(seq) == Sealed /\ seq \in replay

ReceiveReplay(seq, copy) ==
    /\ Arrive(seq, copy)
    /\ Replayed(seq)
    /\ UNCHANGED <<egressVars, nacks, control, notices, ingressVars, ghostVars>>

(* The family entry the package is pushed to, created at 1 when absent. *)
Entry == IF family = NoFamily THEN new(1) ELSE family

Opened(seq, copy, out) ==
    /\ Arrive(seq, copy)
    /\ ~Replayed(seq)
    /\ replay' = replay \cup {seq}
    /\ push_outcome(Entry, seq) \in out

(* What fits in pending_stream_data behind what is there. *)
Park(frames) ==
    LET all == pending \o frames
    IN  IF Len(all) > PendingMax THEN SubSeq(all, 1, PendingMax) ELSE all

(* The StreamData frames of one delivery, in order: sent to the bus        *)
(* session; a send that fails removes and closes the session; what finds   *)
(* no session waits in pending_stream_data.  A session whose write side is *)
(* shut takes the frame and carries it nowhere, or fails.                  *)
BusSend(run) ==
    \/ /\ session # "gone"
       /\ \E k \in 0 .. Len(run) :
             /\ bus' = IF session = "open" THEN bus \o SubSeq(run, 1, k) ELSE bus
             /\ IF k = Len(run)
                THEN UNCHANGED <<session, pending>>
                ELSE /\ session' = "gone"
                     /\ pending' = Park(SubSeq(run, k + 2, Len(run)))
    \/ /\ session = "gone"
       /\ pending' = Park(run)
       /\ UNCHANGED <<session, bus>>

ReceiveDeliver(seq, copy) ==
    /\ Opened(seq, copy, {"Deliver"})
    /\ family' = push_state(Entry, seq)
    /\ BusSend(push_delivers(Entry, seq))
    /\ reentered' = (reentered \/ (overflowed /\ bus' # bus))
    /\ UNCHANGED <<egressVars, nacks, control, notices, overflowed, asked, spoilt>>

ReceiveGap(seq, copy) ==
    /\ Opened(seq, copy, {"Gap"})
    /\ family' = push_state(Entry, seq)
    /\ nacks' = nacks \cup {Missing(family')}
    /\ asked' = asked \cup Missing(family')
    /\ UNCHANGED <<egressVars, control, notices, session, pending, bus, overflowed, reentered,
                   spoilt>>

ReceiveQuiet(seq, copy) ==
    /\ Opened(seq, copy, {"Buffered", "Duplicate"})
    /\ family' = push_state(Entry, seq)
    /\ UNCHANGED <<egressVars, nacks, control, notices, session, pending, bus, ghostVars>>

(* The overflow is answered with StreamClose and the entry is removed; the *)
(* session of the stream stays.                                            *)
ReceiveOverflow(seq, copy) ==
    /\ Opened(seq, copy, {"WindowOverflow"})
    /\ family' = NoFamily
    /\ notices' = TRUE
    /\ overflowed' = TRUE
    /\ UNCHANGED <<egressVars, nacks, control, session, pending, bus, reentered, asked, spoilt>>

Receive(seq, copy) ==
    \/ ReceiveReplay(seq, copy) \/ ReceiveDeliver(seq, copy) \/ ReceiveGap(seq, copy)
    \/ ReceiveQuiet(seq, copy) \/ ReceiveOverflow(seq, copy)

(* A control frame carries no sequence number and is not ordered with the  *)
(* data of its family.                                                     *)
ReceiveShutdownWrite ==
    /\ "StreamShutdownWrite" \in control
    /\ control' = control \ {"StreamShutdownWrite"}
    /\ session' = IF session = "open" THEN "half" ELSE session
    /\ UNCHANGED <<egressVars, net, nacks, notices, replay, family, pending, bus, ghostVars,
                   budgets>>

ReceiveClose ==
    /\ "StreamClose" \in control
    /\ control' = control \ {"StreamClose"}
    /\ family' = NoFamily
    /\ pending' = <<>>
    /\ session' = "gone"
    /\ UNCHANGED <<egressVars, net, nacks, notices, replay, bus, ghostVars, budgets>>

(* A package of a new family finds the table full and this entry goes. *)
Evict ==
    /\ family # NoFamily /\ evictions < MaxEvict
    /\ evictions' = evictions + 1
    /\ family' = NoFamily
    /\ UNCHANGED <<egressVars, netVars, replay, session, pending, bus, ghostVars, losses, copies>>

(* Everything that can still happen has: the stream is quiet. *)
Quiet ==
    /\ sender = "aborted" /\ net = {} /\ nacks = {} /\ control = {} /\ ~notices
    /\ UNCHANGED vars

Egress ==
    \/ Send \/ SendBufferFull \/ shutdown_write \/ abort \/ CloseNotice
    \/ \E missing \in nacks : enqueue_retransmit(missing)
    \/ \E seq \in Seqs : DownstreamGap(seq)

Ingress ==
    \/ \E seq \in Seqs, copy \in BOOLEAN : Receive(seq, copy)
    \/ ReceiveShutdownWrite \/ ReceiveClose \/ Evict

Next ==
    \/ Egress \/ Ingress \/ LoseControl \/ Quiet
    \/ \E seq \in Seqs : Lose(seq)

Spec == Init /\ [][Next]_vars

(* A datagram that is not lost arrives, and the driver task that reads the *)
(* AckNack frames is scheduled.                                            *)
Fairness ==
    /\ \A seq \in Seqs : WF_vars(Receive(seq, FALSE))
    /\ WF_vars(\E missing \in nacks : enqueue_retransmit(missing))

FairSpec == Spec /\ Fairness

(***************************************************************************)
(* Properties                                                              *)
(***************************************************************************)

(* The bus session is sent the chunks of the stream in order, each once    *)
(* and without a hole, whatever the network, the repair ring, an overflow  *)
(* or an eviction do: the replay cache keeps a restarted family from       *)
(* delivering a chunk again.  As long as the family entry is the first one *)
(* and the session is open, everything the family released has been sent.  *)
BusInOrder ==
    /\ TypeOK
    /\ \A i \in 1 .. Len(bus) : bus[i] = i
    /\ session = "open" /\ family # NoFamily /\ ~overflowed /\ evictions = 0
          => family.next_expected_seq = Len(bus) + 1

(* Every number that the family misses is filled once the egress is asked, *)
(* unless the feedback or the repair is lost too, the ring no longer holds *)
(* it, or the family entry was removed by an overflow, an eviction or a    *)
(* StreamClose.                                                            *)
GapRepaired ==
    (family # NoFamily /\ Missing(family) # {})
        ~> (\/ family = NoFamily \/ overflowed \/ evictions > 0 \/ spoilt
            \/ session = "gone" \/ Missing(family) = {})

(* Closing the family on overflow is final: nothing of the stream enters   *)
(* the bus afterwards (the comment on NATIVE_REORDER_WINDOW).              *)
OverflowIsFinal == ~reentered
=============================================================================
