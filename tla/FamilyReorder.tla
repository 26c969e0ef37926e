---------------------------- MODULE FamilyReorder ----------------------------
(***************************************************************************)
(* One FamilyReorderState fed with packages that the network may lose,     *)
(* repeat and reorder: the only step is push_package with any number.      *)
(* delivered, accepted and announced record what the family did; nothing   *)
(* in the code reads them.                                                 *)
(***************************************************************************)
EXTENDS ReorderOps

CONSTANTS
    StartSeq,       \* the start_seq of the constructor (1 in both peers)
    Packet          \* the numbers that may arrive

ASSUME SeqAssumption == StartSeq \in Nat \ {0} /\ Packet \subseteq Nat

VARIABLES
    family,         \* the FamilyReorderState
    delivered,      \* the packages handed out by Deliver, in order
    accepted,       \* the packages push_package took
    announced       \* the numbers reported missing in some Gap

vars == <<family, delivered, accepted, announced>>

Missing(f) == {q \in f.next_expected_seq .. f.highest_seen : q \notin f.buffer}

TypeOK ==
    /\ family \in Family
    /\ delivered \in Seq(Nat)
    /\ accepted \subseteq Nat
    /\ announced \subseteq Nat

Init ==
    /\ family = new(StartSeq)
    /\ delivered = <<>>
    /\ accepted = {}
    /\ announced = {}

push_package(seq) ==
    LET out == push_outcome(family, seq)
    IN  /\ family' = push_state(family, seq)
        /\ delivered' = delivered \o push_delivers(family, seq)
        /\ accepted' = IF out \in {"Deliver", "Gap", "Buffered"}
                       THEN accepted \cup {seq} ELSE accepted
        /\ announced' = IF out = "Gap" THEN announced \cup Missing(family')
                                       ELSE announced

Next == \E seq \in Packet : push_package(seq)

Spec == Init /\ [][Next]_vars

(***************************************************************************)
(* Properties                                                              *)
(***************************************************************************)

(* Deliver hands out every number from the start exactly once and in       *)
(* order, whatever order and repetition push_package sees them in.         *)
DeliveredInOrder ==
    /\ family.next_expected_seq = StartSeq + Len(delivered)
    /\ \A i \in 1 .. Len(delivered) : delivered[i] = StartSeq + i - 1

(* A package push_package took is delivered or still in the buffer: the    *)
(* drain after a Deliver drops none and leaves none behind.                *)
AcceptedIsKept ==
    accepted = {delivered[i] : i \in 1 .. Len(delivered)} \cup family.buffer

(* The buffer stays strictly above the frontier and inside the window, so  *)
(* that the bitmap rebuild_bitmap computes has a bit for every package and *)
(* no bit is out of its width.                                             *)
BitmapIsExact ==
    /\ \A k \in family.buffer : k > family.next_expected_seq
    /\ \A k \in family.buffer : k < family.next_expected_seq + window
    /\ family.received_bitmap = {k - family.next_expected_seq : k \in family.buffer}

(* The missing_ranges of ack_snapshot are exactly the maximal runs of      *)
(* numbers that are missing below the highest one seen: the ranges are     *)
(* increasing, a received number lies between two of them, and together    *)
(* they are Missing.                                                       *)
AckIsExact ==
    LET r == ack_snapshot(family).missing_ranges
    IN  /\ UNION {r[i][1] .. r[i][2] : i \in 1 .. Len(r)} = Missing(family)
        /\ \A i \in 1 .. Len(r) : r[i][1] <= r[i][2]
        /\ \A i \in 1 .. Len(r) - 1 : r[i][2] + 1 < r[i + 1][1]

(* Every number missing below the highest one seen has been reported in a  *)
(* Gap: Gap is answered only when the frontier of what was seen moves, and *)
(* that is enough for each missing number to be asked for once.            *)
MissingIsAnnounced == Missing(family) \subseteq announced
=============================================================================
