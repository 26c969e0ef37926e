----------------------------- MODULE ReorderOps -----------------------------
(***************************************************************************)
(* FamilyReorderState (lib/mb-reorder): the receiver-side record that puts *)
(* the packages of one event family back in order.  A package is its       *)
(* sequence number; the buffer is the set of the numbers it holds; the     *)
(* u128 bitmap is the set of its one bits.                                 *)
(***************************************************************************)
EXTENDS Integers, Sequences

CONSTANTS
    ReorderWindow,  \* the reorder_window of the constructor (64 in both peers)
    BitmapBits      \* FAMILY_BITMAP_BITS, the width of received_bitmap

ASSUME WindowAssumption ==
    /\ ReorderWindow \in Nat \ {0}
    /\ BitmapBits \in Nat \ {0}

None == -1

(* What push_package answers. *)
Outcome == {"Deliver", "Buffered", "Duplicate", "Gap", "WindowOverflow"}

Family == [next_expected_seq : Nat,
           received_bitmap   : SUBSET Nat,
           buffer            : SUBSET Nat,
           highest_seen      : Nat \cup {None},
           closed            : BOOLEAN]

new(start) == [next_expected_seq |-> start, received_bitmap |-> {}, buffer |-> {},
               highest_seen |-> None, closed |-> FALSE]

window == IF ReorderWindow < BitmapBits THEN ReorderWindow ELSE BitmapBits

rebuild_bitmap(buffer, next) == {k - next : k \in {b \in buffer : b - next < BitmapBits}}

(* The frontier once the run of buffered packages that follows seq is      *)
(* taken out: the least number above seq that is not buffered.             *)
EndOfRun(buffer, seq) ==
    CHOOSE q \in seq + 1 .. seq + window :
        /\ q \notin buffer
        /\ \A r \in seq + 1 .. q - 1 : r \in buffer

(* Mutant of Deliver: the drain takes the run out of the buffer and moves  *)
(* the frontier by one only.                                               *)
DeliverMovesOne(f, seq) ==
    LET q == EndOfRun(f.buffer, seq)
        b == {k \in f.buffer : k >= q}
    IN  [f EXCEPT !.next_expected_seq = seq + 1, !.buffer = b,
                  !.received_bitmap = rebuild_bitmap(b, seq + 1)]

Deliver(f, seq) ==
    LET q == EndOfRun(f.buffer, seq)
        b == {k \in f.buffer : k >= q}
    IN  [f EXCEPT !.next_expected_seq = q, !.buffer = b,
                  !.received_bitmap = rebuild_bitmap(b, q)]

Store(f, seq) ==
    [f EXCEPT !.buffer = @ \cup {seq},
              !.highest_seen = IF @ < seq THEN seq ELSE @,
              !.received_bitmap = rebuild_bitmap(f.buffer \cup {seq}, f.next_expected_seq)]

(* Mutant of push_outcome: only the first gap is announced. *)
push_outcomeOneGap(f, seq) ==
    IF f.closed THEN "WindowOverflow"
    ELSE IF seq < f.next_expected_seq \/ seq \in f.buffer THEN "Duplicate"
    ELSE IF seq = f.next_expected_seq THEN "Deliver"
    ELSE IF seq - f.next_expected_seq >= window THEN "WindowOverflow"
    ELSE IF f.highest_seen = None THEN "Gap" ELSE "Buffered"

(* push_package, its answer. *)
push_outcome(f, seq) ==
    IF f.closed THEN "WindowOverflow"
    ELSE IF seq < f.next_expected_seq \/ seq \in f.buffer THEN "Duplicate"
    ELSE IF seq = f.next_expected_seq THEN "Deliver"
    ELSE IF seq - f.next_expected_seq >= window THEN "WindowOverflow"
    ELSE IF seq > f.highest_seen THEN "Gap" ELSE "Buffered"

(* push_package, the record it leaves. *)
push_state(f, seq) ==
    CASE push_outcome(f, seq) = "Duplicate" -> f
      [] push_outcome(f, seq) = "Deliver" -> Deliver(f, seq)
      [] push_outcome(f, seq) = "WindowOverflow" -> [f EXCEPT !.closed = TRUE]
      [] push_outcome(f, seq) \in {"Gap", "Buffered"} -> Store(f, seq)

(* push_package, the packages it hands out, lowest first. *)
push_delivers(f, seq) ==
    IF push_outcome(f, seq) = "Deliver"
    THEN [i \in 1 .. EndOfRun(f.buffer, seq) - seq |-> seq + i - 1]
    ELSE <<>>

(* Mutant of Scan: a range ends at the received number that closes it. *)
ScanEndsLate(f) ==
    LET scan[seq \in Nat] ==
          IF seq < f.next_expected_seq THEN [ranges |-> <<>>, run_start |-> None]
          ELSE LET s == scan[seq - 1]
               IN  CASE seq \in f.buffer /\ s.run_start # None ->
                          [ranges |-> Append(s.ranges, <<s.run_start, seq>>),
                           run_start |-> None]
                     [] seq \notin f.buffer /\ s.run_start = None ->
                          [s EXCEPT !.run_start = seq]
                     [] OTHER -> s
    IN  scan

(* The loop of ack_snapshot over the numbers up to seq: the ranges closed  *)
(* so far and the start of the open one.                                   *)
Scan(f) ==
    LET scan[seq \in Nat] ==
          IF seq < f.next_expected_seq THEN [ranges |-> <<>>, run_start |-> None]
          ELSE LET s == scan[seq - 1]
               IN  CASE seq \in f.buffer /\ s.run_start # None ->
                          [ranges |-> Append(s.ranges, <<s.run_start, seq - 1>>),
                           run_start |-> None]
                     [] seq \notin f.buffer /\ s.run_start = None ->
                          [s EXCEPT !.run_start = seq]
                     [] OTHER -> s
    IN  scan

(* ack_snapshot: the frontier, the bitmap and the missing ranges. *)
ack_snapshot(f) ==
    LET s == Scan(f)[f.highest_seen]
    IN  [cumulative_seq  |-> f.next_expected_seq,
         received_bitmap |-> f.received_bitmap,
         missing_ranges  |->
            IF f.highest_seen = None THEN <<>>
            ELSE IF s.run_start # None THEN Append(s.ranges, <<s.run_start, f.highest_seen>>)
                 ELSE s.ranges]
=============================================================================
