---------------------------- MODULE ReorderProofs ----------------------------
(***************************************************************************)
(* What push_package does to one FamilyReorderState, for every window and  *)
(* bitmap width.  The drain needs the least number that is not buffered,   *)
(* whose existence rests on the well-foundedness of < on the naturals.     *)
(***************************************************************************)
EXTENDS ReorderOps, WellFoundedInduction, TLAPS

NatLess == {p \in Nat \X Nat : p[1] < p[2]}

(* Every nonempty set of naturals has a least element. *)
LEMMA LeastNatural ==
    ASSUME NEW T \in SUBSET Nat, T # {}
    PROVE  \E x \in T : \A y \in T : x <= y
<1>1. NatLess = OpToRel(<, Nat)
  BY Zenon DEF NatLess, OpToRel
<1>2. IsWellFoundedOn(NatLess, Nat)
  BY <1>1, NatLessThanWellFounded, Zenon
<1>3. PICK x \in T : \A y \in T : ~ (<<y, x>> \in NatLess)
  BY <1>2, WFMin, Zenon
<1>4. \A y \in T : ~ (y < x)
  BY <1>3, Zenon DEF NatLess
<1> QED
  BY <1>3, <1>4

(* window() is at least one. *)
LEMMA WindowPositive == window \in Nat /\ window >= 1
  BY WindowAssumption DEF window

(* The drain stops at the first number above seq that is not buffered.     *)
LEMMA EndOfRunIsEnd ==
    ASSUME NEW buffer \in SUBSET Nat, NEW seq \in Nat,
           \A k \in buffer : k < seq + window
    PROVE  /\ EndOfRun(buffer, seq) \in Nat
           /\ EndOfRun(buffer, seq) > seq
           /\ EndOfRun(buffer, seq) \notin buffer
           /\ \A r \in seq + 1 .. EndOfRun(buffer, seq) - 1 : r \in buffer
<1> DEFINE T == {q \in Nat : q > seq /\ q \notin buffer}
<1>1. seq + window \in T
  BY WindowPositive
<1>2. PICK q \in T : \A y \in T : q <= y
  BY <1>1, LeastNatural, Zenon
<1>3. q \in seq + 1 .. seq + window
  BY <1>1, <1>2, WindowPositive
<1>4. \A r \in seq + 1 .. q - 1 : r \in buffer
  BY <1>2
<1>5. q \notin buffer
  BY <1>2
<1>6. /\ EndOfRun(buffer, seq) \in seq + 1 .. seq + window
      /\ EndOfRun(buffer, seq) \notin buffer
      /\ \A r \in seq + 1 .. EndOfRun(buffer, seq) - 1 : r \in buffer
  BY <1>3, <1>4, <1>5, Zenon DEF EndOfRun
<1> QED
  BY <1>6, WindowPositive

(* A record push_package leaves: the buffer is above the frontier and      *)
(* inside the window.                                                      *)
FamilyOK(f) ==
    /\ f \in Family
    /\ \A k \in f.buffer : f.next_expected_seq < k /\ k < f.next_expected_seq + window

LEMMA NewFamily ==
    ASSUME NEW start \in Nat
    PROVE  /\ FamilyOK(new(start)) /\ new(start).next_expected_seq = start
           /\ new(start).buffer = {} /\ new(start).highest_seen = None
  BY DEF FamilyOK, Family, new

LEMMA FamilyFields ==
    ASSUME NEW f, FamilyOK(f)
    PROVE  /\ f \in Family /\ f.next_expected_seq \in Nat /\ f.buffer \in SUBSET Nat
           /\ f.highest_seen \in Nat \cup {None} /\ f.received_bitmap \in SUBSET Nat
  BY DEF FamilyOK, Family

LEMMA BitmapType ==
    ASSUME NEW b \in SUBSET Nat, NEW n \in Nat, \A k \in b : n < k
    PROVE  rebuild_bitmap(b, n) \in SUBSET Nat
  BY DEF rebuild_bitmap

(* What is handed out is the run that starts at the frontier: the package  *)
(* itself and packages of the buffer.                                      *)
LEMMA PushDelivers ==
    ASSUME NEW f, FamilyOK(f), NEW seq \in Nat, push_outcome(f, seq) = "Deliver"
    PROVE  LET q == EndOfRun(f.buffer, seq)
           IN  /\ seq = f.next_expected_seq /\ q \in Nat /\ q > seq
               /\ \A r \in seq + 1 .. q - 1 : r \in f.buffer
               /\ push_delivers(f, seq) = [i \in 1 .. q - seq |-> seq + i - 1]
               /\ FamilyOK(push_state(f, seq))
               /\ push_state(f, seq).next_expected_seq = q
               /\ push_state(f, seq).buffer \subseteq f.buffer
               /\ push_state(f, seq).highest_seen = f.highest_seen
<1> DEFINE q == EndOfRun(f.buffer, seq)
           b == {k \in f.buffer : k >= q}
<1>1. seq = f.next_expected_seq
  BY DEF push_outcome
<1>2. /\ f \in Family /\ f.buffer \in SUBSET Nat
      /\ \A k \in f.buffer : k < seq + window
  BY <1>1, FamilyFields DEF FamilyOK
<1>3. /\ q \in Nat /\ q > seq /\ q \notin f.buffer
      /\ \A r \in seq + 1 .. q - 1 : r \in f.buffer
  BY <1>2, EndOfRunIsEnd, Zenon
<1>4. push_delivers(f, seq) = [i \in 1 .. q - seq |-> seq + i - 1]
  BY Zenon DEF push_delivers
<1>5. push_state(f, seq) = [f EXCEPT !.next_expected_seq = q, !.buffer = b,
                                     !.received_bitmap = rebuild_bitmap(b, q)]
  BY DEF push_state, Deliver
<1>6. b \in SUBSET Nat /\ b \subseteq f.buffer /\ \A k \in b : q < k /\ k < q + window
  BY <1>2, <1>3, WindowPositive
<1>7. rebuild_bitmap(b, q) \in SUBSET Nat
  BY <1>3, <1>6, BitmapType
<1> HIDE DEF q, b
<1>8. /\ push_state(f, seq) \in Family
      /\ push_state(f, seq).next_expected_seq = q /\ push_state(f, seq).buffer = b
      /\ push_state(f, seq).highest_seen = f.highest_seen
  BY <1>2, <1>3, <1>5, <1>6, <1>7, Zenon DEF Family
<1>9. FamilyOK(push_state(f, seq))
  BY <1>6, <1>8, Zenon DEF FamilyOK
<1> QED
  BY <1>1, <1>3, <1>4, <1>6, <1>8, <1>9, Zenon DEF q

(* A package above the frontier is stored. *)
LEMMA PushStores ==
    ASSUME NEW f, FamilyOK(f), NEW seq \in Nat, push_outcome(f, seq) \in {"Gap", "Buffered"}
    PROVE  /\ FamilyOK(push_state(f, seq))
           /\ push_state(f, seq).next_expected_seq = f.next_expected_seq
           /\ push_state(f, seq).buffer = f.buffer \cup {seq}
           /\ push_state(f, seq).highest_seen \in {f.highest_seen, seq}
<1> DEFINE n == f.next_expected_seq
           b == f.buffer \cup {seq}
<1>1. f \in Family /\ n \in Nat /\ f.buffer \in SUBSET Nat /\ f.highest_seen \in Nat \cup {None}
  BY FamilyFields
<1>2. n < seq /\ seq < n + window
  BY <1>1, WindowPositive DEF push_outcome
<1>3. push_state(f, seq) = [f EXCEPT !.buffer = b,
            !.highest_seen = IF f.highest_seen < seq THEN seq ELSE f.highest_seen,
            !.received_bitmap = rebuild_bitmap(b, n)]
  BY <1>1 DEF push_state, Store, Family
<1>4. b \in SUBSET Nat /\ \A k \in b : n < k /\ k < n + window
  BY <1>1, <1>2 DEF FamilyOK
<1>5. rebuild_bitmap(b, n) \in SUBSET Nat
  BY <1>1, <1>4, BitmapType
<1> HIDE DEF b
<1>6. /\ push_state(f, seq) \in Family
      /\ push_state(f, seq).next_expected_seq = n /\ push_state(f, seq).buffer = b
      /\ push_state(f, seq).highest_seen \in {f.highest_seen, seq}
  BY <1>1, <1>3, <1>4, <1>5, Zenon DEF Family
<1> QED
  BY <1>4, <1>6, Zenon DEF FamilyOK, b

(* A duplicate changes nothing. *)
LEMMA PushDuplicate ==
    ASSUME NEW f, NEW seq, push_outcome(f, seq) = "Duplicate"
    PROVE  push_state(f, seq) = f
  BY DEF push_state
=============================================================================
