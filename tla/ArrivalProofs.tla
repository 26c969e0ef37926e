---------------------------- MODULE ArrivalProofs ----------------------------
(***************************************************************************)
(* Proofs about the two ledgers of what arrives: the reorder buffer of an  *)
(* event family, for every window, bitmap width, start and set of arriving *)
(* numbers, and the replay cache, for every set of keys, every set of      *)
(* counters and every window that fits the ring.                           *)
(***************************************************************************)
EXTENDS FamilyReorder, ReplayWindow, ReorderProofs

(***************************************************************************)
(* The family.  The invariant is the conjunction of the properties and of  *)
(* one fact none of them states, that nothing buffered is above the        *)
(* highest number seen; it is inductive as it stands.                      *)
(***************************************************************************)

(* Nothing buffered is above the highest number seen. *)
HighestBounds == \A k \in family.buffer : k <= family.highest_seen

Inv == TypeOK /\ DeliveredInOrder /\ AcceptedIsKept /\ BitmapIsExact /\ MissingIsAnnounced
       /\ HighestBounds

(* What was handed out is the interval below the frontier. *)
LEMMA DeliveredInterval ==
    ASSUME NEW d \in Seq(Nat), NEW start \in Nat,
           \A i \in 1 .. Len(d) : d[i] = start + i - 1
    PROVE  {d[i] : i \in 1 .. Len(d)} = start .. start + Len(d) - 1
<1>1. Len(d) \in Nat
  OBVIOUS
<1>2. ASSUME NEW x \in start .. start + Len(d) - 1
      PROVE  x \in {d[i] : i \in 1 .. Len(d)}
  <2>1. x - start + 1 \in 1 .. Len(d)
    BY <1>1
  <2>2. d[x - start + 1] = x
    BY <2>1
  <2> QED
    BY <2>1, <2>2
<1>3. \A i \in 1 .. Len(d) : d[i] \in start .. start + Len(d) - 1
  BY <1>1
<1> QED
  BY <1>2, <1>3, Zenon

LEMMA InvInit == Init => Inv
<1> SUFFICES ASSUME Init PROVE Inv
  OBVIOUS
<1> USE SeqAssumption DEF Init, new, None
<1>1. TypeOK
  BY DEF TypeOK, Family
<1>2. DeliveredInOrder
  BY DEF DeliveredInOrder
<1>3. AcceptedIsKept
  BY DEF AcceptedIsKept
<1>4. BitmapIsExact
  BY DEF BitmapIsExact
<1>5. MissingIsAnnounced /\ HighestBounds
  BY DEF MissingIsAnnounced, Missing, HighestBounds
<1> QED
  BY <1>1, <1>2, <1>3, <1>4, <1>5 DEF Inv

(* A package that is handed out moves the frontier past the whole run that *)
(* was waiting for it.                                                     *)
LEMMA InvDeliver ==
    ASSUME Inv, NEW seq \in Nat, push_package(seq), push_outcome(family, seq) = "Deliver"
    PROVE  Inv'
<1> DEFINE n == family.next_expected_seq
           q == EndOfRun(family.buffer, seq)
           b == {k \in family.buffer : k >= q}
           run == [i \in 1 .. q - seq |-> seq + i - 1]
<1>1. /\ family \in Family /\ n \in Nat /\ family.buffer \in SUBSET Nat
      /\ family.highest_seen \in Nat \cup {None}
  BY DEF Inv, TypeOK, Family
<1>2. seq = n
  BY DEF push_outcome
<1>3. /\ q \in Nat /\ q > seq /\ q \notin family.buffer
      /\ \A r \in seq + 1 .. q - 1 : r \in family.buffer
  <2>1. \A k \in family.buffer : k < seq + window
    BY <1>2 DEF Inv, BitmapIsExact
  <2> QED
    BY <1>1, <2>1, EndOfRunIsEnd, Zenon
<1>4. family' = Deliver(family, seq)
  BY DEF push_package, push_state
<1>5. /\ family'.next_expected_seq = q
      /\ family'.buffer = b
      /\ family'.received_bitmap = rebuild_bitmap(b, q)
      /\ family'.highest_seen = family.highest_seen
      /\ family'.closed = family.closed
  BY <1>1, <1>4 DEF Deliver, Family
<1>6. run \in Seq(Nat) /\ Len(run) = q - seq
  BY <1>3
<1>7. /\ delivered' = delivered \o run
      /\ accepted' = accepted \cup {seq}
      /\ announced' = announced
  BY DEF push_package, push_delivers
<1>8. delivered \in Seq(Nat) /\ accepted \subseteq Nat /\ announced \subseteq Nat
  BY DEF Inv, TypeOK
<1>9. b \subseteq Nat /\ \A k \in b : k > q /\ k < q + window
  BY <1>1, <1>2, <1>3, WindowPositive DEF Inv, BitmapIsExact
<1>10. rebuild_bitmap(b, q) = {k - q : k \in b} /\ rebuild_bitmap(b, q) \subseteq Nat
  <2>1. window <= BitmapBits
    BY WindowAssumption DEF window
  <2>2. \A k \in b : k - q < BitmapBits
    BY <1>3, <1>9, <2>1, WindowPositive, WindowAssumption
  <2>3. {k \in b : k - q < BitmapBits} = b
    BY <2>2
  <2>4. rebuild_bitmap(b, q) = {k - q : k \in b}
    BY <2>3 DEF rebuild_bitmap
  <2> QED
    BY <1>3, <1>9, <2>4
<1> HIDE DEF q, b, run
<1>11. DeliveredInOrder'
  <2>1. /\ Len(delivered) \in Nat
        /\ n = StartSeq + Len(delivered)
        /\ \A i \in 1 .. Len(delivered) : delivered[i] = StartSeq + i - 1
    BY <1>8 DEF Inv, DeliveredInOrder
  <2>2. Len(delivered') = Len(delivered) + (q - seq)
    <3>1. Len(delivered \o run) = Len(delivered) + Len(run)
      BY <1>6, <1>8, SMTT(60)
    <3> QED
      BY <1>6, <1>7, <3>1
  <2>3. StartSeq \in Nat
    BY SeqAssumption
  <2>4. q = StartSeq + Len(delivered')
    BY <1>2, <1>3, <2>1, <2>2, <2>3
  <2>5. ASSUME NEW i \in 1 .. Len(delivered')
        PROVE  delivered'[i] = StartSeq + i - 1
    <3>1. CASE i <= Len(delivered)
      <4>1. delivered'[i] = delivered[i]
        BY <1>6, <1>7, <1>8, <3>1
      <4> QED
        BY <2>1, <3>1, <4>1
    <3>2. CASE i > Len(delivered)
      <4>1. i - Len(delivered) \in 1 .. q - seq
        BY <1>3, <2>1, <2>2, <3>2
      <4>2. delivered'[i] = run[i - Len(delivered)]
        BY <1>6, <1>7, <1>8, <2>2, <3>2
      <4>3. run[i - Len(delivered)] = seq + (i - Len(delivered)) - 1
        BY <4>1 DEF run
      <4> QED
        BY <1>2, <2>1, <2>3, <4>1, <4>2, <4>3
    <3> QED
      BY <2>1, <3>1, <3>2
  <2> QED
    BY <1>5, <2>4, <2>5 DEF DeliveredInOrder
<1>12. TypeOK'
  <2>1. family' \in Family
    BY <1>1, <1>3, <1>4, <1>9, <1>10, Zenon DEF Deliver, Family, q, b
  <2>2. delivered' \in Seq(Nat)
    BY <1>6, <1>7, <1>8
  <2> QED
    BY <1>7, <1>8, <2>1, <2>2 DEF TypeOK
<1>13. AcceptedIsKept'
  <2>1. {delivered[i] : i \in 1 .. Len(delivered)} = StartSeq .. n - 1
    <3>1. /\ n = StartSeq + Len(delivered)
          /\ \A i \in 1 .. Len(delivered) : delivered[i] = StartSeq + i - 1
      BY Zenon DEF Inv, DeliveredInOrder
    <3>2. StartSeq \in Nat
      BY SeqAssumption
    <3>3. {delivered[i] : i \in 1 .. Len(delivered)} = StartSeq .. StartSeq + Len(delivered) - 1
      BY <1>8, <3>1, <3>2, DeliveredInterval, Zenon
    <3>4. n - 1 = StartSeq + Len(delivered) - 1
      BY <1>8, <3>1, <3>2
    <3> QED
      BY <3>3, <3>4
  <2>2. {delivered'[i] : i \in 1 .. Len(delivered')} = StartSeq .. q - 1
    <3>1. /\ q = StartSeq + Len(delivered')
          /\ \A i \in 1 .. Len(delivered') : delivered'[i] = StartSeq + i - 1
      BY <1>5, <1>11, Zenon DEF DeliveredInOrder
    <3>2. StartSeq \in Nat /\ delivered' \in Seq(Nat)
      BY <1>12, SeqAssumption DEF TypeOK
    <3>3. {delivered'[i] : i \in 1 .. Len(delivered')}
              = StartSeq .. StartSeq + Len(delivered') - 1
      BY <3>1, <3>2, DeliveredInterval, Zenon
    <3>4. q - 1 = StartSeq + Len(delivered') - 1
      BY <3>1, <3>2
    <3> QED
      BY <3>3, <3>4
  <2>3. accepted = (StartSeq .. n - 1) \cup family.buffer
    BY <2>1 DEF Inv, AcceptedIsKept
  <2>4. family.buffer = (seq + 1 .. q - 1) \cup b
    BY <1>1, <1>2, <1>3 DEF Inv, BitmapIsExact, b
  <2>5. StartSeq <= n
    BY <1>8, SeqAssumption DEF Inv, DeliveredInOrder
  <2>6. accepted' = (StartSeq .. q - 1) \cup b
    BY <1>1, <1>2, <1>3, <1>7, <2>3, <2>4, <2>5, SeqAssumption
  <2> QED
    BY <1>5, <2>2, <2>6 DEF AcceptedIsKept
<1>14. BitmapIsExact'
  BY <1>3, <1>5, <1>9, <1>10, Zenon DEF BitmapIsExact
<1>15. MissingIsAnnounced'
  <2>1. ASSUME NEW x \in q .. family.highest_seen, x \notin b
        PROVE  x \in Missing(family)
    BY <1>1, <1>2, <1>3, <2>1 DEF Missing, b, None
  <2>2. Missing(family)' \subseteq Missing(family)
    BY <1>5, <2>1 DEF Missing
  <2> QED
    BY <1>7, <2>2 DEF Inv, MissingIsAnnounced
<1>16. HighestBounds'
  BY <1>5 DEF Inv, HighestBounds, b
<1> QED
  BY <1>11, <1>12, <1>13, <1>14, <1>15, <1>16 DEF Inv

(* A package stored above the frontier. *)
LEMMA InvStore ==
    ASSUME Inv, NEW seq \in Nat, push_package(seq),
           push_outcome(family, seq) \in {"Gap", "Buffered"}
    PROVE  Inv'
<1> DEFINE n == family.next_expected_seq
           b == family.buffer \cup {seq}
<1>1. /\ family \in Family /\ n \in Nat /\ family.buffer \in SUBSET Nat
      /\ family.highest_seen \in Nat \cup {None}
  BY DEF Inv, TypeOK, Family
<1>2. /\ seq > n /\ seq < n + window /\ seq \notin family.buffer
      /\ push_outcome(family, seq) = "Gap" <=> seq > family.highest_seen
  BY <1>1, WindowPositive DEF push_outcome
<1>3. family' = Store(family, seq)
  BY DEF push_package, push_state
<1>4. /\ family'.next_expected_seq = n
      /\ family'.buffer = b
      /\ family'.received_bitmap = rebuild_bitmap(b, n)
      /\ family'.highest_seen = IF family.highest_seen < seq THEN seq ELSE family.highest_seen
  BY <1>1, <1>3 DEF Store, Family
<1>5. /\ delivered' = delivered
      /\ accepted' = accepted \cup {seq}
      /\ announced' = IF seq > family.highest_seen THEN announced \cup Missing(family')
                                                   ELSE announced
  <2>1. delivered \in Seq(Nat)
    BY DEF Inv, TypeOK
  <2> QED
    BY <1>2, <2>1 DEF push_package, push_delivers
<1>6. b \subseteq Nat /\ \A k \in b : k > n /\ k < n + window
  BY <1>1, <1>2 DEF Inv, BitmapIsExact
<1>7. rebuild_bitmap(b, n) = {k - n : k \in b} /\ rebuild_bitmap(b, n) \subseteq Nat
  <2>1. window <= BitmapBits
    BY WindowAssumption DEF window
  <2>2. \A k \in b : k - n < BitmapBits
    BY <1>1, <1>6, <2>1, WindowPositive, WindowAssumption
  <2>3. {k \in b : k - n < BitmapBits} = b
    BY <2>2
  <2>4. rebuild_bitmap(b, n) = {k - n : k \in b}
    BY <2>3 DEF rebuild_bitmap
  <2>5. \A k \in b : k - n \in Nat
    BY <1>1, <1>6
  <2> QED
    BY <2>4, <2>5, Zenon
<1>8. Missing(family') \subseteq Nat
  BY <1>1, <1>4 DEF Missing, None
<1>9. TypeOK'
  <2>1. family' \in Family
    BY <1>1, <1>3, <1>6, <1>7, Zenon DEF Store, Family
  <2> QED
    BY <1>5, <1>8, <2>1, Zenon DEF Inv, TypeOK
<1>10. DeliveredInOrder'
  BY <1>4, <1>5 DEF Inv, DeliveredInOrder
<1>11. AcceptedIsKept'
  BY <1>4, <1>5 DEF Inv, AcceptedIsKept
<1>12. BitmapIsExact'
  BY <1>4, <1>6, <1>7 DEF BitmapIsExact
<1>13. MissingIsAnnounced'
  <2>1. CASE seq > family.highest_seen
    BY <1>5, <2>1 DEF MissingIsAnnounced
  <2>2. CASE ~(seq > family.highest_seen)
    <3>1. family'.highest_seen = family.highest_seen
      BY <1>1, <1>4, <2>2 DEF None
    <3>2. Missing(family') \subseteq Missing(family)
      BY <1>4, <3>1 DEF Missing
    <3> QED
      BY <1>5, <2>2, <3>2 DEF Inv, MissingIsAnnounced
  <2> QED
    BY <2>1, <2>2
<1>14. HighestBounds'
  BY <1>1, <1>4 DEF Inv, HighestBounds, None
<1> QED
  BY <1>9, <1>10, <1>11, <1>12, <1>13, <1>14 DEF Inv

(* A duplicate changes nothing and an overflow only closes the family. *)
LEMMA InvRefuse ==
    ASSUME Inv, NEW seq \in Nat, push_package(seq),
           push_outcome(family, seq) \in {"Duplicate", "WindowOverflow"}
    PROVE  Inv'
<1>1. family \in Family
  BY DEF Inv, TypeOK
<1>2. family' \in {family, [family EXCEPT !.closed = TRUE]}
  BY DEF push_package, push_state
<1>3. /\ family' \in Family
      /\ family'.next_expected_seq = family.next_expected_seq
      /\ family'.buffer = family.buffer
      /\ family'.received_bitmap = family.received_bitmap
      /\ family'.highest_seen = family.highest_seen
  BY <1>1, <1>2, Zenon DEF Family
<1>4. delivered' = delivered /\ accepted' = accepted /\ announced' = announced
  <2>1. delivered \in Seq(Nat)
    BY DEF Inv, TypeOK
  <2> QED
    BY <2>1 DEF push_package, push_delivers
<1> QED
  BY <1>3, <1>4 DEF Inv, TypeOK, DeliveredInOrder, AcceptedIsKept, BitmapIsExact,
                    MissingIsAnnounced, Missing, HighestBounds

LEMMA InvNext == Inv /\ [Next]_vars => Inv'
<1> SUFFICES ASSUME Inv, [Next]_vars PROVE Inv'
  OBVIOUS
<1>1. CASE UNCHANGED vars
  BY <1>1 DEF vars, Inv, TypeOK, DeliveredInOrder, AcceptedIsKept, BitmapIsExact,
              MissingIsAnnounced, Missing, HighestBounds
<1>2. ASSUME NEW seq \in Packet, push_package(seq) PROVE Inv'
  <2>1. seq \in Nat
    BY SeqAssumption
  <2>2. push_outcome(family, seq) \in Outcome
    BY DEF push_outcome, Outcome
  <2> QED
    BY <1>2, <2>1, <2>2, InvDeliver, InvStore, InvRefuse, Zenon DEF Outcome
<1> QED
  BY <1>1, <1>2 DEF Next

(* The records and the logs of a family keep their types. *)
THEOREM TypeCorrect == Spec => []TypeOK
<1>1. Inv => TypeOK
  BY DEF Inv
<1> QED
  BY <1>1, InvInit, InvNext, PTL DEF Spec

(* A family hands out every number from its start exactly once and in      *)
(* order, for every window, every start and every order of arrival.        *)
THEOREM OrderCorrect == Spec => []DeliveredInOrder
<1>1. Inv => DeliveredInOrder
  BY DEF Inv
<1> QED
  BY <1>1, InvInit, InvNext, PTL DEF Spec

(* A package push_package took is delivered or still buffered. *)
THEOREM AcceptedCorrect == Spec => []AcceptedIsKept
<1>1. Inv => AcceptedIsKept
  BY DEF Inv
<1> QED
  BY <1>1, InvInit, InvNext, PTL DEF Spec

(* The bitmap holds exactly the buffered packages, inside its width. *)
THEOREM BitmapCorrect == Spec => []BitmapIsExact
<1>1. Inv => BitmapIsExact
  BY DEF Inv
<1> QED
  BY <1>1, InvInit, InvNext, PTL DEF Spec

(* Every missing number below the highest seen was reported in a Gap. *)
THEOREM AnnouncedCorrect == Spec => []MissingIsAnnounced
<1>1. Inv => MissingIsAnnounced
  BY DEF Inv
<1> QED
  BY <1>1, InvInit, InvNext, PTL DEF Spec

-----------------------------------------------------------------------------
(***************************************************************************)
(* The replay cache implements the replay filter.  RingIsExact is          *)
(* inductive once a window that has seen nothing is known to be empty.     *)
(***************************************************************************)

(* Two integers closer than n have different remainders. *)
LEMMA ResiduesDiffer ==
    ASSUME NEW n \in Int, n > 0, NEW a \in Int, NEW b \in Int, a < b, b - a < n
    PROVE  a % n # b % n
<1>1. a = (a \div n) * n + (a % n)
  BY Z3
<1>2. b = (b \div n) * n + (b % n)
  BY Z3
<1>3. a \div n \in Int /\ b \div n \in Int /\ a % n \in Int /\ b % n \in Int
  BY Z3
<1> SUFFICES ASSUME a % n = b % n PROVE FALSE
  OBVIOUS
<1> DEFINE qa == a \div n
           qb == b \div n
<1>4. b - a = qb * n - qa * n
  BY <1>1, <1>2, <1>3
<1>5. qa \in Int /\ qb \in Int
  BY <1>3
<1> HIDE DEF qa, qb
<1>6. qb * n - qa * n = n * (qb - qa)
  BY <1>5
<1>7. qb - qa > 0
  BY <1>4, <1>5, <1>6
<1>8. n * (qb - qa) >= n
  BY <1>5, <1>7
<1> QED
  BY <1>4, <1>6, <1>8

(* Within one turn of the ring two counters have two slots. *)
LEMMA SlotsDiffer ==
    ASSUME NEW a \in Nat, NEW b \in Nat, a < b, b - a < window_bits
    PROVE  idx(a) # idx(b)
<1>1. Slots \in Int /\ Slots > 0 /\ a \in Int /\ b \in Int /\ b - a < Slots
  BY ReplayAssumption
<1> QED
  BY <1>1, ResiduesDiffer DEF idx
-----------------------------------------------------------------------------
(* A window that has seen nothing is empty. *)
UnseenIsEmpty == \A k \in Key : k \notin seen => inserted[k] = {} /\ bits[k] = {}

WindowInv == WindowTypeOK /\ RingIsExact /\ UnseenIsEmpty

(* RingIsExact for one key, in terms of the values the key has. *)
ExactAt(h, slots, acc) ==
    /\ h \in acc
    /\ \A c \in acc : c <= h
    /\ \A c \in Counter : (c <= h /\ h - c < window_bits)
                              => (idx(c) \in slots <=> c \in acc)

LEMMA IdxType == \A c \in Counter : idx(c) \in 0..(Slots - 1)
<1> SUFFICES ASSUME NEW c \in Counter PROVE idx(c) \in 0..(Slots - 1)
  OBVIOUS
<1>1. c \in Int /\ Slots \in Int /\ Slots > 0
  BY ReplayAssumption
<1> QED
  BY <1>1, Z3 DEF idx

(* check_and_insert changes the window of its key only. *)
LEMMA InsertedExact ==
    ASSUME WindowInv, NEW k \in Key, NEW c \in Counter, NEW slots \in SUBSET (0..(Slots - 1)),
           NEW h \in Nat, Inserted(k, c, slots),
           highest' = [highest EXCEPT ![k] = h], seen' = seen \cup {k},
           ExactAt(h, slots \cup {idx(c)}, inserted[k] \cup {c})
    PROVE  WindowInv'
<1>1. WindowTypeOK'
  BY IdxType, Zenon DEF WindowInv, WindowTypeOK, Inserted
<1>2. bits'[k] = slots \cup {idx(c)} /\ inserted'[k] = inserted[k] \cup {c} /\ highest'[k] = h
  BY DEF WindowInv, WindowTypeOK, Inserted
<1>3. \A j \in Key \ {k} : bits'[j] = bits[j] /\ inserted'[j] = inserted[j]
                             /\ highest'[j] = highest[j]
  BY DEF WindowInv, WindowTypeOK, Inserted
<1>4. UnseenIsEmpty'
  BY <1>3 DEF WindowInv, UnseenIsEmpty
<1>5. RingIsExact'
  <2> SUFFICES ASSUME NEW j \in seen' PROVE ExactAt(highest'[j], bits'[j], inserted'[j])
    BY DEF RingIsExact, ExactAt, test
  <2>1. CASE j = k
    BY <2>1, <1>2
  <2>2. CASE j # k
    <3>1. j \in seen /\ j \in Key \ {k}
      BY <2>2 DEF WindowInv, WindowTypeOK
    <3> QED
      BY <3>1, <1>3 DEF WindowInv, RingIsExact, ExactAt, test
  <2> QED
    BY <2>1, <2>2
<1> QED
  BY <1>1, <1>4, <1>5 DEF WindowInv

LEMMA FirstCounterExact ==
    ASSUME WindowInv, NEW k \in Key, NEW c \in Counter, FirstCounter(k, c)
    PROVE  WindowInv'
<1>1. bits[k] = {} /\ inserted[k] = {}
  BY DEF WindowInv, UnseenIsEmpty, FirstCounter
<1>2. ExactAt(c, bits[k] \cup {idx(c)}, inserted[k] \cup {c})
  <2> SUFFICES ASSUME NEW d \in Counter, d <= c, c - d < window_bits, d # c
               PROVE  idx(d) # idx(c)
    BY <1>1, ReplayAssumption DEF ExactAt
  <2> QED
    BY ReplayAssumption, SlotsDiffer
<1> QED
  BY <1>1, <1>2, InsertedExact, ReplayAssumption, Zenon DEF FirstCounter

LEMMA NewerExact ==
    ASSUME WindowInv, NEW k \in Key, NEW c \in Counter, Newer(k, c)
    PROVE  WindowInv'
<1> DEFINE h == highest[k]
           slots == advance(k, c)
<1>1. /\ h \in Nat /\ c \in Nat /\ h < c /\ window_bits \in Nat \ {0}
      /\ bits[k] \subseteq 0..(Slots - 1)
  BY ReplayAssumption DEF WindowInv, WindowTypeOK, Newer
<1>2. ExactAt(h, bits[k], inserted[k])
  BY DEF WindowInv, RingIsExact, ExactAt, test, Newer
<1>3. slots \in SUBSET (0..(Slots - 1))
  BY <1>1 DEF advance
<1>4. ExactAt(c, slots \cup {idx(c)}, inserted[k] \cup {c})
  <2>1. \A d \in inserted[k] : d <= h /\ d \in Nat
    BY <1>2, ReplayAssumption DEF ExactAt, WindowInv, WindowTypeOK
  <2>2. \A d \in inserted[k] \cup {c} : d <= c
    BY <2>1, <1>1
  <2>3. ASSUME NEW d \in Counter, d <= c, c - d < window_bits
        PROVE  idx(d) \in slots \cup {idx(c)} <=> d \in inserted[k] \cup {c}
    <3>1. d \in Nat
      BY ReplayAssumption
    <3>2. CASE d = c
      BY <3>2
    <3>3. CASE d # c /\ d > h
      <4>1. idx(d) \notin slots
        BY <3>1, <3>3, <2>3, <1>1 DEF advance
      <4>2. idx(d) # idx(c)
        BY <3>1, <3>3, <2>3, <1>1, SlotsDiffer
      <4>3. d \notin inserted[k]
        BY <3>1, <3>3, <2>1, <1>1
      <4> QED
        BY <4>1, <4>2, <4>3, <3>3
    <3>4. CASE d <= h
      <4>1. h - d < window_bits /\ c - h < window_bits /\ d # c /\ d < c
        BY <3>1, <3>4, <2>3, <1>1
      <4>2. idx(d) \in bits[k] <=> d \in inserted[k]
        BY <4>1, <3>4, <1>2 DEF ExactAt
      <4>3. idx(d) # idx(c)
        BY <4>1, <3>1, <2>3, <1>1, SlotsDiffer
      <4>4. \A e \in (h + 1)..(c - 1) : idx(d) # idx(e)
        <5> SUFFICES ASSUME NEW e \in (h + 1)..(c - 1) PROVE idx(d) # idx(e)
          OBVIOUS
        <5>1. e \in Nat /\ d < e /\ e - d < window_bits
          BY <4>1, <3>1, <3>4, <2>3, <1>1
        <5> QED
          BY <5>1, <3>1, SlotsDiffer
      <4>5. idx(d) \in slots <=> idx(d) \in bits[k]
        BY <4>1, <4>4, <1>1 DEF advance
      <4> QED
        BY <4>1, <4>2, <4>3, <4>5
    <3> QED
      BY <3>1, <3>2, <3>3, <3>4, <1>1
  <2> QED
    BY <2>2, <2>3 DEF ExactAt
<1>5. seen' = seen \cup {k} /\ Inserted(k, c, slots) /\ highest' = [highest EXCEPT ![k] = c]
  BY DEF Newer
<1> QED
  BY <1>1, <1>3, <1>4, <1>5, InsertedExact, Zenon

LEMMA LateExact ==
    ASSUME WindowInv, NEW k \in Key, NEW c \in Counter, Late(k, c)
    PROVE  WindowInv'
<1> DEFINE h == highest[k]
<1>1. /\ h \in Nat /\ c \in Nat /\ c <= h /\ h - c < window_bits
      /\ bits[k] \in SUBSET (0..(Slots - 1)) /\ highest \in [Key -> Nat]
  BY ReplayAssumption DEF WindowInv, WindowTypeOK, Late
<1>2. ExactAt(h, bits[k], inserted[k])
  BY DEF WindowInv, RingIsExact, ExactAt, test, Late
<1>3. ExactAt(h, bits[k] \cup {idx(c)}, inserted[k] \cup {c})
  <2>1. ASSUME NEW d \in Counter, d <= h, h - d < window_bits, d # c
        PROVE  idx(d) # idx(c)
    <3>1. d \in Nat /\ window_bits \in Nat
      BY ReplayAssumption
    <3>2. CASE d < c
      BY <3>1, <3>2, <2>1, <1>1, SlotsDiffer
    <3>3. CASE c < d
      BY <3>1, <3>3, <2>1, <1>1, SlotsDiffer
    <3> QED
      BY <3>1, <3>2, <3>3, <2>1, <1>1
  <2> QED
    BY <2>1, <1>1, <1>2 DEF ExactAt
<1>4. seen' = seen \cup {k} /\ Inserted(k, c, bits[k]) /\ highest' = [highest EXCEPT ![k] = h]
  BY <1>1 DEF Late
<1> QED
  BY <1>1, <1>3, <1>4, InsertedExact, Zenon

LEMMA WindowInvInit == WindowInit => WindowInv
  BY ReplayAssumption DEF WindowInit, WindowInv, WindowTypeOK, RingIsExact, UnseenIsEmpty

LEMMA WindowInvNext == WindowInv /\ [WindowNext]_windowVars => WindowInv'
<1> SUFFICES ASSUME WindowInv, [WindowNext]_windowVars PROVE WindowInv'
  OBVIOUS
<1>1. CASE UNCHANGED windowVars
  BY <1>1 DEF WindowInv, WindowTypeOK, RingIsExact, UnseenIsEmpty, test, windowVars
<1>2. ASSUME NEW k \in Key, NEW c \in Counter, check_and_insert(k, c) PROVE WindowInv'
  <2>1. CASE TooOld(k, c) \/ Replay(k, c)
    BY <2>1 DEF TooOld, Replay, WindowInv, WindowTypeOK, RingIsExact, UnseenIsEmpty, test
  <2> QED
    BY <1>2, <2>1, FirstCounterExact, NewerExact, LateExact DEF check_and_insert
<1> QED
  BY <1>1, <1>2 DEF WindowNext

(* The cache keeps its types (MeshSecReplayCache). *)
THEOREM WindowTypeCorrect == WindowSpec => []WindowTypeOK
  BY WindowInvInit, WindowInvNext, PTL DEF WindowSpec, WindowInv

(* The ring of check_and_insert is exact in every reachable state. *)
THEOREM RingCorrect == WindowSpec => []RingIsExact
  BY WindowInvInit, WindowInvNext, PTL DEF WindowSpec, WindowInv

-----------------------------------------------------------------------------
LEMMA StepRefines ==
    ASSUME WindowInv, NEW k \in Key, NEW c \in Counter, check_and_insert(k, c)
    PROVE  Filter!FilterNext
<1>1. c \in Nat /\ window_bits \in Nat \ {0} /\ highest[k] \in Nat
      /\ \A d \in inserted[k] : d \in Nat
  BY ReplayAssumption DEF WindowInv, WindowTypeOK
<1>2. k \in seen => ExactAt(highest[k], bits[k], inserted[k])
  BY DEF WindowInv, RingIsExact, ExactAt, test
<1>3. k \in seen => (Filter!TooOld(k, c) <=> highest[k] - c >= window_bits)
  BY <1>1, <1>2 DEF ExactAt, Filter!TooOld
<1>4. CASE FirstCounter(k, c)
  BY <1>4, Zenon DEF FirstCounter, Inserted, WindowInv, UnseenIsEmpty, Filter!FilterNext, Filter!Accept,
              Filter!TooOld
<1>5. CASE Newer(k, c)
  <2>1. ~Filter!TooOld(k, c) /\ c \notin inserted[k]
    BY <1>1, <1>2, <1>3, <1>5 DEF Newer, ExactAt
  <2> QED
    BY <2>1, <1>5, Zenon DEF Newer, Inserted, Filter!FilterNext, Filter!Accept
<1>6. CASE TooOld(k, c)
  BY <1>3, <1>6 DEF TooOld, Filter!FilterNext, Filter!RefuseTooOld
<1>7. CASE Replay(k, c)
  <2>1. ~Filter!TooOld(k, c) /\ c \in inserted[k]
    BY <1>1, <1>2, <1>3, <1>7 DEF Replay, test, ExactAt
  <2> QED
    BY <2>1, <1>7 DEF Replay, Filter!FilterNext, Filter!RefuseReplay
<1>8. CASE Late(k, c)
  <2>1. ~Filter!TooOld(k, c) /\ c \notin inserted[k]
    BY <1>1, <1>2, <1>3, <1>8 DEF Late, test, ExactAt
  <2> QED
    BY <2>1, <1>8, Zenon DEF Late, Inserted, Filter!FilterNext, Filter!Accept
<1> QED
  BY <1>4, <1>5, <1>6, <1>7, <1>8 DEF check_and_insert

(* check_and_insert implements the filter that remembers every counter: a  *)
(* counter is accepted exactly when it is not older than the window and    *)
(* was not accepted before.                                                *)
THEOREM FilterCorrect == WindowSpec => RefinesFilter
<1>1. WindowInit => Filter!FilterInit
  BY DEF WindowInit, Filter!FilterInit
<1>2. WindowInv /\ [WindowNext]_windowVars => [Filter!FilterNext]_<<inserted, verdict>>
  BY StepRefines DEF WindowNext, windowVars
<1> QED
  BY <1>1, <1>2, WindowInvInit, WindowInvNext, PTL DEF WindowSpec, RefinesFilter, Filter!FilterSpec
=============================================================================
