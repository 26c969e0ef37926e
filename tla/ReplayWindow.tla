---------------------------- MODULE ReplayWindow ----------------------------
(***************************************************************************)
(* MeshSecReplayCache (lib/mb-proto-mesh/src/replay.rs): a ring of bits    *)
(* per (peer, epoch, boot salt), and check_and_insert, which is called     *)
(* once per authenticated packet.  bits is kept as the set of the ring     *)
(* slots whose bit is one.                                                 *)
(***************************************************************************)
EXTENDS Integers

CONSTANTS
    Key,          \* (peer_id, epoch_number, boot_salt)
    Counter,      \* envelope counters that may arrive (u64 in the code)
    window_bits,  \* MESHSEC_REPLAY_WINDOW_BITS (1024 in the code)
    Word          \* bits of one element of Window.bits (64 in the code)

words == IF window_bits \div Word >= 1 THEN window_bits \div Word ELSE 1

Slots == words * Word

(* The configured window fits the ring: 1024 bits are 16 words. *)
ASSUME ReplayAssumption ==
    /\ Counter \subseteq Nat
    /\ window_bits \in Nat \ {0} /\ Word \in Nat \ {0}
    /\ Slots \in Nat /\ window_bits <= Slots

idx(c) == c % Slots

VARIABLES
    seen,      \* keys whose window has accepted a counter
    highest,   \* key -> highest accepted counter
    bits,      \* key -> slots of the ring that are set
    inserted,  \* ghost: key -> counters accepted so far
    verdict    \* answer to the last call

test(k, c) == idx(c) \in bits[k]

windowVars == <<seen, highest, bits, inserted, verdict>>

WindowInit ==
    /\ seen = {}
    /\ highest = [k \in Key |-> 0]
    /\ bits = [k \in Key |-> {}]
    /\ inserted = [k \in Key |-> {}]
    /\ verdict = "none"

-----------------------------------------------------------------------------
(* Mutant: the counters skipped by a short move keep their old bits. *)
advanceKeepsSkipped(k, c) ==
    IF c - highest[k] >= window_bits THEN {} ELSE bits[k]

(* The slots left when the window moves up from its highest counter to c.  *)
advance(k, c) ==
    IF c - highest[k] >= window_bits
    THEN {}
    ELSE bits[k] \ {idx(skipped) : skipped \in (highest[k] + 1)..(c - 1)}

Inserted(k, c, slots) ==
    /\ bits' = [bits EXCEPT ![k] = slots \cup {idx(c)}]
    /\ inserted' = [inserted EXCEPT ![k] = @ \cup {c}]
    /\ verdict' = "ok"

FirstCounter(k, c) ==
    /\ k \notin seen
    /\ seen' = seen \cup {k}
    /\ highest' = [highest EXCEPT ![k] = c]
    /\ Inserted(k, c, bits[k])

Newer(k, c) ==
    /\ k \in seen /\ c > highest[k]
    /\ highest' = [highest EXCEPT ![k] = c]
    /\ Inserted(k, c, advance(k, c))
    /\ UNCHANGED seen

TooOld(k, c) ==
    /\ k \in seen /\ c <= highest[k] /\ highest[k] - c >= window_bits
    /\ verdict' = "too_old"
    /\ UNCHANGED <<seen, highest, bits, inserted>>

Replay(k, c) ==
    /\ k \in seen /\ c <= highest[k] /\ highest[k] - c < window_bits
    /\ test(k, c)
    /\ verdict' = "replay"
    /\ UNCHANGED <<seen, highest, bits, inserted>>

(* Mutant: a late counter is accepted whatever its bit says. *)
LateUntested(k, c) ==
    /\ k \in seen /\ c <= highest[k] /\ highest[k] - c < window_bits
    /\ Inserted(k, c, bits[k])
    /\ UNCHANGED <<seen, highest>>

Late(k, c) ==
    /\ k \in seen /\ c <= highest[k] /\ highest[k] - c < window_bits
    /\ ~test(k, c)
    /\ Inserted(k, c, bits[k])
    /\ UNCHANGED <<seen, highest>>

(* The branches exclude each other and one of them is always taken. *)
check_and_insert(k, c) ==
    FirstCounter(k, c) \/ Newer(k, c) \/ TooOld(k, c) \/ Replay(k, c) \/ Late(k, c)

WindowNext == \E k \in Key, c \in Counter : check_and_insert(k, c)

WindowSpec == WindowInit /\ [][WindowNext]_windowVars

-----------------------------------------------------------------------------
WindowTypeOK ==
    /\ seen \subseteq Key
    /\ highest \in [Key -> Nat]
    /\ bits \in [Key -> SUBSET (0..(Slots - 1))]
    /\ inserted \in [Key -> SUBSET Counter]
    /\ verdict \in {"none", "ok", "too_old", "replay"}

-----------------------------------------------------------------------------
Filter == INSTANCE ReplayFilter
    WITH Key <- Key, Counter <- Counter, window_bits <- window_bits,
         accepted <- inserted, verdict <- verdict

(* The ring says exactly which counters of the window were accepted, and   *)
(* nothing was accepted above the highest counter: no slot carries a bit   *)
(* of a counter that has left the window, however far the window moves.    *)
RingIsExact ==
    \A k \in seen :
        /\ highest[k] \in inserted[k]
        /\ \A c \in inserted[k] : c <= highest[k]
        /\ \A c \in Counter :
              (c <= highest[k] /\ highest[k] - c < window_bits)
                  => (test(k, c) <=> c \in inserted[k])

(* check_and_insert answers as the replay filter does: no counter is       *)
(* accepted twice, none in the window is refused the first time.           *)
RefinesFilter == Filter!FilterSpec
=============================================================================
