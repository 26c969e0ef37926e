---------------------------- MODULE ReplayFilter ----------------------------
(***************************************************************************)
(* What the MeshSec replay cache promises, without its bitmap: per key a   *)
(* counter is accepted at most once, every counter newer than the window's *)
(* lower edge is accepted the first time, and everything older is refused. *)
(***************************************************************************)
EXTENDS Integers

CONSTANTS
    Key,          \* (peer_id, epoch_number, boot_salt)
    Counter,      \* envelope counters that may arrive
    window_bits   \* MESHSEC_REPLAY_WINDOW_BITS (1024 in the code)

VARIABLES
    accepted,     \* key -> counters accepted so far
    verdict       \* the answer to the last check_and_insert

(* The window reaches from c + 1 - window_bits to c, c being the highest.  *)
TooOld(k, c) == \E h \in accepted[k] : h - c >= window_bits

FilterInit ==
    /\ accepted = [k \in Key |-> {}]
    /\ verdict = "none"

Accept(k, c) ==
    /\ ~TooOld(k, c) /\ c \notin accepted[k]
    /\ accepted' = [accepted EXCEPT ![k] = @ \cup {c}]
    /\ verdict' = "ok"

RefuseTooOld(k, c) ==
    /\ TooOld(k, c)
    /\ verdict' = "too_old"
    /\ UNCHANGED accepted

RefuseReplay(k, c) ==
    /\ ~TooOld(k, c) /\ c \in accepted[k]
    /\ verdict' = "replay"
    /\ UNCHANGED accepted

FilterNext ==
    \E k \in Key, c \in Counter : Accept(k, c) \/ RefuseTooOld(k, c) \/ RefuseReplay(k, c)

FilterSpec == FilterInit /\ [][FilterNext]_<<accepted, verdict>>
=============================================================================
