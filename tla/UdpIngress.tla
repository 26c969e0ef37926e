----------------------------- MODULE UdpIngress -----------------------------
(* The two UDP entry points of the client side.  A SOCKS5 UDP association     *)
(* (udp_assoc.rs) runs one task per packet and keys its bus sessions by        *)
(* target; the direct UDP ingress (ingress-udp) is one loop that keys them by  *)
(* client peer.  Both keep a bounded table and one response pump per session.  *)
EXTENDS IngressPolicy, FiniteSets

CONSTANTS Peers, Targets,   \* client addresses, upstream endpoints
          Limits,           \* values of MAX_UDP_TARGET_SESSIONS and max_peer_sessions
          MaxPackets,       \* packets that may arrive
          Concurrency,      \* udp_forward_concurrency
          Runs              \* [verdict, meta] results of a pipeline run

VARIABLES mode,       \* the ingress, its declared peer and its table bound
          control,    \* the SOCKS5 control connection
          table,      \* key -> index of its session, 0 when absent
          sess,       \* every session opened: [key, peer, pump, send]
          task,       \* packets being handled
          lock,       \* packet whose task holds the session table, 0 when free
          replies     \* [to, key] datagrams sent back to clients

vars == <<mode, control, table, sess, task, lock, replies>>

Wildcard == "any"
Keys == IF mode.ingress = "associate" THEN Targets ELSE Peers
KeyOf(t) == IF mode.ingress = "associate" THEN task[t].target ELSE task[t].peer

Init == /\ mode \in [ingress : {"associate"}, declared : Peers \cup {Wildcard}, max : Limits]
                    \cup [ingress : {"direct"}, declared : {Wildcard}, max : Limits]
        /\ control = "open"
        /\ table = [k \in Keys |-> 0]
        /\ sess = <<>> /\ task = <<>> /\ lock = 0 /\ replies = {}

Live(t) == task[t].phase # "done"
Moves(t, r) == task' = [task EXCEPT ![t] = r]

(* owns_peer: a declared 0.0.0.0 or port 0 accepts any source. *)
owns_peer(peer) == mode.declared \in {Wildcard, peer}

(* The association spawns a task per packet under a semaphore; the direct     *)
(* loop reads the next packet when it is done with the last.                  *)
Received(peer, target, tasks) ==
    /\ control = "open" /\ Len(task) < MaxPackets
    /\ Cardinality({t \in DOMAIN task : Live(t)}) < tasks
    /\ task' = Append(task, [phase |-> "lookup", peer |-> peer, target |-> target, slot |-> 0, valid |-> FALSE])
    /\ UNCHANGED <<mode, control, table, sess, lock, replies>>

run_udp_relay(peer, target) ==
    mode.ingress = "associate" /\ owns_peer(peer) /\ Received(peer, target, Concurrency)

direct_run(peer, target) == mode.ingress = "direct" /\ Received(peer, target, 1)

(* session_for, first look: the guard is released before the policy runs. *)
lookup(t) ==
    /\ task[t].phase = "lookup" /\ lock = 0
    /\ Moves(t, IF table[KeyOf(t)] # 0 THEN [task[t] EXCEPT !.phase = "send", !.slot = table[KeyOf(t)]]
                ELSE [task[t] EXCEPT !.phase = "decide"])
    /\ UNCHANGED <<mode, control, table, sess, lock, replies>>

Decided(t, d) ==
    /\ task[t].phase = "decide"
    /\ Moves(t, [task[t] EXCEPT !.phase = IF d.outcome = "Allow" THEN "insert" ELSE "done",
                                 !.valid = validate_datagram_request(d.request)])
    /\ UNCHANGED <<mode, control, table, sess, lock, replies>>

decide_request(t) ==
    /\ mode.ingress = "associate"
    /\ \E run \in Runs : Decided(t, apply_verdict(run.verdict, run.meta, BaseRequest))

direct_decide_request(t) ==
    /\ mode.ingress = "direct"
    /\ \E run \in Runs : Decided(t, udp_apply_verdict(run.verdict, run.meta, BaseRequest))

(* Mutant: the table is not looked up again under the second lock. *)
relockBlind(t) ==
    /\ task[t].phase = "insert" /\ lock = 0
    /\ lock' = t /\ Moves(t, [task[t] EXCEPT !.phase = "open"])
    /\ UNCHANGED <<mode, control, table, sess, replies>>

(* session_for, second look; the lock is then held across open_datagram. *)
relock(t) ==
    /\ task[t].phase = "insert" /\ lock = 0
    /\ IF table[KeyOf(t)] # 0
       THEN Moves(t, [task[t] EXCEPT !.phase = "send", !.slot = table[KeyOf(t)]]) /\ UNCHANGED lock
       ELSE Moves(t, [task[t] EXCEPT !.phase = "open"]) /\ lock' = t
    /\ UNCHANGED <<mode, control, table, sess, replies>>

open_failed(t) ==
    /\ task[t].phase = "open" /\ ~task[t].valid
    /\ Moves(t, [task[t] EXCEPT !.phase = "done"]) /\ lock' = 0
    /\ UNCHANGED <<mode, control, table, sess, replies>>

(* The association aborts the pump; the direct ingress also closes the send   *)
(* half, which sends the bus a Close frame.                                   *)
Evict(s) == [s EXCEPT !.pump = "aborted",
                      !.send = IF mode.ingress = "direct" THEN "closed" ELSE @]

(* The pump answers the peer whose packet opened the session. *)
open_datagram(t) ==
    /\ task[t].phase = "open" /\ task[t].valid
    /\ LET full == Cardinality({k \in Keys : table[k] # 0}) >= mode.max
           new == [key |-> KeyOf(t), peer |-> task[t].peer, pump |-> "running", send |-> "open"]
           slot == Len(sess) + 1
       IN  /\ \/ /\ ~full
                 /\ sess' = Append(sess, new)
                 /\ table' = [table EXCEPT ![KeyOf(t)] = slot]
              \/ /\ full
                 /\ \E k \in {x \in Keys : table[x] # 0} :
                      /\ sess' = Append([sess EXCEPT ![table[k]] = Evict(@)], new)
                      /\ table' = [table EXCEPT ![k] = 0, ![KeyOf(t)] = slot]
           /\ Moves(t, [task[t] EXCEPT !.phase = "send", !.slot = slot])
    /\ lock' = 0
    /\ UNCHANGED <<mode, control, replies>>

(* The slot may have been evicted since it was looked up. *)
send_to(t) ==
    /\ task[t].phase = "send"
    /\ Moves(t, [task[t] EXCEPT !.phase = "done"])
    /\ UNCHANGED <<mode, control, table, sess, lock, replies>>

(* A response arrives on a session that was sent to. *)
pump_reply(s) ==
    /\ sess[s].pump = "running"
    /\ \E t \in DOMAIN task : task[t].slot = s /\ task[t].phase = "done"
    /\ replies' = replies \cup {[to |-> sess[s].peer, key |-> sess[s].key]}
    /\ UNCHANGED <<mode, control, table, sess, task, lock>>

(* The session ends; its table entry is not removed. *)
pump_ends(s) ==
    /\ sess[s].pump = "running"
    /\ sess' = [sess EXCEPT ![s].pump = "ended"]
    /\ UNCHANGED <<mode, control, table, task, lock, replies>>

(* relay_task.abort(): the packet tasks go with it, the pumps are detached. *)
control_closed ==
    /\ mode.ingress = "associate" /\ control = "open"
    /\ control' = "closed"
    /\ task' = [t \in DOMAIN task |-> [task[t] EXCEPT !.phase = "done"]]
    /\ lock' = 0
    /\ UNCHANGED <<mode, table, sess, replies>>

Step(t) == \/ lookup(t) \/ decide_request(t) \/ direct_decide_request(t) \/ relock(t)
           \/ open_failed(t) \/ open_datagram(t) \/ send_to(t)

Next == \/ \E peer \in Peers, target \in Targets : run_udp_relay(peer, target) \/ direct_run(peer, target)
        \/ \E t \in DOMAIN task : Step(t)
        \/ \E s \in DOMAIN sess : pump_reply(s) \/ pump_ends(s)
        \/ control_closed

Spec == Init /\ [][Next]_vars

---------------------------------------------------------------------------
(* While the association lives, a running pump is the one the table knows for *)
(* its key: two racing packets for a new target share one session, and an     *)
(* evicted session stops answering.  The table never exceeds its bound.  The  *)
(* session a packet goes through is the one of its key and answers the client *)
(* that sent it, so a response only reaches a client that asked (but for a    *)
(* wildcard association, which answers whoever opened the target's session).  *)
PumpIsTabled ==
    /\ control = "open" =>
          /\ \A s \in DOMAIN sess : sess[s].pump = "running" => table[sess[s].key] = s
          /\ Cardinality({k \in Keys : table[k] # 0}) <= mode.max
    /\ mode.ingress = "direct" \/ mode.declared # Wildcard =>
          /\ \A t \in DOMAIN task : task[t].slot # 0 =>
                sess[task[t].slot].peer = task[t].peer /\ sess[task[t].slot].key = KeyOf(t)
          /\ \A r \in replies : \E t \in DOMAIN task : task[t].peer = r.to /\ KeyOf(t) = r.key

=============================================================================
