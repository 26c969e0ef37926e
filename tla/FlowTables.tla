----------------------------- MODULE FlowTables -----------------------------
(***************************************************************************)
(* The tables the kernel keeps about stream flows, and the operations the  *)
(* dispatcher, the poll tasks and the forwarder close guard perform on     *)
(* them (mesh-bus-core, kernel/dispatch*.rs and kernel/source_activity.rs).*)
(*                                                                         *)
(* A stream session has one target, so FlowId::mint_for gives it one flow: *)
(* the tables keyed by FlowId in the code are keyed by session here.  Each *)
(* table is a DashMap or a tokio Mutex; one operation on it is one atomic  *)
(* change, and two operations on two tables are two steps (flow_counters,  *)
(* whose entries only carry byte counts, changes with the step next to it).*)
(***************************************************************************)
EXTENDS Naturals, FiniteSets

CONSTANTS
    Session,      \* stream sessions, each with its one flow
    Exit,         \* egress indices
    NoExit,       \* absence of an entry
    Source,       \* source keys (ingress principals)
    SourceOf      \* the source key a session's frames carry

ASSUME TablesAssumption ==
    /\ IsFiniteSet(Session)
    /\ NoExit \notin Exit
    /\ SourceOf \in [Session -> Source]

VARIABLES
    flow_pins,        \* flow -> pinned egress index
    flow_states,      \* flow -> sink_idx of its FlowState
    flow_counters,    \* flows that own a FlowCounters entry
    source_activity,  \* source -> active_flows
    idle_since        \* sources whose entry carries an idle timestamp

tables == <<flow_pins, flow_states, flow_counters, source_activity, idle_since>>

TablesInit ==
    /\ flow_pins = [s \in Session |-> NoExit]
    /\ flow_states = [s \in Session |-> NoExit]
    /\ flow_counters = {}
    /\ source_activity = [k \in Source |-> 0]
    /\ idle_since = {}

TablesTypeOK ==
    /\ flow_pins \in [Session -> Exit \cup {NoExit}]
    /\ flow_states \in [Session -> Exit \cup {NoExit}]
    /\ flow_counters \subseteq Session
    /\ source_activity \in [Source -> Nat]
    /\ idle_since \subseteq Source

-----------------------------------------------------------------------------
pin(s, e) == flow_pins' = [flow_pins EXCEPT ![s] = e]

unpin(s) == flow_pins' = [flow_pins EXCEPT ![s] = NoExit]

insert_state(s, e) ==
    /\ flow_counters' = flow_counters \cup {s}
    /\ flow_states' = [flow_states EXCEPT ![s] = e]

remove_state(s) == flow_states' = [flow_states EXCEPT ![s] = NoExit]

mark_open(s) ==
    /\ source_activity' = [source_activity EXCEPT ![SourceOf[s]] = @ + 1]
    /\ idle_since' = idle_since \ {SourceOf[s]}

(* The code subtracts saturating at zero. *)
mark_closed(s) ==
    LET left == IF source_activity[SourceOf[s]] = 0
                THEN 0 ELSE source_activity[SourceOf[s]] - 1
    IN  /\ source_activity' = [source_activity EXCEPT ![SourceOf[s]] = left]
        /\ idle_since' = IF left = 0 THEN idle_since \cup {SourceOf[s]}
                                     ELSE idle_since
=============================================================================
