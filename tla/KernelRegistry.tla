--------------------------- MODULE KernelRegistry ---------------------------
(* kernel/registry: the static check every pipeline registry passes before    *)
(* anything runs, and kernel/compiled: the slot tables built from it.  A      *)
(* metadata key is a pair <<namespace, tail>>, a namespace pattern `net.*` is  *)
(* <<"net", "*">>; ids outside the legal alphabet are the members of           *)
(* IllShaped.  Vectors whose order is never observed are sets.                 *)
EXTENDS Integers, Sequences, FiniteSets, SequencesExt

CONSTANT IllShaped

METADATA_NAMESPACES == {"net", "transport", "policy", "auth", "trace", "ext"}
VERDICT_NAMESPACES == {"policy", "auth"}

HooksOf(reg, pid) == ToSet(reg.pipelines[pid].hooks)

(* The specs of those hooks of a pipeline that are registered. *)
SpecsOf(reg, pid) == {reg.hooks[h] : h \in HooksOf(reg, pid) \cap DOMAIN reg.hooks}

check_registry_identities(reg) ==
    /\ \A id \in DOMAIN reg.sources : reg.sources[id].id = id
    /\ \A id \in DOMAIN reg.sinks : reg.sinks[id].id = id
    /\ \A id \in DOMAIN reg.hooks : reg.hooks[id].id = id
    /\ \A id \in DOMAIN reg.pipelines : reg.pipelines[id].id = id

is_valid_id_shape(id) == id \notin IllShaped

check_id_shapes(reg) ==
    \A id \in UNION {DOMAIN reg.sources, DOMAIN reg.sinks, DOMAIN reg.pipelines,
                     DOMAIN reg.hooks, reg.fns,
                     {reg.wirings[i].source : i \in DOMAIN reg.wirings},
                     {reg.wirings[i].pipeline : i \in DOMAIN reg.wirings},
                     UNION {HooksOf(reg, p) : p \in DOMAIN reg.pipelines},
                     UNION {reg.hooks[h].may_jump_to : h \in DOMAIN reg.hooks},
                     UNION {reg.hooks[h].may_accept_to : h \in DOMAIN reg.hooks}} :
        is_valid_id_shape(id)

check_spec_kinds(reg) ==
    /\ \A id \in DOMAIN reg.sources : reg.sources[id].kind = "application/source"
    /\ \A id \in DOMAIN reg.sinks : reg.sinks[id].kind \in {"stream_egress", "datagram_egress"}

check_wirings_exist(reg) ==
    /\ \A i, j \in DOMAIN reg.wirings :
          reg.wirings[i].source = reg.wirings[j].source => i = j
    /\ \A i \in DOMAIN reg.wirings : /\ reg.wirings[i].source \in DOMAIN reg.sources
                                     /\ reg.wirings[i].pipeline \in DOMAIN reg.pipelines
    /\ \A s \in DOMAIN reg.sources : \E i \in DOMAIN reg.wirings : reg.wirings[i].source = s

check_hooks_exist(reg) == \A p \in DOMAIN reg.pipelines : HooksOf(reg, p) \subseteq DOMAIN reg.hooks

check_hook_fns(reg) ==
    /\ reg.fns \subseteq DOMAIN reg.hooks
    /\ \A p \in DOMAIN reg.pipelines : HooksOf(reg, p) \subseteq reg.fns

check_accept_declarations(reg) ==
    \A h \in DOMAIN reg.hooks : ~reg.hooks[h].may_terminate => reg.hooks[h].may_accept_to = {}

check_sink_targets(reg) ==
    \A h \in DOMAIN reg.hooks : reg.hooks[h].may_accept_to \subseteq DOMAIN reg.sinks

check_jump_declarations(reg) ==
    \A h \in DOMAIN reg.hooks : ~reg.hooks[h].may_jump => reg.hooks[h].may_jump_to = {}

(* Only the hooks some pipeline runs are looked at. *)
check_jump_targets(reg) ==
    \A p \in DOMAIN reg.pipelines : \A spec \in SpecsOf(reg, p) :
        spec.may_jump_to \subseteq DOMAIN reg.pipelines

JumpTargets(reg, pid) == UNION {spec.may_jump_to : spec \in SpecsOf(reg, pid)}

(* Depth-first search; colour 1 is a pipeline on the current path, 2 a        *)
(* finished one.  An Err stops the search, wherever it is found.              *)
RECURSIVE dfs_cycle(_, _, _)
dfs_cycle(reg, node, found) ==
    LET visit(acc, neighbour) ==
            CASE acc.cycle -> acc
              [] ~acc.cycle /\ acc.color[neighbour] = 0 -> dfs_cycle(reg, neighbour, acc)
              [] ~acc.cycle /\ acc.color[neighbour] = 1 -> [acc EXCEPT !.cycle = TRUE]
              [] OTHER -> acc
        walked == FoldLeft(visit, [found EXCEPT !.color[node] = 1], SetToSeq(JumpTargets(reg, node)))
    IN  IF walked.cycle THEN walked ELSE [walked EXCEPT !.color[node] = 2]

(* Mutant: only the neighbours of the first pipeline are searched. *)
check_jump_dagShallow(reg) ==
    \A p \in DOMAIN reg.pipelines : p \notin JumpTargets(reg, p)

check_jump_dag(reg) ==
    LET start(acc, p) == IF acc.cycle \/ acc.color[p] # 0 THEN acc ELSE dfs_cycle(reg, p, acc)
    IN  ~FoldLeft(start, [cycle |-> FALSE, color |-> [p \in DOMAIN reg.pipelines |-> 0]],
                  SetToSeq(DOMAIN reg.pipelines)).cycle

check_pipeline_terminates(reg) ==
    \A p \in DOMAIN reg.pipelines : \E spec \in SpecsOf(reg, p) :
        spec.may_terminate \/ (spec.may_jump /\ spec.may_jump_to # {})

ns_covers(patterns, key) == <<key[1], "*">> \in patterns

is_valid_namespace_pattern(pattern) == pattern[2] = "*" /\ pattern[1] \in METADATA_NAMESPACES

is_valid_metadata_key(key) == key[1] \in METADATA_NAMESPACES /\ key[2] # ""

check_metadata_keys(reg) ==
    /\ \A s \in DOMAIN reg.sources : \A key \in reg.sources[s].initial_writes : is_valid_metadata_key(key)
    /\ \A h \in DOMAIN reg.hooks : \A key \in reg.hooks[h].reads \cup reg.hooks[h].writes :
          is_valid_metadata_key(key)

check_namespace_patterns(reg) ==
    \A h \in DOMAIN reg.hooks : \A p \in reg.hooks[h].allowed_namespaces : is_valid_namespace_pattern(p)

(* What every source wired to the pipeline, taken together, writes. *)
WiredWrites(reg, pid) ==
    UNION {reg.sources[reg.wirings[i].source].initial_writes :
              i \in {j \in DOMAIN reg.wirings : reg.wirings[j].pipeline = pid}}

check_namespace_rules(reg) ==
    \A p \in DOMAIN reg.pipelines :
        LET hooks == reg.pipelines[p].hooks
            available(i) == WiredWrites(reg, p) \cup UNION {reg.hooks[hooks[j]].writes : j \in 1 .. i - 1}
        IN  \A i \in DOMAIN hooks : LET spec == reg.hooks[hooks[i]] IN
                /\ spec.kind = "Policy" => <<"net", "payload">> \notin spec.reads
                /\ \A key \in spec.writes \cup spec.reads : ns_covers(spec.allowed_namespaces, key)
                /\ spec.side_effect_only => \A key \in spec.writes : key[1] \notin VERDICT_NAMESPACES
                /\ spec.reads \subseteq available(i)

verify(reg) ==
    /\ check_registry_identities(reg) /\ check_id_shapes(reg) /\ check_spec_kinds(reg)
    /\ check_wirings_exist(reg) /\ check_hooks_exist(reg)
    /\ check_accept_declarations(reg) /\ check_sink_targets(reg)
    /\ check_jump_declarations(reg) /\ check_jump_targets(reg) /\ check_jump_dag(reg)
    /\ check_pipeline_terminates(reg)
    /\ check_metadata_keys(reg) /\ check_namespace_patterns(reg) /\ check_namespace_rules(reg)
    /\ check_hook_fns(reg)

(* Ids become dense slots in key order; the order itself is never observed. *)
intern(ids) == SetToSeq(ids)

SlotOf(ids, id) == CHOOSE i \in DOMAIN ids : ids[i] = id

(* CompiledKernel::from_registry on a verified registry.  Every registered    *)
(* hook is compiled, so every one of them must have a function: the expect    *)
(* panics otherwise, although verify only asks it of hooks a pipeline runs.   *)
from_registry(reg) ==
    LET hook_ids == intern(DOMAIN reg.hooks)
        pipeline_ids == intern(DOMAIN reg.pipelines)
    IN  CASE ~verify(reg) -> [state |-> "refused"]
          [] verify(reg) /\ ~(DOMAIN reg.hooks \subseteq reg.fns) -> [state |-> "panic"]
          [] OTHER ->
               [state |-> "ready", pipeline_ids |-> pipeline_ids,
                compiled_hooks |-> [i \in DOMAIN hook_ids |->
                    [id |-> hook_ids[i], may_accept_to |-> reg.hooks[hook_ids[i]].may_accept_to,
                     may_jump_to |-> reg.hooks[hook_ids[i]].may_jump_to]],
                compiled_pipelines |-> [i \in DOMAIN pipeline_ids |->
                    LET hooks == reg.pipelines[pipeline_ids[i]].hooks
                    IN  [j \in DOMAIN hooks |-> SlotOf(hook_ids, hooks[j])]]]

=============================================================================
