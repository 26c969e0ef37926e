--------------------------- MODULE ForwardPipeline ---------------------------
(* runtime/pipeline.rs and runtime/lib.rs: a configuration is parsed, checked *)
(* and run: the forward pipeline (resolve, enrich, rule chain, pick sink) is  *)
(* assembled and compiled, the egresses are put on the bus, the listeners are *)
(* opened.  Then the events of the pipeline's ingress run over the compiled   *)
(* kernel with the hook functions of pipeline-hooks and become bus requests.  *)
(* The resolver's answer, the tie-break hash of the ranking and what the      *)
(* system lets bind are inputs.                                               *)
EXTENDS RuntimeConfig

CONSTANTS Configs,          \* configuration files, before parse_config
          Arrivals,         \* what clients ask the ingress for
          Answers,          \* what the resolver may answer
          MAX_JUMP_DEPTH,
          cidr(_),          \* external: the addresses of a CIDR line, {} if it is none
          geoip(_)          \* external: the MMDB lookup, [country, asn]

VARIABLES cfg, boot, reg, kernel, run, written, event, request

vars == <<cfg, boot, reg, kernel, run, written, event, request>>

Kernel == INSTANCE CompiledKernel WITH Registries <- {}, Verdicts <- {}

-----------------------------------------------------------------------------
(* Loading what the configuration names.  A chain file is [chain, rulesets],  *)
(* a geosite file a set of lines.                                             *)

(* RuleSetRegistry::load. *)
load(rulesets) ==
    LET ok(rs) == /\ validate_ruleset(rs)
                  /\ rs.inline \/ rs.readable
                  /\ rs.lines # <<>>
                  /\ rs.format = "IpCidr" => \A i \in DOMAIN rs.lines : cidr(rs.lines[i]) # {}
        names == {rulesets[i].name : i \in DOMAIN rulesets}
        named(n) == CHOOSE rs \in ToSet(rulesets) : rs.name = n
    IN  [ok |-> /\ \A i \in DOMAIN rulesets : ok(rulesets[i])
                /\ Cardinality(names) = Len(rulesets),
         sets |-> [n \in names |->
             [field |-> named(n).field, format |-> named(n).format,
              entries |-> ToSet(named(n).lines),
              cidrs |-> {cidr(l) : l \in ToSet(named(n).lines)}]]]

load_chain_from_path(c, path) ==
    IF path \notin DOMAIN c.files THEN FALSE
    ELSE LET file == c.files[path]
         IN  validate(file.chain, file.rulesets) /\ load(file.rulesets).ok

RECURSIVE validate_forward_action(_)
validate_forward_action(a) ==
    \/ a.op \in {"Allow", "Deny", "SetRouteGroup", "SetScheduleHint", "SetCostBias"}
    \/ a.op = "Compose" /\ \A i \in DOMAIN a.actions : validate_forward_action(a.actions[i])

validate_forward_actions(chain) ==
    /\ \A i \in DOMAIN chain.rules : validate_forward_action(chain.rules[i].action)
    /\ validate_forward_action(chain.default)

ForwardChain(c) == c.files[forward_rule_chain_path(c.pipeline[1])[1]]
ForwardSets == load(ForwardChain(cfg).rulesets).sets

load_forward_chain(c) ==
    LET path == forward_rule_chain_path(c.pipeline[1])
    IN  /\ path # None
        /\ load_chain_from_path(c, path[1])
        /\ validate_forward_actions(ForwardChain(c).chain)

load_resolver_chain(c) ==
    c.pipeline[1].rule_chain_resolver # None => load_chain_from_path(c, c.pipeline[1].rule_chain_resolver[1])

load_geoip(c) ==
    c.pipeline[1].geoip # None =>
        LET g == c.pipeline[1].geoip[1]
        IN  g.country # None /\ g.asn # None /\ g.country[1] \in DOMAIN c.files /\ g.asn[1] \in DOMAIN c.files

load_geosite(c) ==
    c.pipeline[1].geosite # None =>
        LET path == c.pipeline[1].geosite[1]
        IN  path # None /\ path[1] \in DOMAIN c.files /\ parse(c.files[path[1]]).ok

GeositeDb == IF cfg.pipeline[1].geosite = None THEN {} ELSE parse(cfg.files[cfg.pipeline[1].geosite[1][1]]).trie

(* Nothing is measured yet: every exit starts with the same figures. *)
candidates_from_egresses(c) ==
    {[sink_id |-> e.id, route_groups |-> e.groups, rtt_ms |-> 0,
      supports_stream |-> pipeline_capability_bits(e)[1],
      supports_datagram |-> pipeline_capability_bits(e)[2]] : e \in ToSet(c.egresses)}

(* None when the configuration does not single out one ingress. *)
resolve_pipeline_source_index(c) ==
    LET source == c.pipeline[1].source
        fits == {i \in DOMAIN c.ingresses : pipeline_source_kind(c.ingresses[i]) = Some(source.kind)}
    IN  IF source.ingress_index # None
        THEN (IF source.ingress_index[1] \in fits THEN source.ingress_index ELSE None)
        ELSE IF Cardinality(fits) = 1 THEN Some(CHOOSE i \in fits : TRUE) ELSE None

selected_pipeline_source_index(c) == IF c.pipeline = None THEN None ELSE resolve_pipeline_source_index(c)

pipeline_source_ok(c) ==
    /\ resolve_pipeline_source_index(c) # None
    /\ \A key \in c.pipeline[1].source.initial_writes : key[1] \notin {"policy", "transport"}

SourceName(c) ==
    IF c.pipeline[1].source.id # None THEN c.pipeline[1].source.id[1]
    ELSE ToString(<<"ingress", resolve_pipeline_source_index(c)[1]>>)

-----------------------------------------------------------------------------
(* The declared contracts of the four hooks (specs.rs). *)

Spec4(id, kind, namespaces, reads, writes, terminates, accepts) ==
    [id |-> id, kind |-> kind, allowed_namespaces |-> {<<n, "*">> : n \in namespaces},
     reads |-> reads, writes |-> writes, may_terminate |-> terminates, may_jump |-> FALSE,
     may_jump_to |-> {}, may_accept_to |-> accepts, side_effect_only |-> FALSE]

Keyed(ns, names) == {<<ns, n>> : n \in names}

RESOLVE_HOOK ==
    Spec4("net.resolve_or_recover", "Net", {"net", "ext"},
          {<<"net", "dst_host">>, <<"ext", "dst_ip_primary">>},
          {<<"net", "dst_host">>} \cup Keyed("ext", {"dst_ips", "dst_ip_primary", "dns_rtt_ms",
                                                     "resolution_mode", "geo_country", "asn"}),
          TRUE, {})

ENRICH_HOOK ==
    Spec4("net.enrich_geo_asn", "Net", {"net", "ext"}, {<<"ext", "dst_ips">>, <<"net", "dst_host">>},
          Keyed("ext", {"geo_country", "asn", "geosite_tags"}), FALSE, {})

RULE_HOOK ==
    Spec4("policy.rule_chain", "Policy", {"policy", "transport", "ext", "net", "auth"},
          Keyed("net", {"dst_host", "dst_port", "src_ip", "protocol"}) \cup {<<"auth", "user">>}
              \cup Keyed("ext", {"operation", "dst_ip_primary", "geo_country", "asn", "geosite_tags"}),
          {<<"policy", "route_group">>, <<"ext", "cost_bias">>}
              \cup Keyed("transport", {"schedule_hint", "schedule_fanout_k"}),
          TRUE, {})

pick_sink_hook_spec(may_accept_to) ==
    Spec4("transport.pick_sink_cake", "Transport", {"transport", "net", "trace", "policy", "ext"},
          {<<"net", "protocol">>, <<"policy", "route_group">>, <<"trace", "flow_id">>}
              \cup Keyed("ext", {"cost_bias", "dns_rtt_ms"}),
          {}, TRUE, may_accept_to)

Hooks4 == <<"net.resolve_or_recover", "net.enrich_geo_asn", "policy.rule_chain", "transport.pick_sink_cake">>

(* The registry build_pipeline_runtime fills. *)
ForwardRegistry(c) ==
    LET sinks == {e.id : e \in ToSet(c.egresses)}
        src == SourceName(c)
        kind_of(id) == pipeline_sink_kind(CHOOSE e \in ToSet(c.egresses) : e.id = id)
    IN  [sources |-> src :> [id |-> src, kind |-> c.pipeline[1].source.kind,
                             initial_writes |-> c.pipeline[1].source.initial_writes],
         sinks |-> [s \in sinks |-> [id |-> s, kind |-> kind_of(s)]],
         hooks |-> (Hooks4[1] :> RESOLVE_HOOK) @@ (Hooks4[2] :> ENRICH_HOOK) @@ (Hooks4[3] :> RULE_HOOK)
                       @@ (Hooks4[4] :> pick_sink_hook_spec(sinks)),
         fns |-> ToSet(Hooks4),
         pipelines |-> "forward" :> [id |-> "forward", hooks |-> Hooks4],
         wirings |-> <<[source |-> src, pipeline |-> "forward"]>>]

(* Everything build_pipeline_runtime checks, in its order. *)
build_pipeline_runtime(c) ==
    /\ load_forward_chain(c) /\ load_geoip(c) /\ load_geosite(c) /\ load_resolver_chain(c)
    /\ pipeline_source_ok(c)
    /\ Kernel!verify(ForwardRegistry(c))

-----------------------------------------------------------------------------
(* Metadata of an event: the typed fields are Options, ext a partial map. *)
NoEvent == [dst_host |-> None, dst_port |-> None, protocol |-> None, src_ip |-> None, user |-> None,
            flow_id |-> None, route_group |-> None, schedule_hint |-> None, fanout_k |-> None,
            ext |-> << >>]

write_ext(ev, key, val) == [ev EXCEPT !.ext = (key :> val) @@ @]

read_ext(ev, key) == IF key \in DOMAIN ev.ext THEN Some(ev.ext[key]) ELSE None

Result(op, ev) == [verdict |-> [op |-> op], event |-> ev]
Reject(reason, ev) == [verdict |-> [op |-> "Reject", reason |-> reason], event |-> ev]

-----------------------------------------------------------------------------
(* The events the ingresses build.  target.ip marks an address literal. *)

set_host_fields(ev, target) ==
    IF target.ip THEN write_ext(ev, "dst_ip_primary", target.host)
    ELSE [ev EXCEPT !.dst_host = Some(target.host)]

Built(arrival, operation, protocol, user) ==
    LET base == [NoEvent EXCEPT !.dst_port = Some(arrival.target.port), !.protocol = Some(protocol),
                                !.src_ip = Some(arrival.peer), !.user = user,
                                !.flow_id = Some(<<arrival.peer, arrival.target>>)]
    IN  set_host_fields(write_ext(base, "operation", operation), arrival.target)

build_connect_event(a) == Built(a, <<"connect">>, "tcp", a.user)
build_bind_event(a) == Built(a, <<"bind">>, "tcp", a.user)
build_udp_packet_event(a) == Built(a, <<"datagram_send">>, "udp", a.user)
build_direct_datagram_event(a) == Built(a, <<"direct_datagram_send">>, "udp", None)
build_direct_stream_event(a) == Built(a, <<"direct_stream_open">>, "tcp", None)
build_http_proxy_event(a) == Built(a, <<"connect">>, "tcp", None)

BuiltEvent(a) ==
    CASE a.op = "socks5_connect" -> build_connect_event(a)
      [] a.op = "socks5_bind" -> build_bind_event(a)
      [] a.op = "socks5_udp" -> build_udp_packet_event(a)
      [] a.op = "udp" -> build_direct_datagram_event(a)
      [] a.op = "tcp" -> build_direct_stream_event(a)
      [] a.op = "http" -> build_http_proxy_event(a)

-----------------------------------------------------------------------------
(* net.resolve_or_recover.  The reverse map is never filled by the program,   *)
(* so an address that comes without a name is passed through.                 *)

(* The records of an answer, packed; records other than A and AAAA are left   *)
(* out.                                                                       *)
PackedIps(records) == SelectSeq(records, LAMBDA r : r.type \in {"A", "AAAA"})

resolution_mode(source) ==
    CASE source = "System" -> "m3" [] source = "MeshDirect" -> "m2" [] source = "Tunneled" -> "m1"

(* What becomes of the resolver's answer. *)
Resolved(ev, answer) ==
    LET ips == PackedIps(answer.records)
        w1 == write_ext(ev, "dst_ips", ips)
        w2 == write_ext(w1, "dst_ip_primary", ips[1].ip)
        w3 == write_ext(w2, "dns_rtt_ms", answer.rtt)
    IN  CASE ~answer.ok /\ answer.error \in {"nxdomain", "denied"} -> Reject(answer.error, ev)
          [] ~answer.ok /\ answer.error \notin {"nxdomain", "denied"} -> Reject("resolve_failure", ev)
          [] answer.ok /\ ips = <<>> -> Reject("nxdomain", ev)
          [] OTHER -> Result("Continue", write_ext(w3, "resolution_mode", resolution_mode(answer.source)))

resolve_or_recover(ev, answer) ==
    LET ip == read_ext(ev, "dst_ip_primary")
    IN  CASE ev.dst_host # None -> IF ev.dst_host[1] = <<>> THEN Reject("invalid_dst_host", ev)
                                   ELSE Resolved(ev, answer)
          [] ev.dst_host = None /\ ip # None ->
                Result("Continue", write_ext(write_ext(ev, "resolution_mode", "passthrough_ip"),
                                             "dst_ips", <<[type |-> "A", ip |-> ip[1]]>>))
          [] OTHER -> Reject("no_target", ev)

(* net.enrich_geo_asn *)
decode_first_ip(buf) == IF buf = <<>> THEN None ELSE Some(buf[1].ip)

enrich_geo_asn(ev) ==
    LET ips == read_ext(ev, "dst_ips")
        tags == IF ev.dst_host = None THEN <<>> ELSE lookup_packed(GeositeDb, ev.dst_host[1])
        found(ip) == write_ext(write_ext(write_ext(ev, "geo_country", geoip(ip).country),
                                         "asn", geoip(ip).asn), "geosite_tags", tags)
    IN  CASE ips = None -> Result("Continue", ev)
          [] ips # None /\ ips[1] = <<>> -> Reject("invalid_dst_ips", ev)
          [] OTHER -> Result("Continue", found(decode_first_ip(ips[1])[1]))

(* policy.rule_chain *)
SplitTags(packed) ==
    {SubSeq(packed, i, j) : <<i, j>> \in
        {p \in (1 .. Len(packed)) \X (1 .. Len(packed)) :
            /\ p[1] <= p[2] /\ \A k \in p[1] .. p[2] : packed[k] # "NUL"
            /\ p[1] > 1 => packed[p[1] - 1] = "NUL"
            /\ p[2] < Len(packed) => packed[p[2] + 1] = "NUL"}}

build_rule_ctx(ev) ==
    [RuleCtxEmpty EXCEPT
        !.src_ip = ev.src_ip, !.dst_port = ev.dst_port, !.network = ev.protocol,
        !.hostname = ev.dst_host, !.authenticated_user = ev.user,
        !.dst_ip = read_ext(ev, "dst_ip_primary"), !.operation = read_ext(ev, "operation"),
        !.dst_geo = read_ext(ev, "geo_country"), !.asn = read_ext(ev, "asn"),
        !.geosite_tags = IF "geosite_tags" \in DOMAIN ev.ext THEN SplitTags(ev.ext.geosite_tags) ELSE {}]

(* The sign is the top bit of the word, the magnitude the rest. *)
encode_bias(v) ==
    LET clamped == IF v > 9000 THEN 9000 ELSE IF v < -9000 THEN -9000 ELSE v
    IN  IF clamped >= 0 THEN [sign |-> 0, mag |-> clamped] ELSE [sign |-> 1, mag |-> -clamped]

decode_bias(raw) == IF raw.sign = 0 THEN raw.mag ELSE -raw.mag

RECURSIVE apply_action(_, _)

apply_action(ev, action) ==
    CASE action.op = "Allow" -> Result("Continue", ev)
      [] action.op = "Deny" -> Reject("denied_by_rule", ev)
      [] action.op = "SetRouteGroup" -> Result("Continue", [ev EXCEPT !.route_group = Some(action.arg)])
      [] action.op = "SetCostBias" -> Result("Continue", write_ext(ev, "cost_bias", encode_bias(action.arg)))
      [] action.op = "SetScheduleHint" ->
            Result("Continue", IF action.arg.label = "Auto"
                               THEN [ev EXCEPT !.schedule_hint = None, !.fanout_k = None]
                               ELSE [ev EXCEPT !.schedule_hint = Some("FanOut"), !.fanout_k = Some(action.arg.k)])
      [] action.op = "Compose" ->
            FoldLeft(LAMBDA acc, sub : IF acc.verdict.op # "Continue" THEN acc
                                       ELSE apply_action(acc.event, sub),
                     Result("Continue", ev), action.actions)
      [] OTHER -> Reject("unsupported_forward_rule_action", ev)

rule_chain(ev) ==
    IF ev.protocol \notin {Some("tcp"), Some("udp")} THEN Reject("invalid_transport_family", ev)
    ELSE apply_action(ev, evaluate_with_trace(ForwardChain(cfg).chain, build_rule_ctx(ev), ForwardSets).action)

(* transport.pick_sink_cake *)
read_cost_bias(ev) == IF "cost_bias" \in DOMAIN ev.ext THEN decode_bias(ev.ext.cost_bias) ELSE 0
read_dns_rtt(ev) == IF "dns_rtt_ms" \in DOMAIN ev.ext THEN ev.ext.dns_rtt_ms ELSE 0

(* In thousandths, between 0.1 and 10. *)
bias_multiplier(bias) ==
    IF 1000 + bias < 100 THEN 100 ELSE IF 1000 + bias > 10000 THEN 10000 ELSE 1000 + bias

(* Mutant: the route group is not looked at. *)
usableAnyGroup(ev, candidate) ==
    IF ev.protocol = Some("tcp") THEN candidate.supports_stream ELSE candidate.supports_datagram

usable(ev, candidate) ==
    /\ IF ev.protocol = Some("tcp") THEN candidate.supports_stream ELSE candidate.supports_datagram
    /\ ev.route_group # None => ev.route_group[1] \in candidate.route_groups

(* The round trip mb_cake ranks by; the other inputs of the score are the     *)
(* same for every candidate.                                                  *)
effective_rtt(ev, candidate) ==
    LET base == IF candidate.rtt_ms = 0 THEN read_dns_rtt(ev) ELSE candidate.rtt_ms
        m == bias_multiplier(read_cost_bias(ev))
    IN  (2 * 1000 * base + m) \div (2 * m)

(* mb_cake::rank puts a lowest score first; equal scores are ordered by the   *)
(* hash of flow and exit.                                                     *)
rank(ev, candidates) ==
    {c \in candidates : \A d \in candidates : effective_rtt(ev, c) <= effective_rtt(ev, d)}

pick_sink_cake(ev) ==
    LET filtered == {c \in candidates_from_egresses(cfg) : usable(ev, c)}
    IN  IF ev.protocol \notin {Some("tcp"), Some("udp")} THEN {Reject("invalid_transport_family", ev)}
        ELSE IF filtered = {} THEN {Reject("no_usable_exit", ev)}
        ELSE {[verdict |-> [op |-> "Accept", sink |-> c.sink_id], event |-> ev] : c \in rank(ev, filtered)}

HookResults(hook, ev) ==
    CASE hook = "net.resolve_or_recover" -> {resolve_or_recover(ev, a) : a \in Answers}
      [] hook = "net.enrich_geo_asn" -> {enrich_geo_asn(ev)}
      [] hook = "policy.rule_chain" -> {rule_chain(ev)}
      [] hook = "transport.pick_sink_cake" -> pick_sink_cake(ev)

-----------------------------------------------------------------------------
(* From the configuration file to a running bus. *)

NoBoot == [phase |-> "new", checked |-> None, error |-> "none", exits |-> <<>>, listeners |-> <<>>]

Init ==
    /\ cfg \in Configs /\ boot = NoBoot
    /\ reg = None /\ kernel = [state |-> "none"] /\ run = Kernel!NoRun /\ written = {}
    /\ event = NoEvent /\ request = Allow(BaseRequest)

Fail(b, error) == [b EXCEPT !.phase = "failed", !.error = error]

UnchangedPipeline == UNCHANGED <<reg, kernel, run, written, event, request>>

(* main: parse_config, which also validates. *)
Parse ==
    /\ boot.phase = "new"
    /\ cfg' = parse_config(cfg)
    /\ boot' = IF validate_config(cfg') THEN [boot EXCEPT !.phase = "parsed"] ELSE Fail(boot, "config")
    /\ UnchangedPipeline

RuleChainPath(i) == IF "rule_chain_path" \in DOMAIN i.text THEN i.text.rule_chain_path ELSE None

(* validate_legacy_rule_policy_actions and the loading of the chain. *)
PolicyLoads(c, path) ==
    /\ load_chain_from_path(c, path)
    /\ \A i \in DOMAIN c.files[path].chain.rules :
          validate_projectable_action(c.files[path].chain.rules[i].action)
    /\ validate_projectable_action(c.files[path].chain.default)

(* Mutant: the ingress that feeds the pipeline is not skipped. *)
validate_rule_chainsAll(c) ==
    \A i \in DOMAIN c.ingresses : RuleChainPath(c.ingresses[i]) # None =>
        PolicyLoads(c, RuleChainPath(c.ingresses[i])[1])

(* The chain of the ingress that feeds the pipeline is superseded: no check.  *)
validate_rule_chains(c) ==
    \A i \in DOMAIN c.ingresses :
        (RuleChainPath(c.ingresses[i]) # None /\ selected_pipeline_source_index(c) # Some(i)) =>
            PolicyLoads(c, RuleChainPath(c.ingresses[i])[1])

(* `mesh-bus check`, and the config-check of the operator API. *)
preflight_config ==
    /\ boot.phase = "parsed" /\ boot.checked = None
    /\ boot' = [boot EXCEPT !.checked = Some(/\ validate_rule_chains(cfg)
                                             /\ cfg.pipeline # None => build_pipeline_runtime(cfg))]
    /\ UNCHANGED cfg /\ UnchangedPipeline

(* run: the pipeline comes first. *)
RunPipelineBuild ==
    /\ boot.phase = "parsed"
    /\ IF cfg.pipeline = None THEN boot' = [boot EXCEPT !.phase = "egresses"] /\ UNCHANGED <<reg, kernel>>
       ELSE IF ~build_pipeline_runtime(cfg) THEN boot' = Fail(boot, "pipeline") /\ UNCHANGED <<reg, kernel>>
       ELSE /\ boot' = [boot EXCEPT !.phase = "egresses"]
            /\ reg' = ForwardRegistry(cfg)
            /\ kernel' = Kernel!from_registry(reg')
    /\ UNCHANGED <<cfg, run, written, event, request>>

Exit(e) == [id |-> e.id, groups |-> e.groups, kind |-> e.kind, seal |-> None]

(* One turn of the egress loop of run; a mesh peer is added as a stream and   *)
(* as a datagram egress under one id, with one seal context.                  *)
add_egress(e) ==
    CASE e.kind = "MeshPeerUdp" ->
            IF e.text.peer \notin SocketAddrs THEN Fail(boot, "address")
            ELSE LET x == [Exit(e) EXCEPT !.seal = meshsec_seal_context(cfg, e.text.peer_id)]
                 IN  [boot EXCEPT !.exits = @ \o <<x @@ [shape |-> "stream"], x @@ [shape |-> "datagram"]>>]
      [] e.kind \in {"ServiceTcp", "ServiceUdp"} /\ e.text.connect \notin Endpoints -> Fail(boot, "address")
      [] OTHER -> [boot EXCEPT !.exits = Append(@, Exit(e) @@ [shape |->
                      IF e.kind \in {"Tcp", "Socks5", "ServiceTcp"} THEN "stream" ELSE "datagram"])]

AddEgress(i) ==
    /\ boot.phase = "egresses"
    /\ Cardinality({x.id : x \in ToSet(boot.exits)}) = i - 1
    /\ boot' = add_egress(cfg.egresses[i])
    /\ UNCHANGED cfg /\ UnchangedPipeline

(* try_build; kernel::runtime::build wants a scheduler and an egress, and has *)
(* both.                                                                      *)
build ==
    /\ boot.phase = "egresses"
    /\ Cardinality({x.id : x \in ToSet(boot.exits)}) = Len(cfg.egresses)
    /\ boot' = IF boot.exits = <<>> THEN Fail(boot, "NoEgress") ELSE [boot EXCEPT !.phase = "ingresses"]
    /\ UNCHANGED cfg /\ UnchangedPipeline

(* One turn of the ingress loop: the listener is bound, then the target or    *)
(* the chain is read, then the plugin is spawned.                             *)
Listener(k) ==
    LET i == cfg.ingresses[k]
        piped == selected_pipeline_source_index(cfg) = Some(k)
    IN  [kind |-> i.kind, index |-> k, pipeline |-> piped,
         policy |-> IF piped THEN None ELSE RuleChainPath(i),
         keys |-> IF i.kind = "MeshPeerUdp" /\ cfg.node # None THEN meshsec_open_keys(cfg) ELSE {}]

open_ingress(k, binds) ==
    LET i == cfg.ingresses[k]
    IN  IF ~binds \/ (i.kind = "MeshPeerUdp" /\ i.text.listen[1] \notin SocketAddrs) THEN Fail(boot, "bind")
        ELSE IF i.kind \in {"Tcp", "Udp"} /\ i.text.target[1] \notin Endpoints THEN Fail(boot, "address")
        ELSE IF Listener(k).policy # None /\ ~PolicyLoads(cfg, Listener(k).policy[1]) THEN Fail(boot, "policy")
        ELSE [boot EXCEPT !.listeners = Append(@, Listener(k)),
                          !.phase = IF k = Len(cfg.ingresses) THEN "running" ELSE @]

OpenIngress(binds) ==
    /\ boot.phase = "ingresses"
    /\ boot' = open_ingress(Len(boot.listeners) + 1, binds)
    /\ UNCHANGED cfg /\ UnchangedPipeline

-----------------------------------------------------------------------------
(* Events of the ingress that feeds the pipeline. *)

OpsOf(kind) ==
    CASE kind = "Socks5" -> {"socks5_connect", "socks5_bind", "socks5_udp"} [] kind = "HttpConnect" -> {"http"}
      [] kind = "Tcp" -> {"tcp"} [] kind = "Udp" -> {"udp"} [] OTHER -> {}

Arrive(a) ==
    /\ boot.phase = "running" /\ kernel.state = "ready" /\ run.out.tag = "idle"
    /\ \E l \in ToSet(boot.listeners) : l.pipeline /\ a.op \in OpsOf(l.kind)
    /\ event' = BuiltEvent(a)
    /\ Kernel!run_pipeline_event(SourceName(cfg))
    /\ UNCHANGED <<cfg, boot, request>>

RunHook ==
    /\ kernel.state = "ready" /\ run.out.tag = "running"
    /\ \E result \in HookResults(Kernel!NextHook.id, event) :
          Kernel!Hook(result.verdict) /\ event' = result.event
    /\ UNCHANGED <<cfg, boot, request>>

opt(o, absent) == IF o = None THEN absent ELSE o[1]

(* The ingress turns the outcome into a bus request; an executor error is     *)
(* answered like a refusal.                                                   *)
Decide ==
    /\ run.out.tag \in {"ok", "err"}
    /\ request' = IF run.out.tag = "err" THEN Refuse("Deny")
                  ELSE apply_verdict(run.out.verdict,
                                     [group |-> opt(event.route_group, Absent),
                                      label |-> opt(event.schedule_hint, Absent),
                                      k |-> opt(event.fanout_k, NoK)], BaseRequest)
    /\ run' = [run EXCEPT !.out = [tag |-> "decided", of |-> @]]
    /\ UNCHANGED <<cfg, boot, reg, kernel, written, event>>

Next ==
    \/ Parse \/ preflight_config \/ RunPipelineBuild \/ build
    \/ \E i \in DOMAIN cfg.egresses : AddEgress(i)
    \/ \E binds \in BOOLEAN : OpenIngress(binds)
    \/ \E a \in Arrivals : Arrive(a)
    \/ RunHook \/ Decide

Spec == Init /\ [][Next]_vars

-----------------------------------------------------------------------------

(* What `check` says is what run does: a configuration it accepts fails to    *)
(* start only over an address, in the file or on the machine, and one it      *)
(* refuses never runs.                                                        *)
PreflightPredictsRun ==
    /\ boot.checked = Some(TRUE) => boot.error \in {"none", "address", "bind"}
    /\ boot.checked = Some(FALSE) => boot.phase # "running"

(* Once the listeners of an accepted configuration open, each exit towards a  *)
(* peer with MeshSec seals, no two exit ids share a sealing key, and a mesh   *)
(* listener that is not on loopback has keys to open with.                    *)
MeshSecIsComplete ==
    boot.phase = "running" =>
        /\ \A i \in DOMAIN cfg.egresses : LET e == cfg.egresses[i] IN
              \A p \in ToSet(cfg.peers) : (egress_peer_id(e) = Some(p.id) /\ p.meshsec # None) =>
                  \A x \in ToSet(boot.exits) : x.id = e.id => x.seal # None
        /\ \A x, y \in ToSet(boot.exits) : x.seal # None /\ x.seal = y.seal => x.id = y.id
        /\ \A l \in ToSet(boot.listeners) :
              l.kind = "MeshPeerUdp" /\ cfg.ingresses[l.index].text.listen[1] \notin Loopback => l.keys # {}

(* The rule that decides the event: the first that matches. *)
FirstMatch ==
    LET chain == ForwardChain(cfg).chain
        hits == {i \in DOMAIN chain.rules : eval_match(chain.rules[i].match, build_rule_ctx(event), ForwardSets)}
    IN  IF hits = {} THEN chain.default
        ELSE chain.rules[CHOOSE i \in hits : \A j \in hits : i <= j].action

Decided == run.out.tag = "decided" /\ run.out.of.tag = "ok"

ReachedRules == \E i \in DOMAIN run.trace : run.trace[i][1] = "policy.rule_chain"

(* The operator's decision holds at the bus: a request goes to an exit that   *)
(* is on the bus under that id, carries the protocol of the event and has the *)
(* route group of the first matching rule; a rule that denies, wherever in    *)
(* its action, is never followed by a request; and no action accepted at      *)
(* startup turns out unsupported.                                             *)
ForwardDecisionHonored ==
    Decided =>
        /\ request.outcome = "Allow" =>
              /\ \E x \in ToSet(boot.exits) :
                    /\ x.id = request.request.target_sink
                    /\ x.shape = IF event.protocol = Some("tcp") THEN "stream" ELSE "datagram"
                    /\ \A a \in ToSet(collect_effects(FirstMatch)) :
                          a.op = "SetRouteGroup" => a.arg \in x.groups /\ request.request.route_group = a.arg
              /\ \A a \in ToSet(collect_effects(FirstMatch)) : a.op # "Deny"
        /\ run.out.of.verdict.op = "Reject" =>
              run.out.of.verdict.reason \notin {"unsupported_forward_rule_action", "invalid_transport_family"}

(* The rule policy of a SOCKS5 ingress and the pipeline read one rule chain   *)
(* the same way: for an action both support, the request the pipeline leads   *)
(* to is the one the policy builds, the chosen sink apart.                    *)
PolicyAndPipelineAgree ==
    (Decided /\ ReachedRules /\ validate_projectable_action(FirstMatch)
        /\ run.out.of.verdict \notin {[op |-> "Reject", reason |-> "no_usable_exit"]}) =>
        [request EXCEPT !.request.target_sink = Absent] = apply_one(FirstMatch, BaseRequest)

=============================================================================
