----------------------------- MODULE MCPipeline -----------------------------
(* Instances of the event pipeline, one per value of `part`: the kernel over  *)
(* many small registries, and the forward pipeline from the configuration     *)
(* file to the bus request.  MCServices runs them beside the other services;  *)
(* a part that is not looked at stays as AtRest leaves it.                    *)
EXTENDS Integers, Sequences, FiniteSets, TLC

CONSTANT MAX_JUMP_DEPTH

VARIABLES part, reg, kernel, run, written,
          cfg, boot, freg, fkernel, frun, fwritten, event, request

kernelVars == <<reg, kernel, run, written>>
forwardVars == <<cfg, boot, freg, fkernel, frun, fwritten, event, request>>

MCIllShaped == {"bad id"}

-----------------------------------------------------------------------------
(* Registries: three pipelines over hooks that read, write, jump and accept,  *)
(* and one registry per check of verify that breaks it.                       *)

Key == <<"ext", "k">>

HookSpec(id, jumps, accepts, terminates, reads, writes) ==
    [id |-> id, kind |-> "Net", allowed_namespaces |-> {<<"ext", "*">>}, reads |-> reads, writes |-> writes,
     may_terminate |-> terminates, may_jump |-> jumps # {}, may_jump_to |-> jumps,
     may_accept_to |-> accepts, side_effect_only |-> FALSE]

SpecsFor(id) ==
    {HookSpec(id, {}, {"k1"}, TRUE, {}, {}), HookSpec(id, {}, {}, FALSE, {}, {Key}),
     HookSpec(id, {}, {}, TRUE, {Key}, {}), HookSpec(id, {"p1", "p2"}, {"k1"}, TRUE, {}, {Key}),
     HookSpec(id, {"p0"}, {}, TRUE, {}, {})}

Idle == HookSpec("d", {}, {}, TRUE, {}, {})

Registry(iw, sa, sb, sc, last, fns) ==
    [sources |-> "s1" :> [id |-> "s1", kind |-> "application/source", initial_writes |-> iw],
     sinks |-> "k1" :> [id |-> "k1", kind |-> "stream_egress"],
     hooks |-> ("a" :> sa) @@ ("b" :> sb) @@ ("c" :> sc) @@ ("d" :> Idle),
     pipelines |-> [p \in {"p0", "p1", "p2"} |->
         [id |-> p, hooks |-> CASE p = "p0" -> <<"a", "b">> [] p = "p1" -> <<"c">> [] p = "p2" -> <<last>>]],
     wirings |-> <<[source |-> "s1", pipeline |-> "p0"]>>, fns |-> fns]

AllFns == {"a", "b", "c", "d"}

Grid == {Registry(iw, sa, sb, sc, "d", AllFns) :
            iw \in {{}, {Key}}, sa \in SpecsFor("a"), sb \in SpecsFor("b"), sc \in SpecsFor("c")}

Plain == Registry({Key}, HookSpec("a", {"p1"}, {}, FALSE, {Key}, {Key}),
                  HookSpec("b", {}, {"k1"}, TRUE, {}, {}), HookSpec("c", {"p2"}, {"k1"}, TRUE, {}, {}), "d", AllFns)

(* A chain of jumps longer than the limit, p0 to p3. *)
Chain ==
    [Plain EXCEPT
        !.hooks = [h \in {"a", "b", "c", "d"} |->
            HookSpec(h, CASE h = "a" -> {"p1"} [] h = "b" -> {"p2"} [] h = "c" -> {"p3"} [] h = "d" -> {},
                     {"k1"}, TRUE, {}, {})],
        !.pipelines = [p \in {"p0", "p1", "p2", "p3"} |->
            [id |-> p, hooks |-> CASE p = "p0" -> <<"a">> [] p = "p1" -> <<"b">>
                                   [] p = "p2" -> <<"c">> [] p = "p3" -> <<"d">>]]]

TwoSources == [Plain EXCEPT
    !.sources = [s \in {"s1", "s2"} |-> [id |-> s, kind |-> "application/source",
                                        initial_writes |-> IF s = "s1" THEN {Key} ELSE {}]],
    !.wirings = <<[source |-> "s1", pipeline |-> "p0"], [source |-> "s2", pipeline |-> "p0"]>>]

Broken ==
    {[Plain EXCEPT !.sources["s1"].id = "s9"], [Plain EXCEPT !.sources["s1"].kind = "other"],
     [Plain EXCEPT !.sinks["k1"].kind = "other"], [Plain EXCEPT !.wirings = <<>>],
     [Plain EXCEPT !.wirings = @ \o @], [Plain EXCEPT !.wirings[1].pipeline = "p9"],
     [Plain EXCEPT !.pipelines["p2"].hooks = <<"z">>], [Plain EXCEPT !.fns = @ \ {"a"}],
     [Plain EXCEPT !.fns = @ \cup {"z"}], [Plain EXCEPT !.hooks["b"].may_terminate = FALSE],
     [Plain EXCEPT !.hooks["b"].may_accept_to = {"k9"}], [Plain EXCEPT !.hooks["a"].may_jump = FALSE],
     [Plain EXCEPT !.hooks["a"].may_jump_to = {"p9"}], [Plain EXCEPT !.hooks["d"].may_terminate = FALSE],
     [Plain EXCEPT !.hooks["a"].reads = {<<"net", "x">>}], [Plain EXCEPT !.hooks["a"].reads = {<<"web", "x">>}],
     [Plain EXCEPT !.hooks["a"].allowed_namespaces = {<<"web", "*">>}],
     [Plain EXCEPT !.hooks["b"].reads = {<<"ext", "q">>}],
     [Plain EXCEPT !.hooks["a"].side_effect_only = TRUE, !.hooks["a"].writes = {<<"policy", "x">>},
                   !.hooks["a"].allowed_namespaces = {<<"ext", "*">>, <<"policy", "*">>}],
     [Plain EXCEPT !.hooks["a"].kind = "Policy", !.hooks["a"].reads = {<<"net", "payload">>},
                   !.hooks["a"].allowed_namespaces = {<<"ext", "*">>, <<"net", "*">>}],
     [Plain EXCEPT !.hooks["a"].may_jump_to = {"p1", "bad id"}],
     [Plain EXCEPT !.pipelines["p2"].hooks = <<>>], [Plain EXCEPT !.sources["s1"].initial_writes = {}]}

(* verify accepts these; the last one makes from_registry panic. *)
Extra == {Plain, Chain, TwoSources, [Plain EXCEPT !.pipelines["p2"].hooks = <<"b">>, !.fns = @ \ {"d"}]}

MCRegistries == Grid \cup Broken \cup Extra

MCVerdicts ==
    {[op |-> "Continue"], [op |-> "Reject"], [op |-> "Accept", sink |-> "k1"], [op |-> "Accept", sink |-> "k9"]}
    \cup {[op |-> "Jump", target |-> p] : p \in {"p0", "p1", "p2", "p3", "p9"}}

Kernel == INSTANCE CompiledKernel
    WITH Registries <- MCRegistries, Verdicts <- MCVerdicts, IllShaped <- MCIllShaped

-----------------------------------------------------------------------------
(* Configurations: one that uses every feature, and variations of it. *)

None == <<>>
Some(x) == <<x>>
Term(kind, arg) == [op |-> "Term", arg |-> [kind |-> kind, arg |-> arg]]
Act(op, arg) == [op |-> op, arg |-> arg]
Compose(actions) == [op |-> "Compose", actions |-> actions]
Rule(match, action) == [id |-> None, match |-> match, action |-> action]
FanOut(k) == Act("SetScheduleHint", [label |-> "FanOut", k |-> k])
Auto == Act("SetScheduleHint", [label |-> "Auto", k |-> 0])

Names == [shop |-> <<"shop", ".", "test">>, ads |-> <<"x", ".", "ads", ".", "test">>]
Ips == [lan |-> <<"10.0.0.1">>, web |-> <<"9.9.9.9">>]

mc_cidr(line) == IF line = <<"10/8">> THEN {Ips.lan} ELSE {}
mc_geoip(ip) ==
    IF ip = Ips.web THEN [country |-> <<"NL">>, asn |-> 64500] ELSE [country |-> <<"XX">>, asn |-> 0]

Lan == [name |-> "lan", inline |-> TRUE, lines |-> <<<<"10/8">>>>, path |-> "", readable |-> FALSE,
        format |-> "IpCidr", field |-> Some("dst_ip")]

(* First matching rule wins; the actions mix denial, groups and hints. *)
Rules ==
    <<Rule(Term("RulesetMember", "lan"), Act("SetRouteGroup", "lan")),
      Rule(Term("GeositeTag", <<"ads">>), Compose(<<Act("Deny", 0), Act("SetRouteGroup", "wan")>>)),
      Rule([op |-> "All", items |-> <<Term("NetworkEq", "udp"), Term("DstPortEq", 53)>>],
           Compose(<<FanOut(2), Act("SetRouteGroup", "wan")>>)),
      Rule(Term("AuthenticatedUserAny", 0), Compose(<<FanOut(2), Auto>>)),
      Rule([op |-> "Not", arg |-> Term("HostnameSuffix", <<"test">>)], Act("SetCostBias", -2000)),
      Rule(Term("DstGeoEq", <<"NL">>), Act("SetRouteGroup", "none"))>>

ChainFile(rules, default) == [chain |-> [rules |-> rules, default |-> default], rulesets |-> <<Lan>>]

Files == [forward |-> ChainFile(Rules, Act("Allow", 0)),
          legacy |-> ChainFile(<<Rule(Term("DstPortEq", 53), Act("SetCostBias", 5))>>, Act("Allow", 0)),
          policy |-> ChainFile(SubSeq(Rules, 1, 3), Act("Deny", 0)),
          pool |-> ChainFile(<<>>, Act("SetResolverPool", "p")),
          clash |-> ChainFile(<<Rule(Term("DstPortEq", 53), Compose(<<Act("Allow", 0), Act("Deny", 0)>>))>>,
                              Act("Allow", 0)),
          geosite |-> {[tag |-> <<"ads">>, domain |-> <<"ads", ".", "test">>]}]

Ingress(kind, listen, text, auth) ==
    [kind |-> kind, text |-> [listen |-> Some(listen)] @@ text, auth |-> auth,
     limits |-> [max_connections |-> None]]

Egress(kind, id, groups, text) ==
    [kind |-> kind, id |-> id, wan_id |-> None, groups |-> groups, priority |-> 1, timeout_ms |-> 500,
     text |-> text, limits |-> [buffer |-> None], route_group |-> None, auth |-> None]

Keyring == [static_key_hex |-> None, active_key_id |-> Some("k2"),
            keyring |-> <<[id |-> "k1", static_key_hex |-> "old", role |-> "Accept"],
                          [id |-> "k2", static_key_hex |-> "new", role |-> "Active"]>>]

Source == [id |-> None, kind |-> "application/source", ingress_index |-> Some(1),
           initial_writes |-> {<<"net", k>> : k \in {"dst_host", "dst_port", "src_ip", "protocol"}}
                                \cup {<<"auth", "user">>, <<"trace", "flow_id">>, <<"ext", "operation">>,
                                      <<"ext", "dst_ip_primary">>}]

Pipeline == [rule_chain_path |-> None, rule_chain_forward |-> Some("forward"), rule_chain_resolver |-> None,
             geoip |-> None, geosite |-> Some(Some("geosite")), source |-> Source]

Full == [node |-> Some("n1"), logging |-> "info", health |-> [failure_threshold |-> 3, probe_after_ms |-> 1],
         scheduler |-> [kind |-> "Cake"], metrics |-> None, operator |-> None, files |-> Files,
         peers |-> <<[id |-> "peer", node_id |-> "n2", route_groups |-> {}, meshsec |-> Some(Keyring)]>>,
         ingresses |-> <<Ingress("Socks5", "lo", [rule_chain_path |-> None], Some({})),
                         Ingress("MeshPeerUdp", "any", [x \in {} |-> None], None)>>,
         egresses |-> <<Egress("Tcp", "tcp", {"wan"}, [x \in {} |-> ""]),
                        Egress("ServiceUdp", "svc", {}, [service_id |-> "s", connect |-> "ep"]),
                        Egress("MeshPeerUdp", "mesh", {"wan", "lan"}, [peer_id |-> "peer", peer |-> "any"])>>,
         pipeline |-> Some(Pipeline)]

Front(kind, text) == [Full EXCEPT !.ingresses[1] = Ingress(kind, "lo", text, None)]
With(field, v) == [Full EXCEPT !.pipeline[1] = [@ EXCEPT ![field] = v]]

MCConfigs ==
    {Full, Front("HttpConnect", [x \in {} |-> None]),
     Front("Tcp", [target |-> Some("ep")]), Front("Udp", [target |-> Some("ep")]),
     Front("Tcp", [target |-> Some("junk")]),
     [Full EXCEPT !.egresses[2].route_group = Some("lan")],
     [Full EXCEPT !.egresses[3].text.peer = "junk"],
     [Full EXCEPT !.egresses[3].groups = {""}],
     [Full EXCEPT !.egresses = Append(@, [@[3] EXCEPT !.id = "mesh2"])],
     [Full EXCEPT !.egresses = Append(@, [@[3] EXCEPT !.id = "mesh2"]), !.peers[1].meshsec = None,
                  !.ingresses[2].text.listen = Some("lo")],
     [Full EXCEPT !.peers[1].meshsec[1].active_key_id = Some("k1")],
     [Full EXCEPT !.peers[1].meshsec = None],
     [Full EXCEPT !.pipeline = None, !.ingresses[1].text.rule_chain_path = Some("policy")],
     [Full EXCEPT !.pipeline = None, !.ingresses[1].text.rule_chain_path = Some("legacy")],
     [Full EXCEPT !.ingresses[1].text.rule_chain_path = Some("legacy")],
     [Full EXCEPT !.ingresses = Append(@, Ingress("Socks5", "lo2", [rule_chain_path |-> Some("missing")], None))],
     With("rule_chain_forward", Some("pool")), With("rule_chain_forward", Some("clash")),
     With("rule_chain_forward", None), With("geosite", Some(Some("missing"))),
     With("rule_chain_resolver", Some("missing")),
     With("source", [Source EXCEPT !.initial_writes = {}]),
     With("source", [Source EXCEPT !.ingress_index = Some(2)]),
     With("source", [Source EXCEPT !.ingress_index = None])}

Target(host, ip, port) == [host |-> host, ip |-> ip, port |-> port]

MCArrivals ==
    {[op |-> op, peer |-> Ips.lan, user |-> user, target |-> target] :
        op \in {"socks5_connect", "socks5_bind", "socks5_udp", "http", "tcp", "udp"},
        user \in {None, Some(<<"bob">>)},
        target \in {Target(Names.shop, FALSE, 53), Target(Names.ads, FALSE, 80), Target(Ips.lan, TRUE, 53),
                    Target(Ips.web, TRUE, 80), Target(<<>>, FALSE, 80)}}

Record(ip) == [type |-> "A", ip |-> ip]

MCAnswers ==
    {[ok |-> TRUE, error |-> "none", source |-> "System", rtt |-> 7, records |-> records] :
        records \in {<<>>, <<[type |-> "TXT", ip |-> <<>>]>>, <<[type |-> "TXT", ip |-> <<>>], Record(Ips.web)>>,
                     <<Record(Ips.lan), Record(Ips.web)>>}}
    \cup {[ok |-> FALSE, error |-> e, source |-> "System", rtt |-> 0, records |-> <<>>] :
             e \in {"nxdomain", "denied", "timeout"}}

Forward == INSTANCE ForwardPipeline
    WITH reg <- freg, kernel <- fkernel, run <- frun, written <- fwritten,
         Configs <- MCConfigs, Arrivals <- MCArrivals, Answers <- MCAnswers,
         cidr <- mc_cidr, geoip <- mc_geoip, IllShaped <- MCIllShaped,
         SocketAddrs <- {"lo", "lo2", "any"}, Loopback <- {"lo", "lo2"}, Endpoints <- {"ep"}, Keys <- {"old", "new"}

-----------------------------------------------------------------------------

KernelRests == reg = Plain /\ kernel = [state |-> "none"] /\ run = Kernel!NoRun /\ written = {}
ForwardRests == /\ cfg = "off" /\ boot = "off" /\ freg = "off" /\ fkernel = "off" /\ frun = "off"
                /\ fwritten = "off" /\ event = "off" /\ request = "off"

AtRest == KernelRests /\ ForwardRests

Init ==
    \/ part = "kernel" /\ Kernel!Init /\ ForwardRests
    \/ part = "forward" /\ Forward!Init /\ KernelRests

Next ==
    \/ part = "kernel" /\ Kernel!Next /\ UNCHANGED <<part, forwardVars>>
    \/ part = "forward" /\ Forward!Next /\ UNCHANGED <<part, kernelVars>>

(* The walk over the compiled slot tables is a walk of the registry itself    *)
(* (compiled.rs run_pipeline against pipeline/data_handle.rs).                *)
CompiledImplements == Kernel!CompiledImplements

(* What verify rules out never happens in a run, and every key a hook reads   *)
(* has been written (registry/data_handle.rs verify).                         *)
VerifiedRunsClean ==
    part = "kernel" => Kernel!VerifiedRunsClean /\ Kernel!PanicIsIdleHook /\ Kernel!ReadsAreWritten

(* `mesh-bus check` predicts what run does, and no exit or listener of a      *)
(* MeshSec peer comes up clear or with a shared key (config_validate.rs and   *)
(* runtime/lib.rs).                                                           *)
PreflightPredictsRun == part = "forward" => Forward!PreflightPredictsRun /\ Forward!MeshSecIsComplete

(* A request goes where the first matching rule sends it, a denied event goes *)
(* nowhere, and rule policy and pipeline project one action onto the same     *)
(* request (pipeline-hooks rule.rs, pick_sink.rs, verdict_apply.rs;           *)
(* action_apply.rs).                                                          *)
ForwardDecisionHonored ==
    part = "forward" => Forward!ForwardDecisionHonored /\ Forward!PolicyAndPipelineAgree

=============================================================================
