----------------------------- MODULE RuleEngine -----------------------------
(* lib/mb-rule: match expressions, actions and rule sets, their validation at *)
(* startup and their evaluation.  lib/mb-geosite: the tag trie.               *)
(* An Option is a sequence of at most one value.  Text is a sequence of       *)
(* tokens, with "." a token of its own, so that a suffix need not start at a  *)
(* label; a CIDR block is the set of its addresses, a regex the set of the    *)
(* names it matches.                                                          *)
EXTENDS IngressPolicy, FiniteSets, TLC

None == <<>>
Some(x) == <<x>>
is_some_and(opt, P(_)) == opt # None /\ P(opt[1])

CtxFields == {"src_ip", "dst_ip", "dst_port", "network", "session_shape", "operation", "traffic_class",
              "transform_kind", "fragment_group", "hostname", "socks5_command", "consumer",
              "dns_qtype", "authenticated_user", "dst_geo", "asn"}

RuleCtxEmpty == [f \in CtxFields |-> None] @@ [geosite_tags |-> {}]

(* The predicates that compare one field of the context with a value. *)
EqField ==
    [SrcIpEq |-> "src_ip", DstIpEq |-> "dst_ip", DstPortEq |-> "dst_port", NetworkEq |-> "network",
     SessionShapeEq |-> "session_shape", OperationEq |-> "operation",
     Socks5CommandEq |-> "socks5_command", HostnameExact |-> "hostname",
     FragmentGroupExact |-> "fragment_group", TransformKindEq |-> "transform_kind",
     TrafficClassEq |-> "traffic_class", Consumer |-> "consumer", DnsQtype |-> "dns_qtype",
     AuthenticatedUserEq |-> "authenticated_user", DstGeoEq |-> "dst_geo", AsnEq |-> "asn"]

ContainsText(text, part) ==
    \E i \in 0 .. Len(text) - Len(part) : SubSeq(text, i + 1, i + Len(part)) = part

(* sets is RuleSetRegistry.sets.  An unknown set, a missing field and a       *)
(* classical set match nothing.                                               *)
eval_ruleset(name, ctx, sets) ==
    /\ name \in DOMAIN sets
    /\ CASE sets[name].format = "DomainSuffix" ->
              is_some_and(ctx.hostname, LAMBDA h : \E s \in sets[name].entries : IsSuffix(s, h))
         [] sets[name].format = "IpCidr" ->
              /\ sets[name].field \in {Some("src_ip"), Some("dst_ip")}
              /\ is_some_and(ctx[sets[name].field[1]], LAMBDA ip : \E n \in sets[name].cidrs : ip \in n)
         [] OTHER -> FALSE

eval_predicate(p, ctx, sets) ==
    CASE p.kind \in DOMAIN EqField -> ctx[EqField[p.kind]] = Some(p.arg)
      [] p.kind = "SrcCidr" -> is_some_and(ctx.src_ip, LAMBDA ip : ip \in p.arg)
      [] p.kind = "DstCidr" -> is_some_and(ctx.dst_ip, LAMBDA ip : ip \in p.arg)
      [] p.kind = "DstPortRange" -> is_some_and(ctx.dst_port, LAMBDA q : q \in p.arg[1] .. p.arg[2])
      [] p.kind = "HostnameSuffix" -> is_some_and(ctx.hostname, LAMBDA h : IsSuffix(p.arg, h))
      [] p.kind = "HostnameKeyword" -> is_some_and(ctx.hostname, LAMBDA h : ContainsText(h, p.arg))
      [] p.kind = "HostnameRegex" -> is_some_and(ctx.hostname, LAMBDA h : h \in p.arg)
      [] p.kind = "RulesetMember" -> eval_ruleset(p.arg, ctx, sets)
      [] p.kind = "AuthenticatedUserAny" -> ctx.authenticated_user # None
      [] p.kind = "AsnAny" -> is_some_and(ctx.asn, LAMBDA a : a \in p.arg)
      [] p.kind = "GeositeTag" -> p.arg \in ctx.geosite_tags

RECURSIVE eval_match(_, _, _)
eval_match(m, ctx, sets) ==
    CASE m.op = "Term" -> eval_predicate(m.arg, ctx, sets)
      [] m.op = "All" -> \A i \in DOMAIN m.items : eval_match(m.items[i], ctx, sets)
      [] m.op = "Any" -> \E i \in DOMAIN m.items : eval_match(m.items[i], ctx, sets)
      [] m.op = "Not" -> ~eval_match(m.arg, ctx, sets)

(* The scan stops at the first rule that matches. *)
evaluate_with_trace(chain, ctx, sets) ==
    FoldLeft(LAMBDA acc, i :
                IF acc.rule = None /\ eval_match(chain.rules[i].match, ctx, sets)
                THEN [action |-> chain.rules[i].action, rule |-> Some(i)] ELSE acc,
             [action |-> chain.default, rule |-> None],
             [i \in DOMAIN chain.rules |-> i])

-----------------------------------------------------------------------------

TextPredicates == {"HostnameExact", "OperationEq", "HostnameSuffix", "HostnameKeyword",
                   "FragmentGroupExact", "Consumer", "DnsQtype", "AuthenticatedUserEq", "DstGeoEq",
                   "GeositeTag"}

(* HostnameRegex is refused for an empty pattern only; a set stands for a     *)
(* pattern that is not.                                                       *)
validate_predicate(p) ==
    /\ p.kind = "DstPortRange" => p.arg[1] <= p.arg[2]
    /\ p.kind \in TextPredicates => p.arg # <<>>
    /\ p.kind = "RulesetMember" => p.arg # ""
    /\ p.kind = "AsnAny" => p.arg # {}

RECURSIVE validate_match(_)
validate_match(m) ==
    CASE m.op = "Term" -> validate_predicate(m.arg)
      [] m.op = "Not" -> validate_match(m.arg)
      [] OTHER -> m.items # <<>> /\ \A i \in DOMAIN m.items : validate_match(m.items[i])

(* collect_effects: the simple actions of a Compose, however deeply nested. *)
RECURSIVE collect_effects(_)
collect_effects(a) ==
    IF a.op # "Compose" THEN <<a>>
    ELSE FoldLeft(LAMBDA acc, x : acc \o collect_effects(x), <<>>, a.actions)

RECURSIVE validate_action(_)
validate_action(a) ==
    LET effects == collect_effects(a)
        count(op) == Len(SelectSeq(effects, LAMBDA x : x.op = op))
    IN  /\ a.op \in {"SetRouteGroup", "SetResolverPool"} => a.arg # ""
        /\ a.op = "SetScheduleHint" => ~(a.arg.label = "FanOut" /\ a.arg.k = 0)
        /\ a.op = "SetTransform" => a.arg \in {"null", "object"}
        /\ a.op = "SetCostBias" => a.arg \in -9000 .. 9000
        /\ a.op = "Compose" =>
              /\ a.actions # <<>> /\ \A i \in DOMAIN a.actions : validate_action(a.actions[i])
              /\ ~(count("Allow") > 0 /\ count("Deny") > 0)
              /\ count("SetRouteGroup") <= 1
              /\ count("SetResolverPool") <= 1
              /\ count("SetCostBias") <= 1

(* lines is <<>> for a file without entries; the file of a Local set that     *)
(* cannot be read has readable FALSE.                                         *)
validate_ruleset(rs) ==
    /\ rs.name # ""
    /\ rs.inline => rs.lines # <<>> /\ \A i \in DOMAIN rs.lines : rs.lines[i] # <<>>
    /\ ~rs.inline => rs.path # ""
    /\ CASE rs.format = "IpCidr" -> rs.field \in {Some("src_ip"), Some("dst_ip")}
         [] rs.format = "DomainSuffix" -> rs.field = Some("hostname")
         [] OTHER -> rs.field = None

validate(chain, rulesets) ==
    /\ \A i \in DOMAIN chain.rules : /\ chain.rules[i].id # Some("")
                                     /\ validate_match(chain.rules[i].match)
                                     /\ validate_action(chain.rules[i].action)
    /\ validate_action(chain.default)
    /\ \A i \in DOMAIN rulesets : validate_ruleset(rulesets[i])
    /\ \A i, j \in DOMAIN rulesets : rulesets[i].name = rulesets[j].name => i = j

-----------------------------------------------------------------------------

(* mb-geosite.  A name, last label first; leading and trailing dots go.       *)
RECURSIVE normalize_host(_)
normalize_host(host) ==
    CASE host # <<>> /\ Head(host) = "." -> normalize_host(Tail(host))
      [] host # <<>> /\ Head(host) # "." /\ Last(host) = "." -> normalize_host(Front(host))
      [] OTHER -> host

RECURSIVE rsplit(_)
rsplit(host) ==
    LET dots == {i \in DOMAIN host : host[i] = "."}
    IN  IF dots = {} THEN <<host>>
        ELSE LET d == CHOOSE i \in dots : \A j \in dots : j <= i
             IN  <<SubSeq(host, d + 1, Len(host))>> \o rsplit(SubSeq(host, 1, d - 1))

(* parse and insert: the trie, as the set of its tagged paths.  A line that   *)
(* is not `tag:domain` fails the whole file.                                  *)
parse(lines) ==
    IF \A l \in lines : l.tag # <<>> /\ normalize_host(l.domain) # <<>>
                        /\ \A i \in DOMAIN rsplit(normalize_host(l.domain)) :
                              rsplit(normalize_host(l.domain))[i] # <<>>
    THEN [ok |-> TRUE, trie |-> {<<rsplit(normalize_host(l.domain)), l.tag>> : l \in lines}]
    ELSE [ok |-> FALSE, trie |-> {}]

(* for_each_match walks down label by label and reports the tags on the way.  *)
for_each_match(trie, host) ==
    {t[2] : t \in {e \in trie : IsPrefix(e[1], rsplit(host))}}

lookup(trie, host) ==
    IF normalize_host(host) = <<>> THEN {} ELSE for_each_match(trie, normalize_host(host))

(* NUL-separated tags, which the rule hook splits again. *)
lookup_packed(trie, host) ==
    LET tags == SetToSeq(lookup(trie, host))
    IN  FoldLeft(LAMBDA acc, t : IF acc = <<>> THEN t ELSE acc \o <<"NUL">> \o t, <<>>, tags)

=============================================================================
