---------------------------- MODULE RuntimeConfig ----------------------------
(* mesh-bus-runtime: what parse_config accepts, and the values run derives    *)
(* from an accepted configuration.  A path is the name of a member of         *)
(* cfg.files; text is a string, "" the empty one; an Option is a sequence of  *)
(* at most one value.                                                         *)
EXTENDS RuleEngine

CONSTANTS IllShaped,        \* ids outside ^[A-Za-z0-9_.:-]+$
          SocketAddrs,      \* texts that parse as a socket address
          Loopback,         \* those of them on a loopback address
          Endpoints,        \* texts that parse as host:port
          Keys              \* texts of 64 hex digits

reject_empty_str(opt) == opt # Some("")
reject_zero(opt) == opt # Some(0)
reject_invalid_id_shape(id) == id \notin IllShaped

METADATA_NAMESPACES == {"net", "transport", "policy", "auth", "trace", "ext"}
is_metadata_key(key) == key[1] \in METADATA_NAMESPACES /\ key[2] # ""

Distinct(seq, id(_)) == \A i, j \in DOMAIN seq : id(seq[i]) = id(seq[j]) => i = j

(* find: the first member that passes the test, if there is one. *)
find(seq, Test(_)) == LET hits == SelectSeq(seq, Test) IN IF hits = <<>> THEN None ELSE Some(Head(hits))

-----------------------------------------------------------------------------
(* The accessors of EgressCfg and IngressCfg. *)

egress_wan_id(e) == IF e.wan_id = None THEN e.id ELSE e.wan_id[1]
egress_peer_id(e) == IF e.kind = "MeshPeerUdp" THEN Some(e.text.peer_id) ELSE None
egress_priority(e) == IF e.priority = 0 THEN 1 ELSE e.priority

pipeline_sink_kind(e) ==
    IF e.kind \in {"Socks5Udp", "Udp", "ServiceUdp"} THEN "datagram_egress" ELSE "stream_egress"

(* <<supports_stream, supports_datagram>> *)
pipeline_capability_bits(e) ==
    CASE e.kind \in {"Tcp", "Socks5", "ServiceTcp"} -> <<TRUE, FALSE>>
      [] e.kind \in {"Socks5Udp", "Udp", "ServiceUdp"} -> <<FALSE, TRUE>>
      [] e.kind = "MeshPeerUdp" -> <<TRUE, TRUE>>

pipeline_source_kind(i) == IF i.kind = "MeshPeerUdp" THEN None ELSE Some("application/source")

-----------------------------------------------------------------------------

validate_logging(cfg) == cfg.logging \in {"trace", "debug", "info", "warn", "error"}

validate_health(cfg) == \A f \in DOMAIN cfg.health : cfg.health[f] # 0

validate_scheduler(cfg) ==
    cfg.scheduler.kind = "LoadBalance" =>
        /\ cfg.scheduler.sticky_ttl_secs # 0
        /\ cfg.scheduler.idle_timeout_secs # 0
        /\ cfg.scheduler.max_age_secs # 0

(* labels holds FALSE for a name outside the Prometheus label pattern. *)
validate_prometheus_label_names(labels) == FALSE \notin labels

validate_metrics(cfg) ==
    cfg.metrics # None => /\ reject_empty_str(Some(cfg.metrics[1].place))
                          /\ validate_prometheus_label_names(cfg.metrics[1].labels)

validate_operator(cfg) ==
    cfg.operator # None => /\ cfg.operator[1].listen \in SocketAddrs \cap Loopback
                           /\ reject_empty_str(cfg.operator[1].token_path)

validate_meshsec_hex(hex) == hex \in Keys

validate_meshsec_keyring(m) ==
    /\ m.active_key_id \notin {None, Some("")}
    /\ \A i \in DOMAIN m.keyring : m.keyring[i].id # "" /\ validate_meshsec_hex(m.keyring[i].static_key_hex)
    /\ Distinct(m.keyring, LAMBDA k : k.id)
    /\ \E i \in DOMAIN m.keyring : m.keyring[i].id = m.active_key_id[1] /\ m.keyring[i].role = "Active"

validate_meshsec_keys(m) ==
    IF m.static_key_hex # None THEN m.keyring = <<>> /\ validate_meshsec_hex(m.static_key_hex[1])
    ELSE m.keyring # <<>> /\ validate_meshsec_keyring(m)

(* A peer without route groups of its own allows any. *)
validate_peer_route_groups(egress, peer) ==
    peer.route_groups # {} => egress.groups \subseteq peer.route_groups

validate_mesh_identity(cfg) ==
    /\ cfg.node # None => reject_empty_str(cfg.node) /\ reject_invalid_id_shape(cfg.node[1])
    /\ \A i \in DOMAIN cfg.peers : LET peer == cfg.peers[i] IN
          /\ peer.id # "" /\ peer.node_id # ""
          /\ reject_invalid_id_shape(peer.id) /\ reject_invalid_id_shape(peer.node_id)
          /\ cfg.node # Some(peer.node_id)
          /\ "" \notin peer.route_groups
          /\ peer.meshsec # None => cfg.node # None /\ validate_meshsec_keys(peer.meshsec[1])
    /\ Distinct(cfg.peers, LAMBDA p : p.id)
    /\ Distinct(cfg.peers, LAMBDA p : p.node_id)
    /\ \A i \in DOMAIN cfg.egresses : LET e == cfg.egresses[i] IN
          egress_peer_id(e) # None =>
             LET peer == find(cfg.peers, LAMBDA p : Some(p.id) = egress_peer_id(e))
             IN  peer # None /\ validate_peer_route_groups(e, peer[1])

validate_meshsec_peer_uniqueness(cfg) ==
    \A i \in DOMAIN cfg.peers : cfg.peers[i].meshsec # None =>
        Cardinality({j \in DOMAIN cfg.egresses : egress_peer_id(cfg.egresses[j]) = Some(cfg.peers[i].id)}) < 2

validate_mesh_peer_udp_wan_requires_meshsec(cfg) ==
    \A i \in DOMAIN cfg.ingresses : cfg.ingresses[i].kind = "MeshPeerUdp" =>
        /\ cfg.ingresses[i].text.listen[1] \in SocketAddrs
        /\ \/ cfg.ingresses[i].text.listen[1] \in Loopback
           \/ \E j \in DOMAIN cfg.peers : cfg.peers[j].meshsec # None

(* text and limits hold the optional fields of the kind at hand; a mandatory  *)
(* text is always Some.                                                       *)
validate_ingress(i) ==
    /\ \A f \in DOMAIN i.text : reject_empty_str(i.text[f])
    /\ \A f \in DOMAIN i.limits : reject_zero(i.limits[f])
    /\ i.kind = "HttpConnect" /\ i.auth # None =>
          \A user \in i.auth[1] : user.name # "" /\ user.password # ""

validate_egress(e) ==
    /\ egress_wan_id(e) # ""
    /\ "" \notin e.groups
    /\ \A f \in DOMAIN e.text : e.text[f] # ""
    /\ reject_empty_str(e.route_group)
    /\ e.kind \in {"Tcp", "Udp", "ServiceUdp"} => \A f \in DOMAIN e.limits : reject_zero(e.limits[f])
    /\ e.kind = "Socks5Udp" /\ e.auth # None => e.auth[1].name # "" /\ e.auth[1].password # ""

forward_rule_chain_path(p) == IF p.rule_chain_forward # None THEN p.rule_chain_forward ELSE p.rule_chain_path

(* The pipeline section of validate_config. *)
validate_pipeline(cfg, p) ==
    /\ \A path \in {p.rule_chain_path, p.rule_chain_forward, p.rule_chain_resolver} : reject_empty_str(path)
    /\ p.geoip # None => \A path \in {p.geoip[1].country, p.geoip[1].asn} : path # None /\ path[1] # ""
    /\ p.geosite # None => p.geosite[1] \notin {None, Some("")}
    /\ p.source.id # None => p.source.id[1] # "" /\ reject_invalid_id_shape(p.source.id[1])
    /\ p.source.kind = "application/source"
    /\ forward_rule_chain_path(p) # None
    /\ LET fits(i) == pipeline_source_kind(cfg.ingresses[i]) = Some(p.source.kind)
       IN  IF p.source.ingress_index # None
           THEN p.source.ingress_index[1] \in DOMAIN cfg.ingresses /\ fits(p.source.ingress_index[1])
           ELSE Cardinality({i \in DOMAIN cfg.ingresses : fits(i)}) = 1
    /\ \A key \in p.source.initial_writes : is_metadata_key(key) /\ key[1] \notin {"policy", "transport"}

validate_config(cfg) ==
    /\ cfg.ingresses # <<>> /\ cfg.egresses # <<>>
    /\ validate_logging(cfg) /\ validate_health(cfg) /\ validate_scheduler(cfg)
    /\ validate_metrics(cfg) /\ validate_operator(cfg)
    /\ validate_mesh_identity(cfg) /\ validate_meshsec_peer_uniqueness(cfg)
    /\ \A i \in DOMAIN cfg.ingresses : validate_ingress(cfg.ingresses[i])
    /\ validate_mesh_peer_udp_wan_requires_meshsec(cfg)
    /\ \A i \in DOMAIN cfg.egresses : LET e == cfg.egresses[i] IN
          /\ e.id # "" /\ reject_invalid_id_shape(e.id) /\ validate_egress(e)
          /\ e.priority # 0 /\ e.timeout_ms # 0
    /\ Distinct(cfg.egresses, LAMBDA e : e.id)
    /\ cfg.pipeline # None => validate_pipeline(cfg, cfg.pipeline[1])

(* The route group of a service egress becomes one of its groups before the   *)
(* configuration is validated.                                                *)
parse_config(cfg) ==
    [cfg EXCEPT !.egresses = [i \in DOMAIN cfg.egresses |-> LET e == cfg.egresses[i] IN
        IF e.kind \in {"ServiceTcp", "ServiceUdp"} /\ e.route_group \notin {None, Some("")}
        THEN [e EXCEPT !.groups = @ \cup {e.route_group[1]}] ELSE e]]

-----------------------------------------------------------------------------
(* MeshSec material. *)

decode_static_key_hex(hex) == IF hex \in Keys THEN Some(hex) ELSE None

active_static_key(m) ==
    IF m.static_key_hex # None THEN decode_static_key_hex(m.static_key_hex[1])
    ELSE LET active == find(m.keyring, LAMBDA k : Some(k.id) = m.active_key_id /\ k.role = "Active")
         IN  IF active = None THEN None ELSE decode_static_key_hex(active[1].static_key_hex)

open_static_keys(m) ==
    LET opens(k) == Some(k.id) = m.active_key_id \/ k.role = "Accept"
    IN  IF m.static_key_hex # None THEN ToSet(decode_static_key_hex(m.static_key_hex[1]))
        ELSE IF m.active_key_id = None THEN {}
        ELSE {k.static_key_hex : k \in {x \in ToSet(m.keyring) : opens(x) /\ x.static_key_hex \in Keys}}

meshsec_seal_context(cfg, peer_id) ==
    LET peer == find(cfg.peers, LAMBDA p : p.id = peer_id)
    IN  IF cfg.node = None \/ peer = None THEN None
        ELSE IF peer[1].meshsec = None \/ active_static_key(peer[1].meshsec[1]) = None THEN None
        ELSE Some([local |-> cfg.node[1], remote |-> peer[1].node_id,
                   key |-> active_static_key(peer[1].meshsec[1])[1]])

meshsec_open_keys(cfg) ==
    UNION {{[peer |-> p.id, remote |-> p.node_id, key |-> k] : k \in open_static_keys(p.meshsec[1])} :
              p \in {q \in ToSet(cfg.peers) : q.meshsec # None}}

=============================================================================
