------------------------------ MODULE Resolver ------------------------------
(* mesh-bus-resolver: concurrent callers resolve names through one Resolver,  *)
(* with its answer cache, special-use names, rule chain and pools, and the    *)
(* TCP connections that tunnelled queries to one server and route group       *)
(* share.  A name is the sequence of its symbols, dots included.  The bus,    *)
(* the DNS servers, getaddrinfo and time are inputs; records are the (name,   *)
(* type) pairs they answer; every failure of a query but the ones told apart  *)
(* below is an Io error.                                                      *)
EXTENDS Integers, Sequences, FiniteSets, SequencesExt, Functions, TLC

CONSTANTS Configs,              \* builders, and what their callers ask: [qname, qtype, consumer]
          Callers,              \* tasks, each of which resolves one request
          Lower(_),             \* external: to_ascii_lowercase of a symbol
          Hash(_),              \* external: DefaultHasher of a name
          Literals,             \* names that parse as an IP address
          TxIds,                \* what rand::random may draw
          Ttls,                 \* record lifetimes servers use
          TTL_MAX_POSITIVE, DefaultTtl,
          MaxConns, MaxNow      \* bounds: connections opened, clock ticks

VARIABLES cfg, cache, table, conns, rr, calls, now

vars == <<cfg, cache, table, conns, rr, calls, now>>

Rules == INSTANCE RuleEngine

None == <<>>
Some(x) == <<x>>

Idle == [pc |-> "idle", req |-> [qname |-> <<>>, qtype |-> "A", consumer |-> "none"],
         group |-> None, pool |-> None, shots |-> <<>>, conn |-> 0, txid |-> None, winner |-> None, out |-> None]

Init == /\ cfg \in Configs /\ cache = <<>> /\ table = <<>> /\ conns = <<>>
        /\ rr = 0 /\ now = 0 /\ calls = [c \in Callers |-> Idle]

-----------------------------------------------------------------------------

normalize_qname(qname) ==
    LET s == [i \in DOMAIN qname |-> Lower(qname[i])]
    IN  IF s # <<>> /\ Last(s) = "." THEN s ELSE Append(s, ".")

Key(req) == <<normalize_qname(req.qname), req.qtype>>

is_special_use_localhost(q) == q = <<"localhost", ".">> \/ IsSuffix(<<".", "localhost", ".">>, q)

is_special_use_invalid_or_reserved(q) ==
    \E tld \in {"invalid", "test", "example"} : q = <<tld, ".">> \/ IsSuffix(<<".", tld, ".">>, q)

(* Suffixes of the text, not of the labels: 110.in-addr.arpa. ends in         *)
(* 10.in-addr.arpa. too.                                                      *)
is_rfc6303_reverse(q) ==
    LET v4 == <<".", "in-addr", ".", "arpa", ".">>
        v6 == <<".", "f", ".", "ip6", ".", "arpa", ".">>
        ranges == {<<"1", "0">> \o v4, <<"168", ".", "192">> \o v4, <<"254", ".", "169">> \o v4,
                   <<"d">> \o v6, <<"c">> \o v6}
        block(n) == <<ToString(n \div 10), ToString(n % 10), ".", "172">> \o v4
    IN  (\E r \in ranges : IsSuffix(r, q)) \/ \E n \in 16 .. 31 : IsSuffix(block(n), q)

localhost_records(qtype) ==
    CASE qtype = "A" -> {"127.0.0.1"} [] qtype = "AAAA" -> {"::1"} [] OTHER -> {"127.0.0.1", "::1"}

(* ResolverBuilder::validate: what build refuses. *)
validate(c) ==
    /\ c.pools # <<>>
    /\ \A i, j \in DOMAIN c.pools : c.pools[i].id = c.pools[j].id => i = j
    /\ \A i \in DOMAIN c.pools : LET p == c.pools[i] IN
          CASE p.mode = "SystemMode" -> p.servers = <<>>
            [] p.mode = "MeshDirect" -> \A s \in ToSet(p.servers) : s.scheme = "Udp"
            [] p.mode = "Tunneled" -> \A s \in ToSet(p.servers) : s.scheme = "Tcp"

build == /\ ~cfg.built /\ validate(cfg)
         /\ cfg' = [cfg EXCEPT !.built = TRUE]
         /\ UNCHANGED <<cache, table, conns, rr, calls, now>>

-----------------------------------------------------------------------------
(* DnsCache, of which the resolver uses the positive entries. *)

put_positive(key, records, ttl) ==
    LET clamped == IF ttl < TTL_MAX_POSITIVE THEN ttl ELSE TTL_MAX_POSITIVE
    IN  (key :> [records |-> records, expires_at |-> now + clamped]) @@ cache

is_fresh(key) == key \in DOMAIN cache /\ now < cache[key].expires_at

(* mb_rule for the resolver. *)
RECURSIVE trim_dots(_)
trim_dots(s) == IF s # <<>> /\ Last(s) = "." THEN trim_dots(Front(s)) ELSE s

build_rule_ctx(req) ==
    LET host == trim_dots([i \in DOMAIN req.qname |-> Lower(req.qname[i])])
    IN  [Rules!RuleCtxEmpty EXCEPT !.hostname = IF host = <<>> THEN None ELSE Some(host),
                                   !.dns_qtype = Some(req.qtype), !.consumer = Some(req.consumer)]

(* A Deny ends the walk; Compose is walked member by member. *)
walk(p, a) ==
    CASE p.denied -> p
      [] ~p.denied /\ a.op = "Deny" -> [p EXCEPT !.denied = TRUE]
      [] ~p.denied /\ a.op = "SetRouteGroup" -> [p EXCEPT !.route_group = Some(a.arg)]
      [] ~p.denied /\ a.op = "SetResolverPool" -> [p EXCEPT !.pool = Some(a.arg)]
      [] OTHER -> p

project_decision(action) ==
    FoldLeft(walk, [pool |-> None, route_group |-> None, denied |-> FALSE], Rules!collect_effects(action))

Projection(req) ==
    IF cfg.rule_chain = None THEN project_decision([op |-> "Allow"])
    ELSE project_decision(
            Rules!evaluate_with_trace(cfg.rule_chain[1], build_rule_ctx(req), cfg.rule_sets).action)

-----------------------------------------------------------------------------
(* How a call goes on. *)

Ends(call, out) == [call EXCEPT !.pc = "done", !.out = Some(out), !.conn = 0]

Err(what) == [ok |-> FALSE, what |-> what]

Ok(records, source) == [ok |-> TRUE, records |-> records, source |-> source]

select_round_robin(servers) == <<servers[(rr % Len(servers)) + 1].addr>>

select_consistent_hash(servers, q) == <<servers[(Hash(q) % Len(servers)) + 1].addr>>

select_fanout(servers, k) == [i \in 1 .. (IF k < Len(servers) THEN k ELSE Len(servers)) |-> servers[i].addr]

Selected(pool, q) ==
    CASE pool.policy.op = "RoundRobin" -> select_round_robin(pool.servers)
      [] pool.policy.op = "ConsistentHash" -> select_consistent_hash(pool.servers, q)
      [] pool.policy.op = "FanOut" -> select_fanout(pool.servers, pool.policy.k)

(* The head of resolve_mesh_direct and resolve_tunneled. *)
UpstreamCall(call, pool, opener, pc) ==
    IF ~opener \/ pool.servers = <<>> THEN Ends(call, Err("Io"))
    ELSE LET shots == Selected(pool, normalize_qname(call.req.qname))
         IN  IF shots = <<>> THEN Ends(call, Err("Io")) ELSE [call EXCEPT !.pc = pc, !.shots = shots]

PoolCall(call, name) ==
    IF \A i \in DOMAIN cfg.pools : cfg.pools[i].id # name THEN Ends(call, Err("PoolNotFound"))
    ELSE LET pool == CHOOSE p \in ToSet(cfg.pools) : p.id = name
             with == [call EXCEPT !.pool = Some(pool)]
         IN  CASE pool.mode = "SystemMode" -> [with EXCEPT !.pc = "system"]
               [] pool.mode = "MeshDirect" -> UpstreamCall(with, pool, cfg.opener, "datagram")
               [] pool.mode = "Tunneled" -> UpstreamCall(with, pool, cfg.stream_opener, "get")

(* resolve up to its first await: the cache, the special-use names, the       *)
(* rules, the pool, in this order.                                            *)
Resolve(req) ==
    LET q == normalize_qname(req.qname)
        call == [Idle EXCEPT !.req = req, !.group = Projection(req).route_group]
        named == Projection(req).pool \o cfg.default_pool \o <<"(none)">>
    IN  IF cfg.cached /\ is_fresh(Key(req)) THEN Ends(call, Ok(cache[Key(req)].records, "cache"))
        ELSE IF is_special_use_localhost(q) THEN Ends(call, Ok(localhost_records(req.qtype), "special"))
        ELSE IF is_special_use_invalid_or_reserved(q) THEN Ends(call, Err("NxDomain"))
        ELSE IF is_rfc6303_reverse(q) THEN [call EXCEPT !.pc = "system"]
        ELSE IF Projection(req).denied THEN Ends(call, Err("Denied"))
        ELSE PoolCall(call, Head(named))

resolve(c, req) ==
    /\ cfg.built /\ calls[c].pc = "idle"
    /\ \E call \in {Resolve(req)} :
          /\ calls' = [calls EXCEPT ![c] = call]
          /\ rr' = IF call.shots # <<>> /\ call.pool[1].policy.op = "RoundRobin"
                   THEN (rr + 1) % Len(call.pool[1].servers) ELSE rr
    /\ UNCHANGED <<cfg, cache, table, conns, now>>

Cached(call, records, ttl) ==
    IF cfg.cached THEN put_positive(Key(call.req), records, IF ttl < 1 THEN 1 ELSE ttl) ELSE cache

(* resolve_system: an IP literal, or whatever getaddrinfo finds of the type.  *)
(* A private reverse name is answered without touching the cache.             *)
resolve_system(c, found) ==
    LET call == calls[c]
        records == {<<normalize_qname(call.req.qname), call.req.qtype>>}
        literal == trim_dots(call.req.qname) \in Literals
    IN  /\ call.pc = "system"
        /\ literal => found = "ok"
        /\ calls' = [calls EXCEPT ![c] = Ends(call, IF found = "ok" THEN Ok(records, "system") ELSE Err(found))]
        /\ cache' = IF found = "ok" /\ call.pool # None THEN Cached(call, records, DefaultTtl) ELSE cache
        /\ UNCHANGED <<cfg, table, conns, rr, now>>

-----------------------------------------------------------------------------
(* A reply is [txid, key, ttl, body]: body is some, none (NXDOMAIN or no      *)
(* data) or garbled.                                                          *)

validate_reply(reply, call) ==
    reply.txid = call.txid /\ reply.key[1] = normalize_qname(call.req.qname)

extract_answer(reply) == IF reply.body = "some" THEN {reply.key} ELSE {}

min_rr_ttl(reply) == IF reply.body = "some" THEN reply.ttl ELSE DefaultTtl

Query(call) == [txid |-> call.txid, key |-> Key(call.req)]

(* One shot is over: the first that went well wins, and the others are still  *)
(* made, one after the other.                                                 *)
NextShot(call, reply) ==
    LET won == IF call.winner = None THEN reply ELSE call.winner
        next == [call EXCEPT !.winner = won, !.shots = Tail(@), !.conn = 0, !.txid = None]
    IN  IF next.shots # <<>>
        THEN [next EXCEPT !.pc = IF call.pool[1].mode = "MeshDirect" THEN "datagram" ELSE "get"]
        ELSE IF won = None THEN Ends(next, Err("Io"))
        ELSE Ends(next, Ok(extract_answer(won[1]), call.pool[1].mode))

(* apply_telemetry writes the winner's records to the cache. *)
ShotEnds(c, reply) ==
    \E call \in {NextShot(calls[c], reply)} :
        /\ calls' = [calls EXCEPT ![c] = call]
        /\ cache' = IF call.pc = "done" /\ call.out[1].ok
                    THEN Cached(call, call.out[1].records, min_rr_ttl(call.winner[1])) ELSE cache

(* m2::single_shot: a datagram session of its own per query.  The reply is    *)
(* the server's, or one that answers something else, or none in time.         *)
single_shot(c, txid, reply) ==
    LET call == [calls[c] EXCEPT !.txid = Some(txid)]
    IN  /\ calls[c].pc = "datagram"
        /\ ShotEnds(c, IF reply # None /\ reply[1].body # "garbled" /\ validate_reply(reply[1], call)
                       THEN reply ELSE None)
        /\ UNCHANGED <<cfg, table, conns, rr, now>>

(* ConnCache::get_or_open: a tabled connection is shared. *)
ConnKey(call) == <<Head(call.shots), call.group>>

get_or_open(c) ==
    LET call == calls[c] IN
    /\ call.pc = "get"
    /\ calls' = [calls EXCEPT ![c] =
          IF ConnKey(call) \in DOMAIN table
          THEN [call EXCEPT !.pc = "lock", !.conn = table[ConnKey(call)]] ELSE [call EXCEPT !.pc = "open"]]
    /\ UNCHANGED <<cfg, cache, table, conns, rr, now>>

(* The table lock was not held over the open: a connection tabled meanwhile   *)
(* is used instead, and the new one dropped.                                  *)
opened(c) ==
    LET call == calls[c]
        raced == ConnKey(call) \in DOMAIN table
        n == IF raced THEN table[ConnKey(call)] ELSE Len(conns) + 1
    IN  /\ call.pc = "open" /\ (raced \/ n <= MaxConns)
        /\ calls' = [calls EXCEPT ![c] = [call EXCEPT !.pc = "lock", !.conn = n]]
        /\ table' = IF raced THEN table ELSE (ConnKey(call) :> n) @@ table
        /\ conns' = IF raced THEN conns ELSE Append(conns, [held |-> None, asked |-> {}, inbox |-> <<>>])
        /\ UNCHANGED <<cfg, cache, rr, now>>

open_fails(c) ==
    /\ calls[c].pc = "open"
    /\ ShotEnds(c, None)
    /\ UNCHANGED <<cfg, table, conns, rr, now>>

(* single_shot_tcp: lock, send, read one frame, all within the budget. *)
lock_and_send(c, txid) ==
    LET call == [calls[c] EXCEPT !.pc = "read", !.txid = Some(txid)] IN
    /\ calls[c].pc = "lock" /\ conns[call.conn].held = None
    /\ calls' = [calls EXCEPT ![c] = call]
    /\ conns' = [conns EXCEPT ![call.conn].held = Some(c), ![call.conn].asked = @ \cup {Query(call)}]
    /\ UNCHANGED <<cfg, cache, table, rr, now>>

(* The guard is dropped with the future; the eviction is a step of its own.   *)
Released(n, c) == [conns[n] EXCEPT !.held = IF @ = Some(c) THEN None ELSE @]

(* Mutant: a timeout leaves the connection in the table. *)
timed_outKeeps(c) ==
    /\ calls[c].pc \in {"lock", "read"}
    /\ ShotEnds(c, None)
    /\ conns' = [conns EXCEPT ![calls[c].conn] = Released(calls[c].conn, c)]
    /\ UNCHANGED <<cfg, table, rr, now>>

(* The budget runs out, waiting for the lock included; or the send fails or   *)
(* the stream closes.                                                         *)
timed_out(c) ==
    /\ calls[c].pc \in {"lock", "read"}
    /\ calls' = [calls EXCEPT ![c].pc = "evict"]
    /\ conns' = [conns EXCEPT ![calls[c].conn] = Released(calls[c].conn, c)]
    /\ UNCHANGED <<cfg, cache, table, rr, now>>

(* evict removes whatever holds the key by then. *)
evict(c) ==
    /\ calls[c].pc = "evict"
    /\ table' = Restrict(table, DOMAIN table \ {ConnKey(calls[c])})
    /\ ShotEnds(c, None)
    /\ UNCHANGED <<cfg, conns, rr, now>>

(* read_one_frame, and what is made of the frame: a mismatch evicts, a frame  *)
(* that does not decode does not.                                             *)
read_one_frame(c) ==
    LET call == calls[c]
        n == call.conn
        reply == Head(conns[n].inbox)
        freed == [Released(n, c) EXCEPT !.inbox = Tail(@)]
    IN  /\ call.pc = "read" /\ conns[n].inbox # <<>>
        /\ conns' = [conns EXCEPT ![n] = freed]
        /\ IF reply.body # "garbled" /\ ~validate_reply(reply, call)
           THEN calls' = [calls EXCEPT ![c].pc = "evict"] /\ UNCHANGED cache
           ELSE ShotEnds(c, IF reply.body = "garbled" THEN None ELSE Some(reply))
        /\ UNCHANGED <<cfg, table, rr, now>>

(* A server answers a query it was sent, once, in any order. *)
server_replies(n, query, ttl, body) ==
    /\ query \in conns[n].asked
    /\ conns' = [conns EXCEPT ![n].asked = @ \ {query},
                              ![n].inbox = Append(@, query @@ [ttl |-> ttl, body |-> body])]
    /\ UNCHANGED <<cfg, cache, table, rr, calls, now>>

tick == /\ now < MaxNow /\ now' = now + 1
        /\ UNCHANGED <<cfg, cache, table, conns, rr, calls>>

Bodies == {"some", "none", "garbled"}

Replies == [txid : {Some(t) : t \in TxIds}, key : {Key(r) : r \in cfg.asks}, ttl : Ttls, body : Bodies]

Task(c) ==
    \/ \E found \in {"ok", "NxDomain", "Io"} : resolve_system(c, found)
    \/ \E txid \in TxIds, reply \in {None} \cup {Some(r) : r \in Replies} : single_shot(c, txid, reply)
    \/ get_or_open(c) \/ opened(c) \/ open_fails(c)
    \/ \E txid \in TxIds : lock_and_send(c, txid)
    \/ timed_out(c) \/ evict(c) \/ read_one_frame(c)

Next ==
    \/ build \/ tick
    \/ \E c \in Callers : Task(c) \/ \E req \in cfg.asks : resolve(c, req)
    \/ \E n \in DOMAIN conns, ttl \in Ttls, body \in Bodies :
          \E query \in conns[n].asked : server_replies(n, query, ttl, body)

(* Tasks are scheduled, the bus answers an open, a timer fires. *)
Spec == Init /\ [][Next]_vars /\ (\A c \in Callers : WF_vars(Task(c)))

-----------------------------------------------------------------------------

(* However the queries of several callers interleave on one connection, time  *)
(* out and are answered late: a caller is answered with records of the name   *)
(* it asked for, and the cache holds records of its key's name only.  (The    *)
(* type is not compared, so it rests on 16 random bits; validate_reply.)      *)
AnswerIsForName ==
    /\ \A c \in Callers : calls[c].pc = "done" /\ calls[c].out[1].ok /\ calls[c].out[1].source # "special" =>
          \A r \in calls[c].out[1].records : r[1] = normalize_qname(calls[c].req.qname)
    /\ \A key \in DOMAIN cache : \A r \in cache[key].records : r[1] = key[1]

(* A tabled connection that nobody holds owes no answer and holds no frame,   *)
(* unless a caller is about to evict its key: the next query reads its own    *)
(* reply.                                                                     *)
SharedConnIsInSync ==
    \A key \in DOMAIN table : LET conn == conns[table[key]] IN
        (conn.held = None /\ (conn.asked # {} \/ conn.inbox # <<>>)) =>
            \E c \in Callers : calls[c].pc = "evict" /\ ConnKey(calls[c]) = key

(* A call is under way.  It must end: the budget of each shot runs out and    *)
(* the shots are finitely many.                                               *)
Resolves(c) == calls[c].pc \notin {"idle", "done"}

=============================================================================
