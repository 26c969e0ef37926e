---------------------------- MODULE StreamIngress ----------------------------
(* The TCP listeners of the client side: SOCKS5 (CONNECT, BIND and the       *)
(* control connection of UDP ASSOCIATE), HTTP proxy and direct TCP.  One      *)
(* accept loop hands connections to tasks under a semaphore; a task reads the *)
(* handshake, asks the policy, opens and connects a bus session, answers the  *)
(* client and relays.  Bytes are abstracted to what the answers depend on.    *)
EXTENDS IngressPolicy, FiniteSets

CONSTANTS Conns,            \* client connections that may arrive
          MaxConnections,   \* permits of the accept semaphore
          Configs,          \* [listener, auth, gate] records an instance may run with
          Actions,          \* actions a rule chain may decide
          Runs              \* [verdict, meta] results of a pipeline run

VARIABLES config, acceptor, permits, conn

vars == <<config, acceptor, permits, conn>>

Listeners == {"socks5", "http", "tcp"}
Handshaking == {"greeting", "subneg", "request", "head"}
Reasons == {"ConnectionRefused", "NetworkUnreachable", "NoUsableExit", "TimedOut", "ConnectionReset"}

(* early: the client sent payload in the same segment as its request.         *)
(* owed: the upstream has one more response payload before it ends.           *)
NewConn == [phase |-> "waiting", user |-> FALSE, command |-> "Connect", declared |-> "ip",
            early |-> FALSE, owed |-> TRUE, decision |-> Refuse("undecided"), session |-> "none",
            replies |-> <<>>, up |-> "idle", down |-> "idle", shut |-> FALSE, forwarded |-> FALSE]

Init == /\ config \in Configs
        /\ acceptor = "acquire"
        /\ permits = MaxConnections
        /\ conn = [c \in Conns |-> NewConn]

socks5 == config.listener = "socks5"
http == config.listener = "http"
tcp == config.listener = "tcp"

(* The task of c carries on with record r. *)
Becomes(c, r) == conn' = [conn EXCEPT ![c] = r] /\ UNCHANGED <<config, acceptor, permits>>

Reply(r, code) == IF code = "silent" THEN r ELSE [r EXCEPT !.replies = Append(@, code)]

(* handle_conn returns: everything the task owns is dropped, then the permit. *)
Returns(c, r) ==
    /\ conn' = [conn EXCEPT ![c] = [r EXCEPT !.phase = "closed"]]
    /\ permits' = permits + 1
    /\ UNCHANGED <<config, acceptor>>

---------------------------------------------------------------------------
(* The accept loop. *)
acquire == /\ acceptor = "acquire" /\ permits > 0
           /\ acceptor' = "accept" /\ permits' = permits - 1
           /\ UNCHANGED <<config, conn>>

Accepted(c, phase) ==
    /\ acceptor = "accept" /\ conn[c].phase = "waiting"
    /\ acceptor' = "acquire"
    /\ conn' = [conn EXCEPT ![c].phase = phase]
    /\ UNCHANGED <<config, permits>>

socks5_run(c) == socks5 /\ Accepted(c, "greeting")
http_run(c) == http /\ Accepted(c, "head")
tcp_run(c) == tcp /\ Accepted(c, "decide")

accept_error == /\ acceptor = "accept"
                /\ acceptor' = "acquire" /\ permits' = permits + 1
                /\ UNCHANGED <<config, conn>>

---------------------------------------------------------------------------
(* SOCKS5 handshake, RFC 1928 and RFC 1929. *)
read_greeting(c) ==
    /\ conn[c].phase = "greeting"
    /\ \E methods \in SUBSET {"NoAuth", "UserPass", "GssApi"} :
         LET required == IF config.auth THEN "UserPass" ELSE "NoAuth"
         IN  IF required \notin methods THEN Returns(c, Reply(conn[c], "NoAcceptable"))
             ELSE Becomes(c, [Reply(conn[c], required) EXCEPT
                                !.phase = IF config.auth THEN "subneg" ELSE "request"])

(* Mutant: a user that does not verify is told so and let through. *)
run_user_pass_subnegotiationLenient(c) ==
    /\ conn[c].phase = "subneg"
    /\ \E verified \in BOOLEAN :
         Becomes(c, [Reply(conn[c], IF verified THEN "AuthOk" ELSE "AuthFailed") EXCEPT
                       !.phase = "request", !.user = verified])

run_user_pass_subnegotiation(c) ==
    /\ conn[c].phase = "subneg"
    /\ \/ Becomes(c, [Reply(conn[c], "AuthOk") EXCEPT !.phase = "request", !.user = TRUE])
       \/ Returns(c, Reply(conn[c], "AuthFailed"))   \* bad bytes, not UTF-8, not verified

(* Bytes after the request stay in the handshake buffer, which is dropped. *)
read_request(c) ==
    /\ conn[c].phase = "request"
    /\ \E command \in {"Connect", "UdpAssociate", "Bind"}, declared \in {"ip", "host"}, early \in BOOLEAN :
         Becomes(c, [conn[c] EXCEPT !.phase = "decide", !.command = command,
                                    !.declared = declared, !.early = early])

(* HTTP: one request head, with Basic credentials when auth is configured.    *)
(* Bytes after the head are kept as the first upstream payload.               *)
read_request_head(c) ==
    /\ conn[c].phase = "head"
    /\ \/ \E kind \in {"Connect", "ForwardHttp"}, early \in BOOLEAN, verified \in BOOLEAN :
            LET r == [conn[c] EXCEPT !.command = kind, !.early = early, !.user = verified]
            IN  IF config.auth /\ ~verified THEN Returns(c, Reply(r, "407"))
                ELSE Becomes(c, [r EXCEPT !.phase = "decide"])
       \/ \E code \in {"400", "405"} : Returns(c, Reply(conn[c], code))

(* End of stream, a read error, undecodable bytes or a failed method reply. *)
handshake_abort(c) ==
    /\ conn[c].phase \in Handshaking \ {"head"}
    /\ Returns(c, conn[c])

handshake_timeout(c) ==
    /\ conn[c].phase \in Handshaking
    /\ Returns(c, Reply(conn[c], IF http THEN "408" ELSE "silent"))

---------------------------------------------------------------------------
(* The decision.  A failed pipeline run denies. *)
Verdict(run) ==
    CASE http -> http_apply_verdict(run.verdict, run.meta, BaseRequest)
      [] tcp -> tcp_apply_verdict(run.verdict, run.meta, BaseRequest)
      [] OTHER -> apply_verdict(run.verdict, run.meta, BaseRequest)

PipelineDecisions == {Verdict(run) : run \in Runs} \cup {Refuse("Fail")}

Decisions ==
    CASE config.gate = "pipeline" -> PipelineDecisions
      [] config.gate = "policy" -> {apply_one(a, BaseRequest) : a \in Actions}
      [] OTHER -> {Allow(BaseRequest)}

Decided(c, d, refusal, next) ==
    IF d.outcome = "Allow" THEN Becomes(c, [conn[c] EXCEPT !.decision = d, !.phase = next])
    ELSE Returns(c, Reply([conn[c] EXCEPT !.decision = d], refusal))

RefusalReply(outcome) ==
    CASE outcome = "Deny" -> "ConnectionNotAllowed" [] outcome = "Fail" -> "GeneralFailure" [] OTHER -> "silent"

decide_connect(c) ==
    /\ socks5 /\ conn[c].phase = "decide" /\ conn[c].command = "Connect"
    /\ \E d \in Decisions : Decided(c, d, RefusalReply(d.outcome), "open")

decide_bind(c) ==
    /\ socks5 /\ conn[c].phase = "decide" /\ conn[c].command = "Bind"
    /\ \E d \in Decisions : Decided(c, d, RefusalReply(d.outcome), "listen")

(* UDP ASSOCIATE asks the rule policy here, the pipeline once per target.     *)
decide_udp_associate(c) ==
    /\ socks5 /\ conn[c].phase = "decide" /\ conn[c].command = "UdpAssociate"
    /\ \E d \in IF config.gate = "pipeline" THEN {Allow(BaseRequest)} ELSE Decisions :
         Decided(c, d, RefusalReply(d.outcome), "associate")

http_decide_request(c) ==
    /\ http /\ conn[c].phase = "decide"
    /\ \E d \in Decisions : Decided(c, d, "403", "open")

tcp_decide_request(c) ==
    /\ tcp /\ conn[c].phase = "decide"
    /\ \E d \in Decisions : Decided(c, d, "silent", "open")

---------------------------------------------------------------------------
(* CONNECT: the bus session. *)
reply_for_disconnect(reason) ==
    CASE reason \in {"ConnectionRefused", "NetworkUnreachable"} -> reason
      [] reason = "NoUsableExit" -> "HostUnreachable"
      [] reason = "TimedOut" -> "TtlExpired"
      [] OTHER -> "GeneralFailure"

FailureReply(reason) ==
    CASE socks5 -> reply_for_disconnect(reason) [] http -> "502" [] OTHER -> "silent"

open_stream(c) ==
    /\ conn[c].phase = "open"
    /\ IF validate_stream_request(conn[c].decision.request)
       THEN Becomes(c, [conn[c] EXCEPT !.phase = "connect", !.session = "open"])
       ELSE Returns(c, Reply(conn[c], FailureReply("AddressNotSupported")))

ConnectFails(c) == \E reason \in Reasons : Returns(c, Reply(conn[c], FailureReply(reason)))
Connected(c, phase) == Becomes(c, [conn[c] EXCEPT !.phase = phase, !.session = "connected"])

(* Only SOCKS5 puts a timer around connect. *)
socks5_connect(c) ==
    /\ socks5 /\ conn[c].phase = "connect"
    /\ Connected(c, "answer") \/ ConnectFails(c) \/ Returns(c, Reply(conn[c], "GeneralFailure"))

http_connect(c) ==
    /\ http /\ conn[c].phase = "connect"
    /\ Connected(c, IF conn[c].command = "Connect" THEN "answer" ELSE "split") \/ ConnectFails(c)

tcp_handle_conn(c) ==
    /\ tcp /\ conn[c].phase = "connect"
    /\ Connected(c, "split") \/ ConnectFails(c)

(* The success answer; a client that cannot be written to ends the task. *)
answer(c) ==
    /\ conn[c].phase = "answer"
    /\ \/ Becomes(c, [Reply(conn[c], IF socks5 THEN "Succeeded" ELSE "200") EXCEPT !.phase = "split"])
       \/ Returns(c, conn[c])

(* SOCKS5 and TCP try the kernel splice first, which ends when both           *)
(* directions have ended; otherwise the session is split into two tasks.      *)
try_splice(c) == socks5 /\ conn[c].phase = "split" /\ Becomes(c, [conn[c] EXCEPT !.phase = "splice"])

Relayed(c, first) == Becomes(c, [conn[c] EXCEPT !.phase = "relay", !.up = first, !.down = "running"])

run_connect_relay(c) == socks5 /\ conn[c].phase = "split" /\ Relayed(c, "running")

http_relay(c) ==
    /\ http /\ conn[c].phase = "split"
    /\ Relayed(c, IF conn[c].early \/ conn[c].command = "ForwardHttp" THEN "first" ELSE "running")

tcp_relay(c) ==
    /\ tcp /\ conn[c].phase = "split"
    /\ Relayed(c, "running") \/ Becomes(c, [conn[c] EXCEPT !.phase = "splice"])

splice_closed(c) == conn[c].phase = "splice" /\ Returns(c, conn[c])

(* The HTTP relay sends the kept bytes first; when that fails the direction   *)
(* ends without shutting the session's write side.                            *)
first_upstream(c) ==
    /\ conn[c].phase = "relay" /\ conn[c].up = "first"
    /\ \/ Becomes(c, [conn[c] EXCEPT !.up = "running", !.forwarded = TRUE])
       \/ Becomes(c, [conn[c] EXCEPT !.up = "failed"])

(* A direction of the relay has ended.  The SOCKS5 relay selects on its two   *)
(* tasks and aborts the other; the HTTP and TCP relays join them.             *)
DirectionEnded(c, r) ==
    IF socks5 \/ (r.up \notin {"first", "running"} /\ r.down # "running")
    THEN Returns(c, r) ELSE Becomes(c, r)

(* Client end of stream or a failed send: the write side is shut first. *)
send_task_ends(c) ==
    /\ conn[c].phase = "relay" /\ conn[c].up = "running"
    /\ \E why \in {"client_eof", "send_failed"} :
         DirectionEnded(c, [conn[c] EXCEPT !.up = why, !.shut = TRUE])

returns_task_delivers(c) ==
    /\ conn[c].phase = "relay" /\ conn[c].down = "running" /\ conn[c].owed
    /\ \/ Becomes(c, [conn[c] EXCEPT !.owed = FALSE])
       \/ DirectionEnded(c, [conn[c] EXCEPT !.down = "write_failed"])

(* The upstream ends after its last payload, or the session is lost. *)
returns_task_ends(c) ==
    /\ conn[c].phase = "relay" /\ conn[c].down = "running"
    /\ DirectionEnded(c, [conn[c] EXCEPT !.down = IF conn[c].owed THEN "lost" ELSE "upstream_eof"])

(* BIND: a local listener, two replies, then a plain copy; no bus session. *)
run_bind_relay(c) ==
    /\ conn[c].phase = "listen"
    /\ \/ Returns(c, Reply(conn[c], "GeneralFailure"))
       \/ Becomes(c, [Reply(conn[c], "Succeeded") EXCEPT !.phase = "bind_accept"])
       \/ Returns(c, conn[c])

(* A declared IP must match the connecting one; a host name accepts anyone. *)
bind_accept(c) ==
    /\ conn[c].phase = "bind_accept"
    /\ \/ \E code \in {"GeneralFailure", "TtlExpired"} : Returns(c, Reply(conn[c], code))
       \/ conn[c].declared = "ip" /\ Returns(c, Reply(conn[c], "ConnectionNotAllowed"))
       \/ Becomes(c, [Reply(conn[c], "Succeeded") EXCEPT !.phase = "bind_copy"])
       \/ Returns(c, conn[c])

bind_copy_ends(c) == conn[c].phase = "bind_copy" /\ Returns(c, conn[c])

(* UDP ASSOCIATE: the success reply goes out before UdpAssociation::new,      *)
(* which refuses a declared host name and then answers a second time.         *)
udp_associate(c) ==
    /\ conn[c].phase = "associate"
    /\ \/ \E code \in {"HostUnreachable", "GeneralFailure"} : Returns(c, Reply(conn[c], code))
       \/ Returns(c, conn[c])
       \/ /\ conn[c].declared = "host"
          /\ Returns(c, Reply(Reply(conn[c], "Succeeded"), "GeneralFailure"))
       \/ /\ conn[c].declared = "ip"
          /\ Becomes(c, [Reply(conn[c], "Succeeded") EXCEPT !.phase = "associated"])

(* The control connection ends: the relay task is aborted. *)
control_closed(c) == conn[c].phase = "associated" /\ Returns(c, conn[c])

Decide(c) == decide_connect(c) \/ decide_bind(c) \/ decide_udp_associate(c)
             \/ http_decide_request(c) \/ tcp_decide_request(c)

Split(c) == try_splice(c) \/ run_connect_relay(c) \/ http_relay(c) \/ tcp_relay(c)

Handler(c) ==
    \/ read_greeting(c) \/ run_user_pass_subnegotiation(c) \/ read_request(c)
    \/ read_request_head(c) \/ handshake_abort(c)
    \/ Decide(c) \/ open_stream(c) \/ socks5_connect(c) \/ http_connect(c) \/ tcp_handle_conn(c)
    \/ answer(c) \/ Split(c) \/ splice_closed(c)
    \/ first_upstream(c) \/ send_task_ends(c) \/ returns_task_delivers(c) \/ returns_task_ends(c)
    \/ run_bind_relay(c) \/ bind_accept(c) \/ bind_copy_ends(c) \/ udp_associate(c) \/ control_closed(c)

Next == acquire \/ accept_error
        \/ \E c \in Conns : socks5_run(c) \/ http_run(c) \/ tcp_run(c) \/ handshake_timeout(c) \/ Handler(c)

(* Timers fire and the task's own steps are taken; clients and peers owe      *)
(* nothing, so accepting and relaying are not fair.                           *)
(* The timers of a SOCKS5 connection (handshake, connect) and its own steps.  *)
Timed(c) == \/ handshake_timeout(c) \/ Decide(c) \/ open_stream(c) \/ socks5_connect(c) \/ answer(c) \/ Split(c)
            \/ run_bind_relay(c) \/ bind_accept(c) \/ udp_associate(c)

Spec == Init /\ [][Next]_vars /\ WF_vars(acquire) /\ (\A c \in Conns : WF_vars(Timed(c)))

---------------------------------------------------------------------------
(* A bus session exists only for a client that authenticated where the        *)
(* listener asks for it, whose request the policy allowed, and the request it  *)
(* was opened with is one the configured gate can produce: only the pipeline   *)
(* pins an exit, and a fan-out is refused.  A client that is told of success   *)
(* has its session connected, and no permit is lost: it is free, with the      *)
(* acceptor or with one connection being served.                               *)
SessionWasGranted ==
    /\ \A c \in Conns : conn[c].session # "none" =>
          /\ config.auth /\ config.listener # "tcp" => conn[c].user
          /\ conn[c].decision.outcome = "Allow"
          /\ conn[c].command \in {"Connect", "ForwardHttp"}
          /\ conn[c].decision.request.schedule_hint \in {"Auto", "SinglePath"}
          /\ (conn[c].decision.request.target_sink # Absent) = (config.gate = "pipeline")
    /\ \A c \in Conns : conn[c].command \in {"Connect", "ForwardHttp"} =>
          (Range(conn[c].replies) \cap {"Succeeded", "200"} # {} => conn[c].session = "connected")
    /\ permits + Cardinality({c \in Conns : conn[c].phase \notin {"waiting", "closed"}})
               + Cardinality({a \in {acceptor} : a = "accept"}) = MaxConnections

(* A SOCKS5 client is between accept and relay; the timers must end this. *)
Dials(c) == socks5 /\ conn[c].phase \in Handshaking \cup {"decide", "open", "connect", "answer", "split",
                                                          "listen", "bind_accept", "associate"}

=============================================================================
