----------------------------- MODULE MCServices -----------------------------
(* The services around the dispatcher, one per value of `part`: the event     *)
(* kernel and the forward pipeline (MCPipeline), the UDP sender of a mesh     *)
(* peer, the stream listeners, a stream exit, a datagram exit, the resolver,  *)
(* the choice of an exit, and the observation bus (EXTENDed).  The parts that are not looked at stay *)
(* as they start, most of them at Off.                                        *)
EXTENDS Integers, TLC, ObservationBus

CONSTANTS Callers, Conns, TxIds, MAX_JUMP_DEPTH, s1, s2

TwoWired == <<s1, s2>>

VARIABLES part,
    calls, control, data, driver, outbound, gso, wire, tickets, remembered, side,
    config, acceptor, permits, conn,
    proto, auth, kernel, dial, state, result, written, socket, reader, returns, polled,
    egress, client, pending, submit, entry, inflight, network, answers, received, budget,
    cfg, cache, pooled, conns, rr, queries, now,
    setup, clock, health, samples, unhealthy, wrr, sticky, leases, activity, dispatch, opened,
    history, recent, strayed,
    reg, tables, run, keys, file, boot, freg, fkernel, frun, fwritten, event, request

senderVars == <<calls, control, data, driver, outbound, gso, wire, tickets, remembered, side>>
streamVars == <<config, acceptor, permits, conn>>
exitVars == <<proto, auth, kernel, dial, state, result, written, socket, reader, returns, polled>>
datagramVars == <<egress, client, pending, submit, entry, inflight, network, answers, received, budget>>
resolverVars == <<cfg, cache, pooled, conns, rr, queries, now>>
choiceVars == <<setup, clock, health, samples, unhealthy, wrr, sticky, leases, activity, dispatch,
                opened, history, recent, strayed>>
pipelineVars == <<reg, tables, run, keys, file, boot, freg, fkernel, frun, fwritten, event, request>>

Off == "off"

-----------------------------------------------------------------------------
(* Four calls fill queues of one request: two data frames, a control frame    *)
(* and a data frame above the path MTU, a repair of three, one too large.     *)
Stream(n) == [semantic |-> "Stream", size |-> n]
MCCalls == <<[frames |-> <<Stream(1), Stream(2)>>, repair |-> FALSE, peer |-> 1],
             [frames |-> <<[semantic |-> "Control", size |-> 2], Stream(3)>>, repair |-> FALSE, peer |-> 1],
             [frames |-> <<Stream(1), Stream(1), Stream(1)>>, repair |-> TRUE, peer |-> 1],
             [frames |-> <<Stream(5)>>, repair |-> FALSE, peer |-> 2]>>

Sender == INSTANCE MeshSender
    WITH Calls <- MCCalls, Copies <- 2, ControlBound <- 1, DataBound <- 1, FlushBatch <- 4, Capacity <- 3,
         Pmtu <- 2, MaxPayload <- 4, MaxMmsg <- 2, MaxGso <- 2

-----------------------------------------------------------------------------
(* Two clients and one permit. *)
Listen(listener, needsAuth, gate) == [listener |-> listener, auth |-> needsAuth, gate |-> gate]

Act(op, arg) == [op |-> op, arg |-> arg]
Compose(a, b) == [op |-> "Compose", actions |-> <<a, b>>]
Meta(group, label, k) == [group |-> group, label |-> label, k |-> k]

Streams == INSTANCE StreamIngress
    WITH MaxConnections <- 1,
         Configs <- {Listen("socks5", TRUE, "pipeline"), Listen("socks5", FALSE, "policy"),
                     Listen("http", TRUE, "pipeline"), Listen("tcp", FALSE, "pipeline")},
         Actions <- {[op |-> "Allow"], [op |-> "SetTransform"],
                     Compose([op |-> "Deny"], Act("SetRouteGroup", "g1")),
                     Compose(Act("SetRouteGroup", "g1"),
                             Act("SetScheduleHint", [label |-> "FanOut", k |-> 2]))},
         Runs <- [verdict : {[op |-> "Accept", sink |-> "x1"]},
                  meta : {Meta("absent", "FanOut", 0), Meta("g1", "Stripe", -1)}]
                 \cup [verdict : {[op |-> "Reject"], [op |-> "Jump"]}, meta : {Meta("g1", "Stripe", -1)}]

Exit == INSTANCE EgressStream
    WITH Protos <- {"tcp", "socks5"}, MaxData <- 2, MaxReturns <- 2, QueueBound <- 1

Datagrams == INSTANCE DatagramFlow
    WITH returns <- answers, Targets <- {"a", "b"}, MaxSends <- 2, MaxReplies <- 2,
         Egresses <- {"udp", "fixed", "socks5"}

-----------------------------------------------------------------------------
(* Pools of every mode and policy; lower-case folding and the hash are        *)
(* stand-ins.                                                                 *)
mc_Lower(s) == IF s = "A" THEN "a" ELSE s
mc_Hash(q) == Len(q)

Ask(names) == {[qname |-> n, qtype |-> "A", consumer |-> "x"] : n \in names}

Server(addr, scheme) == [addr |-> addr, scheme |-> scheme]
Pool(id, m, policy, servers) == [id |-> id, mode |-> m, policy |-> policy, servers |-> servers]
RoundRobin == [op |-> "RoundRobin"]
FanOut(k) == [op |-> "FanOut", k |-> k]
Direct(policy) == Pool("direct", "MeshDirect", policy, <<Server("s1", "Udp"), Server("s2", "Udp")>>)
Tunnel(policy) == Pool("tunnel", "Tunneled", policy, <<Server("s1", "Tcp")>>)
System == Pool("system", "SystemMode", RoundRobin, <<>>)

(* The name b is denied; the others go to the direct pool by route group g.   *)
Chain == [rules |-> <<[id |-> <<>>, action |-> [op |-> "Deny"],
                       match |-> [op |-> "Term", arg |-> [kind |-> "HostnameExact", arg |-> <<"b">>]]]>>,
          default |-> Compose(Act("SetRouteGroup", "g"), Act("SetResolverPool", "direct"))]

Built(pools, default) ==
    [pools |-> pools, default_pool |-> default, rule_chain |-> <<>>, rule_sets |-> <<>>, opener |-> TRUE,
     stream_opener |-> TRUE, cached |-> TRUE, built |-> FALSE, asks |-> Ask({<<"A">>, <<"b", ".">>})]

MCBuilders ==
    {Built(<<Tunnel(RoundRobin)>>, <<"tunnel">>),
     [Built(<<Tunnel(FanOut(3))>>, <<"tunnel">>) EXCEPT !.asks = Ask({<<"A">>})],
     [Built(<<Direct([op |-> "ConsistentHash"]), System>>, <<>>) EXCEPT !.rule_chain = <<Chain>>],
     Built(<<Direct(FanOut(2))>>, <<"direct">>),
     [Built(<<System>>, <<"system">>) EXCEPT !.asks =
          Ask({<<"A">>, <<"localhost">>, <<"b", ".", "test">>, <<"7">>,
               <<"1", "1", "0", ".", "in-addr", ".", "arpa">>})],
     [Built(<<Tunnel(RoundRobin)>>, <<"tunnel">>) EXCEPT !.stream_opener = FALSE],
     Built(<<System>>, <<>>), Built(<<Tunnel(FanOut(0))>>, <<"tunnel">>),
     Built(<<System, System>>, <<"system">>)}

Names == INSTANCE Resolver
    WITH calls <- queries, table <- pooled, Configs <- MCBuilders, Lower <- mc_Lower, Hash <- mc_Hash,
         Literals <- {<<"7">>}, Ttls <- {0, 3}, TTL_MAX_POSITIVE <- 2, DefaultTtl <- 1,
         MaxConns <- 2, MaxNow <- 1

-----------------------------------------------------------------------------

(* Two exits of weights 2 and 1, one of them in the group g; every mode, with *)
(* streams at the same time, an exit that fails, and time that passes.        *)
AnyExit == [source |-> "a", target |-> "t", group |-> "none"]
InGroup == [AnyExit EXCEPT !.group = "g"]
Scheduler(m, policy, asks, n, faulty, until) ==
    [mode |-> m, policy |-> policy, asks |-> asks, flows |-> n, faulty |-> faulty, until |-> until]

mc_Weight == [x1 |-> 2, x2 |-> 1]
mc_Bucket(target) == 2
mc_Score(source, generation, x) == (generation + mc_Weight[x]) % 3

MCSchedulers ==
    {Scheduler("RoundRobin", "Off", {AnyExit, InGroup}, 2, {}, 0),
     Scheduler("StickySessions", "Off", {AnyExit, InGroup}, 1, {"x1"}, 1),
     Scheduler("ConsistentHashing", "Off", {AnyExit}, 1, {"x1", "x2"}, 2),
     Scheduler("SourceLeaseRotate", "Off", {AnyExit}, 2, {}, 2),
     Scheduler("SourceLeaseRotate", "Off", {AnyExit}, 1, {"x1"}, 2),
     Scheduler("SourceLeaseRotate", "Hard", {AnyExit, InGroup}, 1, {"x1"}, 2)}

Choice == INSTANCE ExitChoice
    WITH config <- setup, now <- clock, rr <- wrr, task <- dispatch, flows <- opened,
         Exits <- <<"x1", "x2">>, Groups <- [x1 |-> {"g"}, x2 |-> {}], Weight <- mc_Weight,
         Tasks <- {1, 2}, Configs <- MCSchedulers, failure_threshold <- 2, recovery_window_ms <- 1,
         probe_after_ms <- 1, ttl_ms <- 1, idle_timeout_ms <- 1, max_age_ms <- 1,
         switch_cooldown_ms <- 1, Generations <- 2, Hash <- mc_Bucket, Score <- mc_Score, QueueCap <- 1

-----------------------------------------------------------------------------

Pipeline == INSTANCE MCPipeline WITH kernel <- tables, written <- keys, cfg <- file

-----------------------------------------------------------------------------

SenderOff == /\ calls = Off /\ control = Off /\ data = Off /\ driver = Off /\ outbound = Off
             /\ gso = Off /\ wire = Off /\ tickets = Off /\ remembered = Off /\ side = Off
StreamOff == config = Off /\ acceptor = Off /\ permits = Off /\ conn = Off
ExitOff == /\ proto = Off /\ auth = Off /\ kernel = Off /\ dial = Off /\ state = Off /\ result = Off
           /\ written = Off /\ socket = Off /\ reader = Off /\ returns = Off /\ polled = Off
DatagramOff == /\ egress = Off /\ client = Off /\ pending = Off /\ submit = Off /\ entry = Off
               /\ inflight = Off /\ network = Off /\ answers = Off /\ received = Off /\ budget = Off
ResolverOff == /\ cfg = Off /\ cache = Off /\ pooled = Off /\ conns = Off
               /\ rr = Off /\ queries = Off /\ now = Off
ChoiceOff == /\ setup = Off /\ clock = Off /\ health = Off /\ samples = Off /\ unhealthy = Off
             /\ wrr = Off /\ sticky = Off /\ leases = Off /\ activity = Off /\ dispatch = Off
             /\ opened = Off /\ history = Off /\ recent = Off /\ strayed = Off

ServicesInit ==
    /\ Init
    /\ \/ /\ part \in {"kernel", "forward"} /\ Pipeline!Init
          /\ SenderOff /\ StreamOff /\ ExitOff /\ DatagramOff /\ ResolverOff
       \/ /\ Pipeline!AtRest
          /\ \/ part = "sender" /\ Sender!Init /\ StreamOff /\ ExitOff /\ DatagramOff /\ ResolverOff
             \/ part = "stream" /\ Streams!Init /\ SenderOff /\ ExitOff /\ DatagramOff /\ ResolverOff
             \/ part = "exit" /\ Exit!Init /\ SenderOff /\ StreamOff /\ DatagramOff /\ ResolverOff
             \/ part = "datagram" /\ Datagrams!Init /\ SenderOff /\ StreamOff /\ ExitOff /\ ResolverOff
             \/ part \in {"observation", "choice"} /\ SenderOff /\ StreamOff /\ ExitOff /\ DatagramOff /\ ResolverOff
             \/ part = "resolver" /\ Names!Init /\ SenderOff /\ StreamOff /\ ExitOff /\ DatagramOff
    /\ IF part = "choice" THEN Choice!Init ELSE ChoiceOff

ServicesNext ==
    \/ /\ Pipeline!Next
       /\ UNCHANGED <<senderVars, streamVars, exitVars, datagramVars, resolverVars, choiceVars, vars>>
    \/ /\ part = "observation" /\ Next
       /\ UNCHANGED <<part, senderVars, streamVars, exitVars, datagramVars, resolverVars, choiceVars, pipelineVars>>
    \/ /\ part = "sender" /\ Sender!Next
       /\ UNCHANGED <<part, streamVars, exitVars, datagramVars, resolverVars, choiceVars, pipelineVars, vars>>
    \/ /\ part = "stream" /\ Streams!Next
       /\ UNCHANGED <<part, senderVars, exitVars, datagramVars, resolverVars, choiceVars, pipelineVars, vars>>
    \/ /\ part = "exit" /\ Exit!Next
       /\ UNCHANGED <<part, senderVars, streamVars, datagramVars, resolverVars, choiceVars, pipelineVars, vars>>
    \/ /\ part = "datagram" /\ Datagrams!Next
       /\ UNCHANGED <<part, senderVars, streamVars, exitVars, resolverVars, choiceVars, pipelineVars, vars>>
    \/ /\ part = "resolver" /\ Names!Next
       /\ UNCHANGED <<part, senderVars, streamVars, exitVars, datagramVars, choiceVars, pipelineVars, vars>>
    \/ /\ part = "choice" /\ Choice!Next
       /\ UNCHANGED <<part, senderVars, streamVars, exitVars, datagramVars, resolverVars, pipelineVars, vars>>

servicesVars == <<part, vars, senderVars, streamVars, exitVars, datagramVars, resolverVars, choiceVars, pipelineVars>>

(* Tasks are scheduled and their timers fire (see the modules); a part that   *)
(* is not looked at owes nothing.                                             *)
Fairness ==
    /\ \A c \in DOMAIN MCCalls : WF_senderVars(part = "sender" /\ Sender!send_frame(c))
    /\ WF_senderVars(part = "sender" /\ Sender!Drive)
    /\ WF_streamVars(part = "stream" /\ Streams!acquire)
    /\ \A c \in Conns : WF_streamVars(part = "stream" /\ Streams!Timed(c))
    /\ WF_exitVars(part = "exit" /\ Exit!Dial) /\ WF_exitVars(part = "exit" /\ Exit!ReadReturns)
    /\ WF_exitVars(part = "exit" /\ Exit!poll)
    /\ WF_datagramVars(part = "datagram" /\ Datagrams!Adapter)
    /\ WF_datagramVars(part = "datagram" /\ Datagrams!recv_from)
    /\ \A p \in Publisher : WF_vars(part = "observation" /\ PublisherStep(p))
    /\ \A q \in Callers : WF_resolverVars(part = "resolver" /\ Names!Task(q))
    /\ WF_choiceVars(part = "choice" /\ Choice!drainer) /\ WF_choiceVars(part = "choice" /\ Choice!Closes)
    /\ WF_choiceVars(part = "choice" /\ Choice!Asked)
    /\ \A k \in {1, 2} : WF_choiceVars(part = "choice" /\ Choice!Dispatch(k))

ServicesSpec == ServicesInit /\ [][ServicesNext]_servicesVars /\ Fairness

-----------------------------------------------------------------------------

(* A sender told Ok has had its datagrams accepted by the kernel, and what a  *)
(* refused one left behind is accounted for (udp_sender.rs, udp_loop).        *)
OkIsSent == part = "sender" => Sender!OkIsSent

(* A bus session was granted by authentication and by the gate of its         *)
(* listener, success is told once it is connected, and no permit is lost      *)
(* (ingress-socks5, ingress-http-connect, ingress-tcp).                       *)
SessionWasGranted == part = "stream" => Streams!SessionWasGranted

(* Both directions of a stream exit keep their order, and the end comes last  *)
(* (egress-tcp, egress-socks5, egress_adapter.rs).                            *)
BytesInOrder == part = "exit" => Exit!BytesInOrder

(* The client is told the true source of a paired response                    *)
(* (datagram_adapter.rs, datagram_halves.rs).                                 *)
PairedSourceIsTrue == part = "datagram" => Datagrams!PairedSourceIsTrue

(* A shared DNS connection that is offered to the next query is in step with  *)
(* its server, so nobody is answered, and nothing is cached, with records of  *)
(* another name (resolver m1.rs, m2.rs, cache.rs).                            *)
ResolverInStep == part = "resolver" => Names!SharedConnIsInSync /\ Names!AnswerIsForName

(* An exit is left out for failures that happened, the round robin is fair    *)
(* to the weights, and a lease is not moved while its source is active        *)
(* (mb-health, health_observer.rs, mb-loadbalance, source_activity.rs).       *)
ChoiceHasCause == part = "choice" => Choice!ChoiceHasCause

(* The pipeline: see MCPipeline.                                              *)
CompiledImplements == Pipeline!CompiledImplements
VerifiedRunsClean == Pipeline!VerifiedRunsClean
PreflightPredictsRun == Pipeline!PreflightPredictsRun
ForwardDecisionHonored == Pipeline!ForwardDecisionHonored

SenderWaits(c) == part = "sender" /\ Sender!Waits(c)
Dials(c) == part = "stream" /\ Streams!Dials(c)
EndUnseen == part = "exit" /\ Exit!EndUnseen
CloseUnseen == part = "datagram" /\ Datagrams!CloseUnseen
Resolves(q) == part = "resolver" /\ Names!Resolves(q)
LeftOut == part = "choice" /\ Choice!Ungrouped /\ Choice!HeldBack
Publishes(p) == part = "observation" /\ ppc[p] # "idle"

(* Nothing waits for ever: a call of the sender is answered although the      *)
(* socket is stuck; a SOCKS5 client leaves handshake and dialing; the kernel  *)
(* is told of the end of an upstream unless it closed the session; a closed   *)
(* datagram session ends its receive half; a name is resolved or refused;     *)
(* publish_reliable returns, with every subscriber wedged as well; an exit is *)
(* not left out for ever once its probe delay has passed, as long as clients  *)
(* ask for streams of no group.                                               *)
WaitsEnd ==
    /\ \A c \in DOMAIN MCCalls : []<>~SenderWaits(c)
    /\ \A c \in Conns : []<>~Dials(c)
    /\ []<>~EndUnseen /\ []<>~CloseUnseen /\ []<>~LeftOut
    /\ \A q \in Callers : []<>~Resolves(q)
    /\ \A p \in Publisher : []<>~Publishes(p)

=============================================================================
