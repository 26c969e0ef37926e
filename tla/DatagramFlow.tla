---------------------------- MODULE DatagramFlow ----------------------------
(* One datagram session end to end: the client's send and receive halves, the  *)
(* DatagramEgressAdapter that opens the egress session on the first frame, and *)
(* the UDP, fixed-target (service) or SOCKS5 UDP egress.  A response carries   *)
(* no sequence number on the wire: the adapter pairs it with the oldest        *)
(* pending datagram to its source, the client turns the number back into the   *)
(* target it remembers.                                                        *)
EXTENDS Integers, Sequences, SequencesExt, FiniteSets

CONSTANTS Targets,      \* endpoints the client sends to; the first is the request target
          MaxSends, MaxReplies,
          Egresses      \* subset of {"udp", "fixed", "socks5"}

VARIABLES egress,       \* the egress, and whether the targets are host names
          client,       \* [mode, seq, closed, ended]
          pending,      \* pending_sources: seq -> target
          submit,       \* frames on their way to the adapter
          entry,        \* the adapter's DatagramState: [exists, polling, by_source]
          inflight,     \* the frame the adapter is handling, in steps
          network,      \* sources that owe or send responses
          returns,      \* ReturnEvents for the client
          received,     \* [label, source, paired] the client was handed
          budget        \* sends and responses left

vars == <<egress, client, pending, submit, entry, inflight, network, returns, received, budget>>

First == CHOOSE t \in Targets : TRUE
NoFrame == [kind |-> "none", seq |-> 0, target |-> First]
NoEntry == [exists |-> FALSE, polling |-> FALSE, by_source |-> <<>>]

Init == /\ egress \in [kind : Egresses, hosts : BOOLEAN]
        /\ client = [mode |-> "undecided", seq |-> 0, closed |-> FALSE, ended |-> FALSE]
        /\ pending = <<>> /\ submit = <<>> /\ entry = NoEntry /\ inflight = NoFrame
        /\ network = <<>> /\ returns = <<>> /\ received = <<>>
        /\ budget = [sends |-> MaxSends, replies |-> MaxReplies]

(* The endpoint a response to target comes from, as the egress reports it: a  *)
(* host name has become an address, a service answers from its own endpoint.  *)
Source(target) ==
    CASE egress.kind = "fixed" -> <<"service">>
      [] egress.hosts -> <<"resolved", target>>
      [] OTHER -> <<"literal", target>>

Literal(target) == <<"literal", target>>

(* The first send, when it goes to the request target, probes for a direct    *)
(* forwarder.  A Failed probe fails that call; the next one, as after every   *)
(* outcome but Handled, uses the router.                                      *)
probe(t) ==
    /\ client.mode = "undecided" /\ ~client.closed
    /\ IF t # First THEN client' = [client EXCEPT !.mode = "router"]
       ELSE \E mode \in {"router", "direct"} : client' = [client EXCEPT !.mode = mode]
    /\ UNCHANGED <<egress, pending, submit, entry, inflight, network, returns, received, budget>>

(* datagram_send; pending is the map as a sequence of its entries. *)
datagram_send(t) ==
    /\ client.mode = "router" /\ ~client.closed /\ budget.sends > 0
    /\ budget' = [budget EXCEPT !.sends = @ - 1]
    /\ client' = [client EXCEPT !.seq = @ + 1]
    /\ pending' = Append(pending, [seq |-> client.seq, target |-> t])
    /\ submit' = Append(submit, [kind |-> "Datagram", seq |-> client.seq, target |-> t])
    /\ UNCHANGED <<egress, entry, inflight, network, returns, received>>

(* Direct mode: the egress halves are used without the adapter; only the      *)
(* fixed target is accepted.                                                  *)
direct_send(t) ==
    /\ client.mode = "direct" /\ ~client.closed /\ t = First /\ budget.sends > 0
    /\ budget' = [budget EXCEPT !.sends = @ - 1]
    /\ network' = Append(network, Source(t))
    /\ UNCHANGED <<egress, client, pending, submit, entry, inflight, returns, received>>

close ==
    /\ ~client.closed
    /\ client' = [client EXCEPT !.closed = TRUE, !.ended = client.mode = "direct"]
    /\ submit' = IF client.mode = "direct" THEN submit
                 ELSE Append(submit, [kind |-> "Close", seq |-> client.seq, target |-> First])
    /\ UNCHANGED <<egress, pending, entry, inflight, network, returns, received, budget>>

---------------------------------------------------------------------------
(* adapter send(): a session is opened by the first datagram that finds none. *)
adapter_take ==
    /\ inflight.kind = "none" /\ submit # <<>>
    /\ submit' = Tail(submit)
    /\ inflight' = Head(submit)
    /\ UNCHANGED <<egress, client, pending, entry, network, returns, received, budget>>

Answer(event) == returns' = Append(returns, event)
Ended == [kind |-> "Closed", seq |-> 0]

Opened == /\ entry' = [NoEntry EXCEPT !.exists = TRUE, !.polling = TRUE]
          /\ UNCHANGED <<egress, client, pending, submit, inflight, network, returns, received, budget>>

OpenFails == /\ inflight' = NoFrame /\ Answer(Ended)
             /\ UNCHANGED <<egress, client, pending, submit, entry, network, received, budget>>

(* A bound socket, or for SOCKS5 also the control connection, its handshake   *)
(* and a relay address; every failure is a disconnect reason.                 *)
udp_open_datagram == /\ egress.kind # "socks5" /\ inflight.kind = "Datagram" /\ ~entry.exists
                     /\ Opened \/ OpenFails

open_socks5_udp == /\ egress.kind = "socks5" /\ inflight.kind = "Datagram" /\ ~entry.exists
                   /\ \E bnd \in {"missing", "unspecified", "address"} :
                        IF bnd = "missing" THEN OpenFails ELSE Opened \/ OpenFails

push_pending ==
    /\ inflight.kind = "Datagram" /\ entry.exists
    /\ entry' = [entry EXCEPT !.by_source = Append(@, [key |-> Literal(inflight.target), seq |-> inflight.seq])]
    /\ inflight' = [inflight EXCEPT !.kind = "Pushed"]
    /\ UNCHANGED <<egress, client, pending, submit, network, returns, received, budget>>

remove_pending_seq(e, seq) == [e EXCEPT !.by_source = SelectSeq(@, LAMBDA p : p.seq # seq)]

(* The egress sends; an error takes the number back out. *)
EgressSends ==
    /\ inflight.kind = "Pushed"
    /\ inflight' = NoFrame
    /\ \/ /\ network' = Append(network, Source(inflight.target))
          /\ UNCHANGED <<entry, returns>>
       \/ /\ entry' = remove_pending_seq(entry, inflight.seq)
          /\ Answer(Ended) /\ UNCHANGED network
    /\ UNCHANGED <<egress, client, pending, submit, received, budget>>

udp_send == egress.kind # "socks5" /\ EgressSends
relay_send == egress.kind = "socks5" /\ EgressSends

(* Close: the entry is removed and its send half closed, which wakes the      *)
(* receive half of the egress.                                                *)
adapter_close ==
    /\ inflight.kind = "Close"
    /\ inflight' = NoFrame /\ entry' = NoEntry
    /\ Answer(Ended)
    /\ UNCHANGED <<egress, client, pending, submit, network, received, budget>>

---------------------------------------------------------------------------
(* Mutant: the oldest pending number is taken, whatever its source. *)
pop_pending_seqAny(e, source) ==
    IF e.by_source = <<>> THEN [seq |-> 0, paired |-> FALSE, entry |-> e]
    ELSE [seq |-> e.by_source[1].seq, paired |-> TRUE, entry |-> remove_pending_seq(e, e.by_source[1].seq)]

(* pop_pending_seq(..).unwrap_or(0): the oldest number pending for source, or *)
(* 0, which is also the number of the session's first datagram.               *)
pop_pending_seq(e, source) ==
    LET mine == SelectSeq(e.by_source, LAMBDA p : p.key = source)
    IN  IF mine = <<>> THEN [seq |-> 0, paired |-> FALSE, entry |-> e]
        ELSE [seq |-> mine[1].seq, paired |-> TRUE, entry |-> remove_pending_seq(e, mine[1].seq)]

(* A response, and poll() for it.  A source that was asked may answer more    *)
(* than once; answers may be lost or arrive in any order.                     *)
Polled(i) ==
    /\ entry.polling /\ budget.replies > 0
    /\ \E r \in {pop_pending_seq(entry, network[i])} :
         /\ entry' = r.entry
         /\ Answer([kind |-> "Data", seq |-> r.seq, source |-> network[i], paired |-> r.paired])
    /\ budget' = [budget EXCEPT !.replies = @ - 1]
    /\ UNCHANGED <<egress, client, pending, submit, inflight, network, received>>

udp_recv(i) == egress.kind # "socks5" /\ Polled(i)
relay_recv(i) == egress.kind = "socks5" /\ Polled(i)

(* The socket fails: the poll ends with Closed and the entry stays. *)
poll_closed ==
    /\ entry.polling /\ entry' = [entry EXCEPT !.polling = FALSE] /\ Answer(Ended)
    /\ UNCHANGED <<egress, client, pending, submit, inflight, network, received, budget>>

(* recv_from: the remembered target of the number, else the request target.   *)
Label(seq) == IF \E i \in DOMAIN pending : pending[i].seq = seq
              THEN Literal(pending[CHOOSE i \in DOMAIN pending : pending[i].seq = seq].target)
              ELSE Literal(First)

recv_from ==
    /\ returns # <<>> /\ ~client.ended
    /\ returns' = Tail(returns)
    /\ LET event == Head(returns)
       IN  \/ /\ event.kind = "Data"
              /\ received' = Append(received, [label |-> Label(event.seq), source |-> event.source,
                                               paired |-> event.paired])
              /\ pending' = SelectSeq(pending, LAMBDA p : p.seq # event.seq)
              /\ UNCHANGED client
           \/ /\ event.kind = "Closed"
              /\ client' = [client EXCEPT !.ended = TRUE]
              /\ UNCHANGED <<received, pending>>
    /\ UNCHANGED <<egress, submit, entry, inflight, network, budget>>

direct_recv(i) ==
    /\ client.mode = "direct" /\ ~client.closed /\ budget.replies > 0
    /\ budget' = [budget EXCEPT !.replies = @ - 1]
    /\ received' = Append(received, [label |-> network[i], source |-> network[i], paired |-> TRUE])
    /\ UNCHANGED <<egress, client, pending, submit, entry, inflight, network, returns>>

Adapter == \/ adapter_take \/ udp_open_datagram \/ open_socks5_udp \/ push_pending
           \/ udp_send \/ relay_send \/ adapter_close

Next == \/ \E t \in Targets : probe(t) \/ datagram_send(t) \/ direct_send(t)
        \/ close \/ Adapter \/ recv_from \/ poll_closed
        \/ \E i \in DOMAIN network : udp_recv(i) \/ relay_recv(i) \/ direct_recv(i)

(* The session's dispatch task and the client's receive loop keep running. *)
Spec == Init /\ [][Next]_vars /\ WF_vars(Adapter) /\ WF_vars(recv_from)

---------------------------------------------------------------------------
(* As long as every response answered a datagram that was still pending for    *)
(* its source, the client is told the address the response came from.          *)
AllPaired == /\ \A i \in DOMAIN received : received[i].paired
             /\ \A i \in DOMAIN returns : returns[i].kind = "Data" => returns[i].paired

PairedSourceIsTrue == AllPaired => \A i \in DOMAIN received : received[i].label = received[i].source

(* The client closed and its receive half goes on; this must not last. *)
CloseUnseen == client.closed /\ ~client.ended

=============================================================================
