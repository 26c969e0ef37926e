---------------------------- MODULE EgressStream ----------------------------
(* One stream session below the kernel: the StreamEgressAdapter that maps      *)
(* frames onto a session object, the TCP and the SOCKS5 egress behind it, the   *)
(* task that reads the upstream socket into a bounded queue, and the kernel's   *)
(* return task that polls it.  A payload is its number; the upstream is free.   *)
EXTENDS Integers, Sequences, FiniteSets

CONSTANTS Protos,       \* subset of {"tcp", "socks5"}
          MaxData,      \* Data frames the kernel submits
          MaxReturns,   \* payloads the upstream sends
          QueueBound    \* capacity of the returns channel (256 for TCP, 64 for SOCKS5)

VARIABLES proto, auth,  \* the egress and whether credentials are configured
          kernel,       \* [sent, life, fin]: Data frames so far, payloads on the wire at shutdown
          dial,         \* progress of connect(), and the method the upstream chose
          state,        \* the adapter's session entry: "absent" or its send half
          result,       \* the ExitResult of the last frame
          written,      \* payloads on the wire to the upstream
          socket,       \* what the upstream sent and how it ended
          reader,       \* the read_returns task
          returns,      \* the returns channel
          polled        \* ReturnEvents the kernel has taken

vars == <<proto, auth, kernel, dial, state, result, written, socket, reader, returns, polled>>

Eof == 0          \* end marks in the returns channel; payloads are 1, 2, ...
Reset == -1
NoDial == [phase |-> "none", offered |-> {}, chosen |-> "none"]

Init == /\ proto \in Protos /\ auth \in BOOLEAN
        /\ kernel = [sent |-> 0, life |-> "new", fin |-> -1]
        /\ dial = NoDial /\ state = "absent" /\ result = "none" /\ written = <<>>
        /\ socket = [unread |-> 0, total |-> 0, ended |-> FALSE, how |-> Eof]
        /\ reader = "none" /\ returns = <<>> /\ polled = <<>>

(* disconnect_from_reply and disconnect_reason: what a failed dial reports. *)
disconnect_from_reply(reply) ==
    IF reply \in {"NetworkUnreachable", "HostUnreachable", "ConnectionRefused", "TtlExpired"}
    THEN reply ELSE "Other"

disconnect_reason(kind) ==
    CASE kind = "BrokenPipe" -> "ConnectionReset"
      [] kind = "UnexpectedEof" -> "UpstreamEof"
      [] kind \in {"ConnectionRefused", "TimedOut", "NotConnected", "ConnectionReset"} -> kind
      [] OTHER -> "Other"

IoErrors == {"ConnectionRefused", "BrokenPipe", "HostDown"}
DialErrors == {disconnect_reason(k) : k \in IoErrors} \cup {"TimedOut"}   \* timed_io

Failed(reason) == /\ result' = reason
                  /\ dial' = NoDial
                  /\ kernel' = [kernel EXCEPT !.life = "failed"]
                  /\ UNCHANGED <<proto, auth, state, written, socket, reader, returns, polled>>

Dialing(d) ==
    dial' = d /\ UNCHANGED <<proto, auth, kernel, state, result, written, socket, reader, returns, polled>>

(* send(Open): no entry for the session yet, so open_for_frame dials. *)
open_for_frame ==
    /\ kernel.life = "new" /\ dial.phase = "none"
    /\ kernel' = [kernel EXCEPT !.life = "opening"]
    /\ dial' = [NoDial EXCEPT !.phase = "connect"]
    /\ UNCHANGED <<proto, auth, state, result, written, socket, reader, returns, polled>>

(* split(): the halves exist, the reader is spawned, the entry is stored. *)
Established ==
    /\ dial' = [dial EXCEPT !.phase = "done"]
    /\ kernel' = [kernel EXCEPT !.life = "open"]
    /\ state' = "writer" /\ reader' = "reading" /\ result' = "Connected"
    /\ UNCHANGED <<proto, auth, written, socket, returns, polled>>

tcp_connect == /\ dial.phase = "connect" /\ proto = "tcp"
               /\ Established \/ \E reason \in DialErrors : Failed(reason)

(* SOCKS5: TCP connect, then the greeting, under one timer per step. *)
socks5_connect ==
    /\ dial.phase = "connect" /\ proto = "socks5"
    /\ \/ Dialing([dial EXCEPT !.phase = "method",
                               !.offered = {"NoAuth"} \cup IF auth THEN {"UserPass"} ELSE {}])
       \/ \E reason \in DialErrors : Failed(reason)

negotiate_auth ==
    /\ dial.phase = "method"
    /\ \/ \E chosen \in {"NoAuth", "UserPass", "rejected", "unknown"} :
            CASE chosen = "NoAuth" -> Dialing([dial EXCEPT !.chosen = chosen, !.phase = "reply"])
              [] chosen = "UserPass" /\ auth -> Dialing([dial EXCEPT !.chosen = chosen, !.phase = "status"])
              [] OTHER -> Failed("Other")
       \/ \E reason \in DialErrors : Failed(reason)

user_pass_subnegotiate ==
    /\ dial.phase = "status"
    /\ \/ Dialing([dial EXCEPT !.phase = "reply"])
       \/ \E reason \in DialErrors \cup {"Other"} : Failed(reason)

open_socks5 ==
    /\ dial.phase = "reply"
    /\ \/ Established
       \/ \E reply \in {"GeneralFailure", "HostUnreachable", "ConnectionRefused"} :
            Failed(disconnect_from_reply(reply))
       \/ \E reason \in DialErrors : Failed(reason)

---------------------------------------------------------------------------
(* send(Data): write_all under a timer.  A write cut short by the timer or an *)
(* error leaves part of the payload on the wire and the writer in place.      *)
send_data ==
    /\ kernel.life = "open" /\ kernel.sent < MaxData
    /\ LET n == kernel.sent + 1
       IN  \/ /\ state = "writer"
              /\ written' = Append(written, [payload |-> n, whole |-> TRUE])
              /\ result' = "Idle"
              /\ kernel' = [kernel EXCEPT !.sent = n]
           \/ /\ state = "writer"
              /\ \E part \in BOOLEAN : written' =
                    IF part THEN Append(written, [payload |-> n, whole |-> FALSE]) ELSE written
              /\ \E reason \in {"TimedOut", "ConnectionReset"} : result' = reason
              /\ kernel' = [kernel EXCEPT !.sent = n, !.life = "failed"]
           \/ /\ state = "shut"
              /\ result' = "NotConnected" /\ UNCHANGED written
              /\ kernel' = [kernel EXCEPT !.sent = n, !.life = "failed"]
    /\ UNCHANGED <<proto, auth, dial, state, socket, reader, returns, polled>>

send_shutdown_write ==
    /\ kernel.life = "open"
    /\ state' = "shut" /\ result' = "Idle"
    /\ kernel' = [kernel EXCEPT !.fin = Len(written)]
    /\ UNCHANGED <<proto, auth, dial, written, socket, reader, returns, polled>>

(* send(Close), or the kernel's close(): the entry goes and the writer with   *)
(* it.  A poll that is waiting keeps its clone of the state.                  *)
send_close ==
    /\ kernel.life \in {"open", "failed"}
    /\ kernel' = [kernel EXCEPT !.life = "closed"]
    /\ state' = "absent" /\ result' = "Closed"
    /\ UNCHANGED <<proto, auth, dial, written, socket, reader, returns, polled>>

---------------------------------------------------------------------------
(* The upstream's side of the connection. *)
upstream_sends == /\ dial.phase = "done" /\ ~socket.ended /\ socket.total < MaxReturns
                  /\ socket' = [socket EXCEPT !.unread = @ + 1, !.total = @ + 1]
                  /\ UNCHANGED <<proto, auth, kernel, dial, state, result, written, reader, returns, polled>>

upstream_ends == /\ dial.phase = "done" /\ ~socket.ended
                 /\ \E how \in {Eof, Reset} : socket' = [socket EXCEPT !.ended = TRUE, !.how = how]
                 /\ UNCHANGED <<proto, auth, kernel, dial, state, result, written, reader, returns, polled>>

(* Mutant: the end of the stream is reported as soon as it is seen. *)
ReadReturnsEager ==
    /\ reader = "reading" /\ Len(returns) < QueueBound
    /\ \/ /\ socket.unread > 0 /\ ~socket.ended
          /\ returns' = Append(returns, socket.total - socket.unread + 1)
          /\ socket' = [socket EXCEPT !.unread = @ - 1] /\ UNCHANGED reader
       \/ /\ socket.ended
          /\ returns' = Append(returns, socket.how)
          /\ reader' = "done" /\ UNCHANGED socket
    /\ UNCHANGED <<proto, auth, kernel, dial, state, result, written, polled>>

(* One read of the socket; the channel's bound is back-pressure.  A reset may *)
(* discard what the socket had buffered.                                      *)
ReadReturns ==
    /\ reader = "reading" /\ Len(returns) < QueueBound
    /\ \/ /\ socket.unread > 0
          /\ returns' = Append(returns, socket.total - socket.unread + 1)
          /\ socket' = [socket EXCEPT !.unread = @ - 1] /\ UNCHANGED reader
       \/ /\ socket.ended /\ (socket.unread = 0 \/ socket.how = Reset)
          /\ returns' = Append(returns, socket.how)
          /\ reader' = "done" /\ UNCHANGED socket
    /\ UNCHANGED <<proto, auth, kernel, dial, state, result, written, polled>>

tcp_read_returns == proto = "tcp" /\ ReadReturns
socks5_read_returns == proto = "socks5" /\ ReadReturns

Over == polled # <<>> /\ polled[Len(polled)] <= 0

(* The kernel's return task: poll until Closed, while the entry exists. *)
poll ==
    /\ state # "absent" /\ ~Over /\ returns # <<>>
    /\ polled' = Append(polled, Head(returns)) /\ returns' = Tail(returns)
    /\ UNCHANGED <<proto, auth, kernel, dial, state, result, written, socket, reader>>

Dial == \/ open_for_frame \/ tcp_connect \/ socks5_connect
        \/ negotiate_auth \/ user_pass_subnegotiate \/ open_socks5

Next == \/ Dial \/ send_data \/ send_shutdown_write \/ send_close
        \/ upstream_sends \/ upstream_ends \/ tcp_read_returns \/ socks5_read_returns \/ poll

(* The reader task and the kernel's return task keep running; nothing else is *)
(* promised.                                                                  *)
Spec == Init /\ [][Next]_vars /\ WF_vars(Dial) /\ WF_vars(ReadReturns) /\ WF_vars(poll)

---------------------------------------------------------------------------
(* Both directions keep their order.  What reaches the upstream is the        *)
(* submitted payloads without a hole: one cut short by the write timer is the *)
(* last, and nothing follows shutdown_write.  The kernel takes the upstream's *)
(* payloads in order, and an orderly end only after the last of them,         *)
(* whatever the bound of the returns channel.                                 *)
BytesInOrder ==
    /\ \A i \in DOMAIN written : written[i].payload = i /\ (written[i].whole \/ i = Len(written))
    /\ kernel.fin # -1 => Len(written) = kernel.fin
    /\ \A i \in DOMAIN polled : polled[i] > 0 => polled[i] = i
    /\ Over /\ polled[Len(polled)] = Eof => Len(polled) = socket.total + 1

(* The upstream has ended and the kernel was not told; this must not last. *)
EndUnseen == socket.ended /\ ~Over /\ kernel.life # "closed"

=============================================================================
