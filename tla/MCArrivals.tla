----------------------------- MODULE MCArrivals -----------------------------
(* What arrives over UDP, one receiver per value of `part`: the packages of   *)
(* an event family and the counters that the replay cache is asked about      *)
(* (FamilyReorder, ReplayWindow, EXTENDed), the packets of a QUIC connection  *)
(* and the datagrams of UDP clients.  The receivers that are not looked at    *)
(* stay as they start.                                                        *)
EXTENDS FamilyReorder, ReplayWindow

CONSTANTS MaxSeq,     \* the highest number that arrives
          MaxCounter  \* the highest counter that the replay cache is asked about

VARIABLES part,
    conn, net, now, faults, calls, log,
    mode, association, table, sess, task, lock, replies

quicVars == <<conn, net, now, faults, calls, log>>
udpVars == <<mode, association, table, sess, task, lock, replies>>

MCPacket == 0 .. MaxSeq
MCCounter == 0 .. MaxCounter

(* The client writes two bytes on one stream; a credit of one byte, a         *)
(* congestion window of two packets, and one datagram lost or repeated.       *)
Quic == INSTANCE QuicConn
    WITH Exact <- {"server"}, StreamId <- {1}, Window <- 1, APP_FRAME_BUDGET <- 1, INITIAL_WINDOW <- 2,
         MIN_WINDOW <- 1, PACKET_THRESHOLD <- 2, TimeThreshold <- 1, IdleTimeout <- 1, max_queued <- 1,
         MaxWrite <- [client |-> 2, server |-> 0], MaxSend <- [client |-> 4, server |-> 2],
         MaxNow <- 2, MaxNet <- 2, MaxFaults <- 1, MaxCalls <- 1, Caller <- {"client"}

Meta(group, label, k) == [group |-> group, label |-> label, k |-> k]

(* Two clients, two targets, three packets, tables of one and of two. *)
Udp == INSTANCE UdpIngress
    WITH control <- association, Peers <- {"p1", "p2"}, Targets <- {"t1", "t2"}, Limits <- {1, 2},
         MaxPackets <- 3, Concurrency <- 2,
         Runs <- [verdict : {[op |-> "Accept", sink |-> "x1"]},
                  meta : {Meta("absent", "absent", -1), Meta("absent", "FanOut", 0)}]

-----------------------------------------------------------------------------
Off == "off"

QuicOff == conn = Off /\ net = Off /\ now = Off /\ faults = Off /\ calls = Off /\ log = Off
UdpOff == /\ mode = Off /\ association = Off /\ table = Off /\ sess = Off
          /\ task = Off /\ lock = Off /\ replies = Off

ArrivalsInit ==
    /\ Init /\ WindowInit
    /\ \/ part \in {"family", "replay"} /\ QuicOff /\ UdpOff
       \/ part = "quic" /\ Quic!Init /\ UdpOff
       \/ part = "udp" /\ Udp!Init /\ QuicOff

ArrivalsNext ==
    \/ part = "family" /\ Next /\ UNCHANGED <<part, quicVars, udpVars, windowVars>>
    \/ part = "quic" /\ Quic!Next /\ UNCHANGED <<part, vars, udpVars, windowVars>>
    \/ part = "udp" /\ Udp!Next /\ UNCHANGED <<part, vars, quicVars, windowVars>>
    \/ part = "replay" /\ WindowNext /\ UNCHANGED <<part, vars, quicVars, udpVars>>

ArrivalsSpec == ArrivalsInit /\ [][ArrivalsNext]_<<part, vars, quicVars, udpVars, windowVars>>

-----------------------------------------------------------------------------
(* A stream is read in the order it was written, without a hole, and its end  *)
(* comes last (mb-quic stream.rs).                                            *)
StreamInOrder == part = "quic" => Quic!StreamInOrder

(* What left the send buffer has arrived, is in flight or will be sent again, *)
(* the congestion controller counts exactly what is in flight, and new bytes  *)
(* stay within a limit that the peer accepts (mb-quic conn.rs, recovery.rs,   *)
(* flow_control.rs).                                                          *)
StreamDataKept == part = "quic" => Quic!StreamDataKept

(* A client that takes the handshake for confirmed has a server that finished *)
(* it, and a server that finished has a client that did (mb-quic conn.rs,     *)
(* pump_tls).                                                                 *)
HandshakeAgrees == part = "quic" => Quic!HandshakeAgrees

(* A running pump is the one of its key's session and answers the client that *)
(* asked, whichever packets raced and whatever was evicted (udp_assoc.rs,     *)
(* ingress-udp).                                                              *)
PumpIsTabled == part = "udp" => Udp!PumpIsTabled
=============================================================================
