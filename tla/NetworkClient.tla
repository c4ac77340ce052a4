--------------------------- MODULE NetworkClient ---------------------------
(***************************************************************************)
(* The network side of the client (client/network_client.cpp): Start and   *)
(* Disconnect, which the main thread calls, and the three threads that     *)
(* share the connected and running flags and the two sockets.  The TCP     *)
(* socket has a receive timeout, the UDP socket has none.                  *)
(*                                                                         *)
(* A thread's position is the call it blocks at or the flag it is about to *)
(* read.  How Connect comes about is in module Handshake, what is in the   *)
(* datagrams in VideoStream: here a datagram only wakes the UDP thread, if *)
(* the port it is sent to, the one of the TCP connection, is by chance the *)
(* one that the UDP socket was given.  A packet is received when the host  *)
(* sends it, buffers are left out.                                         *)
(* Module ClientApplication adds the main thread.                          *)
(***************************************************************************)
EXTENDS Naturals

CONSTANT MaxSilence         \* connectionTimeoutMs, in keepalive intervals

ASSUME ClientAssumption == MaxSilence \in Nat \ {0}

VARIABLES connected,        \* NetworkClient::connected
          running,          \* NetworkClient::running
          call,             \* where Disconnect is, "idle" outside of it
          tcp,              \* where the TCP receive thread is
          udp,              \* where the UDP receive thread is
          keeper,           \* where the keepalive thread is
          joinable,         \* threads started and not yet joined
          tcpSocket,        \* "none", "open" or "closed"
          udpSocket,        \* "none", "open" or "closed"
          samePort,         \* the two sockets have one port number
          host,             \* the host's end: open, closed, or silent for good
          silence           \* keepalive intervals since the last heartbeat

Threads == {"tcp", "udp", "keeper"}

flagVars   == <<connected, running>>
socketVars == <<tcpSocket, udpSocket, samePort>>
clientVars == <<flagVars, call, tcp, udp, keeper, joinable, socketVars, host, silence>>
-----------------------------------------------------------------------------
ClientInit ==
    /\ connected = FALSE
    /\ running = FALSE
    /\ call = "idle"
    /\ tcp = "none" /\ udp = "none" /\ keeper = "none"
    /\ joinable = {}
    /\ tcpSocket = "none" /\ udpSocket = "none"
    /\ samePort \in BOOLEAN
    /\ host = "open"
    /\ silence = 0

\* The host closes the connection, or is never heard of again.
HostGoes ==
    /\ host = "open"
    /\ host' \in {"closed", "silent"}
    /\ UNCHANGED <<flagVars, call, tcp, udp, keeper, joinable, socketVars, silence>>
-----------------------------------------------------------------------------
(* TcpReceiveThread *)

TcpLoop ==
    /\ tcp = "loop"
    /\ tcp' = IF running /\ connected THEN "recv" ELSE "ended"
    /\ UNCHANGED <<flagVars, call, udp, keeper, joinable, socketVars, host, silence>>

\* A keepalive changes nothing here, TcpReceive has noted the time.
HandleControlPacket(type) == connected' = (connected /\ type # "disconnect")

TcpReceive ==
    /\ tcp = "recv"
    /\ host = "open"
    /\ \E type \in {"keepalive", "disconnect"} : HandleControlPacket(type)
    /\ silence' = 0
    /\ tcp' = "loop"
    /\ UNCHANGED <<running, call, udp, keeper, joinable, socketVars, host>>

\* Nothing has come, or a packet in pieces: each is discarded, for it has the
\* wrong size or no valid header, and is no sign of life.
TcpTimeout ==
    /\ tcp = "recv"
    /\ tcp' = "loop"
    /\ UNCHANGED <<flagVars, call, udp, keeper, joinable, socketVars, host, silence>>

\* recv returns 0; the last socket error may still be that of a timeout, and
\* then TcpTimeout is what happens.
TcpClosed ==
    /\ tcp = "recv"
    /\ host = "closed" \/ tcpSocket = "closed"
    /\ connected' = FALSE
    /\ tcp' = "ended"
    /\ UNCHANGED <<running, call, udp, keeper, joinable, socketVars, host, silence>>

TcpReceiveThread == TcpLoop \/ TcpReceive \/ TcpTimeout \/ TcpClosed
-----------------------------------------------------------------------------
(* UdpReceiveThread *)

\* Mutant of UdpLoop: while (connected).
UdpLoopGoesOn ==
    /\ udp = "loop"
    /\ udp' = IF connected THEN "recv" ELSE "ended"
    /\ UNCHANGED <<flagVars, call, tcp, keeper, joinable, socketVars, host, silence>>

UdpLoop ==
    /\ udp = "loop"
    /\ udp' = IF running /\ connected THEN "recv" ELSE "ended"
    /\ UNCHANGED <<flagVars, call, tcp, keeper, joinable, socketVars, host, silence>>

\* recvfrom: CreateUDP sets no timeout, so a datagram must come, and come to
\* the port of this socket; or the socket is closed.
UdpReceive ==
    /\ udp = "recv"
    /\ (host = "open" /\ samePort) \/ udpSocket = "closed"
    /\ udp' = "loop"
    /\ UNCHANGED <<flagVars, call, tcp, keeper, joinable, socketVars, host, silence>>

UdpReceiveThread == UdpLoop \/ UdpReceive
-----------------------------------------------------------------------------
(* KeepaliveThread *)

KeepaliveLoop ==
    /\ keeper = "loop"
    /\ keeper' = IF running /\ connected THEN "sleep" ELSE "ended"
    /\ UNCHANGED <<flagVars, call, tcp, udp, joinable, socketVars, host, silence>>

\* One interval later.  silence saturates just past MaxSilence.
KeepaliveWakes ==
    /\ keeper = "sleep"
    /\ silence' = IF silence > MaxSilence THEN silence ELSE silence + 1
    /\ keeper' = "check"
    /\ UNCHANGED <<flagVars, call, tcp, udp, joinable, socketVars, host>>

\* Mutant of KeepaliveChecks: the thread ends but the flag stays.
KeepaliveChecksQuietly ==
    /\ keeper = "check"
    /\ keeper' = IF silence > MaxSilence THEN "ended" ELSE "loop"
    /\ UNCHANGED <<flagVars, call, tcp, udp, joinable, socketVars, host, silence>>

\* The host has timed out, or gets a keepalive.
KeepaliveChecks ==
    /\ keeper = "check"
    /\ IF silence > MaxSilence
       THEN connected' = FALSE /\ keeper' = "ended"
       ELSE keeper' = "loop" /\ UNCHANGED connected
    /\ UNCHANGED <<running, call, tcp, udp, joinable, socketVars, host, silence>>

KeepaliveThread == KeepaliveLoop \/ KeepaliveWakes \/ KeepaliveChecks
-----------------------------------------------------------------------------
(* Calls of the main thread *)

\* Connect has done what module Handshake says.
ConnectSucceeds ==
    /\ host = "open"
    /\ connected' = TRUE
    /\ tcpSocket' = "open" /\ udpSocket' = "open"
    /\ silence' = 0
    /\ UNCHANGED <<samePort, running, call, tcp, udp, keeper, joinable, host>>

\* The host cannot be reached, it refuses, or there is no UDP socket to be had.
\* A TCP socket that is not connected and a UDP socket that cannot be bound
\* are left open.
ConnectFails ==
    /\ \/ tcpSocket' \in {"none", "open", "closed"} /\ udpSocket' = "none"
       \/ tcpSocket' = "closed" /\ udpSocket' = "open"
    /\ UNCHANGED <<samePort, flagVars, call, tcp, udp, keeper, joinable, host, silence>>

\* running = true and the three threads start.
ClientStart ==
    /\ running' = TRUE
    /\ tcp' = "loop" /\ udp' = "loop" /\ keeper' = "loop"
    /\ joinable' = Threads
    /\ UNCHANGED <<connected, call, socketVars, host, silence>>

\* if (!connected) return; otherwise Stop.
Disconnect ==
    /\ IF connected
       THEN running' = FALSE /\ call' = "join tcp"
       ELSE UNCHANGED <<running, call>>
    /\ UNCHANGED <<connected, tcp, udp, keeper, joinable, socketVars, host, silence>>

\* Mutant of Join: the UDP thread is forgotten.
JoinTwo ==
    /\ \/ call = "join tcp" /\ tcp = "ended" /\ call' = "join keeper" /\ joinable' = joinable \ {"tcp"}
       \/ call = "join keeper" /\ keeper = "ended" /\ call' = "close" /\ joinable' = joinable \ {"keeper"}
    /\ UNCHANGED <<flagVars, tcp, udp, keeper, socketVars, host, silence>>

Join ==
    /\ \/ call = "join tcp" /\ tcp = "ended" /\ call' = "join udp" /\ joinable' = joinable \ {"tcp"}
       \/ call = "join udp" /\ udp = "ended" /\ call' = "join keeper" /\ joinable' = joinable \ {"udp"}
       \/ call = "join keeper" /\ keeper = "ended" /\ call' = "close" /\ joinable' = joinable \ {"keeper"}
    /\ UNCHANGED <<flagVars, tcp, udp, keeper, socketVars, host, silence>>

\* Mutant of CloseSockets: the UDP socket is left open.
CloseSocketsTcpOnly ==
    /\ call = "close"
    /\ connected' = FALSE
    /\ tcpSocket' = "closed"
    /\ call' = "idle"
    /\ UNCHANGED <<running, tcp, udp, keeper, joinable, udpSocket, samePort, host, silence>>

CloseSockets ==
    /\ call = "close"
    /\ connected' = FALSE
    /\ tcpSocket' = "closed" /\ udpSocket' = "closed"
    /\ call' = "idle"
    /\ UNCHANGED <<running, tcp, udp, keeper, joinable, samePort, host, silence>>

InDisconnect == Join \/ CloseSockets

ClientThreads == TcpReceiveThread \/ UdpReceiveThread \/ KeepaliveThread
-----------------------------------------------------------------------------
Ended == {"none", "ended"}

Sockets == {"none", "open", "closed"}

\* The types of the variables; sockets that were connected are closed together.
ClientTypeOK ==
    /\ connected \in BOOLEAN /\ running \in BOOLEAN
    /\ call \in {"idle", "join tcp", "join udp", "join keeper", "close"}
    /\ tcp \in {"none", "loop", "recv", "ended"}
    /\ udp \in {"none", "loop", "recv", "ended"}
    /\ keeper \in {"none", "loop", "sleep", "check", "ended"}
    /\ joinable \subseteq Threads
    /\ tcpSocket \in Sockets /\ udpSocket \in Sockets /\ samePort \in BOOLEAN
    /\ udp # "none" => udpSocket = tcpSocket
    /\ host \in {"open", "closed", "silent"}
    /\ silence \in 0..(MaxSilence + 1)
=============================================================================
