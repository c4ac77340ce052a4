----------------------------- MODULE Handshake -----------------------------
(***************************************************************************)
(* How a client and the host agree on a connection: NetworkClient::Connect *)
(* (client/network_client.cpp) against the accept thread of NetworkServer, *)
(* which runs HandleHandshake itself, one client at a time, and against    *)
(* the keepalive and receive threads, which share the same TCP stream once *)
(* the client is in the list (host/network_server.cpp).                    *)
(*                                                                         *)
(* TCP is a FIFO of whole packets in each direction.  A blocking recv      *)
(* returns the next packet, or 0 when the peer has closed, or times out    *)
(* after 5 s.                                                              *)
(*                                                                         *)
(* NetworkClient waits for the handshake response before it sends its      *)
(* AuthPacket; HandleHandshake waits for the AuthPacket before it responds.*)
(* The clients in Eager send both packets at once.  None of this repository*)
(* does, and with requireAuth only they can connect.                       *)
(***************************************************************************)
EXTENDS Naturals, Sequences, FiniteSets

CONSTANTS Clients,          \* client processes, each connects once
          Passwords,        \* passwords in use
          NoPassword,       \* an empty config.password
          None,             \* no client
          HostPassword,     \* ServerConfig::password
          AuthSettings,     \* values ServerConfig::requireAuth may have
          MayBeOutdated,    \* clients whose version may be below GUPT_VERSION
          Eager,            \* clients that do not wait to send the AuthPacket
          MaxClients,       \* ServerConfig::maxClients
          MaxInFlight,      \* keepalives unread by one client
          Late              \* whether an answer may take longer than 5 s

ASSUME HandshakeAssumption ==
    /\ NoPassword \notin Passwords
    /\ HostPassword \in Passwords \cup {NoPassword}
    /\ AuthSettings \subseteq BOOLEAN /\ Late \in BOOLEAN
    /\ MayBeOutdated \subseteq Clients /\ Eager \subseteq Clients
    /\ None \notin Clients
    /\ MaxClients \in Nat \ {0}
    /\ MaxInFlight \in Nat

VARIABLES requireAuth,      \* ServerConfig::requireAuth, which never changes
          outdated,         \* clients with a version below GUPT_VERSION
          password,         \* ClientConfig::password of each client
          client,           \* where each client is in Connect
          toServer,         \* TCP stream from each client
          toClient,         \* TCP stream to each client
          serverSocket,     \* the host's end of each connection
          backlog,          \* connections the kernel holds for accept
          acceptThread,     \* where the accept thread is ...
          current,          \* ... and the client it is handling
          clients,          \* the clients vector
          active,           \* those with ClientInfo::active
          authenticated     \* those with ClientInfo::authenticated

settings   == <<requireAuth, outdated, password>>
clientVars == <<settings, client>>
tcpVars    == <<toServer, toClient>>
serverVars == <<serverSocket, backlog, acceptThread, current, clients, active, authenticated>>
vars       == <<clientVars, tcpVars, serverVars>>

HandshakePacket == [type |-> "handshake", payload |-> 0]
AuthPacket      == [type |-> "auth",      payload |-> 0]
Keepalive       == [type |-> "keepalive", payload |-> 0]
Response(p)     == [type |-> "handshake", payload |-> p]

ClientClosed(c) == client[c] \in {"failed", "closed"}
-----------------------------------------------------------------------------
Init ==
    /\ requireAuth \in AuthSettings
    /\ outdated \in SUBSET MayBeOutdated
    /\ password \in [Clients -> Passwords \cup {NoPassword}]
    /\ client = [c \in Clients |-> "idle"]
    /\ toServer = [c \in Clients |-> <<>>]
    /\ toClient = [c \in Clients |-> <<>>]
    /\ serverSocket = [c \in Clients |-> "none"]
    /\ backlog = <<>>
    /\ acceptThread = "accept"
    /\ current = None
    /\ clients = {}
    /\ active = {}
    /\ authenticated = {}

(* The client, in Connect *)

\* ConnectTCP: connect completes in the kernel, before the accept thread
\* knows of it.
ConnectTCP(c) ==
    /\ client[c] = "idle"
    /\ client' = [client EXCEPT ![c] = "sending"]
    /\ serverSocket' = [serverSocket EXCEPT ![c] = "backlog"]
    /\ backlog' = Append(backlog, c)
    /\ UNCHANGED <<settings, tcpVars, acceptThread, current, clients, active, authenticated>>

\* connect is refused.
ConnectTCPFails(c) ==
    /\ client[c] = "idle"
    /\ client' = [client EXCEPT ![c] = "failed"]
    /\ UNCHANGED <<settings, tcpVars, serverVars>>

SendHandshake(c) ==
    /\ client[c] = "sending"
    /\ client' = [client EXCEPT ![c] = "handshake"]
    /\ toServer' = [toServer EXCEPT ![c] =
                       IF c \in Eager THEN <<HandshakePacket, AuthPacket>>
                                     ELSE <<HandshakePacket>>]
    /\ UNCHANGED <<settings, toClient, serverVars>>

\* recv of the handshake response.  With a password Authenticate follows.
RecvHandshakeResponse(c) ==
    /\ client[c] = "handshake"
    /\ toClient[c] # <<>>
    /\ toClient' = [toClient EXCEPT ![c] = Tail(@)]
    /\ \/ /\ Head(toClient[c]) # Response(1)
          /\ client' = [client EXCEPT ![c] = "failed"]
          /\ UNCHANGED toServer
       \/ /\ Head(toClient[c]) = Response(1)
          /\ password[c] = NoPassword \/ c \in Eager
          /\ client' = [client EXCEPT ![c] = "connected"]
          /\ UNCHANGED toServer
       \/ /\ Head(toClient[c]) = Response(1)
          /\ password[c] # NoPassword /\ c \notin Eager
          /\ client' = [client EXCEPT ![c] = "auth"]
          /\ toServer' = [toServer EXCEPT ![c] = Append(@, AuthPacket)]
    /\ UNCHANGED <<settings, serverVars>>

\* recv of the authentication response: Authenticate looks at the payload of
\* whatever packet comes next.
RecvAuthResponse(c) ==
    /\ client[c] = "auth"
    /\ toClient[c] # <<>>
    /\ toClient' = [toClient EXCEPT ![c] = Tail(@)]
    /\ client' = [client EXCEPT ![c] =
                     IF Head(toClient[c]).payload = 1 THEN "connected" ELSE "failed"]
    /\ UNCHANGED <<settings, toServer, serverVars>>

\* The accept thread will do something for c without waiting for it.
ServerWillAnswer(c) ==
    \/ current = c /\ (acceptThread = "register" \/ toServer[c] # <<>>)
    \/ current = None /\ serverSocket[c] = "backlog"

\* recv times out, or returns 0 because the host closed the connection.
RecvFails(c) ==
    /\ client[c] \in {"handshake", "auth"}
    /\ toClient[c] = <<>>
    /\ Late \/ serverSocket[c] = "closed" \/ ~ServerWillAnswer(c)
    /\ client' = [client EXCEPT ![c] = "failed"]
    /\ UNCHANGED <<settings, tcpVars, serverVars>>

\* A connected client reads keepalives.
RecvKeepalive(c) ==
    /\ client[c] = "connected"
    /\ toClient[c] # <<>>
    /\ toClient' = [toClient EXCEPT ![c] = Tail(@)]
    /\ UNCHANGED <<clientVars, toServer, serverVars>>

\* The client process disconnects, exits or is killed, at any point.
Leave(c) ==
    /\ client[c] \in {"sending", "handshake", "auth", "connected"}
    /\ client' = [client EXCEPT ![c] = "closed"]
    /\ UNCHANGED <<settings, tcpVars, serverVars>>
-----------------------------------------------------------------------------
(* The accept thread *)

Compatible(c) == c \notin outdated

\* Mutant of MayAuthenticate: memcmp used as if it returned a truth value.
MayAuthenticateInverted(c) == password[c] # HostPassword

\* HandleAuth compares the hashes of the passwords.
MayAuthenticate(c) == password[c] = HostPassword

Full == Cardinality(clients) >= MaxClients

Accept ==
    /\ acceptThread = "accept"
    /\ backlog # <<>>
    /\ LET c == Head(backlog)
       IN  IF Full
           THEN /\ serverSocket' = [serverSocket EXCEPT ![c] = "closed"]
                /\ UNCHANGED <<acceptThread, current>>
           ELSE /\ serverSocket' = [serverSocket EXCEPT ![c] = "open"]
                /\ acceptThread' = "handshake"
                /\ current' = c
    /\ backlog' = Tail(backlog)
    /\ UNCHANGED <<clientVars, tcpVars, clients, active, authenticated>>

\* SendHandshakeResponse, and what HandleHandshake's caller does then.
Refuse(answer) ==
    /\ toClient' = [toClient EXCEPT ![current] = @ \o answer]
    /\ serverSocket' = [serverSocket EXCEPT ![current] = "closed"]
    /\ acceptThread' = "accept"
    /\ current' = None
    /\ UNCHANGED authenticated

\* send fails only on a connection the client has closed.
Welcome ==
    \/ /\ toClient' = [toClient EXCEPT ![current] = Append(@, Response(1))]
       /\ acceptThread' = "register"
       /\ authenticated' = authenticated \cup {current}
       /\ UNCHANGED <<serverSocket, current>>
    \/ ClientClosed(current) /\ Refuse(<<>>)

\* Mutant of HandleHandshake: the response goes out before the AuthPacket
\* is awaited.
HandleHandshakeAtOnce ==
    /\ acceptThread = "handshake"
    /\ toServer[current] # <<>>
    /\ toServer' = [toServer EXCEPT ![current] = Tail(@)]
    /\ Compatible(current) /\ Welcome
    /\ UNCHANGED <<clientVars, backlog, clients, active>>

\* recv of the HandshakePacket.
HandleHandshake ==
    /\ acceptThread = "handshake"
    /\ toServer[current] # <<>>
    /\ toServer' = [toServer EXCEPT ![current] = Tail(@)]
    /\ \/ ~Compatible(current) /\ Refuse(<<Response(0)>>)
       \/ Compatible(current) /\ ~requireAuth /\ Welcome
       \/ /\ Compatible(current) /\ requireAuth
          /\ acceptThread' = "auth"
          /\ UNCHANGED <<toClient, serverSocket, current, authenticated>>
    /\ UNCHANGED <<clientVars, backlog, clients, active>>

\* recv of the AuthPacket, which HandleHandshake awaits before it has
\* answered the handshake.
HandleAuth ==
    /\ acceptThread = "auth"
    /\ toServer[current] # <<>>
    /\ toServer' = [toServer EXCEPT ![current] = Tail(@)]
    /\ IF Head(toServer[current]) = AuthPacket /\ MayAuthenticate(current)
       THEN Welcome ELSE Refuse(<<Response(0)>>)
    /\ UNCHANGED <<clientVars, backlog, clients, active>>

\* Mutant of HandshakeRecvFails: a failed recv is tried again, as in
\* ReceiveThread.
HandshakeRecvRetries ==
    /\ acceptThread \in {"handshake", "auth"}
    /\ toServer[current] = <<>>
    /\ UNCHANGED vars

\* recv times out or finds the connection closed.
HandshakeRecvFails ==
    /\ acceptThread \in {"handshake", "auth"}
    /\ toServer[current] = <<>>
    /\ Late \/ client[current] # "sending"
    /\ Refuse(IF acceptThread = "auth" THEN <<Response(0)>> ELSE <<>>)
    /\ UNCHANGED <<clientVars, toServer, backlog, clients, active>>

\* Mutant of Register: the last client's pointer is kept.
RegisterKeepsCurrent ==
    /\ acceptThread = "register"
    /\ clients' = clients \cup {current}
    /\ active' = active \cup {current}
    /\ acceptThread' = "accept"
    /\ UNCHANGED <<clientVars, tcpVars, serverSocket, backlog, current, authenticated>>

\* The receive thread starts and the client joins the vector.
Register ==
    /\ acceptThread = "register"
    /\ clients' = clients \cup {current}
    /\ active' = active \cup {current}
    /\ acceptThread' = "accept"
    /\ current' = None
    /\ UNCHANGED <<clientVars, tcpVars, serverSocket, backlog, authenticated>>
-----------------------------------------------------------------------------
(* The other threads of the host *)

\* ReceiveThread: an AuthPacket at this point is an unknown control packet.
ServerReceive(c) ==
    /\ c \in active
    /\ toServer[c] # <<>>
    /\ toServer' = [toServer EXCEPT ![c] = Tail(@)]
    /\ UNCHANGED <<clientVars, toClient, serverVars>>

\* Mutant of ServerReceiveClosed: a timeout counts as a disconnection.
ServerReceiveNothing(c) ==
    /\ c \in active
    /\ toServer[c] = <<>>
    /\ active' = active \ {c}
    /\ UNCHANGED <<clientVars, tcpVars, serverSocket, backlog, acceptThread, current,
                   clients, authenticated>>

\* recv returns 0.  The thread then looks at the last socket error, which a
\* return of 0 does not set: it may take it for a timeout and go on.
ServerReceiveClosed(c) ==
    /\ c \in active
    /\ toServer[c] = <<>> /\ ClientClosed(c)
    /\ active' = active \ {c}
    /\ UNCHANGED <<clientVars, tcpVars, serverSocket, backlog, acceptThread, current,
                   clients, authenticated>>

\* The clients the keepalive thread may find silent for connectionTimeoutMs,
\* which is twice the timeout of a recv.
MaybeSilent == {c \in active : Late \/ ClientClosed(c)}

\* Mutant of Reaped: inactive clients stay in the vector.
ReapedNever(gone) == gone

\* The clients remove_if takes out of the vector.
Reaped(gone) == gone \cup (clients \ active)

\* One round of the keepalive thread.  It disconnects the silent clients,
\* pings the others, and takes the inactive ones out of the vector; it
\* closes the sockets of the former only.
KeepaliveRound(gone) ==
    /\ toClient' = [c \in Clients |->
          IF c \in active \ gone /\ Len(toClient[c]) < MaxInFlight
          THEN Append(toClient[c], Keepalive) ELSE toClient[c]]
    /\ clients' = clients \ Reaped(gone)
    /\ active' = active \ gone
    /\ serverSocket' = [c \in Clients |->
          IF c \in gone THEN "closed" ELSE serverSocket[c]]
    /\ UNCHANGED <<clientVars, toServer, backlog, acceptThread, current, authenticated>>

KeepaliveThread == \E gone \in SUBSET MaybeSilent : KeepaliveRound(gone)

Next ==
    \/ \E c \in Clients :
          \/ ConnectTCP(c) \/ ConnectTCPFails(c) \/ SendHandshake(c)
          \/ RecvHandshakeResponse(c) \/ RecvAuthResponse(c) \/ RecvFails(c)
          \/ RecvKeepalive(c) \/ Leave(c)
          \/ ServerReceive(c) \/ ServerReceiveClosed(c)
    \/ Accept \/ HandleHandshake \/ HandleAuth \/ HandshakeRecvFails \/ Register
    \/ KeepaliveThread

\* Every blocking call returns, and the heartbeat of a client that is gone
\* grows old.  Nobody has to connect or to leave, and ServerReceiveClosed
\* need not notice.
Fairness ==
    /\ \A c \in Clients :
          /\ WF_vars(SendHandshake(c))
          /\ WF_vars(RecvHandshakeResponse(c) \/ RecvAuthResponse(c) \/ RecvFails(c))
          /\ WF_vars(ServerReceive(c))
          /\ WF_vars(ClientClosed(c) /\ toServer[c] = <<>> /\
                     \E gone \in SUBSET MaybeSilent : c \in gone /\ KeepaliveRound(gone))
    /\ WF_vars(Accept)
    /\ WF_vars(HandleHandshake \/ HandleAuth \/ HandshakeRecvFails)
    /\ WF_vars(Register)
    /\ WF_vars(KeepaliveThread)

Spec == Init /\ [][Next]_vars
FairSpec == Spec /\ Fairness
-----------------------------------------------------------------------------
Packets == {HandshakePacket, AuthPacket, Keepalive} \cup {Response(p) : p \in {0, 1}}

\* The types of the variables, and which states go together.
TypeOK ==
    /\ requireAuth \in AuthSettings /\ outdated \subseteq MayBeOutdated
    /\ password \in [Clients -> Passwords \cup {NoPassword}]
    /\ client \in [Clients -> {"idle", "sending", "handshake", "auth",
                               "connected", "failed", "closed"}]
    /\ toServer \in [Clients -> Seq({HandshakePacket, AuthPacket})]
    /\ toClient \in [Clients -> Seq(Packets)]
    /\ serverSocket \in [Clients -> {"none", "backlog", "open", "closed"}]
    /\ backlog \in Seq(Clients)
    /\ acceptThread \in {"accept", "handshake", "auth", "register"}
    /\ current \in Clients \cup {None}
    /\ current = None <=> acceptThread = "accept"
    /\ active \subseteq clients /\ clients \subseteq authenticated
    /\ authenticated \subseteq Clients

\* A client the host streams to has a compatible version and, if the host
\* asks for a password, the right one (HandleHandshake, HandleAuth).
OnlyAuthorised ==
    \A c \in authenticated :
        c \notin outdated /\ (requireAuth => password[c] = HostPassword)

\* Whatever the packets and timeouts of Connect, HandleHandshake and the
\* keepalive thread do to each other, a client that Connect calls connected is
\* one the host serves or is about to serve, unless the host has closed the
\* connection, which the client will see.
ConnectedIsServed ==
    \A c \in Clients : client[c] = "connected" =>
        \/ c \in clients
        \/ c = current /\ acceptThread = "register"
        \/ serverSocket[c] = "closed"

\* With requireAuth no client that waits for the handshake response before
\* it authenticates, as NetworkClient does, is ever accepted: each side waits
\* for the other until a recv times out.
AuthShutsOut == requireAuth => authenticated \subseteq Eager

ConnectReturns ==
    \A c \in Clients : client[c] \in {"sending", "handshake", "auth"}
                          ~> client[c] \in {"connected", "failed", "closed"}

AcceptReturns == \A c \in Clients : current = c ~> current # c

\* Whatever the other side does or fails to do, Connect returns, and the
\* accept thread comes back from the client it handles to accept.
BothReturn == ConnectReturns /\ AcceptReturns

\* A client that has gone gives its place in the vector back.
PlacesFreed == \A c \in Clients : (c \in clients /\ ClientClosed(c)) ~> c \notin clients

\* A client with the right version, and the right password if it has one,
\* connects unless it leaves ("AuthPacket (optional)", PHASE4_COMPLETE.md).
ValidClientConnects ==
    \A c \in Clients :
        (client[c] = "handshake" /\ c \notin outdated /\ password[c] = HostPassword)
            ~> client[c] \in {"connected", "closed"}
=============================================================================
