--------------------------- MODULE NetworkServer ---------------------------
(***************************************************************************)
(* The threads of NetworkServer (host/network_server.cpp) and the objects  *)
(* they share: the accept thread creates a ClientInfo, starts a receive    *)
(* thread on a pointer to it and puts it into the clients vector; the      *)
(* keepalive thread disconnects silent clients and takes inactive ones out *)
(* of the vector, which destroys them; the main thread streams, then stops *)
(* the server and shuts it down.                                           *)
(*                                                                         *)
(* A thread's position is the point it blocks at or the shared access it   *)
(* is about to make.  What the handshake decides is in module Handshake;   *)
(* here it succeeds or fails.                                              *)
(***************************************************************************)
EXTENDS Naturals, FiniteSets

CONSTANTS Conns,            \* connections clients make, one ClientInfo each
          None,             \* no connection
          MaxClients,       \* ServerConfig::maxClients
          MaxPackets        \* unread packets per connection

ASSUME ServerAssumption ==
    /\ None \notin Conns
    /\ MaxClients \in Nat \ {0}
    /\ MaxPackets \in Nat

VARIABLES running,          \* NetworkServer::running
          main,             \* where the main thread is
          accepter,         \* where the accept thread is ...
          handling,         \* ... and the connection it is handling
          keeper,           \* where the keepalive thread is
          receiver,         \* where the receive thread of each connection is
          clientsMutex,     \* who holds it
          info,             \* the ClientInfo: held by the accept thread, in
                            \* the clients vector, or freed
          active,           \* ClientInfo::active
          socket,           \* the host's end of the TCP connection
          peer,             \* the client's end
          inbox             \* packets not yet received

netVars    == <<peer, inbox>>
objectVars == <<info, active, socket>>
threadVars == <<running, main, accepter, handling, keeper, receiver>>
vars       == <<threadVars, clientsMutex, objectVars, netVars>>

Listed == {k \in Conns : info[k] = "listed"}
Started == {k \in Conns : receiver[k] # "none"}
-----------------------------------------------------------------------------
Init ==
    /\ running = TRUE
    /\ main = "streaming"
    /\ accepter = "loop"
    /\ handling = None
    /\ keeper = "loop"
    /\ receiver = [k \in Conns |-> "none"]
    /\ clientsMutex = "free"
    /\ info = [k \in Conns |-> "none"]
    /\ active = [k \in Conns |-> FALSE]
    /\ socket = [k \in Conns |-> "none"]
    /\ peer = [k \in Conns |-> "none"]
    /\ inbox = [k \in Conns |-> 0]

(* The clients *)

PeerConnects(k) ==
    /\ peer[k] = "none"
    /\ main # "done"
    /\ peer' = [peer EXCEPT ![k] = "open"]
    /\ socket' = [socket EXCEPT ![k] = "backlog"]
    /\ UNCHANGED <<threadVars, clientsMutex, info, active, inbox>>

PeerSends(k) ==
    /\ peer[k] = "open"
    /\ inbox[k] < MaxPackets
    /\ inbox' = [inbox EXCEPT ![k] = @ + 1]
    /\ UNCHANGED <<threadVars, clientsMutex, objectVars, peer>>

PeerCloses(k) ==
    /\ peer[k] = "open"
    /\ peer' = [peer EXCEPT ![k] = "closed"]
    /\ UNCHANGED <<threadVars, clientsMutex, objectVars, inbox>>
-----------------------------------------------------------------------------
(* AcceptThread *)

\* Mutant of AcceptLoop: while (true).
AcceptLoopForever ==
    /\ accepter = "loop"
    /\ accepter' = "accept"
    /\ UNCHANGED <<running, main, handling, keeper, receiver, clientsMutex, objectVars, netVars>>

AcceptLoop ==
    /\ accepter = "loop"
    /\ accepter' = IF running THEN "accept" ELSE "ended"
    /\ UNCHANGED <<running, main, handling, keeper, receiver, clientsMutex, objectVars, netVars>>

Accept(k) ==
    /\ accepter = "accept"
    /\ socket[k] = "backlog"
    /\ accepter' = "check"
    /\ handling' = k
    /\ UNCHANGED <<running, main, keeper, receiver, clientsMutex, objectVars, netVars>>

\* A timeout of accept, which the code expects of SO_RCVTIMEO on the listening
\* socket: the option is one for recv, and nothing says that it bounds accept.
AcceptTimeout ==
    /\ accepter = "accept"
    /\ accepter' = "loop"
    /\ UNCHANGED <<running, main, handling, keeper, receiver, clientsMutex, objectVars, netVars>>

\* Any other error ends the thread, whether the server is running or not.
AcceptError ==
    /\ accepter = "accept"
    /\ accepter' = "ended"
    /\ UNCHANGED <<running, main, handling, keeper, receiver, clientsMutex, objectVars, netVars>>

\* clientsMutex is taken and released in here.
CheckRoom ==
    /\ accepter = "check"
    /\ clientsMutex = "free"
    /\ IF Cardinality(Listed) >= MaxClients
       THEN /\ socket' = [socket EXCEPT ![handling] = "closed"]
            /\ accepter' = "loop"
            /\ handling' = None
            /\ UNCHANGED <<info, active>>
       ELSE /\ socket' = [socket EXCEPT ![handling] = "open"]
            /\ info' = [info EXCEPT ![handling] = "held"]
            /\ active' = [active EXCEPT ![handling] = TRUE]
            /\ accepter' = "handshake"
            /\ UNCHANGED handling
    /\ UNCHANGED <<running, main, keeper, receiver, clientsMutex, netVars>>

\* Mutant of HandshakeFails: the ClientInfo is not destroyed.
HandshakeFailsLeaks ==
    /\ accepter = "handshake"
    /\ socket' = [socket EXCEPT ![handling] = "closed"]
    /\ accepter' = "loop"
    /\ handling' = None
    /\ UNCHANGED <<running, main, keeper, receiver, clientsMutex, info, active, netVars>>

HandshakeFails ==
    /\ accepter = "handshake"
    /\ socket' = [socket EXCEPT ![handling] = "closed"]
    /\ info' = [info EXCEPT ![handling] = "freed"]
    /\ accepter' = "loop"
    /\ handling' = None
    /\ UNCHANGED <<running, main, keeper, receiver, clientsMutex, active, netVars>>

\* receiveThreads.emplace_back, before the client is in the vector.
HandshakeSucceeds ==
    /\ accepter = "handshake"
    /\ receiver' = [receiver EXCEPT ![handling] = "loop"]
    /\ accepter' = "register"
    /\ UNCHANGED <<running, main, handling, keeper, clientsMutex, objectVars, netVars>>

\* clients.push_back, under clientsMutex.
Register ==
    /\ accepter = "register"
    /\ clientsMutex = "free"
    /\ info' = [info EXCEPT ![handling] = "listed"]
    /\ accepter' = "loop"
    /\ handling' = None
    /\ UNCHANGED <<running, main, keeper, receiver, clientsMutex, active, socket, netVars>>

AcceptThread ==
    \/ AcceptLoop \/ AcceptTimeout \/ AcceptError \/ CheckRoom
    \/ HandshakeFails \/ HandshakeSucceeds \/ Register
    \/ \E k \in Conns : Accept(k)
-----------------------------------------------------------------------------
(* ReceiveThread, which dereferences its pointer at loop, handle and noticed *)

\* What a read of client->active returns; freed memory holds anything.
ReadsActive(k, b) == info[k] = "freed" \/ active[k] = b

\* while (running && client->active)
ReceiveLoop(k) ==
    /\ receiver[k] = "loop"
    /\ \/ /\ ~running \/ ReadsActive(k, FALSE)
          /\ receiver' = [receiver EXCEPT ![k] = "ended"]
       \/ /\ running /\ ReadsActive(k, TRUE)
          /\ receiver' = [receiver EXCEPT ![k] = "recv"]
    /\ UNCHANGED <<running, main, accepter, handling, keeper, clientsMutex, objectVars, netVars>>

\* The blocking recv with MSG_PEEK: a packet is there, or the connection is
\* closed at either end, or nothing comes for 5 s.  At a close the thread
\* looks at the last socket error, which may still be that of a timeout.
ReceivePeek(k) ==
    /\ receiver[k] = "recv"
    /\ \E next \in {"handle", "noticed", "loop"} :
          /\ next = "handle" => socket[k] = "open" /\ inbox[k] > 0
          /\ next = "noticed" => socket[k] = "closed" \/ (peer[k] = "closed" /\ inbox[k] = 0)
          /\ receiver' = [receiver EXCEPT ![k] = next]
    /\ UNCHANGED <<running, main, accepter, handling, keeper, clientsMutex, objectVars, netVars>>

\* The heartbeat is set and the packet received and handled; if the socket
\* has been closed meanwhile the recv fails and the packet is skipped.
ReceiveHandle(k) ==
    /\ receiver[k] = "handle"
    /\ inbox' = IF socket[k] = "open" THEN [inbox EXCEPT ![k] = @ - 1] ELSE inbox
    /\ receiver' = [receiver EXCEPT ![k] = "loop"]
    /\ UNCHANGED <<running, main, accepter, handling, keeper, clientsMutex, objectVars, peer>>

\* Mutant of ReceiveNoticed: the break is left out.
ReceiveNoticedGoesOn(k) ==
    /\ receiver[k] = "noticed"
    /\ active' = [active EXCEPT ![k] = FALSE]
    /\ receiver' = [receiver EXCEPT ![k] = "recv"]
    /\ UNCHANGED <<running, main, accepter, handling, keeper, clientsMutex, info, socket, netVars>>

\* client->active = false; break;
ReceiveNoticed(k) ==
    /\ receiver[k] = "noticed"
    /\ active' = [active EXCEPT ![k] = FALSE]
    /\ receiver' = [receiver EXCEPT ![k] = "ended"]
    /\ UNCHANGED <<running, main, accepter, handling, keeper, clientsMutex, info, socket, netVars>>

ReceiveThread(k) ==
    ReceiveLoop(k) \/ ReceivePeek(k) \/ ReceiveHandle(k) \/ ReceiveNoticed(k)
-----------------------------------------------------------------------------
(* KeepaliveThread *)

KeepaliveLoop ==
    /\ keeper = "loop"
    /\ keeper' = IF running THEN "sleep" ELSE "ended"
    /\ UNCHANGED <<running, main, accepter, handling, receiver, clientsMutex, objectVars, netVars>>

KeepaliveLock ==
    /\ keeper = "sleep"
    /\ clientsMutex = "free"
    /\ clientsMutex' = "keeper"
    /\ keeper' = "round"
    /\ UNCHANGED <<running, main, accepter, handling, receiver, objectVars, netVars>>

\* DisconnectClient of every client whose heartbeat is too old.
DisconnectSilent ==
    /\ keeper = "round"
    /\ \E silent \in SUBSET {k \in Listed : active[k]} :
          /\ active' = [k \in Conns |-> active[k] /\ k \notin silent]
          /\ socket' = [k \in Conns |-> IF k \in silent THEN "closed" ELSE socket[k]]
    /\ keeper' = "erase"
    /\ UNCHANGED <<running, main, accepter, handling, receiver, clientsMutex, info, netVars>>

\* erase(remove_if(...)) over the vector.
EraseInactive ==
    /\ keeper = "erase"
    /\ info' = [k \in Conns |-> IF k \in Listed /\ ~active[k] THEN "freed" ELSE info[k]]
    /\ clientsMutex' = "free"
    /\ keeper' = "loop"
    /\ UNCHANGED <<running, main, accepter, handling, receiver, active, socket, netVars>>

Keepalive == KeepaliveLoop \/ KeepaliveLock \/ DisconnectSilent \/ EraseInactive
-----------------------------------------------------------------------------
(* The main thread *)

\* SendFrame holds clientsMutex while it sends to the active clients.
SendFrame ==
    /\ main = "streaming"
    /\ clientsMutex = "free"
    /\ clientsMutex' = "main"
    /\ main' = "sending"
    /\ UNCHANGED <<running, accepter, handling, keeper, receiver, objectVars, netVars>>

SendFrameReturns ==
    /\ main = "sending"
    /\ clientsMutex' = "free"
    /\ main' = "streaming"
    /\ UNCHANGED <<running, accepter, handling, keeper, receiver, objectVars, netVars>>

\* Mutant of Stop: nobody joins the accept thread.
StopWithoutAccepter ==
    /\ main = "streaming"
    /\ running' = FALSE
    /\ main' = "join keeper"
    /\ UNCHANGED <<accepter, handling, keeper, receiver, clientsMutex, objectVars, netVars>>

\* Shutdown begins with Stop.
Stop ==
    /\ main = "streaming"
    /\ running' = FALSE
    /\ main' = "join accepter"
    /\ UNCHANGED <<accepter, handling, keeper, receiver, clientsMutex, objectVars, netVars>>

Join ==
    /\ \/ main = "join accepter" /\ accepter = "ended" /\ main' = "join keeper"
       \/ main = "join keeper" /\ keeper = "ended" /\ main' = "join receivers"
       \/ /\ main = "join receivers"
          /\ \A k \in Started : receiver[k] = "ended"
          /\ main' = "clear"
    /\ UNCHANGED <<running, accepter, handling, keeper, receiver, clientsMutex, objectVars, netVars>>

\* DisconnectClient of every client, clients.clear(), and the listening
\* socket closed with what is in its backlog.
ClearClients ==
    /\ main = "clear"
    /\ clientsMutex = "free"
    /\ active' = [k \in Conns |-> active[k] /\ info[k] # "listed"]
    /\ socket' = [k \in Conns |->
                     IF info[k] = "listed" \/ socket[k] = "backlog" THEN "closed" ELSE socket[k]]
    /\ info' = [k \in Conns |-> IF info[k] = "listed" THEN "freed" ELSE info[k]]
    /\ main' = "done"
    /\ UNCHANGED <<running, accepter, handling, keeper, receiver, clientsMutex, netVars>>

Next ==
    \/ \E k \in Conns : PeerConnects(k) \/ PeerSends(k) \/ PeerCloses(k)
    \/ \E k \in Conns : ReceiveThread(k)
    \/ AcceptThread \/ Keepalive
    \/ SendFrame \/ SendFrameReturns \/ Stop \/ Join \/ ClearClients

\* Every thread gets on, recv times out, and accept returns while a connection
\* is in the backlog.  No client has to do anything, and accept need neither
\* fail nor ever time out.
Fairness ==
    /\ WF_vars(AcceptLoop \/ CheckRoom \/ Register)
    /\ WF_vars(HandshakeFails \/ HandshakeSucceeds)
    /\ WF_vars(\E k \in Conns : Accept(k))
    /\ WF_vars(Keepalive)
    /\ WF_vars(SendFrameReturns) /\ WF_vars(Join) /\ WF_vars(ClearClients)
    /\ \A k \in Conns : WF_vars(ReceiveThread(k))

Spec == Init /\ [][Next]_vars
FairSpec == Spec /\ Fairness
-----------------------------------------------------------------------------
\* The types of the variables, and who can be where when.
TypeOK ==
    /\ running \in BOOLEAN
    /\ main \in {"streaming", "sending", "join accepter", "join keeper", "join receivers",
                  "clear", "done"}
    /\ running <=> main \in {"streaming", "sending"}
    /\ accepter \in {"loop", "accept", "check", "handshake", "register", "ended"}
    /\ handling \in Conns \cup {None}
    /\ handling # None <=> accepter \in {"check", "handshake", "register"}
    /\ keeper \in {"loop", "sleep", "round", "erase", "ended"}
    /\ receiver \in [Conns -> {"none", "loop", "recv", "handle", "noticed", "ended"}]
    /\ clientsMutex \in {"free", "main", "keeper"}
    /\ clientsMutex = "main" <=> main = "sending"
    /\ clientsMutex = "keeper" <=> keeper \in {"round", "erase"}
    /\ info \in [Conns -> {"none", "held", "listed", "freed"}]
    /\ \A k \in Conns : info[k] = "held" => k = handling
    /\ active \in [Conns -> BOOLEAN]
    /\ socket \in [Conns -> {"none", "backlog", "open", "closed"}]
    /\ peer \in [Conns -> {"none", "open", "closed"}]
    /\ inbox \in [Conns -> 0..MaxPackets]

\* Once Stop has joined them no thread of the server runs, not even a receive
\* thread for a client that was in its handshake when running became false;
\* Shutdown leaves no ClientInfo behind, and no open socket but those of
\* clients that had closed their end: their receive threads saw it, and nobody
\* closes the host's (Stop, Shutdown, KeepaliveThread).
ShutdownIsFinal ==
    /\ main \in {"clear", "done"} =>
          /\ accepter = "ended" /\ keeper = "ended"
          /\ \A k \in Conns : receiver[k] \in {"none", "ended"}
    /\ main = "done" =>
          \A k \in Conns : /\ info[k] \in {"none", "freed"}
                            /\ socket[k] = "open" => peer[k] = "closed"

\* The only ClientInfo that goes before its receive thread is that of a client
\* the keepalive thread disconnected for its silence: a client that closed its
\* connection is erased after its receive thread has left (KeepaliveThread).
OnlySilentFreedEarly ==
    \A k \in Conns :
        info[k] = "freed" /\ receiver[k] \notin {"none", "ended"} => socket[k] = "closed"

AcceptBlocks == accepter = "accept" /\ \A k \in Conns : socket[k] # "backlog"

\* Stop returns, and with it Shutdown, or its join of the accept thread waits
\* for an accept that nobody connects to any more: the listening socket, whose
\* closing would end that, is closed only after the join.  No other thread, no
\* lock and no client can hold Shutdown up (Stop, Shutdown, AcceptThread).
ShutdownReturns ==
    <>(main = "join accepter") => <>(main = "done") \/ <>[]AcceptBlocks
=============================================================================
