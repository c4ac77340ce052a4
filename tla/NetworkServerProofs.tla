------------------------- MODULE NetworkServerProofs -------------------------
(***************************************************************************)
(* What is proved of the server's threads, for any number of connections,  *)
(* clients and packets: the types of their state, that nothing runs after  *)
(* Shutdown, and when a ClientInfo can go before its receive thread.       *)
(***************************************************************************)
EXTENDS NetworkServer, FiniteSetTheorems, TLAPS

\* running is the main thread's, who is still in its loop.
RunningPlaced == running \in BOOLEAN /\ (running <=> main \in {"streaming", "sending"})

\* Where the threads of the server are, without the connections.
ThreadsPlaced ==
    /\ main \in {"streaming", "sending", "join accepter", "join keeper", "join receivers",
                 "clear", "done"}
    /\ accepter \in {"loop", "accept", "check", "handshake", "register", "ended"}
    /\ handling \in Conns \cup {None}
    /\ handling # None <=> accepter \in {"check", "handshake", "register"}
    /\ keeper \in {"loop", "sleep", "round", "erase", "ended"}
    /\ clientsMutex \in {"free", "main", "keeper"}
    /\ clientsMutex = "main" <=> main = "sending"
    /\ clientsMutex = "keeper" <=> keeper \in {"round", "erase"}

\* Stop joins one thread after the other.
JoinedInTurn ==
    /\ main \in {"join keeper", "join receivers", "clear", "done"} => accepter = "ended"
    /\ main \in {"join receivers", "clear", "done"} => keeper = "ended"

ObjectsTyped ==
    /\ receiver \in [Conns -> {"none", "loop", "recv", "handle", "noticed", "ended"}]
    /\ info \in [Conns -> {"none", "held", "listed", "freed"}]
    /\ active \in [Conns -> BOOLEAN]
    /\ socket \in [Conns -> {"none", "backlog", "open", "closed"}]
    /\ peer \in [Conns -> {"none", "open", "closed"}]

InboxTyped == inbox \in [Conns -> 0..MaxPackets]

\* The packet that the receive thread has peeked at is still there.
Peeked(k) == receiver[k] = "handle" /\ socket[k] = "open" => inbox[k] # 0

\* A connection has a receive thread and an active ClientInfo only from its
\* handshake on, and the accept thread handles only connections that have
\* not got so far.
NotYet(k) == info[k] = "none" /\ receiver[k] = "none"

Life(k) ==
    /\ peer[k] = "none" => socket[k] = "none" /\ handling # k /\ NotYet(k)
    /\ socket[k] \in {"none", "backlog"} => NotYet(k)
    /\ info[k] = "held" => k = handling
    /\ handling = k /\ accepter = "check" => socket[k] = "backlog"
    /\ handling = k /\ accepter = "handshake" => receiver[k] = "none" /\ info[k] = "held"
    /\ handling = k /\ accepter = "register" => info[k] = "held"

\* An inactive client's receive thread has ended, or its socket is closed.
Early(k) ==
    /\ receiver[k] \notin {"none", "ended"} /\ socket[k] # "closed" =>
          info[k] \in {"held", "listed"} /\ active[k] = TRUE
    /\ handling = k /\ accepter = "handshake" => active[k] = TRUE

Ends(k) ==
    /\ main \in {"clear", "done"} => receiver[k] \in {"none", "ended"}
    /\ main = "done" => info[k] \in {"none", "freed"}

\* The host's end of a connection is open although its client is gone for the
\* server: then the client has closed its own.
Leaves(k) ==
    /\ socket[k] = "open" => info[k] # "none"
    /\ socket[k] = "open" /\ (active[k] # TRUE \/ receiver[k] = "noticed" \/ info[k] = "freed")
          => peer[k] = "closed"

ServerInv ==
    /\ RunningPlaced /\ ThreadsPlaced /\ JoinedInTurn /\ ObjectsTyped /\ InboxTyped
    /\ \A k \in Conns : Life(k) /\ Early(k) /\ Ends(k) /\ Peeked(k) /\ Leaves(k)
-----------------------------------------------------------------------------
LEMMA ServerStarts == Init => ServerInv
<1> SUFFICES ASSUME Init PROVE ServerInv
  OBVIOUS
<1> USE ServerAssumption DEF ServerAssumption, Init
<1>1. RunningPlaced /\ ThreadsPlaced /\ JoinedInTurn
  BY DEF RunningPlaced, ThreadsPlaced, JoinedInTurn
<1>2. ObjectsTyped /\ InboxTyped
  BY DEF ObjectsTyped, InboxTyped
<1>3. ASSUME NEW k \in Conns PROVE Life(k) /\ Early(k) /\ Ends(k) /\ Peeked(k) /\ Leaves(k)
  BY <1>3 DEF Life, NotYet, Early, Ends, Peeked, Leaves
<1>4. QED BY <1>1, <1>2, <1>3 DEF ServerInv

LEMMA RunningStep == RunningPlaced /\ [Next]_vars => RunningPlaced'
<1> SUFFICES ASSUME RunningPlaced, [Next]_vars PROVE RunningPlaced'
  OBVIOUS
<1> DEFINE Streams == {"streaming", "sending"}
<1>1. CASE UNCHANGED <<running, main>>
  BY <1>1, Zenon DEF RunningPlaced
<1>2. CASE SendFrame \/ SendFrameReturns
  <2>1. UNCHANGED running /\ main \in Streams /\ main' \in Streams
    BY <1>2 DEF SendFrame, SendFrameReturns
  <2>2. QED BY <2>1, Zenon DEF RunningPlaced
<1>3. CASE Stop
  <2>1. running' = FALSE /\ main' \notin Streams
    BY <1>3 DEF Stop
  <2>2. QED BY <2>1, Zenon DEF RunningPlaced
<1>4. CASE Join \/ ClearClients
  <2>1. UNCHANGED running /\ main \notin Streams /\ main' \notin Streams
    BY <1>4 DEF Join, ClearClients
  <2>2. QED BY <2>1, Zenon DEF RunningPlaced
<1>5. QED
  BY <1>1, <1>2, <1>3, <1>4 DEF Next, AcceptThread, AcceptLoop, Accept, AcceptTimeout,
     AcceptError, CheckRoom, HandshakeFails, HandshakeSucceeds, Register, PeerConnects,
     PeerSends, PeerCloses, ReceiveThread, ReceiveLoop, ReceivePeek, ReceiveHandle,
     ReceiveNoticed, Keepalive, KeepaliveLoop, KeepaliveLock, DisconnectSilent, EraseInactive,
     threadVars, vars

LEMMA ThreadsStep == ThreadsPlaced /\ JoinedInTurn /\ [Next]_vars => ThreadsPlaced' /\ JoinedInTurn'
<1> SUFFICES ASSUME ThreadsPlaced, JoinedInTurn, [Next]_vars
             PROVE  ThreadsPlaced' /\ JoinedInTurn'
  OBVIOUS
<1> USE ServerAssumption DEF ServerAssumption, ThreadsPlaced, JoinedInTurn
<1>1. CASE UNCHANGED <<running, main, accepter, handling, keeper, clientsMutex>>
  BY <1>1
<1>2. CASE AcceptLoop \/ AcceptTimeout \/ AcceptError
  BY <1>2 DEF AcceptLoop, AcceptTimeout, AcceptError
<1>3. CASE CheckRoom \/ HandshakeFails \/ HandshakeSucceeds \/ Register
  BY <1>3 DEF CheckRoom, HandshakeFails, HandshakeSucceeds, Register
<1>4. CASE \E k \in Conns : Accept(k)
  BY <1>4 DEF Accept
<1>5. CASE Keepalive
  BY <1>5 DEF Keepalive, KeepaliveLoop, KeepaliveLock, DisconnectSilent, EraseInactive
<1>6. CASE SendFrame \/ SendFrameReturns \/ Stop
  BY <1>6 DEF SendFrame, SendFrameReturns, Stop
<1>7. CASE Join \/ ClearClients
  BY <1>7 DEF Join, ClearClients
<1>8. QED
  BY <1>1, <1>2, <1>3, <1>4, <1>5, <1>6, <1>7 DEF Next, AcceptThread, PeerConnects, PeerSends,
     PeerCloses, ReceiveThread, ReceiveLoop, ReceivePeek, ReceiveHandle, ReceiveNoticed,
     threadVars, vars

\* What the actions do to the connections, apart from their packets.
LEMMA CheckRoomDoes ==
    CheckRoom =>
        /\ accepter = "check" /\ UNCHANGED <<main, receiver, peer>>
        /\ \/ /\ socket' = [socket EXCEPT ![handling] = "closed"]
              /\ accepter' = "loop" /\ handling' = None /\ UNCHANGED <<info, active>>
           \/ /\ socket' = [socket EXCEPT ![handling] = "open"]
              /\ info' = [info EXCEPT ![handling] = "held"]
              /\ active' = [active EXCEPT ![handling] = TRUE]
              /\ accepter' = "handshake" /\ UNCHANGED handling
BY Zenon DEF CheckRoom, netVars

Receiving == {"loop", "recv", "handle", "noticed", "ended"}

LEMMA ReceiverDoes ==
    ASSUME NEW j \in Conns, ReceiveThread(j)
    PROVE  /\ receiver[j] \notin {"none", "ended"}
           /\ UNCHANGED <<info, socket, peer, main, handling, accepter>>
           /\ \E p \in Receiving :
                 /\ receiver' = [receiver EXCEPT ![j] = p]
                 /\ \/ UNCHANGED active
                    \/ p = "ended" /\ active' = [active EXCEPT ![j] = FALSE]
<1>1. CASE ReceiveLoop(j)
  BY <1>1, Zenon DEF Receiving, ReceiveLoop, objectVars, netVars
<1>2. CASE ReceivePeek(j)
  BY <1>2, Zenon DEF Receiving, ReceivePeek, objectVars, netVars
<1>3. CASE ReceiveHandle(j)
  BY <1>3, Zenon DEF Receiving, ReceiveHandle, objectVars
<1>4. CASE ReceiveNoticed(j)
  BY <1>4, Zenon DEF Receiving, ReceiveNoticed, netVars
<1>5. QED BY <1>1, <1>2, <1>3, <1>4 DEF ReceiveThread

LEMMA SilentDoes ==
    ASSUME DisconnectSilent, NEW k \in Conns
    PROVE  /\ UNCHANGED <<receiver, info, peer, main, handling, accepter>>
           /\ \/ socket'[k] = socket[k] /\ (active[k] = TRUE => active'[k] = TRUE)
              \/ info[k] = "listed" /\ socket'[k] = "closed"
<1>1. UNCHANGED <<receiver, info, peer, main, handling, accepter>>
  BY Zenon DEF DisconnectSilent, netVars
<1>2. PICK silent \in SUBSET {c \in Listed : active[c]} :
         /\ active' = [c \in Conns |-> active[c] /\ c \notin silent]
         /\ socket' = [c \in Conns |-> IF c \in silent THEN "closed" ELSE socket[c]]
  BY Zenon DEF DisconnectSilent
<1>3. CASE k \in silent
  <2>1. info[k] = "listed"
    BY <1>3, Zenon DEF Listed
  <2>2. socket'[k] = "closed"
    BY <1>2, <1>3
  <2>3. QED BY <1>1, <2>1, <2>2
<1>4. CASE k \notin silent
  <2>1. socket'[k] = socket[k]
    BY <1>2, <1>4
  <2>2. active'[k] = (active[k] /\ k \notin silent)
    BY <1>2, Zenon
  <2>3. ASSUME active[k] = TRUE PROVE active'[k] = TRUE
    <3>1. (active[k] /\ k \notin silent) = TRUE
      BY <1>4, <2>3, Zenon
    <3>2. QED BY <2>2, <3>1, Zenon
  <2>4. QED BY <1>1, <2>1, <2>3, Zenon
<1>5. QED BY <1>1, <1>3, <1>4

LEMMA ObjectsStep == ObjectsTyped /\ ThreadsPlaced /\ [Next]_vars => ObjectsTyped'
<1> SUFFICES ASSUME ObjectsTyped, ThreadsPlaced, [Next]_vars PROVE ObjectsTyped'
  OBVIOUS
<1> USE DEF ObjectsTyped
<1>1. CASE UNCHANGED <<receiver, info, active, socket, peer>>
  BY <1>1
<1>2. CASE \E k \in Conns : PeerConnects(k) \/ PeerCloses(k)
  BY <1>2 DEF PeerConnects, PeerCloses, threadVars, objectVars
<1>3. CASE CheckRoom
  BY <1>3 DEF CheckRoom, netVars
<1>4. CASE HandshakeFails \/ HandshakeSucceeds \/ Register
  BY <1>4 DEF HandshakeFails, HandshakeSucceeds, Register, objectVars, netVars
<1>5. CASE \E k \in Conns : ReceiveThread(k)
  <2>1. PICK j \in Conns : ReceiveThread(j)
    BY <1>5
  <2>2. PICK p \in Receiving :
           /\ receiver' = [receiver EXCEPT ![j] = p]
           /\ UNCHANGED active \/ (p = "ended" /\ active' = [active EXCEPT ![j] = FALSE])
    BY <2>1, ReceiverDoes
  <2>3. UNCHANGED <<info, socket, peer>>
    BY <2>1, ReceiverDoes
  <2>4. receiver' \in [Conns -> {"none", "loop", "recv", "handle", "noticed", "ended"}]
    BY <2>2 DEF Receiving
  <2>5. active' \in [Conns -> BOOLEAN]
    BY <2>2
  <2>6. QED BY <2>3, <2>4, <2>5
<1>6. CASE DisconnectSilent
  BY <1>6 DEF DisconnectSilent, netVars
<1>7. CASE EraseInactive
  BY <1>7 DEF EraseInactive, netVars
<1>8. CASE ClearClients
  BY <1>8 DEF ClearClients, netVars
<1>9. QED
  BY <1>1, <1>2, <1>3, <1>4, <1>5, <1>6, <1>7, <1>8 DEF Next, AcceptThread, AcceptLoop, Accept,
     AcceptTimeout, AcceptError, PeerSends, Keepalive, KeepaliveLoop, KeepaliveLock, SendFrame,
     SendFrameReturns, Stop, Join, threadVars, objectVars, netVars, vars

LEMMA LifeStep ==
    ASSUME ServerInv, [Next]_vars, NEW k \in Conns
    PROVE  Life(k)' /\ Ends(k)'
<1> USE ServerAssumption DEF ServerAssumption, ServerInv, ObjectsTyped, ThreadsPlaced,
        JoinedInTurn, Life, NotYet, Ends
<1>1. CASE UNCHANGED <<receiver, info, socket, peer, main, handling, accepter>>
  BY <1>1
<1>2. CASE \E j \in Conns : PeerConnects(j) \/ PeerCloses(j)
  <2>1. UNCHANGED <<receiver, info, main, handling, accepter>>
    BY <1>2, Zenon DEF PeerConnects, PeerCloses, threadVars, objectVars
  <2>2. \/ UNCHANGED <<socket, peer>>
        \/ peer[k] = "none" /\ peer'[k] # "none" /\ socket'[k] = "backlog"
        \/ UNCHANGED socket /\ peer'[k] = "closed"
        \/ socket'[k] = socket[k] /\ peer'[k] = peer[k]
    BY <1>2 DEF PeerConnects, PeerCloses, objectVars
  <2>3. QED BY <2>1, <2>2
<1>3. CASE AcceptLoop \/ AcceptTimeout \/ AcceptError
  BY <1>3 DEF AcceptLoop, AcceptTimeout, AcceptError, objectVars, netVars
<1>4. CASE \E j \in Conns : Accept(j)
  <2>1. PICK j \in Conns : Accept(j)
    BY <1>4
  <2>2. UNCHANGED <<receiver, info, socket, peer, main>> /\ accepter = "accept"
    BY <2>1, Zenon DEF Accept, objectVars, netVars
  <2>3. socket[j] = "backlog" /\ handling' = j /\ accepter' = "check"
    BY <2>1, Zenon DEF Accept
  <2>4. j # None /\ Life(j)
    BY <2>1
  <2>5. handling = None
    BY <2>2
  <2>6. QED BY <2>2, <2>3, <2>4, <2>5
<1>5. CASE CheckRoom
  <2>1. accepter = "check" /\ UNCHANGED <<main, receiver, peer>>
    BY <1>5, CheckRoomDoes
  <2>2. handling \in Conns /\ main \in {"streaming", "sending", "join accepter"}
    BY <2>1
  <2>3. CASE socket' = [socket EXCEPT ![handling] = "closed"] /\ UNCHANGED info
             /\ handling' = None /\ accepter' = "loop"
    BY <2>1, <2>2, <2>3
  <2>4. CASE /\ socket' = [socket EXCEPT ![handling] = "open"]
             /\ info' = [info EXCEPT ![handling] = "held"]
             /\ accepter' = "handshake" /\ UNCHANGED handling
    BY <2>1, <2>2, <2>4
  <2>5. QED BY <1>5, <2>3, <2>4, CheckRoomDoes
<1>6. CASE HandshakeFails
  BY <1>6 DEF HandshakeFails, netVars
<1>7. CASE HandshakeSucceeds
  BY <1>7 DEF HandshakeSucceeds, objectVars, netVars
<1>8. CASE Register
  BY <1>8 DEF Register, netVars
<1>9. CASE \E j \in Conns : ReceiveThread(j)
  <2>1. PICK j \in Conns : ReceiveThread(j)
    BY <1>9
  <2>2. /\ receiver[j] \notin {"none", "ended"}
        /\ UNCHANGED <<info, socket, peer, main, handling, accepter>>
    BY <2>1, ReceiverDoes
  <2>3. PICK p \in Receiving : receiver' = [receiver EXCEPT ![j] = p]
    BY <2>1, ReceiverDoes
  <2>4. QED BY <2>2, <2>3
<1>10. CASE DisconnectSilent
  BY <1>10, SilentDoes
<1>11. CASE EraseInactive
  BY <1>11 DEF EraseInactive, netVars, Listed
<1>12. CASE SendFrame \/ SendFrameReturns \/ Stop
  BY <1>12 DEF SendFrame, SendFrameReturns, Stop, objectVars, netVars
<1>13. CASE Join
  BY <1>13 DEF Join, Started, objectVars, netVars
<1>14. CASE ClearClients
  BY <1>14 DEF ClearClients, netVars
<1>15. QED
  BY <1>1, <1>2, <1>3, <1>4, <1>5, <1>6, <1>7, <1>8, <1>9, <1>10, <1>11, <1>12, <1>13, <1>14
  DEF Next, AcceptThread, Keepalive, KeepaliveLoop, KeepaliveLock, PeerSends, threadVars,
      objectVars, netVars, vars

LEMMA EarlyStep ==
    ASSUME ServerInv, [Next]_vars, NEW k \in Conns
    PROVE  Early(k)'
<1> USE ServerAssumption DEF ServerAssumption, ServerInv, ObjectsTyped, ThreadsPlaced, Life,
        NotYet, Early
<1>1. CASE UNCHANGED <<receiver, info, socket, active>>
           /\ (UNCHANGED <<handling, accepter>> \/ accepter' \notin {"handshake"})
  BY <1>1
<1>2. CASE \E j \in Conns : PeerConnects(j)
  BY <1>2 DEF PeerConnects, threadVars
<1>3. CASE CheckRoom
  BY <1>3, CheckRoomDoes
<1>4. CASE HandshakeFails
  BY <1>4 DEF HandshakeFails, netVars
<1>5. CASE HandshakeSucceeds
  <2>1. accepter = "handshake" /\ UNCHANGED <<info, active, socket>>
    BY <1>5, Zenon DEF HandshakeSucceeds, objectVars
  <2>2. receiver' = [receiver EXCEPT ![handling] = "loop"]
    BY <1>5 DEF HandshakeSucceeds
  <2>3. handling \in Conns /\ info[handling] = "held" /\ active[handling] = TRUE
    BY <2>1
  <2>4. accepter' = "register"
    BY <1>5 DEF HandshakeSucceeds
  <2>5. QED BY <2>1, <2>2, <2>3, <2>4
<1>6. CASE Register
  BY <1>6 DEF Register, netVars
<1>7. CASE \E j \in Conns : ReceiveThread(j)
  <2>1. PICK j \in Conns : ReceiveThread(j)
    BY <1>7
  <2>2. /\ receiver[j] \notin {"none", "ended"}
        /\ UNCHANGED <<info, socket, handling, accepter>>
    BY <2>1, ReceiverDoes
  <2>3. PICK p \in Receiving :
           /\ receiver' = [receiver EXCEPT ![j] = p]
           /\ UNCHANGED active \/ (p = "ended" /\ active' = [active EXCEPT ![j] = FALSE])
    BY <2>1, ReceiverDoes
  <2>4. CASE UNCHANGED active
    BY <2>2, <2>3, <2>4
  <2>5. CASE p = "ended" /\ active' = [active EXCEPT ![j] = FALSE]
    <3>1. CASE j = k
      BY <2>2, <2>3, <2>5, <3>1
    <3>2. CASE j # k
      BY <2>2, <2>3, <2>5, <3>2
    <3>3. QED BY <3>1, <3>2
  <2>6. QED BY <2>3, <2>4, <2>5
<1>8. CASE DisconnectSilent
  BY <1>8, SilentDoes
<1>9. CASE EraseInactive
  BY <1>9 DEF EraseInactive, netVars, Listed
<1>10. CASE ClearClients
  BY <1>10 DEF ClearClients, netVars, Ends
<1>11. QED
  BY <1>1, <1>2, <1>3, <1>4, <1>5, <1>6, <1>7, <1>8, <1>9, <1>10
  DEF Next, AcceptThread, AcceptLoop, Accept, AcceptTimeout, AcceptError, Keepalive,
      KeepaliveLoop, KeepaliveLock, PeerSends, PeerCloses, SendFrame, SendFrameReturns, Stop,
      Join, threadVars, objectVars, netVars, vars

\* Packets come and go one at a time.
LEMMA OneMore == \A n \in 0..MaxPackets :
                    /\ n < MaxPackets => n + 1 \in 0..MaxPackets /\ n + 1 # 0
                    /\ n # 0 => n - 1 \in 0..MaxPackets
BY ServerAssumption DEF ServerAssumption

LEMMA InboxStep == ServerInv /\ [Next]_vars => InboxTyped'
<1> SUFFICES ASSUME ServerInv, [Next]_vars PROVE InboxTyped'
  OBVIOUS
<1> USE DEF InboxTyped
<1>0. InboxTyped
  BY DEF ServerInv
<1>1. CASE UNCHANGED inbox
  BY <1>0, <1>1
<1>2. CASE \E k \in Conns : PeerSends(k)
  <2>1. PICK k \in Conns : PeerSends(k)
    BY <1>2
  <2>2. inbox[k] + 1 \in 0..MaxPackets /\ inbox' = [inbox EXCEPT ![k] = inbox[k] + 1]
    BY <1>0, <2>1, OneMore, Zenon DEF PeerSends
  <2>3. QED BY <1>0, <2>2, Zenon
<1>3. CASE \E k \in Conns : ReceiveHandle(k)
  <2>1. PICK k \in Conns : ReceiveHandle(k)
    BY <1>3
  <2>2. CASE UNCHANGED inbox
    BY <1>1, <2>2
  <2>3. CASE socket[k] = "open" /\ inbox' = [inbox EXCEPT ![k] = inbox[k] - 1]
    <3>1. inbox[k] # 0
      BY <2>1, <2>3, Zenon DEF ReceiveHandle, ServerInv, Peeked
    <3>2. inbox[k] - 1 \in 0..MaxPackets
      BY <1>0, <3>1, OneMore, Zenon
    <3>3. QED BY <1>0, <2>3, <3>2, Zenon
  <2>4. QED BY <2>1, <2>2, <2>3, Zenon DEF ReceiveHandle
<1>4. QED
  BY <1>1, <1>2, <1>3 DEF Next, AcceptThread, AcceptLoop, Accept, AcceptTimeout, AcceptError,
     CheckRoom, HandshakeFails, HandshakeSucceeds, Register, PeerConnects, PeerCloses,
     ReceiveThread, ReceiveLoop, ReceivePeek, ReceiveNoticed, Keepalive, KeepaliveLoop,
     KeepaliveLock, DisconnectSilent, EraseInactive, SendFrame, SendFrameReturns, Stop, Join,
     ClearClients, netVars, vars

LEMMA PeekedStep ==
    ASSUME ServerInv, [Next]_vars, NEW k \in Conns
    PROVE  Peeked(k)'
<1>0. /\ Peeked(k) /\ receiver \in [Conns -> {"none"} \cup Receiving]
      /\ socket \in [Conns -> {"none", "backlog", "open", "closed"}]
  BY DEF ServerInv, ObjectsTyped, Receiving
<1>1. CASE UNCHANGED <<receiver, socket, inbox>>
  BY <1>0, <1>1 DEF Peeked
<1>2. CASE \E j \in Conns : PeerSends(j)
  <2>1. PICK j \in Conns : PeerSends(j)
    BY <1>2
  <2>2. UNCHANGED <<receiver, socket>> /\ inbox[j] + 1 # 0
    BY <2>1, OneMore, Zenon DEF PeerSends, threadVars, objectVars, ServerInv, InboxTyped
  <2>3. inbox'[k] = inbox[k] \/ inbox'[k] # 0
    BY <2>1, <2>2, Zenon DEF PeerSends, ServerInv, InboxTyped
  <2>4. QED BY <1>0, <2>2, <2>3 DEF Peeked
<1>3. CASE \E j \in Conns : ReceiveThread(j)
  <2>1. PICK j \in Conns : ReceiveThread(j)
    BY <1>3
  <2>2. UNCHANGED socket
    BY <2>1, ReceiverDoes
  <2>3. PICK p \in Receiving : receiver' = [receiver EXCEPT ![j] = p]
    BY <2>1, ReceiverDoes
  <2>4. CASE j # k
    <3>1. receiver'[k] = receiver[k]
      BY <1>0, <2>3, <2>4
    <3>2. inbox'[k] = inbox[k]
      BY <2>1, <2>4, Zenon DEF ReceiveThread, ReceiveLoop, ReceivePeek, ReceiveHandle,
         ReceiveNoticed, netVars, ServerInv, InboxTyped
    <3>3. QED BY <1>0, <2>2, <3>1, <3>2 DEF Peeked
  <2>5. CASE j = k
    <3>1. receiver'[k] = p
      BY <1>0, <2>3, <2>5
    <3>2. p = "handle" => UNCHANGED inbox /\ inbox[k] # 0
      <4>1. CASE ReceiveLoop(k)
        BY <1>0, <4>1, <3>1 DEF ReceiveLoop
      <4>2. CASE ReceivePeek(k)
        <5>1. PICK next \in {"handle", "noticed", "loop"} :
                 /\ next = "handle" => inbox[k] > 0
                 /\ receiver' = [receiver EXCEPT ![k] = next]
          BY <4>2, Zenon DEF ReceivePeek
        <5>2. next = p
          BY <1>0, <3>1, <5>1, Zenon
        <5>3. inbox[k] > 0 => inbox[k] # 0
          BY DEF ServerInv, InboxTyped
        <5>4. QED BY <4>2, <5>1, <5>2, <5>3, Zenon DEF ReceivePeek, netVars
      <4>3. CASE ReceiveHandle(k) \/ ReceiveNoticed(k)
        <5>1. receiver' = [receiver EXCEPT ![k] = "loop"] \/ receiver' = [receiver EXCEPT ![k] = "ended"]
          BY <4>3, Zenon DEF ReceiveHandle, ReceiveNoticed
        <5>2. receiver'[k] # "handle"
          BY <1>0, <5>1
        <5>3. QED BY <3>1, <5>2
      <4>4. QED BY <2>1, <2>5, <4>1, <4>2, <4>3 DEF ReceiveThread
    <3>3. QED BY <2>2, <3>1, <3>2 DEF Peeked
  <2>6. QED BY <2>4, <2>5
<1>4. CASE receiver'[k] = receiver[k] /\ socket'[k] \in {socket[k], "closed", "backlog"} /\ UNCHANGED inbox
  BY <1>0, <1>4 DEF Peeked
<1>5. CASE \E j \in Conns : PeerConnects(j)
  BY <1>0, <1>4, <1>5 DEF PeerConnects, threadVars
<1>6. CASE CheckRoom \/ HandshakeFails \/ HandshakeSucceeds
  <2>1. UNCHANGED inbox /\ handling \in Conns
    BY <1>6, ServerAssumption, Zenon DEF CheckRoom, HandshakeFails, HandshakeSucceeds, netVars, ServerInv,
       ThreadsPlaced
  <2>2. CASE CheckRoom
    <3>1. /\ accepter = "check" /\ UNCHANGED receiver
          /\ socket'[k] = socket[k] \/ k = handling
      BY <1>0, <2>1, <2>2, CheckRoomDoes
    <3>2. k = handling => receiver[k] = "none"
      BY <3>1 DEF ServerInv, Life, NotYet
    <3>3. QED BY <1>0, <2>1, <3>1, <3>2 DEF Peeked
  <2>3. CASE HandshakeFails
    BY <1>0, <1>4, <2>1, <2>3 DEF HandshakeFails, netVars
  <2>4. CASE HandshakeSucceeds
    <3>1. receiver' = [receiver EXCEPT ![handling] = "loop"] /\ UNCHANGED socket
      BY <2>4 DEF HandshakeSucceeds, objectVars
    <3>2. QED BY <1>0, <2>1, <3>1 DEF Peeked
  <2>5. QED BY <1>6, <2>2, <2>3, <2>4
<1>7. CASE DisconnectSilent
  <2>1. UNCHANGED inbox
    BY <1>7, Zenon DEF DisconnectSilent, netVars
  <2>2. QED BY <1>4, <1>7, <2>1, SilentDoes
<1>8. CASE ClearClients
  BY <1>0, <1>4, <1>8 DEF ClearClients, netVars
<1>9. QED
  BY <1>1, <1>2, <1>3, <1>5, <1>6, <1>7, <1>8 DEF Next, AcceptThread, AcceptLoop, Accept,
     AcceptTimeout, AcceptError, Register, PeerCloses, Keepalive, KeepaliveLoop,
     KeepaliveLock, EraseInactive, SendFrame, SendFrameReturns, Stop, Join, threadVars,
     objectVars, netVars, vars

LEMMA LeavesStep ==
    ASSUME ServerInv, [Next]_vars, NEW k \in Conns
    PROVE  Leaves(k)'
<1> USE ServerAssumption DEF ServerAssumption, ServerInv, ObjectsTyped, ThreadsPlaced, Life,
        NotYet, Leaves
<1>1. CASE UNCHANGED <<receiver, info, socket, active, peer>>
  BY <1>1
<1>2. CASE \E j \in Conns : PeerConnects(j) \/ PeerCloses(j)
  <2>1. UNCHANGED <<receiver, info, active>>
    BY <1>2, Zenon DEF PeerConnects, PeerCloses, threadVars, objectVars
  <2>2. \/ socket'[k] = "backlog"
        \/ socket'[k] = socket[k] /\ peer'[k] \in {peer[k], "closed"}
    BY <1>2 DEF PeerConnects, PeerCloses, objectVars
  <2>3. QED BY <2>1, <2>2
<1>3. CASE CheckRoom
  BY <1>3, CheckRoomDoes
<1>4. CASE HandshakeFails
  BY <1>4 DEF HandshakeFails, netVars
<1>5. CASE HandshakeSucceeds
  BY <1>5 DEF HandshakeSucceeds, objectVars, netVars
<1>6. CASE Register
  BY <1>6 DEF Register, netVars
<1>7. CASE \E j \in Conns : ReceiveThread(j)
  <2>1. PICK j \in Conns : ReceiveThread(j)
    BY <1>7
  <2>2. UNCHANGED <<info, socket, peer>>
    BY <2>1, ReceiverDoes
  <2>3. CASE j = k /\ ReceivePeek(k)
    <3>1. UNCHANGED active
      BY <2>3 DEF ReceivePeek, objectVars
    <3>2. PICK next \in {"handle", "noticed", "loop"} :
             /\ next = "noticed" => socket[k] = "closed" \/ (peer[k] = "closed" /\ inbox[k] = 0)
             /\ receiver' = [receiver EXCEPT ![k] = next]
      BY <2>3, Zenon DEF ReceivePeek
    <3>3. receiver'[k] = next
      BY <3>2
    <3>4. QED BY <2>2, <3>1, <3>2, <3>3
  <2>4. CASE j = k /\ ~ReceivePeek(k)
    <3>1. receiver' = [receiver EXCEPT ![k] = "ended"] \/ receiver' = [receiver EXCEPT ![k] = "recv"]
          \/ receiver' = [receiver EXCEPT ![k] = "loop"]
      BY <2>1, <2>4, Zenon DEF ReceiveThread, ReceiveLoop, ReceiveHandle, ReceiveNoticed
    <3>2. receiver'[k] # "noticed"
      BY <3>1
    <3>3. UNCHANGED active \/ receiver[k] = "noticed"
      BY <2>1, <2>4, Zenon DEF ReceiveThread, ReceiveLoop, ReceiveHandle, ReceiveNoticed, objectVars
    <3>4. QED BY <2>2, <3>2, <3>3
  <2>5. CASE j # k
    <3>1. PICK p \in Receiving :
             /\ receiver' = [receiver EXCEPT ![j] = p]
             /\ UNCHANGED active \/ (p = "ended" /\ active' = [active EXCEPT ![j] = FALSE])
      BY <2>1, ReceiverDoes
    <3>2. receiver'[k] = receiver[k] /\ active'[k] = active[k]
      BY <2>5, <3>1
    <3>3. QED BY <2>2, <3>2
  <2>6. QED BY <2>1, <2>3, <2>4, <2>5
<1>8. CASE DisconnectSilent
  BY <1>8, SilentDoes
<1>9. CASE EraseInactive
  BY <1>9 DEF EraseInactive, netVars, Listed
<1>10. CASE ClearClients
  BY <1>10 DEF ClearClients, netVars
<1>11. QED
  BY <1>1, <1>2, <1>3, <1>4, <1>5, <1>6, <1>7, <1>8, <1>9, <1>10
  DEF Next, AcceptThread, AcceptLoop, Accept, AcceptTimeout, AcceptError, Keepalive,
      KeepaliveLoop, KeepaliveLock, PeerSends, SendFrame, SendFrameReturns, Stop, Join,
      threadVars, objectVars, netVars, vars

LEMMA ServerStep == ServerInv /\ [Next]_vars => ServerInv'
<1> SUFFICES ASSUME ServerInv, [Next]_vars PROVE ServerInv'
  OBVIOUS
<1>1. RunningPlaced' /\ ThreadsPlaced' /\ JoinedInTurn'
  BY RunningStep, ThreadsStep DEF ServerInv
<1>2. ObjectsTyped' /\ InboxTyped'
  BY ObjectsStep, InboxStep DEF ServerInv
<1>3. ASSUME NEW k \in Conns PROVE Life(k)' /\ Early(k)' /\ Ends(k)' /\ Peeked(k)' /\ Leaves(k)'
  BY LifeStep, EarlyStep, PeekedStep, LeavesStep
<1>4. QED BY <1>1, <1>2, <1>3 DEF ServerInv

LEMMA ServerAlways == Spec => []ServerInv
BY ServerStarts, ServerStep, PTL DEF Spec
-----------------------------------------------------------------------------
\* The types of the server's state, and who can be where when.
THEOREM ServerTyped == Spec => []TypeOK
<1>1. ServerInv => TypeOK
  <2> SUFFICES ASSUME ServerInv PROVE TypeOK
    OBVIOUS
  <2>1. \A k \in Conns : info[k] = "held" => k = handling
    BY DEF ServerInv, Life
  <2>2. QED
    BY <2>1, Zenon DEF ServerInv, RunningPlaced, ThreadsPlaced, ObjectsTyped, InboxTyped, TypeOK
<1>2. QED BY <1>1, ServerAlways, PTL

\* Nothing of the server runs after Stop; Shutdown leaves no ClientInfo, and no
\* open socket of a client that has not closed its own end.
THEOREM ShutdownLeavesNothing == Spec => []ShutdownIsFinal
<1>1. ServerInv => ShutdownIsFinal
  BY DEF ServerInv, JoinedInTurn, Ends, Leaves, ShutdownIsFinal
<1>2. QED BY <1>1, ServerAlways, PTL

\* A ClientInfo that goes before its receive thread is that of a client the
\* keepalive thread disconnected (KeepaliveThread, DisconnectClient).
THEOREM FreedEarlyWasSilent == Spec => []OnlySilentFreedEarly
<1>1. ServerInv => OnlySilentFreedEarly
  BY DEF ServerInv, Early, OnlySilentFreedEarly
<1>2. QED BY <1>1, ServerAlways, PTL
-----------------------------------------------------------------------------
(* Clients that are never silent *)

\* The keepalive thread finds nobody's heartbeat too old.
NobodySilent == DisconnectSilent => UNCHANGED active

\* The socket of a client with a thread, or about to have one, is not closed.
KeptOpen(k) ==
    /\ receiver[k] \notin {"none", "ended"} => socket[k] # "closed"
    /\ handling = k /\ accepter = "handshake" => socket[k] # "closed"

LEMMA SilentNobody ==
    ASSUME ServerInv, DisconnectSilent, UNCHANGED active
    PROVE  UNCHANGED <<receiver, socket, handling, accepter>>
<1>1. active \in [Conns -> BOOLEAN] /\ socket \in [Conns -> {"none", "backlog", "open", "closed"}]
  BY DEF ServerInv, ObjectsTyped
<1>2. PICK silent \in SUBSET {k \in Listed : active[k]} :
         /\ active' = [k \in Conns |-> active[k] /\ k \notin silent]
         /\ socket' = [k \in Conns |-> IF k \in silent THEN "closed" ELSE socket[k]]
  BY DEF DisconnectSilent
<1>3. silent = {}
  <2> SUFFICES ASSUME NEW k \in silent PROVE FALSE
    OBVIOUS
  <2>1. k \in Conns /\ active[k] /\ active'[k] = (active[k] /\ k \notin silent)
    BY <1>2 DEF Listed
  <2>2. ~active'[k]
    BY <2>1
  <2>3. QED BY <2>1, <2>2
<1>4. UNCHANGED socket
  BY <1>1, <1>2, <1>3
<1>5. QED BY <1>4 DEF DisconnectSilent

LEMMA KeptOpenStep ==
    ASSUME ServerInv, [Next]_vars, [NobodySilent]_vars, NEW k \in Conns, KeptOpen(k)
    PROVE  KeptOpen(k)'
<1> USE ServerAssumption DEF ServerAssumption, ServerInv, ObjectsTyped, ThreadsPlaced, Life,
        NotYet, KeptOpen
<1>1. CASE UNCHANGED <<receiver, socket>>
           /\ (UNCHANGED <<handling, accepter>> \/ accepter' \notin {"handshake"})
  BY <1>1
<1>2. CASE \E j \in Conns : PeerConnects(j)
  <2>1. PICK j \in Conns : PeerConnects(j)
    BY <1>2
  <2>2. UNCHANGED <<receiver, handling, accepter>>
    BY <2>1, Zenon DEF PeerConnects, threadVars
  <2>3. socket'[k] = socket[k] \/ socket'[k] = "backlog"
    BY <2>1 DEF PeerConnects
  <2>4. QED BY <2>2, <2>3
<1>3. CASE CheckRoom
  BY <1>3, CheckRoomDoes
<1>4. CASE HandshakeFails
  BY <1>4 DEF HandshakeFails
<1>5. CASE HandshakeSucceeds
  <2>1. accepter = "handshake" /\ UNCHANGED socket /\ accepter' = "register"
    BY <1>5, Zenon DEF HandshakeSucceeds, objectVars
  <2>2. receiver' = [receiver EXCEPT ![handling] = "loop"]
    BY <1>5 DEF HandshakeSucceeds
  <2>3. QED BY <2>1, <2>2
<1>6. CASE \E j \in Conns : ReceiveThread(j)
  <2>1. PICK j \in Conns : ReceiveThread(j)
    BY <1>6
  <2>2. receiver[j] \notin {"none", "ended"} /\ UNCHANGED <<socket, handling, accepter>>
    BY <2>1, ReceiverDoes
  <2>3. PICK p \in Receiving : receiver' = [receiver EXCEPT ![j] = p]
    BY <2>1, ReceiverDoes
  <2>4. QED BY <2>2, <2>3
<1>7. CASE DisconnectSilent
  <2>1. UNCHANGED active
    BY <1>7 DEF NobodySilent, vars, objectVars
  <2>2. QED BY <1>1, <1>7, <2>1, SilentNobody
<1>8. CASE ClearClients
  <2>1. receiver[k] \in {"none", "ended"} /\ accepter = "ended" /\ UNCHANGED <<receiver, accepter>>
    BY <1>8 DEF ClearClients, Ends, JoinedInTurn
  <2>2. QED BY <2>1
<1>9. QED
  BY <1>1, <1>2, <1>3, <1>4, <1>5, <1>6, <1>7, <1>8
  DEF Next, AcceptThread, AcceptLoop, Accept, AcceptTimeout, AcceptError, Register, Keepalive,
      KeepaliveLoop, KeepaliveLock, EraseInactive, PeerSends, PeerCloses, SendFrame,
      SendFrameReturns, Stop, Join, threadVars, objectVars, netVars, vars

\* As long as every client is heard of in time, no receive thread ever uses a
\* ClientInfo that has been destroyed, whoever connects, closes, fails its
\* handshake or is still connected when the server is stopped: the silent
\* client is the only way to the dangling pointer (ReceiveThread,
\* KeepaliveThread, Shutdown).
THEOREM NoneSilentNoneDangling ==
    Spec /\ [][NobodySilent]_vars
        => [](\A k \in Conns : info[k] = "freed" => receiver[k] \in {"none", "ended"})
<1> DEFINE Open == \A k \in Conns : KeptOpen(k)
<1>1. Init => Open
  BY DEF Init, KeptOpen
<1>2. ServerInv /\ Open /\ [Next]_vars /\ [NobodySilent]_vars => Open'
  BY KeptOpenStep
<1>3. ServerInv /\ Open => \A k \in Conns : info[k] = "freed" => receiver[k] \in {"none", "ended"}
  BY DEF ServerInv, Early, KeptOpen
<1> HIDE DEF Open
<1>4. QED BY <1>1, <1>2, <1>3, ServerStarts, ServerStep, PTL DEF Spec
-----------------------------------------------------------------------------
(* Room in the clients vector *)

RoomKept ==
    /\ IsFiniteSet(Listed) /\ Cardinality(Listed) <= MaxClients
    /\ accepter \in {"handshake", "register"} => Cardinality(Listed) < MaxClients

LEMMA RoomStep == ServerInv /\ RoomKept /\ [Next]_vars => RoomKept'
<1> SUFFICES ASSUME ServerInv, RoomKept, [Next]_vars PROVE RoomKept'
  OBVIOUS
<1>0. /\ info \in [Conns -> {"none", "held", "listed", "freed"}]
      /\ MaxClients \in Nat /\ Cardinality(Listed) \in Nat /\ None \notin Conns
  BY FS_CardinalityType, ServerAssumption
  DEF ServerAssumption, ServerInv, ObjectsTyped, RoomKept
<1>1. CASE /\ Listed' \subseteq Listed
           /\ accepter' \in {"handshake", "register"} =>
                 accepter \in {"handshake", "register"} \/ Cardinality(Listed) < MaxClients
  <2>1. IsFiniteSet(Listed') /\ Cardinality(Listed') <= Cardinality(Listed)
    BY <1>1, FS_Subset DEF RoomKept
  <2>2. Cardinality(Listed') \in Nat
    BY <2>1, FS_CardinalityType
  <2>3. QED BY <1>0, <1>1, <2>1, <2>2 DEF RoomKept
<1>2. CASE UNCHANGED <<info, accepter>>
  BY <1>1, <1>2 DEF Listed
<1>3. CASE AcceptLoop \/ AcceptTimeout \/ AcceptError \/ \E j \in Conns : Accept(j)
  BY <1>1, <1>3 DEF AcceptLoop, AcceptTimeout, AcceptError, Accept, objectVars, Listed
<1>4. CASE CheckRoom
  <2>1. Listed' \subseteq Listed
    BY <1>0, <1>4, CheckRoomDoes DEF Listed
  <2>2. accepter' = "handshake" => Cardinality(Listed) < MaxClients
    BY <1>0, <1>4 DEF CheckRoom
  <2>3. accepter' \in {"loop", "handshake"}
    BY <1>4 DEF CheckRoom
  <2>4. QED BY <1>1, <2>1, <2>2, <2>3
<1>5. CASE HandshakeFails \/ HandshakeSucceeds
  <2>1. Listed' \subseteq Listed /\ accepter = "handshake"
    BY <1>0, <1>5 DEF HandshakeFails, HandshakeSucceeds, objectVars, Listed
  <2>2. QED BY <1>1, <2>1
<1>6. CASE Register
  <2>1. Listed' = Listed \cup {handling} /\ accepter = "register" /\ accepter' = "loop"
    <3>1. handling \in Conns
      BY <1>6 DEF Register, ServerInv, ThreadsPlaced
    <3>2. QED BY <1>0, <1>6, <3>1 DEF Register, Listed
  <2>2. /\ IsFiniteSet(Listed \cup {handling})
        /\ \/ Cardinality(Listed \cup {handling}) = Cardinality(Listed)
           \/ Cardinality(Listed \cup {handling}) = Cardinality(Listed) + 1
    BY FS_AddElement DEF RoomKept
  <2>3. Cardinality(Listed) < MaxClients
    BY <2>1 DEF RoomKept
  <2>4. Cardinality(Listed') <= MaxClients
    BY <1>0, <2>1, <2>2, <2>3
  <2>5. QED BY <2>1, <2>2, <2>4 DEF RoomKept
<1>7. CASE EraseInactive \/ ClearClients
  <2>1. Listed' \subseteq Listed /\ UNCHANGED accepter
    BY <1>0, <1>7 DEF EraseInactive, ClearClients, Listed
  <2>2. QED BY <1>1, <2>1
<1>8. CASE \E j \in Conns : ReceiveThread(j)
  BY <1>2, <1>8, ReceiverDoes
<1>9. QED
  BY <1>2, <1>3, <1>4, <1>5, <1>6, <1>7, <1>8
  DEF Next, AcceptThread, Keepalive, KeepaliveLoop, KeepaliveLock, DisconnectSilent,
      PeerConnects, PeerSends, PeerCloses, SendFrame, SendFrameReturns, Stop, Join,
      threadVars, objectVars, netVars, vars

\* The clients vector never holds more than maxClients clients: clientsMutex is
\* given up between the look at its size and push_back, but only the accept
\* thread inserts (AcceptThread, KeepaliveThread).
THEOREM VectorWithinLimit == Spec => [](Cardinality(Listed) <= MaxClients)
<1>1. Init => RoomKept
  <2> SUFFICES ASSUME Init PROVE RoomKept
    OBVIOUS
  <2>1. Listed = {}
    BY DEF Init, Listed
  <2>2. QED
    BY <2>1, FS_EmptySet, ServerAssumption DEF ServerAssumption, Init, RoomKept
<1>2. RoomKept => Cardinality(Listed) <= MaxClients
  BY DEF RoomKept
<1>3. QED BY <1>1, <1>2, RoomStep, ServerStarts, ServerStep, PTL DEF Spec
=============================================================================
