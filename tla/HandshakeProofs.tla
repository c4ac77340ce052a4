--------------------------- MODULE HandshakeProofs ---------------------------
(***************************************************************************)
(* What is proved of the way a connection is made, for any number of       *)
(* clients, any passwords and versions and any timing: who is accepted,    *)
(* who cannot be, and that the two sides agree about it.                   *)
(***************************************************************************)
EXTENDS Handshake, SequenceTheorems, FiniteSetTheorems, TLAPS

\* p is somewhere in the stream s.
Has(s, p) == \E i \in 1..Len(s) : s[i] = p

\* c was told that it is accepted, or will read so.
Welcomed(c) == client[c] \in {"auth", "connected"} \/ Has(toClient[c], Response(1))

Served(c) ==
    \/ c \in clients
    \/ c = current /\ acceptThread = "register"
    \/ serverSocket[c] = "closed"

SettingsTyped ==
    /\ requireAuth \in AuthSettings /\ outdated \subseteq MayBeOutdated
    /\ password \in [Clients -> Passwords \cup {NoPassword}]

StreamsTyped ==
    /\ toServer \in [Clients -> Seq({HandshakePacket, AuthPacket})]
    /\ toClient \in [Clients -> Seq(Packets)]

ServerTyped ==
    /\ client \in [Clients -> {"idle", "sending", "handshake", "auth",
                               "connected", "failed", "closed"}]
    /\ serverSocket \in [Clients -> {"none", "backlog", "open", "closed"}]
    /\ acceptThread \in {"accept", "handshake", "auth", "register"}
    /\ current \in Clients \cup {None}
    /\ current = None <=> acceptThread = "accept"
    /\ active \subseteq clients /\ clients \subseteq authenticated
    /\ authenticated \subseteq Clients
    /\ acceptThread = "register" => current \in authenticated

\* The backlog holds the connections that nobody has accepted, each once.
BacklogPlaced ==
    /\ backlog \in Seq(Clients)
    /\ \A i \in 1..Len(backlog) : serverSocket[backlog[i]] = "backlog"
    /\ \A i, j \in 1..Len(backlog) : backlog[i] = backlog[j] => i = j

\* What the host has checked of c.
Authorised(c) ==
    /\ c \notin outdated
    /\ requireAuth => password[c] = HostPassword /\ c \in Eager

Checked(c) ==
    /\ c \in authenticated => Authorised(c)
    /\ c = current /\ acceptThread = "auth" => c \notin outdated

\* A connection nobody has accepted is nobody's client.
Placed(c) ==
    /\ client[c] = "idle" => serverSocket[c] = "none"
    /\ serverSocket[c] \in {"none", "backlog"} => c \notin authenticated /\ c # current

\* Only a client that was welcomed, or is eager, authenticates.
Asked(c) ==
    /\ Has(toServer[c], AuthPacket) => c \in Eager \cup authenticated
    /\ Welcomed(c) => c \in authenticated

Agreed(c) ==
    /\ Welcomed(c) /\ ~ClientClosed(c) => Served(c)
    /\ c \in clients \ active => ClientClosed(c) \/ serverSocket[c] = "closed"

HandshakeInv ==
    /\ SettingsTyped /\ StreamsTyped /\ ServerTyped /\ BacklogPlaced
    /\ \A c \in Clients : Checked(c) /\ Placed(c) /\ Asked(c) /\ Agreed(c)
-----------------------------------------------------------------------------
(***************************************************************************)
(* Streams.                                                                *)
(***************************************************************************)
LEMMA HasEmpty == \A p : ~Has(<<>>, p)
BY DEF Has

LEMMA HasAppend ==
    ASSUME NEW S, NEW s \in Seq(S), NEW e \in S, NEW p
    PROVE  /\ Append(s, e) \in Seq(S)
           /\ Has(Append(s, e), p) => Has(s, p) \/ e = p
BY AppendProperties, LenProperties DEF Has

LEMMA HasTail ==
    ASSUME NEW S, NEW s \in Seq(S), s # <<>>, NEW p
    PROVE  /\ Tail(s) \in Seq(S)
           /\ Has(Tail(s), p) => Has(s, p)
<1>1. /\ Tail(s) \in Seq(S) /\ Len(Tail(s)) = Len(s) - 1 /\ Len(s) \in Nat
      /\ \A i \in 1..Len(Tail(s)) : Tail(s)[i] = s[i + 1]
  BY HeadTailProperties, LenProperties
<1>2. ASSUME NEW i \in 1..Len(Tail(s)), Tail(s)[i] = p PROVE Has(s, p)
  <2>1. i + 1 \in 1..Len(s) /\ s[i + 1] = p
    BY <1>1, <1>2
  <2>2. QED BY <2>1 DEF Has
<1>3. QED BY <1>1, <1>2 DEF Has

LEMMA HasHead ==
    ASSUME NEW S, NEW s \in Seq(S), s # <<>>
    PROVE  Has(s, Head(s))
<1>1. Len(s) \in Nat /\ Len(s) # 0 /\ Head(s) = s[1]
  BY EmptySeq, LenProperties
<1>2. 1 \in 1..Len(s)
  BY <1>1
<1>3. QED BY <1>1, <1>2 DEF Has

\* What is in a stream of at most two packets.
LEMMA HasOneTwo ==
    ASSUME NEW p, NEW q, NEW r
    PROVE  /\ Has(<<p>>, r) => r = p
           /\ Has(<<p, q>>, r) => r = p \/ r = q
BY DEF Has

LEMMA PacketsDiffer ==
    /\ HandshakePacket # AuthPacket /\ Keepalive # Response(1) /\ Response(0) # Response(1)
    /\ Response(0) \in Packets /\ Response(1) \in Packets /\ Keepalive \in Packets
    /\ \A p \in Packets : p.payload = 1 => p = Response(1)
BY DEF HandshakePacket, AuthPacket, Keepalive, Response, Packets
-----------------------------------------------------------------------------
(***************************************************************************)
(* What the steps do.                                                      *)
(***************************************************************************)
LEMMA SettingsStep == [Next]_vars => UNCHANGED settings
BY Zenon DEF Next, ConnectTCP, ConnectTCPFails, SendHandshake, RecvHandshakeResponse, RecvAuthResponse,
   RecvFails, RecvKeepalive, Leave, ServerReceive, ServerReceiveClosed, Accept,
   HandleHandshake, HandleAuth, HandshakeRecvFails, Register, KeepaliveThread,
   KeepaliveRound, clientVars, vars

LEMMA AuthorisedStays ==
    ASSUME NEW c \in Clients, UNCHANGED settings
    PROVE  (Authorised(c)' <=> Authorised(c)) /\ UNCHANGED outdated
BY Zenon DEF settings, Authorised

Answers == HandleHandshake \/ HandleAuth \/ HandshakeRecvFails

\* The host refuses, welcomes, or waits for the password.
Refused ==
    /\ \/ UNCHANGED toClient
       \/ toClient' = [toClient EXCEPT ![current] = Append(@, Response(0))]
    /\ serverSocket' = [serverSocket EXCEPT ![current] = "closed"]
    /\ acceptThread' = "accept" /\ current' = None
    /\ UNCHANGED authenticated

Welcoming ==
    /\ toClient' = [toClient EXCEPT ![current] = Append(@, Response(1))]
    /\ acceptThread' = "register"
    /\ authenticated' = authenticated \cup {current}
    /\ UNCHANGED <<serverSocket, current>>

Trusted ==
    \/ current \notin outdated /\ ~requireAuth
    \/ /\ acceptThread = "auth" /\ toServer[current] # <<>>
       /\ Head(toServer[current]) = AuthPacket /\ MayAuthenticate(current)

Accepted == Welcoming /\ Authorised(current)

Awaited ==
    /\ acceptThread' = "auth" /\ current \notin outdated
    /\ UNCHANGED <<toClient, serverSocket, current, authenticated>>

LEMMA RefuseDoes ==
    ASSUME HandshakeInv, current \in Clients, NEW answer \in {<<>>, <<Response(0)>>}, Refuse(answer)
    PROVE  Refused
<1>1. toClient \in [Clients -> Seq(Packets)] /\ toClient[current] \in Seq(Packets)
  BY DEF HandshakeInv, StreamsTyped
<1>2. CASE answer = <<>>
  <2>1. toClient[current] \o answer = toClient[current]
    BY <1>1, <1>2, ConcatEmptySeq
  <2>2. UNCHANGED toClient
    BY <1>1, <2>1 DEF Refuse
  <2>3. QED BY <2>2 DEF Refuse, Refused
<1>3. CASE answer = <<Response(0)>>
  <2>1. toClient[current] \o answer = Append(toClient[current], Response(0))
    BY <1>1, <1>3, AppendIsConcat, PacketsDiffer
  <2>2. QED BY <2>1, Zenon DEF Refuse, Refused
<1>4. QED BY <1>2, <1>3

LEMMA AnswersDo ==
    ASSUME HandshakeInv, Answers
    PROVE  /\ current \in Clients /\ acceptThread \in {"handshake", "auth"}
           /\ UNCHANGED <<client, backlog, clients, active>>
           /\ \/ UNCHANGED toServer
              \/ /\ toServer[current] # <<>>
                 /\ toServer' = [toServer EXCEPT ![current] = Tail(@)]
           /\ Refused \/ Accepted \/ Awaited
<1>1. current \in Clients /\ acceptThread \in {"handshake", "auth"}
  BY DEF HandshakeInv, ServerTyped, Answers, HandleHandshake, HandleAuth, HandshakeRecvFails
<1>2. /\ UNCHANGED <<client, backlog, clients, active>>
      /\ \/ UNCHANGED toServer
         \/ /\ toServer[current] # <<>>
            /\ toServer' = [toServer EXCEPT ![current] = Tail(@)]
  BY Zenon DEF Answers, HandleHandshake, HandleAuth, HandshakeRecvFails, clientVars
<1> SUFFICES Refused \/ Accepted \/ Awaited
  BY <1>1, <1>2
<1>3. \/ Welcoming /\ Trusted
      \/ \E answer \in {<<>>, <<Response(0)>>} : Refuse(answer)
      \/ Awaited
  BY Zenon DEF Answers, HandleHandshake, HandleAuth, HandshakeRecvFails, Awaited, Compatible,
     Welcome, Welcoming, Trusted
<1>4. CASE Welcoming /\ Trusted
  <2>1. CASE current \notin outdated /\ ~requireAuth
    BY <1>4, <2>1, Zenon DEF Welcoming, Accepted, Authorised
  <2>2. CASE /\ acceptThread = "auth" /\ toServer[current] # <<>>
             /\ Head(toServer[current]) = AuthPacket /\ password[current] = HostPassword
    <3>1. Checked(current) /\ Asked(current)
      BY <1>1 DEF HandshakeInv
    <3>2. Has(toServer[current], AuthPacket)
      BY <1>1, <2>2, HasHead DEF HandshakeInv, StreamsTyped
    <3>3. CASE current \in authenticated
      BY <1>4, <3>1, <3>3, Zenon DEF Checked, Welcoming, Accepted
    <3>4. CASE current \in Eager
      BY <1>4, <2>2, <3>1, <3>4, Zenon DEF Checked, Welcoming, Accepted, Authorised
    <3>5. QED BY <3>1, <3>2, <3>3, <3>4 DEF Asked
  <2>3. QED BY <1>4, <2>1, <2>2 DEF Trusted, MayAuthenticate
<1>5. CASE \E answer \in {<<>>, <<Response(0)>>} : Refuse(answer)
  BY <1>1, <1>5, RefuseDoes
<1>6. QED BY <1>3, <1>4, <1>5

LEMMA KeepaliveDoes ==
    ASSUME NEW gone \in SUBSET MaybeSilent, KeepaliveRound(gone)
    PROVE  /\ UNCHANGED <<client, toServer, backlog, acceptThread, current, authenticated>>
           /\ gone \subseteq active
           /\ clients' = clients \ (gone \cup (clients \ active)) /\ active' = active \ gone
           /\ \A c \in Clients :
                 /\ toClient'[c] \in {toClient[c], Append(toClient[c], Keepalive)}
                 /\ IF c \in gone THEN serverSocket'[c] = "closed"
                                 ELSE serverSocket'[c] = serverSocket[c]
<1>1. UNCHANGED <<client, toServer, backlog, acceptThread, current, authenticated>>
  BY Zenon DEF KeepaliveRound, clientVars
<1>2. gone \subseteq active
  BY Zenon DEF MaybeSilent
<1>3. clients' = clients \ (gone \cup (clients \ active)) /\ active' = active \ gone
  BY Zenon DEF KeepaliveRound, Reaped
<1>4. ASSUME NEW c \in Clients
      PROVE  /\ toClient'[c] \in {toClient[c], Append(toClient[c], Keepalive)}
             /\ IF c \in gone THEN serverSocket'[c] = "closed"
                             ELSE serverSocket'[c] = serverSocket[c]
  BY Zenon DEF KeepaliveRound
<1>5. QED BY <1>1, <1>2, <1>3, <1>4

\* The client's steps: what it does with its end of the two streams.
ClientSends(c) ==
    /\ client[c] = "sending"
    /\ client' = [client EXCEPT ![c] = "handshake"]
    /\ toServer' = [toServer EXCEPT ![c] =
                       IF c \in Eager THEN <<HandshakePacket, AuthPacket>>
                                     ELSE <<HandshakePacket>>]
    /\ UNCHANGED toClient

ClientReceives(c) ==
    /\ toClient[c] # <<>> /\ client[c] \in {"handshake", "auth", "connected"}
    /\ toClient' = [toClient EXCEPT ![c] = Tail(@)]
    /\ \/ UNCHANGED client /\ UNCHANGED toServer
       \/ client' = [client EXCEPT ![c] = "failed"] /\ UNCHANGED toServer
       \/ /\ Head(toClient[c]) = Response(1)
          /\ client' = [client EXCEPT ![c] = "connected"] /\ UNCHANGED toServer
       \/ /\ Head(toClient[c]) = Response(1)
          /\ client' = [client EXCEPT ![c] = "auth"]
          /\ toServer' = [toServer EXCEPT ![c] = Append(@, AuthPacket)]

ClientEnds(c) ==
    /\ client[c] \in {"idle", "sending", "handshake", "auth", "connected"}
    /\ \E end \in {"failed", "closed"} : client' = [client EXCEPT ![c] = end]
    /\ UNCHANGED tcpVars

LEMMA ClientsDo ==
    ASSUME HandshakeInv, NEW c \in Clients,
           \/ ConnectTCPFails(c) \/ SendHandshake(c) \/ RecvHandshakeResponse(c)
           \/ RecvAuthResponse(c) \/ RecvFails(c) \/ RecvKeepalive(c) \/ Leave(c)
    PROVE  /\ ClientSends(c) \/ ClientReceives(c) \/ ClientEnds(c)
           /\ UNCHANGED serverVars
<1>1. UNCHANGED serverVars
  BY Zenon DEF ConnectTCPFails, SendHandshake, RecvHandshakeResponse, RecvAuthResponse,
     RecvFails, RecvKeepalive, Leave
<1>2. CASE ConnectTCPFails(c) \/ RecvFails(c) \/ Leave(c)
  BY <1>1, <1>2 DEF ConnectTCPFails, RecvFails, Leave, ClientEnds
<1>3. CASE SendHandshake(c)
  BY <1>1, <1>3, Zenon DEF SendHandshake, ClientSends
<1>4. CASE RecvHandshakeResponse(c) \/ RecvKeepalive(c)
  BY <1>1, <1>4, Zenon DEF RecvHandshakeResponse, RecvKeepalive, clientVars, ClientReceives
<1>5. CASE RecvAuthResponse(c)
  <2>1. Head(toClient[c]) \in Packets
    BY <1>5, HeadTailProperties DEF RecvAuthResponse, HandshakeInv, StreamsTyped
  <2>2. Head(toClient[c]).payload = 1 => Head(toClient[c]) = Response(1)
    BY <2>1, PacketsDiffer
  <2>3. QED BY <1>1, <1>5, <2>2, Zenon DEF RecvAuthResponse, ClientReceives
<1>6. QED BY <1>2, <1>3, <1>4, <1>5

\* Every step of the system is one of these.
LEMMA NextCases ==
    ASSUME HandshakeInv, [Next]_vars
    PROVE  \/ \E c \in Clients : /\ ClientSends(c) \/ ClientReceives(c) \/ ClientEnds(c)
                                 /\ UNCHANGED serverVars
           \/ \E c \in Clients : ConnectTCP(c)
           \/ \E c \in Clients : ServerReceive(c)
           \/ \E c \in Clients : ServerReceiveClosed(c)
           \/ Accept \/ Answers \/ Register
           \/ \E gone \in SUBSET MaybeSilent : KeepaliveRound(gone)
           \/ UNCHANGED vars
<1>1. CASE \E c \in Clients :
              \/ ConnectTCPFails(c) \/ SendHandshake(c) \/ RecvHandshakeResponse(c)
              \/ RecvAuthResponse(c) \/ RecvFails(c) \/ RecvKeepalive(c) \/ Leave(c)
  BY <1>1, ClientsDo
<1>2. QED BY <1>1, Zenon DEF Next, Answers, KeepaliveThread
-----------------------------------------------------------------------------
(***************************************************************************)
(* Types.                                                                  *)
(***************************************************************************)
LEMMA StreamsStep == HandshakeInv /\ [Next]_vars => StreamsTyped'
<1> SUFFICES ASSUME HandshakeInv, [Next]_vars PROVE StreamsTyped'
  OBVIOUS
<1> DEFINE ToServer == Seq({HandshakePacket, AuthPacket})
<1>0. toServer \in [Clients -> ToServer] /\ toClient \in [Clients -> Seq(Packets)]
  BY DEF HandshakeInv, StreamsTyped
<1> HIDE DEF ToServer
<1>t. /\ \A s \in ToServer : Append(s, AuthPacket) \in ToServer /\ (s # <<>> => Tail(s) \in ToServer)
      /\ <<HandshakePacket>> \in ToServer /\ <<HandshakePacket, AuthPacket>> \in ToServer
  BY HeadTailProperties, AppendProperties DEF ToServer
<1>c. \A s \in Seq(Packets) :
         /\ \A p \in {0, 1} : Append(s, Response(p)) \in Seq(Packets)
         /\ Append(s, Keepalive) \in Seq(Packets)
         /\ s # <<>> => Tail(s) \in Seq(Packets)
  BY HeadTailProperties, AppendProperties, PacketsDiffer
<1>1. SUFFICES toServer' \in [Clients -> ToServer] /\ toClient' \in [Clients -> Seq(Packets)]
  BY DEF StreamsTyped, ToServer
<1>2. CASE UNCHANGED tcpVars
  BY <1>0, <1>2 DEF tcpVars
<1>3. CASE \E c \in Clients : ClientSends(c) \/ ClientReceives(c) \/ ClientEnds(c)
  <2>1. PICK c \in Clients : ClientSends(c) \/ ClientReceives(c) \/ ClientEnds(c)
    BY <1>3
  <2>2. CASE ClientSends(c)
    BY <1>0, <1>t, <2>2 DEF ClientSends
  <2>3. CASE ClientReceives(c)
    <3>1. toClient' \in [Clients -> Seq(Packets)]
      BY <1>0, <1>c, <2>3 DEF ClientReceives
    <3>2. UNCHANGED toServer \/ toServer' = [toServer EXCEPT ![c] = Append(@, AuthPacket)]
      BY <2>3, Zenon DEF ClientReceives
    <3>3. toServer' \in [Clients -> ToServer]
      BY <1>0, <1>t, <3>2
    <3>4. QED BY <3>1, <3>3
  <2>4. QED BY <1>2, <2>1, <2>2, <2>3 DEF ClientEnds
<1>4. CASE \E c \in Clients : ServerReceive(c)
  BY <1>0, <1>t, <1>4 DEF ServerReceive
<1>5. CASE Answers
  <2>1. toServer' \in [Clients -> ToServer] /\ current \in Clients
    BY <1>0, <1>t, <1>5, AnswersDo
  <2>2. \/ UNCHANGED toClient
        \/ \E p \in {0, 1} : toClient' = [toClient EXCEPT ![current] = Append(@, Response(p))]
    BY <1>5, AnswersDo, Zenon DEF Refused, Accepted, Welcoming, Awaited
  <2>3. toClient' \in [Clients -> Seq(Packets)]
    BY <1>0, <1>c, <2>1, <2>2
  <2>4. QED BY <2>1, <2>3
<1>6. CASE \E gone \in SUBSET MaybeSilent : KeepaliveRound(gone)
  <2>1. \E f \in [Clients -> Seq(Packets)] : toClient' = f
    <3>1. PICK gone \in SUBSET MaybeSilent : KeepaliveRound(gone)
      BY <1>6
    <3>2. \A c \in Clients : toClient'[c] \in Seq(Packets)
      <4>1. \A c \in Clients : toClient'[c] \in {toClient[c], Append(toClient[c], Keepalive)}
        BY <3>1, KeepaliveDoes
      <4>2. QED BY <1>0, <1>c, <4>1
    <3>3. toClient' = [c \in Clients |-> toClient'[c]]
      BY <3>1, Zenon DEF KeepaliveRound
    <3>4. QED BY <3>2, <3>3
  <2>2. UNCHANGED toServer
    BY <1>6, KeepaliveDoes
  <2>3. QED BY <1>0, <2>1, <2>2
<1>7. QED
  BY <1>2, <1>3, <1>4, <1>5, <1>6, NextCases DEF ConnectTCP, ServerReceiveClosed, Accept,
     Register, vars

LEMMA ServerTypesStep == HandshakeInv /\ [Next]_vars => ServerTyped'
<1> SUFFICES ASSUME HandshakeInv, [Next]_vars PROVE ServerTyped'
  OBVIOUS
<1>0. ServerTyped
  BY DEF HandshakeInv
<1> USE HandshakeAssumption DEF ServerTyped
<1>n. None \notin Clients
  BY DEF HandshakeAssumption
<1>1. CASE UNCHANGED <<client, serverVars>>
  BY <1>0, <1>1 DEF serverVars
<1>2. CASE \E c \in Clients : /\ ClientSends(c) \/ ClientReceives(c) \/ ClientEnds(c)
                              /\ UNCHANGED serverVars
  BY <1>0, <1>2 DEF ClientSends, ClientReceives, ClientEnds, serverVars
<1>3. CASE \E c \in Clients : ConnectTCP(c)
  BY <1>0, <1>3 DEF ConnectTCP
<1>4. CASE \E c \in Clients : ServerReceiveClosed(c)
  BY <1>0, <1>4 DEF ServerReceiveClosed, clientVars
<1>5. CASE Accept
  <2>1. Head(backlog) \in Clients
    BY <1>5, HeadTailProperties DEF Accept, HandshakeInv, BacklogPlaced
  <2>2. /\ UNCHANGED <<client, clients, active, authenticated>>
        /\ acceptThread = "accept"
        /\ \/ /\ serverSocket' = [serverSocket EXCEPT ![Head(backlog)] = "closed"]
              /\ UNCHANGED <<acceptThread, current>>
           \/ /\ serverSocket' = [serverSocket EXCEPT ![Head(backlog)] = "open"]
              /\ acceptThread' = "handshake" /\ current' = Head(backlog)
    BY <1>5, Zenon DEF Accept, clientVars
  <2>3. QED BY <1>0, <1>n, <2>1, <2>2
<1>6. CASE Answers
  <2>1. /\ current \in Clients /\ acceptThread \in {"handshake", "auth"}
        /\ UNCHANGED <<client, clients, active>>
    BY <1>6, AnswersDo
  <2>2. CASE Refused
    BY <1>0, <2>1, <2>2 DEF Refused
  <2>3. CASE Accepted
    BY <1>0, <1>n, <2>1, <2>3 DEF Accepted, Welcoming
  <2>4. CASE Awaited
    BY <1>0, <2>1, <2>4 DEF Awaited
  <2>5. QED BY <1>6, <2>2, <2>3, <2>4, AnswersDo
<1>7. CASE Register
  BY <1>0, <1>7 DEF Register, clientVars
<1>8. CASE \E gone \in SUBSET MaybeSilent : KeepaliveRound(gone)
  <2>1. PICK gone \in SUBSET MaybeSilent : KeepaliveRound(gone)
    BY <1>8
  <2>2. serverSocket' \in [Clients -> {"none", "backlog", "open", "closed"}]
    BY <1>0, <2>1, Zenon DEF KeepaliveRound
  <2>3. QED BY <1>0, <2>1, <2>2, KeepaliveDoes
<1>9. QED
  BY <1>1, <1>2, <1>3, <1>4, <1>5, <1>6, <1>7, <1>8, NextCases DEF ServerReceive, clientVars, vars

LEMMA BacklogStep == HandshakeInv /\ [Next]_vars => BacklogPlaced'
<1> SUFFICES ASSUME HandshakeInv, [Next]_vars PROVE BacklogPlaced'
  OBVIOUS
<1>0. /\ BacklogPlaced /\ serverSocket \in [Clients -> {"none", "backlog", "open", "closed"}]
      /\ backlog \in Seq(Clients)
  BY DEF HandshakeInv, ServerTyped, BacklogPlaced
<1>l. Len(backlog) \in Nat /\ \A i \in 1..Len(backlog) : backlog[i] \in Clients
  BY <1>0, LenProperties
<1> USE DEF BacklogPlaced
<1>1. CASE UNCHANGED <<backlog, serverSocket>>
  BY <1>0, <1>1
<1>2. CASE \E c \in Clients : ConnectTCP(c)
  <2>1. PICK c \in Clients : ConnectTCP(c)
    BY <1>2
  <2>2. /\ backlog' = Append(backlog, c) /\ serverSocket[c] = "none"
        /\ serverSocket' = [serverSocket EXCEPT ![c] = "backlog"]
    BY <2>1 DEF ConnectTCP, HandshakeInv, Placed
  <2>3. /\ backlog' \in Seq(Clients) /\ Len(backlog') = Len(backlog) + 1
        /\ \A i \in 1..Len(backlog) : backlog'[i] = backlog[i]
        /\ backlog'[Len(backlog) + 1] = c
    BY <1>0, <2>2, AppendProperties
  <2>4. \A i \in 1..Len(backlog') : i \in 1..Len(backlog) \/ i = Len(backlog) + 1
    BY <1>l, <2>3
  <2>5. \A i \in 1..Len(backlog) : backlog[i] # c
    BY <1>0, <2>2
  <2>6. \A i \in 1..Len(backlog') : serverSocket'[backlog'[i]] = "backlog"
    BY <1>0, <1>l, <2>2, <2>3, <2>4
  <2>7. \A i, j \in 1..Len(backlog') : backlog'[i] = backlog'[j] => i = j
    BY <1>0, <2>3, <2>4, <2>5
  <2>8. QED BY <2>3, <2>6, <2>7
<1>3. CASE Accept
  <2>1. backlog # <<>> /\ backlog' = Tail(backlog)
    BY <1>3 DEF Accept
  <2>2. \A c \in Clients : c = Head(backlog) \/ serverSocket'[c] = serverSocket[c]
    BY <1>0, <1>3, Zenon DEF Accept
  <2>3. /\ backlog' \in Seq(Clients) /\ Len(backlog') = Len(backlog) - 1 /\ Len(backlog) # 0
        /\ \A i \in 1..Len(backlog') : backlog'[i] = backlog[i + 1]
        /\ Head(backlog) = backlog[1]
    BY <1>0, <2>1, HeadTailProperties, EmptySeq
  <2>4. \A i \in 1..Len(backlog') : i + 1 \in 1..Len(backlog) /\ i + 1 # 1
    BY <1>l, <2>3
  <2>5. 1 \in 1..Len(backlog)
    BY <1>l, <2>3
  <2>6. \A i \in 1..Len(backlog') : backlog'[i] \in Clients /\ backlog'[i] # Head(backlog)
    BY <1>0, <1>l, <2>3, <2>4, <2>5
  <2>7. \A i \in 1..Len(backlog') : serverSocket'[backlog'[i]] = "backlog"
    BY <1>0, <2>2, <2>3, <2>4, <2>6
  <2>8. \A i, j \in 1..Len(backlog') : backlog'[i] = backlog'[j] => i = j
    <3>1. SUFFICES ASSUME NEW i \in 1..Len(backlog'), NEW j \in 1..Len(backlog'),
                          backlog'[i] = backlog'[j]
                   PROVE  i = j
      OBVIOUS
    <3>2. i + 1 = j + 1
      BY <1>0, <2>3, <2>4, <3>1
    <3>3. QED BY <1>l, <2>3, <3>2
  <2>9. QED BY <2>3, <2>7, <2>8
<1>4. CASE UNCHANGED backlog /\ \A c \in Clients : serverSocket[c] = "backlog" => serverSocket'[c] = "backlog"
  BY <1>0, <1>l, <1>4
<1>5. CASE Answers
  <2>1. current \in Clients /\ UNCHANGED backlog /\ serverSocket[current] # "backlog"
    BY <1>5, AnswersDo DEF HandshakeInv, Placed
  <2>2. UNCHANGED serverSocket \/ serverSocket' = [serverSocket EXCEPT ![current] = "closed"]
    BY <1>5, AnswersDo, Zenon DEF Refused, Accepted, Welcoming, Awaited
  <2>3. QED BY <1>0, <1>4, <2>1, <2>2
<1>6. CASE \E gone \in SUBSET MaybeSilent : KeepaliveRound(gone)
  <2>1. PICK gone \in SUBSET MaybeSilent : KeepaliveRound(gone)
    BY <1>6
  <2>2. \A c \in gone : c \in Clients /\ serverSocket[c] # "backlog"
    BY <2>1, KeepaliveDoes DEF HandshakeInv, ServerTyped, Placed
  <2>3. QED BY <1>4, <2>1, <2>2, KeepaliveDoes
<1>7. QED
  BY <1>1, <1>2, <1>3, <1>5, <1>6, NextCases DEF ServerReceive, ServerReceiveClosed, Register,
     serverVars, vars
-----------------------------------------------------------------------------
(***************************************************************************)
(* What holds of each client.                                              *)
(***************************************************************************)
LEMMA CheckedStep ==
    ASSUME HandshakeInv, [Next]_vars, NEW c \in Clients
    PROVE  Checked(c)'
<1>1. (Authorised(c)' <=> Authorised(c)) /\ UNCHANGED outdated
  BY SettingsStep, AuthorisedStays
<1>2. Checked(c)
  BY DEF HandshakeInv
<1>3. CASE /\ UNCHANGED authenticated
           /\ UNCHANGED <<current, acceptThread>> \/ acceptThread' # "auth"
  BY <1>1, <1>2, <1>3, Zenon DEF Checked
<1>4. CASE Answers
  <2>1. CASE Accepted
    <3>1. acceptThread' # "auth" /\ authenticated' = authenticated \cup {current}
      BY <2>1 DEF Accepted, Welcoming
    <3>2. c \in authenticated' => Authorised(c)
      BY <1>2, <2>1, <3>1, Zenon DEF Checked, Accepted
    <3>3. QED BY <1>1, <3>1, <3>2, Zenon DEF Checked
  <2>2. CASE Awaited
    BY <1>1, <1>2, <2>2, Zenon DEF Checked, Awaited
  <2>3. CASE Refused
    BY <1>3, <2>3 DEF Refused
  <2>4. QED BY <1>4, <2>1, <2>2, <2>3, AnswersDo
<1>5. CASE Accept
  BY <1>3, <1>5 DEF Accept
<1>6. CASE Register
  BY <1>3, <1>6 DEF Register
<1>7. QED
  BY <1>3, <1>4, <1>5, <1>6, NextCases, KeepaliveDoes DEF ConnectTCP, ServerReceive,
     ServerReceiveClosed, serverVars, vars

LEMMA PlacedStep ==
    ASSUME HandshakeInv, [Next]_vars, NEW c \in Clients
    PROVE  Placed(c)'
<1>0. Placed(c) /\ ServerTyped /\ BacklogPlaced
  BY DEF HandshakeInv
<1>t. /\ serverSocket \in [Clients -> {"none", "backlog", "open", "closed"}]
      /\ client \in [Clients -> {"idle", "sending", "handshake", "auth",
                                 "connected", "failed", "closed"}]
      /\ None \notin Clients
  BY <1>0, HandshakeAssumption DEF ServerTyped, HandshakeAssumption
<1> USE DEF Placed
<1>1. CASE UNCHANGED <<client, serverSocket, authenticated, current>>
  BY <1>0, <1>1
<1>2. CASE \E d \in Clients : /\ ClientSends(d) \/ ClientReceives(d) \/ ClientEnds(d)
                              /\ UNCHANGED serverVars
  <2>1. client'[c] = client[c] \/ client'[c] # "idle"
    BY <1>t, <1>2 DEF ClientSends, ClientReceives, ClientEnds
  <2>2. UNCHANGED <<serverSocket, authenticated, current>>
    BY <1>2 DEF serverVars
  <2>3. QED BY <1>0, <2>1, <2>2
<1>3. CASE \E d \in Clients : ConnectTCP(d)
  <2>1. PICK d \in Clients : ConnectTCP(d)
    BY <1>3
  <2>2. /\ client' = [client EXCEPT ![d] = "sending"]
        /\ serverSocket' = [serverSocket EXCEPT ![d] = "backlog"]
        /\ UNCHANGED <<authenticated, current>>
        /\ client[d] = "idle"
    BY <2>1, Zenon DEF ConnectTCP
  <2>3. d \notin authenticated /\ d # current
    BY <2>2 DEF HandshakeInv
  <2>4. QED BY <1>0, <1>t, <2>2, <2>3
<1>4. CASE Accept
  <2>1. backlog # <<>> /\ Head(backlog) \in Clients /\ Head(backlog) = backlog[1]
    BY <1>0, <1>4, HeadTailProperties DEF Accept, BacklogPlaced
  <2>2. 1 \in 1..Len(backlog)
    BY <1>0, <2>1, EmptySeq DEF BacklogPlaced
  <2>3. /\ client' = client /\ authenticated' = authenticated
        /\ \/ /\ serverSocket' = [serverSocket EXCEPT ![Head(backlog)] = "closed"]
              /\ current' = current
           \/ /\ serverSocket' = [serverSocket EXCEPT ![Head(backlog)] = "open"]
              /\ current' = Head(backlog)
    BY <1>4, Zenon DEF Accept, clientVars
  <2>4. client[Head(backlog)] # "idle"
    BY <2>1, <2>2 DEF HandshakeInv, BacklogPlaced
  <2>5. QED BY <1>0, <1>t, <2>1, <2>3, <2>4
<1>5. CASE Answers
  <2>1. /\ current \in Clients /\ UNCHANGED client
        /\ serverSocket[current] \notin {"none", "backlog"}
    BY <1>5, AnswersDo DEF HandshakeInv
  <2>2. CASE Refused
    <3>1. client[current] # "idle"
      BY <2>1 DEF HandshakeInv
    <3>2. QED BY <1>0, <1>t, <2>1, <2>2, <3>1 DEF Refused
  <2>3. CASE Accepted
    BY <1>0, <2>1, <2>3 DEF Accepted, Welcoming
  <2>4. CASE Awaited
    BY <1>0, <2>1, <2>4 DEF Awaited
  <2>5. QED BY <1>5, <2>2, <2>3, <2>4, AnswersDo
<1>6. CASE Register
  BY <1>0, <1>t, <1>6 DEF Register, clientVars
<1>7. CASE \E gone \in SUBSET MaybeSilent : KeepaliveRound(gone)
  <2>1. PICK gone \in SUBSET MaybeSilent : KeepaliveRound(gone)
    BY <1>7
  <2>2. c \in gone => c \in authenticated
    BY <1>0, <2>1, KeepaliveDoes DEF ServerTyped
  <2>3. UNCHANGED <<client, authenticated, current>>
    BY <2>1, KeepaliveDoes
  <2>4. serverSocket'[c] = IF c \in gone THEN "closed" ELSE serverSocket[c]
    BY <2>1, KeepaliveDoes
  <2>5. QED BY <1>0, <2>2, <2>3, <2>4
<1>8. QED
  BY <1>1, <1>2, <1>3, <1>4, <1>5, <1>6, <1>7, NextCases DEF ServerReceive,
     ServerReceiveClosed, clientVars, serverVars, vars

\* What a step may do to the two streams of c and to what the client makes of
\* them.
LEMMA AskedStep ==
    ASSUME HandshakeInv, [Next]_vars, NEW c \in Clients
    PROVE  Asked(c)'
<1>0. /\ Asked(c) /\ current \in Clients \cup {None}
      /\ toServer \in [Clients -> Seq({HandshakePacket, AuthPacket})]
      /\ toClient \in [Clients -> Seq(Packets)]
      /\ client \in [Clients -> {"idle", "sending", "handshake", "auth",
                                 "connected", "failed", "closed"}]
  BY DEF HandshakeInv, StreamsTyped, ServerTyped
<1>p. /\ toServer[c] \in Seq({HandshakePacket, AuthPacket})
      /\ toClient[c] \in Seq(Packets)
  BY <1>0
\* It is enough that nothing came in but what c may have.
<1>s. SUFFICES /\ authenticated \subseteq authenticated'
               /\ Has(toServer'[c], AuthPacket) =>
                     Has(toServer[c], AuthPacket) \/ c \in Eager \cup authenticated'
               /\ Welcomed(c)' => Welcomed(c) \/ c \in authenticated'
  BY <1>0, Zenon DEF Asked
<1> USE DEF Welcomed
<1>1. CASE UNCHANGED <<client, tcpVars, authenticated>>
  BY <1>1 DEF tcpVars
<1>2. CASE \E d \in Clients : /\ ClientSends(d) \/ ClientReceives(d) \/ ClientEnds(d)
                              /\ UNCHANGED serverVars
  <2>1. PICK d \in Clients : ClientSends(d) \/ ClientReceives(d) \/ ClientEnds(d)
    BY <1>2
  <2>2. UNCHANGED authenticated
    BY <1>2 DEF serverVars
  <2>3. CASE d # c
    <3>1. client'[c] = client[c] /\ toServer'[c] = toServer[c] /\ toClient'[c] = toClient[c]
      BY <1>0, <2>1, <2>3 DEF ClientSends, ClientReceives, ClientEnds, tcpVars
    <3>2. QED BY <2>2, <3>1
  <2>4. CASE d = c /\ ClientSends(c)
    <3>1. /\ client'[c] = "handshake" /\ UNCHANGED toClient
          /\ toServer'[c] = IF c \in Eager THEN <<HandshakePacket, AuthPacket>>
                                          ELSE <<HandshakePacket>>
      BY <1>0, <2>4 DEF ClientSends
    <3>2. Has(toServer'[c], AuthPacket) => c \in Eager
      BY <3>1, HasOneTwo, PacketsDiffer
    <3>3. QED BY <2>2, <3>1, <3>2
  <2>5. CASE d = c /\ ClientReceives(c)
    <3>1. toClient[c] # <<>> /\ toClient'[c] = Tail(toClient[c])
      BY <1>0, <2>5 DEF ClientReceives
    <3>2. Has(toClient'[c], Response(1)) => Has(toClient[c], Response(1))
      BY <1>p, <3>1, HasTail
    <3>3. Has(toClient[c], Head(toClient[c]))
      BY <1>p, <3>1, HasHead
    <3>4. \/ client'[c] = client[c] /\ toServer'[c] = toServer[c]
          \/ client'[c] = "failed" /\ toServer'[c] = toServer[c]
          \/ Head(toClient[c]) = Response(1) /\ toServer'[c] = toServer[c]
          \/ Head(toClient[c]) = Response(1)
      BY <1>0, <2>5 DEF ClientReceives
    <3>5. Head(toClient[c]) = Response(1) => c \in authenticated
      BY <1>0, <3>3, Zenon DEF Asked
    <3>6. QED BY <2>2, <3>2, <3>4, <3>5
  <2>6. CASE d = c /\ ClientEnds(c)
    BY <1>0, <2>2, <2>6 DEF ClientEnds, tcpVars
  <2>7. QED BY <2>1, <2>3, <2>4, <2>5, <2>6
<1>3. CASE \E d \in Clients : ConnectTCP(d)
  BY <1>0, <1>3 DEF ConnectTCP, tcpVars
<1>4. CASE \E d \in Clients : ServerReceive(d)
  <2>1. PICK d \in Clients : ServerReceive(d)
    BY <1>4
  <2>2. UNCHANGED <<client, toClient, authenticated>>
    BY <2>1, Zenon DEF ServerReceive, clientVars, serverVars
  <2>3. toServer'[c] = toServer[c] \/ (toServer[c] # <<>> /\ toServer'[c] = Tail(toServer[c]))
    BY <1>0, <2>1 DEF ServerReceive
  <2>4. Has(toServer'[c], AuthPacket) => Has(toServer[c], AuthPacket)
    BY <1>p, <2>3, HasTail
  <2>5. QED BY <2>2, <2>4
<1>5. CASE Answers
  <2>1. current \in Clients /\ UNCHANGED client
    BY <1>5, AnswersDo
  <2>2. toServer'[c] = toServer[c] \/ (toServer[c] # <<>> /\ toServer'[c] = Tail(toServer[c]))
    BY <1>0, <1>5, AnswersDo
  <2>3. Has(toServer'[c], AuthPacket) => Has(toServer[c], AuthPacket)
    BY <1>p, <2>2, HasTail
  <2>4. /\ authenticated \subseteq authenticated'
        /\ \/ toClient'[c] = toClient[c]
           \/ toClient'[c] = Append(toClient[c], Response(0))
           \/ c \in authenticated'
    <3>1. CASE Refused
      BY <1>0, <2>1, <3>1 DEF Refused
    <3>2. CASE Accepted
      BY <1>0, <2>1, <3>2 DEF Accepted, Welcoming
    <3>3. CASE Awaited
      BY <3>3 DEF Awaited
    <3>4. QED BY <1>5, <3>1, <3>2, <3>3, AnswersDo
  <2>a. Has(Append(toClient[c], Response(0)), Response(1)) => Has(toClient[c], Response(1))
    BY <1>p, HasAppend, PacketsDiffer
  <2>5. Has(toClient'[c], Response(1)) => Has(toClient[c], Response(1)) \/ c \in authenticated'
    BY <2>4, <2>a, Zenon
  <2>6. QED BY <2>1, <2>3, <2>4, <2>5
<1>6. CASE \E gone \in SUBSET MaybeSilent : KeepaliveRound(gone)
  <2>1. /\ UNCHANGED <<client, toServer, authenticated>>
        /\ toClient'[c] \in {toClient[c], Append(toClient[c], Keepalive)}
    BY <1>6, KeepaliveDoes
  <2>2. Has(toClient'[c], Response(1)) => Has(toClient[c], Response(1))
    BY <1>p, <2>1, HasAppend, PacketsDiffer
  <2>3. QED BY <2>1, <2>2
<1>7. CASE Accept \/ Register \/ \E d \in Clients : ServerReceiveClosed(d)
  BY <1>1, <1>7, Zenon DEF Accept, Register, ServerReceiveClosed, clientVars
<1>8. CASE UNCHANGED vars
  BY <1>1, <1>8, Zenon DEF vars, clientVars, serverVars
<1>9. QED
  BY <1>2, <1>3, <1>4, <1>5, <1>6, <1>7, <1>8, NextCases

\* What c was told, and whether the host serves it, agree after every step.
LEMMA AgreedStep ==
    ASSUME HandshakeInv, [Next]_vars, NEW c \in Clients
    PROVE  Agreed(c)'
<1>0. /\ Agreed(c) /\ Placed(c) /\ Asked(c) /\ ServerTyped
      /\ toClient \in [Clients -> Seq(Packets)] /\ toClient[c] \in Seq(Packets)
  BY DEF HandshakeInv, StreamsTyped
<1>t. /\ serverSocket \in [Clients -> {"none", "backlog", "open", "closed"}]
      /\ client \in [Clients -> {"idle", "sending", "handshake", "auth",
                                 "connected", "failed", "closed"}]
      /\ clients \subseteq authenticated /\ c # None
      /\ current = None <=> acceptThread = "accept"
  BY <1>0, HandshakeAssumption DEF ServerTyped, HandshakeAssumption
\* A connection in the backlog was told nothing.
<1>b. serverSocket[c] \in {"none", "backlog"} => ~Welcomed(c) /\ c \notin clients
  BY <1>0, <1>t DEF Placed, Asked
<1>1. ASSUME ~ClientClosed(c)' /\ Welcomed(c)' => Welcomed(c) /\ ~ClientClosed(c),
             ClientClosed(c) => ClientClosed(c)',
             Served(c) => Served(c)',
             c \in (clients \ active)' => c \in clients \ active \/ ClientClosed(c)',
             serverSocket[c] = "closed" => serverSocket'[c] = "closed"
      PROVE  Agreed(c)'
  BY <1>0, <1>1, Zenon DEF Agreed
<1>2. CASE \E d \in Clients : /\ ClientSends(d) \/ ClientReceives(d) \/ ClientEnds(d)
                              /\ UNCHANGED serverVars
  <2>1. PICK d \in Clients : ClientSends(d) \/ ClientReceives(d) \/ ClientEnds(d)
    BY <1>2
  <2>2. UNCHANGED <<Served(c), clients, active, serverSocket>>
    BY <1>2 DEF serverVars, Served
  <2>3. CASE d # c
    <3>1. client'[c] = client[c] /\ toClient'[c] = toClient[c]
      BY <1>0, <1>t, <2>1, <2>3 DEF ClientSends, ClientReceives, ClientEnds, tcpVars
    <3>2. QED BY <1>1, <2>2, <3>1 DEF Welcomed, ClientClosed
  <2>4. CASE d = c /\ ClientSends(c)
    <3>1. client[c] = "sending" /\ client'[c] = "handshake" /\ toClient' = toClient
      BY <1>t, <2>4 DEF ClientSends
    <3>2. QED BY <1>1, <2>2, <3>1 DEF Welcomed, ClientClosed
  <2>5. CASE d = c /\ ClientReceives(c)
    <3>1. /\ toClient[c] # <<>> /\ toClient'[c] = Tail(toClient[c]) /\ ~ClientClosed(c)
          /\ \/ client'[c] = client[c]
             \/ client'[c] = "failed"
             \/ Head(toClient[c]) = Response(1)
      BY <1>0, <1>t, <2>5 DEF ClientReceives, ClientClosed
    <3>2. Has(toClient'[c], Response(1)) => Has(toClient[c], Response(1))
      BY <1>0, <3>1, HasTail
    <3>3. Has(toClient[c], Head(toClient[c]))
      BY <1>0, <3>1, HasHead
    <3>4. ~ClientClosed(c)' /\ Welcomed(c)' => Welcomed(c)
      BY <3>1, <3>2, <3>3 DEF Welcomed, ClientClosed
    <3>5. QED BY <1>1, <2>2, <3>1, <3>4
  <2>6. CASE d = c /\ ClientEnds(c)
    <3>1. ClientClosed(c)'
      BY <1>t, <2>6 DEF ClientEnds, ClientClosed
    <3>2. QED BY <1>1, <2>2, <3>1
  <2>7. QED BY <2>1, <2>3, <2>4, <2>5, <2>6
<1>3. CASE \E d \in Clients : ConnectTCP(d)
  <2>1. PICK d \in Clients : ConnectTCP(d)
    BY <1>3
  <2>2. /\ client[d] = "idle" /\ client' = [client EXCEPT ![d] = "sending"]
        /\ serverSocket' = [serverSocket EXCEPT ![d] = "backlog"]
        /\ UNCHANGED <<toClient, clients, active, current, acceptThread>>
    BY <2>1, Zenon DEF ConnectTCP, tcpVars
  <2>3. CASE d = c
    <3>1. client'[c] = "sending"
      BY <1>t, <2>2, <2>3
    <3>2. ~Welcomed(c) /\ c \notin clients
      BY <1>0, <1>b, <2>2, <2>3 DEF Placed
    <3>3. ~Welcomed(c)' /\ c \notin clients'
      BY <2>2, <3>1, <3>2 DEF Welcomed
    <3>4. QED BY <3>3 DEF Agreed
  <2>4. CASE d # c
    <3>1. client'[c] = client[c] /\ serverSocket'[c] = serverSocket[c]
      BY <1>t, <2>2, <2>4
    <3>2. QED BY <1>1, <2>2, <3>1 DEF Welcomed, ClientClosed, Served
  <2>5. QED BY <2>3, <2>4
<1>4. CASE \E d \in Clients : ServerReceive(d)
  <2>1. UNCHANGED <<client, toClient, serverVars>>
    BY <1>4 DEF ServerReceive, clientVars
  <2>2. QED BY <1>1, <2>1 DEF Welcomed, ClientClosed, Served, serverVars
<1>5. CASE \E d \in Clients : ServerReceiveClosed(d)
  <2>1. PICK d \in Clients : ServerReceiveClosed(d)
    BY <1>5
  <2>2. /\ UNCHANGED <<client, toClient, serverSocket, acceptThread, current, clients>>
        /\ active' = active \ {d} /\ ClientClosed(d)
    BY <2>1, Zenon DEF ServerReceiveClosed, clientVars, tcpVars
  <2>3. QED BY <1>1, <2>2 DEF Welcomed, ClientClosed, Served
<1>6. CASE Accept
  <2>1. /\ Head(backlog) \in Clients /\ serverSocket[Head(backlog)] = "backlog"
    <3>1. backlog # <<>> /\ backlog \in Seq(Clients)
      BY <1>6 DEF Accept, HandshakeInv, BacklogPlaced
    <3>2. 1 \in 1..Len(backlog) /\ Head(backlog) = backlog[1] /\ Head(backlog) \in Clients
      BY <3>1, EmptySeq, HeadTailProperties
    <3>3. QED BY <3>2 DEF HandshakeInv, BacklogPlaced
  <2>2. /\ UNCHANGED <<client, toClient, clients, active>> /\ acceptThread = "accept"
        /\ \/ serverSocket' = [serverSocket EXCEPT ![Head(backlog)] = "closed"]
           \/ serverSocket' = [serverSocket EXCEPT ![Head(backlog)] = "open"]
    BY <1>6, Zenon DEF Accept, clientVars, tcpVars
  <2>3. CASE c = Head(backlog)
    <3>1. ~Welcomed(c) /\ c \notin clients
      BY <1>b, <2>1, <2>3
    <3>2. QED BY <2>2, <3>1 DEF Agreed, Welcomed
  <2>4. CASE c # Head(backlog)
    <3>1. serverSocket'[c] = serverSocket[c]
      BY <1>t, <2>1, <2>2, <2>4
    <3>2. QED BY <1>1, <2>2, <3>1 DEF Welcomed, ClientClosed, Served
  <2>5. QED BY <2>3, <2>4
<1>7. CASE Answers
  <2>1. /\ current \in Clients /\ acceptThread # "register"
        /\ UNCHANGED <<client, clients, active>>
    BY <1>7, AnswersDo
  <2>2. /\ c # current => toClient'[c] = toClient[c] /\ serverSocket'[c] = serverSocket[c]
        /\ serverSocket[c] = "closed" => serverSocket'[c] = "closed"
        /\ c = current => Served(c)' \/ toClient'[c] = toClient[c]
        /\ Served(c) => Served(c)'
    <3>1. CASE Refused
      BY <1>0, <1>t, <2>1, <3>1 DEF Refused, Served
    <3>2. CASE Accepted
      BY <1>0, <1>t, <2>1, <3>2 DEF Accepted, Welcoming, Served
    <3>3. CASE Awaited
      BY <1>0, <1>t, <2>1, <3>3 DEF Awaited, Served
    <3>4. QED BY <1>7, <3>1, <3>2, <3>3, AnswersDo
  <2>3. CASE toClient'[c] = toClient[c]
    BY <1>1, <2>1, <2>2, <2>3 DEF Welcomed, ClientClosed
  <2>4. CASE Served(c)'
    <3>1. c \in (clients \ active)' => ClientClosed(c)' \/ serverSocket'[c] = "closed"
      BY <1>0, <2>1, <2>2 DEF Agreed, ClientClosed
    <3>2. QED BY <2>4, <3>1, Zenon DEF Agreed
  <2>5. QED BY <2>2, <2>3, <2>4
<1>8. CASE Register
  <2>1. /\ UNCHANGED <<client, toClient, serverSocket>>
        /\ clients' = clients \cup {current} /\ active' = active \cup {current}
    BY <1>8, Zenon DEF Register, clientVars, tcpVars
  <2>2. Served(c) => Served(c)'
    BY <2>1 DEF Served
  <2>3. QED BY <1>1, <2>1, <2>2 DEF Welcomed, ClientClosed
<1>9. CASE \E gone \in SUBSET MaybeSilent : KeepaliveRound(gone)
  <2>1. PICK gone \in SUBSET MaybeSilent : KeepaliveRound(gone)
    BY <1>9
  <2>2. /\ UNCHANGED <<client, acceptThread, current>>
        /\ clients' = clients \ (gone \cup (clients \ active)) /\ active' = active \ gone
        /\ toClient'[c] \in {toClient[c], Append(toClient[c], Keepalive)}
        /\ serverSocket'[c] = IF c \in gone THEN "closed" ELSE serverSocket[c]
    BY <2>1, KeepaliveDoes
  <2>a. Has(Append(toClient[c], Keepalive), Response(1)) => Has(toClient[c], Response(1))
    BY <1>0, HasAppend, PacketsDiffer
  <2>3. Has(toClient'[c], Response(1)) => Has(toClient[c], Response(1))
    BY <2>2, <2>a, Zenon
  <2>4. Welcomed(c)' => Welcomed(c)
    BY <2>2, <2>3 DEF Welcomed
  <2>5. (ClientClosed(c)' <=> ClientClosed(c)) /\ c \notin (clients \ active)'
    BY <2>2 DEF ClientClosed
  <2>6. Served(c) /\ c \notin clients \ active => Served(c)'
    BY <2>2 DEF Served
  <2>7. c \in clients \ active => ClientClosed(c) \/ Served(c)'
    BY <1>0, <2>2 DEF Agreed, Served
  <2>8. QED BY <1>0, <2>4, <2>5, <2>6, <2>7, Zenon DEF Agreed
<1>10. CASE UNCHANGED vars
  BY <1>1, <1>10 DEF vars, clientVars, tcpVars, serverVars, Welcomed, ClientClosed, Served
<1>11. QED
  BY <1>2, <1>3, <1>4, <1>5, <1>6, <1>7, <1>8, <1>9, <1>10, NextCases
-----------------------------------------------------------------------------
LEMMA HandshakeStarts == Init => HandshakeInv
<1> SUFFICES ASSUME Init PROVE HandshakeInv
  OBVIOUS
<1>1. SettingsTyped
  BY DEF Init, SettingsTyped
<1>2. StreamsTyped
  BY DEF Init, StreamsTyped
<1>3. ServerTyped
  BY HandshakeAssumption DEF Init, ServerTyped, HandshakeAssumption
<1>4. BacklogPlaced
  BY EmptySeq DEF Init, BacklogPlaced
<1>5. ASSUME NEW c \in Clients PROVE Checked(c) /\ Placed(c) /\ Asked(c) /\ Agreed(c)
  <2>1. ~Welcomed(c) /\ ~Has(toServer[c], AuthPacket)
    BY HasEmpty DEF Init, Welcomed
  <2>2. /\ c \notin authenticated /\ c \notin clients /\ acceptThread = "accept"
        /\ serverSocket[c] = "none" /\ c # current
    BY HandshakeAssumption DEF Init, HandshakeAssumption
  <2>3. QED BY <2>1, <2>2 DEF Checked, Placed, Asked, Agreed
<1>6. QED BY <1>1, <1>2, <1>3, <1>4, <1>5 DEF HandshakeInv

LEMMA HandshakeStep == HandshakeInv /\ [Next]_vars => HandshakeInv'
<1> SUFFICES ASSUME HandshakeInv, [Next]_vars PROVE HandshakeInv'
  OBVIOUS
<1>1. SettingsTyped'
  BY SettingsStep, Zenon DEF HandshakeInv, SettingsTyped, settings
<1>2. \A c \in Clients : Checked(c)' /\ Placed(c)' /\ Asked(c)' /\ Agreed(c)'
  BY CheckedStep, PlacedStep, AskedStep, AgreedStep
<1>3. QED
  BY <1>1, <1>2, StreamsStep, ServerTypesStep, BacklogStep, Zenon DEF HandshakeInv

LEMMA HandshakeInvariant == Spec => []HandshakeInv
BY HandshakeStarts, HandshakeStep, PTL DEF Spec

\* The streams, the backlog and the states of Connect, HandleHandshake and the
\* two client lists stay within what the code knows.
THEOREM HandshakeTyped == Spec => []TypeOK
<1>1. HandshakeInv => TypeOK
  BY DEF HandshakeInv, SettingsTyped, StreamsTyped, ServerTyped, BacklogPlaced, TypeOK
<1>2. QED BY <1>1, HandshakeInvariant, PTL

\* HandleHandshake and HandleAuth let nobody in with an old version or, when a
\* password is asked for, with a wrong one.
THEOREM OnlyAuthorisedAccepted == Spec => []OnlyAuthorised
<1>1. HandshakeInv => OnlyAuthorised
  BY DEF HandshakeInv, ServerTyped, Checked, Authorised, OnlyAuthorised
<1>2. QED BY <1>1, HandshakeInvariant, PTL

\* A client for which Connect returned true is served, is about to be, or has
\* had its connection closed by the host.
THEOREM AcceptedAreServed == Spec => []ConnectedIsServed
<1>1. HandshakeInv => ConnectedIsServed
  BY DEF HandshakeInv, Agreed, Welcomed, Served, ClientClosed, ConnectedIsServed
<1>2. QED BY <1>1, HandshakeInvariant, PTL

\* With a password required, a client that waits for the handshake response
\* before it authenticates never gets in, whatever its password.
THEOREM AuthAlwaysShutsOut == Spec => []AuthShutsOut
<1>1. HandshakeInv => AuthShutsOut
  BY DEF HandshakeInv, ServerTyped, Checked, Authorised, AuthShutsOut
<1>2. QED BY <1>1, HandshakeInvariant, PTL

\* What ConnectedIsServed leaves to the client: with a password required, one
\* that waits for the handshake response is not even asked for the password.
THEOREM NobodyWaitsForAuth ==
    Spec => [](requireAuth => \A c \in Clients \ Eager : client[c] \notin {"auth", "connected"})
<1>1. HandshakeInv
        => (requireAuth => \A c \in Clients \ Eager : client[c] \notin {"auth", "connected"})
  BY Zenon DEF HandshakeInv, Checked, Authorised, Asked, Welcomed
<1>2. QED BY <1>1, HandshakeInvariant, PTL
-----------------------------------------------------------------------------
(***************************************************************************)
(* Places in the clients vector.                                           *)
(***************************************************************************)
\* Between the look at the vector's size and the insertion, which are two
\* critical sections, nobody else takes the place.
PlaceKept ==
    /\ IsFiniteSet(clients) /\ Cardinality(clients) <= MaxClients
    /\ current # None => Cardinality(clients) < MaxClients

LEMMA FewerClients ==
    ASSUME IsFiniteSet(clients), NEW S, S \subseteq clients
    PROVE  IsFiniteSet(S) /\ Cardinality(S) <= Cardinality(clients)
BY FS_Subset

LEMMA PlaceStep == HandshakeInv /\ PlaceKept /\ [Next]_vars => PlaceKept'
<1> SUFFICES ASSUME HandshakeInv, PlaceKept, [Next]_vars PROVE PlaceKept'
  OBVIOUS
<1> USE HandshakeAssumption DEF HandshakeAssumption
<1>1. Cardinality(clients) \in Nat /\ MaxClients \in Nat /\ None \notin Clients
  BY FS_CardinalityType DEF PlaceKept
<1>2. CASE UNCHANGED <<clients, current>>
  BY <1>2 DEF PlaceKept
<1>3. CASE Accept
  <2>1. UNCHANGED clients
    BY <1>3 DEF Accept
  <2>2. current' # current => Cardinality(clients) < MaxClients
    BY <1>1, <1>3 DEF Accept, Full
  <2>3. QED BY <2>1, <2>2 DEF PlaceKept
<1>4. CASE Answers
  <2>1. UNCHANGED clients /\ current' \in {current, None}
    BY <1>4, AnswersDo DEF Refused, Accepted, Welcoming, Awaited
  <2>2. QED BY <2>1 DEF PlaceKept
<1>5. CASE Register
  <2>1. current # None /\ current' = None /\ clients' = clients \cup {current}
    BY <1>5 DEF Register, HandshakeInv, ServerTyped
  <2>2. /\ IsFiniteSet(clients \cup {current})
        /\ \/ Cardinality(clients \cup {current}) = Cardinality(clients)
           \/ Cardinality(clients \cup {current}) = Cardinality(clients) + 1
    BY FS_AddElement DEF PlaceKept
  <2>3. Cardinality(clients) < MaxClients
    BY <2>1 DEF PlaceKept
  <2>4. Cardinality(clients') <= MaxClients
    BY <1>1, <2>1, <2>2, <2>3
  <2>5. QED BY <2>1, <2>2, <2>4 DEF PlaceKept
<1>6. CASE \E gone \in SUBSET MaybeSilent : KeepaliveRound(gone)
  <2>1. UNCHANGED current /\ clients' \subseteq clients
    BY <1>6, KeepaliveDoes
  <2>2. IsFiniteSet(clients') /\ Cardinality(clients') <= Cardinality(clients)
    BY <2>1, FewerClients DEF PlaceKept
  <2>3. Cardinality(clients') \in Nat
    BY <2>2, FS_CardinalityType
  <2>4. QED BY <1>1, <2>1, <2>2, <2>3 DEF PlaceKept
<1>7. CASE UNCHANGED serverVars
  BY <1>2, <1>7 DEF serverVars
<1>8. CASE \E c \in Clients : ConnectTCP(c) \/ ServerReceive(c) \/ ServerReceiveClosed(c)
  BY <1>2, <1>8 DEF ConnectTCP, ServerReceive, ServerReceiveClosed, serverVars
<1>9. CASE UNCHANGED vars
  BY <1>7, <1>9 DEF vars
<1>10. QED BY <1>3, <1>4, <1>5, <1>6, <1>7, <1>8, <1>9, NextCases

\* The host never serves more than maxClients clients, although AcceptThread
\* takes clientsMutex to look for room, gives it back for the handshake, and
\* takes it again to insert the client.
THEOREM NeverOverfull == Spec => [](Cardinality(clients) <= MaxClients)
<1>1. Init => PlaceKept
  BY FS_EmptySet, HandshakeAssumption DEF HandshakeAssumption, Init, PlaceKept
<1>2. PlaceKept => Cardinality(clients) <= MaxClients
  BY DEF PlaceKept
<1>3. QED BY <1>1, <1>2, PlaceStep, HandshakeStarts, HandshakeStep, PTL DEF Spec
-----------------------------------------------------------------------------
(***************************************************************************)
(* Clients with a password.                                                *)
(***************************************************************************)
\* p is at most once in the stream s.
Unique(s, p) == \A i, j \in 1..Len(s) : s[i] = p /\ s[j] = p => i = j

LEMMA UniqueAppend ==
    ASSUME NEW S, NEW s \in Seq(S), NEW e \in S, NEW p, Unique(s, p), e # p \/ ~Has(s, p)
    PROVE  Unique(Append(s, e), p)
<1>1. Len(s) \in Nat /\ Len(Append(s, e)) = Len(s) + 1
      /\ Append(s, e)[Len(s) + 1] = e
      /\ \A i \in 1..Len(s) : Append(s, e)[i] = s[i]
  BY AppendProperties, LenProperties
<1>2. SUFFICES ASSUME NEW i \in 1..Len(Append(s, e)), NEW j \in 1..Len(Append(s, e)),
                      Append(s, e)[i] = p, Append(s, e)[j] = p
               PROVE  i = j
  BY DEF Unique
<1>3. CASE i \in 1..Len(s) /\ j \in 1..Len(s)
  BY <1>1, <1>2, <1>3 DEF Unique
<1>4. CASE i \in 1..Len(s) /\ j = Len(s) + 1
  BY <1>1, <1>2, <1>4 DEF Has
<1>5. CASE i = Len(s) + 1 /\ j \in 1..Len(s)
  BY <1>1, <1>2, <1>5 DEF Has
<1>6. QED BY <1>1, <1>3, <1>4, <1>5

LEMMA UniqueTail ==
    ASSUME NEW S, NEW s \in Seq(S), s # <<>>, NEW p, Unique(s, p)
    PROVE  /\ Unique(Tail(s), p)
           /\ Head(s) = p => ~Has(Tail(s), p)
<1>1. /\ Len(Tail(s)) = Len(s) - 1 /\ Len(s) \in Nat /\ Len(s) # 0 /\ Head(s) = s[1]
      /\ \A i \in 1..Len(Tail(s)) : Tail(s)[i] = s[i + 1]
  BY HeadTailProperties, LenProperties, EmptySeq
<1>2. \A i \in 1..Len(Tail(s)) : i + 1 \in 1..Len(s) /\ i + 1 # 1
  BY <1>1
<1>3. ASSUME NEW i \in 1..Len(Tail(s)), NEW j \in 1..Len(Tail(s)), Tail(s)[i] = p, Tail(s)[j] = p
      PROVE  i = j
  <2>1. i + 1 = j + 1
    BY <1>1, <1>2, <1>3 DEF Unique
  <2>2. QED BY <2>1
<1>4. ASSUME Head(s) = p, NEW i \in 1..Len(Tail(s)), Tail(s)[i] = p PROVE FALSE
  <2>1. 1 \in 1..Len(s)
    BY <1>1
  <2>2. QED BY <1>1, <1>2, <1>4, <2>1 DEF Unique
<1>5. QED BY <1>3, <1>4 DEF Unique, Has

\* c is told once that it is accepted: a second answer of 1, which
\* Authenticate waits for, never comes.
ToldOnce(c) ==
    /\ c \in authenticated /\ c = current => acceptThread = "register"
    /\ Unique(toClient[c], Response(1))
    /\ client[c] = "auth" => ~Has(toClient[c], Response(1))
    /\ c \notin Eager /\ password[c] # NoPassword => client[c] # "connected"

\* What a step can do to the stream to c.
LEMMA ToClientSteps ==
    ASSUME HandshakeInv, [Next]_vars, NEW c \in Clients, ToldOnce(c)
    PROVE  \/ toClient'[c] = toClient[c]
           \/ toClient[c] # <<>> /\ toClient'[c] = Tail(toClient[c])
           \/ \E p \in {Keepalive, Response(0)} : toClient'[c] = Append(toClient[c], p)
           \/ toClient'[c] = Append(toClient[c], Response(1)) /\ c \notin authenticated
<1>0. toClient \in [Clients -> Seq(Packets)]
  BY DEF HandshakeInv, StreamsTyped
<1>1. CASE Answers
  <2>1. current \in Clients /\ acceptThread \in {"handshake", "auth"}
        /\ (Refused \/ Accepted \/ Awaited)
    BY <1>1, AnswersDo
  <2>2. CASE Accepted
    <3>1. toClient' = [toClient EXCEPT ![current] = Append(@, Response(1))]
      BY <2>2 DEF Accepted, Welcoming
    <3>2. CASE c = current
      BY <1>0, <2>1, <3>1, <3>2 DEF ToldOnce
    <3>3. CASE c # current
      BY <1>0, <3>1, <3>3
    <3>4. QED BY <3>2, <3>3
  <2>3. CASE Refused \/ Awaited
    BY <1>0, <2>3, Zenon DEF Refused, Awaited
  <2>4. QED BY <2>1, <2>2, <2>3
<1>2. CASE \E d \in Clients : ClientSends(d) \/ ClientReceives(d) \/ ClientEnds(d)
  BY <1>0, <1>2, Zenon DEF ClientSends, ClientReceives, ClientEnds, tcpVars
<1>3. CASE \E gone \in SUBSET MaybeSilent : KeepaliveRound(gone)
  BY <1>3, KeepaliveDoes
<1>4. CASE UNCHANGED toClient
  BY <1>4
<1>5. QED
  BY <1>1, <1>2, <1>3, <1>4, NextCases
  DEF ConnectTCP, ServerReceive, ServerReceiveClosed, Accept, Register, tcpVars, vars

\* How Connect gets on.
LEMMA ConnectSteps ==
    ASSUME HandshakeInv, [Next]_vars, NEW c \in Clients, client'[c] # client[c]
    PROVE  /\ client'[c] = "auth" =>
                 /\ toClient[c] # <<>> /\ Head(toClient[c]) = Response(1)
                 /\ toClient'[c] = Tail(toClient[c])
           /\ client'[c] = "connected" =>
                 \/ client[c] = "handshake" /\ (password[c] = NoPassword \/ c \in Eager)
                 \/ client[c] = "auth" /\ Has(toClient[c], Response(1))
<1> SUFFICES ASSUME Next, client'[c] \in {"auth", "connected"}
             PROVE  \/ /\ client'[c] = "auth"
                       /\ toClient[c] # <<>> /\ Head(toClient[c]) = Response(1)
                       /\ toClient'[c] = Tail(toClient[c])
                    \/ /\ client'[c] = "connected" /\ client[c] = "handshake"
                       /\ password[c] = NoPassword \/ c \in Eager
                    \/ /\ client'[c] = "connected" /\ client[c] = "auth"
                       /\ Has(toClient[c], Response(1))
  BY DEF vars, clientVars
<1>1. client \in [Clients -> {"idle", "sending", "handshake", "auth", "connected", "failed",
                              "closed"}]
      /\ toClient \in [Clients -> Seq(Packets)]
  BY DEF HandshakeInv, ServerTyped, StreamsTyped
<1>2. \E d \in Clients : RecvHandshakeResponse(d) \/ RecvAuthResponse(d)
  <2>1. CASE \E d \in Clients : ConnectTCP(d) \/ ConnectTCPFails(d) \/ SendHandshake(d)
                                \/ RecvFails(d) \/ Leave(d)
    BY <1>1, <2>1 DEF ConnectTCP, ConnectTCPFails, SendHandshake, RecvFails, Leave
  <2>2. CASE UNCHANGED client
    BY <2>2
  <2>3. QED
    BY <2>1, <2>2 DEF Next, RecvKeepalive, ServerReceive, ServerReceiveClosed, Accept,
       HandleHandshake, HandleAuth, HandshakeRecvFails, Register, KeepaliveThread,
       KeepaliveRound, clientVars
<1>3. PICK d \in Clients : RecvHandshakeResponse(d) \/ RecvAuthResponse(d)
  BY <1>2
<1>4. d = c /\ toClient[c] # <<>> /\ toClient'[c] = Tail(toClient[c])
  BY <1>1, <1>3 DEF RecvHandshakeResponse, RecvAuthResponse
<1>5. CASE RecvHandshakeResponse(c)
  BY <1>1, <1>4, <1>5 DEF RecvHandshakeResponse
<1>6. CASE RecvAuthResponse(c)
  <2>1. Head(toClient[c]) \in Packets /\ Has(toClient[c], Head(toClient[c]))
    BY <1>1, <1>4, HasHead, HeadTailProperties
  <2>2. client[c] = "auth" /\ client'[c] = "connected" /\ Head(toClient[c]).payload = 1
    BY <1>1, <1>6 DEF RecvAuthResponse
  <2>3. QED BY <2>1, <2>2, PacketsDiffer
<1>7. QED BY <1>3, <1>4, <1>5, <1>6

LEMMA CurrentOnceStep ==
    ASSUME HandshakeInv, [Next]_vars, NEW c \in Clients, ToldOnce(c)
    PROVE  c \in authenticated' /\ c = current' => acceptThread' = "register"
<1> SUFFICES ASSUME c \in authenticated', c = current' PROVE acceptThread' = "register"
  OBVIOUS
<1>1. None \notin Clients
  BY HandshakeAssumption DEF HandshakeAssumption
<1>2. CASE UNCHANGED <<authenticated, current, acceptThread>>
  BY <1>2 DEF ToldOnce
<1>3. CASE Accept
  <2>1. UNCHANGED authenticated /\ backlog # <<>> /\ backlog \in Seq(Clients)
    BY <1>3 DEF Accept, HandshakeInv, BacklogPlaced
  <2>2. CASE Full
    BY <1>2, <1>3, <2>1, <2>2 DEF Accept
  <2>3. CASE ~Full
    <3>1. c = Head(backlog)
      BY <1>3, <2>3 DEF Accept
    <3>2. Head(backlog) = backlog[1] /\ 1 \in 1..Len(backlog)
      BY <2>1, EmptySeq, LenProperties
    <3>3. serverSocket[c] = "backlog"
      BY <3>1, <3>2 DEF HandshakeInv, BacklogPlaced
    <3>4. c \notin authenticated
      BY <3>3 DEF HandshakeInv, Placed
    <3>5. QED BY <2>1, <3>4
  <2>4. QED BY <2>2, <2>3
<1>4. CASE Answers
  <2>1. acceptThread \in {"handshake", "auth"} /\ (Refused \/ Accepted \/ Awaited)
    BY <1>4, AnswersDo
  <2>2. QED
    BY <1>1, <2>1 DEF Refused, Accepted, Welcoming, Awaited, ToldOnce
<1>5. CASE Register
  BY <1>1, <1>5 DEF Register
<1>6. CASE \E gone \in SUBSET MaybeSilent : KeepaliveRound(gone)
  BY <1>2, <1>6, KeepaliveDoes
<1>7. QED
  BY <1>2, <1>3, <1>4, <1>5, <1>6, NextCases
  DEF ConnectTCP, ServerReceive, ServerReceiveClosed, serverVars, vars

LEMMA ToldOnceStep ==
    ASSUME HandshakeInv, [Next]_vars, NEW c \in Clients, ToldOnce(c)
    PROVE  ToldOnce(c)'
<1>0. toClient[c] \in Seq(Packets)
  BY DEF HandshakeInv, StreamsTyped
<1>1. Unique(toClient'[c], Response(1))
  <2>1. CASE \E p \in {Keepalive, Response(0)} : toClient'[c] = Append(toClient[c], p)
    BY <1>0, <2>1, UniqueAppend, PacketsDiffer DEF ToldOnce
  <2>2. CASE toClient'[c] = Append(toClient[c], Response(1)) /\ c \notin authenticated
    <3>1. ~Has(toClient[c], Response(1))
      BY <2>2 DEF HandshakeInv, Asked, Welcomed
    <3>2. QED BY <1>0, <2>2, <3>1, UniqueAppend, PacketsDiffer DEF ToldOnce
  <2>3. CASE toClient[c] # <<>> /\ toClient'[c] = Tail(toClient[c])
    BY <1>0, <2>3, UniqueTail DEF ToldOnce
  <2>4. QED BY <2>1, <2>2, <2>3, ToClientSteps DEF ToldOnce
<1>2. ASSUME client'[c] = "auth" PROVE ~Has(toClient'[c], Response(1))
  <2>1. CASE client[c] = "auth"
    <3>1. c \in authenticated /\ ~Has(toClient[c], Response(1))
      BY <2>1 DEF HandshakeInv, Asked, Welcomed, ToldOnce
    <3>2. CASE \E p \in {Keepalive, Response(0)} : toClient'[c] = Append(toClient[c], p)
      BY <1>0, <3>1, <3>2, HasAppend, PacketsDiffer
    <3>3. CASE toClient[c] # <<>> /\ toClient'[c] = Tail(toClient[c])
      BY <1>0, <3>1, <3>3, HasTail
    <3>4. QED BY <3>1, <3>2, <3>3, ToClientSteps
  <2>2. CASE client[c] # "auth"
    <3>1. /\ toClient[c] # <<>> /\ Head(toClient[c]) = Response(1)
          /\ toClient'[c] = Tail(toClient[c])
      BY <1>2, <2>2, ConnectSteps
    <3>2. QED BY <1>0, <3>1, UniqueTail DEF ToldOnce
  <2>3. QED BY <2>1, <2>2
<1>3. ASSUME c \notin Eager, password'[c] # NoPassword PROVE client'[c] # "connected"
  <2>1. password[c] # NoPassword
    BY <1>3, SettingsStep DEF settings
  <2>2. client[c] # "connected" /\ ~(client[c] = "auth" /\ Has(toClient[c], Response(1)))
    BY <1>3, <2>1 DEF ToldOnce
  <2>3. QED BY <1>3, <2>1, <2>2, ConnectSteps
<1>4. QED BY <1>1, <1>2, <1>3, CurrentOnceStep DEF ToldOnce

\* No NetworkClient that is given a password connects to any host, whatever
\* the host's settings and however right the password: a host that asks for
\* one waits for it before its answer, and one that does not never answers it
\* (Connect, Authenticate, HandleHandshake).
THEOREM PasswordNeverConnects ==
    Spec => [](\A c \in Clients \ Eager : password[c] # NoPassword => client[c] # "connected")
<1> DEFINE Once == \A c \in Clients : ToldOnce(c)
<1>1. Init => Once
  <2> SUFFICES ASSUME Init, NEW c \in Clients PROVE ToldOnce(c)
    OBVIOUS
  <2>1. toClient[c] = <<>> /\ client[c] = "idle" /\ c # current
    BY HandshakeAssumption DEF HandshakeAssumption, Init
  <2>2. Unique(<<>>, Response(1))
    BY DEF Unique
  <2>3. QED BY <2>1, <2>2 DEF ToldOnce
<1>2. HandshakeInv /\ Once /\ [Next]_vars => Once'
  BY ToldOnceStep
<1>3. Once => \A c \in Clients \ Eager : password[c] # NoPassword => client[c] # "connected"
  BY DEF ToldOnce
<1> HIDE DEF Once
<1>4. QED BY <1>1, <1>2, <1>3, HandshakeStarts, HandshakeStep, PTL DEF Spec
=============================================================================
