------------------------ MODULE SessionManagerProofs ------------------------
(* Theorems about SessionManager, for any sets of sessions, clients and    *)
(* addresses and any timeout.                                              *)
EXTENDS SessionManager, TLAPS

\* A HostInfo just heard of.
LEMMA ZeroAge == 0 \in 0..(Timeout + 1)
BY SessionAssumption DEF SessionAssumption

\* What the server does to a HostInfo gives a HostInfo, with these fields.
LEMMA NewInfoType ==
    ASSUME NEW addr \in Addresses, NEW st \in {"", "waiting", "connected"}
    PROVE  /\ NewInfo(addr, st) \in HostInfo
           /\ NewInfo(addr, st).state = st
           /\ NewInfo(addr, st).client = NoClient
BY ZeroAge DEF NewInfo, HostInfo

LEMMA RegisteredType ==
    ASSUME NEW info \in HostInfo, NEW addr \in Addresses
    PROVE  /\ Registered(info, addr) \in HostInfo
           /\ Registered(info, addr).state # ""
           /\ Registered(info, addr).state = "connected" <=> info.state = "connected"
           /\ Registered(info, addr).client = info.client
BY ZeroAge DEF Registered, HostInfo

LEMMA ClaimedType ==
    ASSUME NEW info \in HostInfo, NEW c \in Clients
    PROVE  /\ Claimed(info, c) \in HostInfo
           /\ Claimed(info, c).state = "connected"
           /\ Claimed(info, c).client = c
BY ZeroAge DEF Claimed, HostInfo

LEMMA ReleasedType ==
    ASSUME NEW info \in HostInfo
    PROVE  /\ Released(info) \in HostInfo
           /\ Released(info).state = "waiting"
           /\ Released(info).client = NoClient
BY DEF Released, HostInfo

LEMMA AgedType ==
    ASSUME NEW info \in HostInfo, NEW t \in 0..(Timeout + 1)
    PROVE  /\ [info EXCEPT !.age = t] \in HostInfo
           /\ [info EXCEPT !.age = t].state = info.state
           /\ [info EXCEPT !.age = t].client = info.client
BY DEF HostInfo
-----------------------------------------------------------------------------
(* The invariant, by what it says of each variable. *)

GoodInfo(info) ==
    /\ info \in HostInfo
    /\ info.state # ""
    /\ info.state = "connected" <=> info.client # NoClient

GoodSessions(f) == DOMAIN f \subseteq Sessions /\ \A s \in DOMAIN f : GoodInfo(f[s])

\* S are the sessions in the map.
GoodHandler(h, S) ==
    /\ h \in Handler
    /\ h.from = InMap => h.session \in S
    /\ Len(h.read) <= Len(Fields)

GoodPending(p, S) ==
    DOMAIN p \subseteq Clients \cup Sessions /\ \A a \in DOMAIN p : GoodHandler(p[a], S)

GoodOthers(j, u, l) ==
    /\ DOMAIN j \subseteq Clients /\ \A c \in DOMAIN j : j[c] \in Sessions
    /\ u \subseteq Sessions
    /\ l \subseteq Clients

SessionInv == TypeOK /\ StateMatchesClient

LEMMA InvParts ==
    /\ SessionInv <=> /\ GoodSessions(sessions)
                      /\ GoodPending(pending, DOMAIN sessions)
                      /\ GoodOthers(joined, up, alive)
    /\ SessionInv' <=> /\ GoodSessions(sessions')
                       /\ GoodPending(pending', DOMAIN sessions')
                       /\ GoodOthers(joined', up', alive')
BY DEF SessionInv, TypeOK, StateMatchesClient, GoodSessions, GoodInfo, GoodPending, GoodHandler,
       GoodOthers

\* Storing and removing.
LEMMA WithSessions ==
    ASSUME NEW f, GoodSessions(f), NEW s \in Sessions, NEW info, GoodInfo(info)
    PROVE  GoodSessions(With(f, s, info))
BY DEF GoodSessions, With

LEMMA ExceptSessions ==
    ASSUME NEW f, GoodSessions(f), NEW s \in DOMAIN f, NEW info, GoodInfo(info)
    PROVE  GoodSessions([f EXCEPT ![s] = info]) /\ DOMAIN [f EXCEPT ![s] = info] = DOMAIN f
BY DEF GoodSessions

LEMMA WithoutSessions ==
    ASSUME NEW f, GoodSessions(f), NEW S
    PROVE  GoodSessions(Without(f, S))
BY DEF GoodSessions, Without

LEMMA WithPending ==
    ASSUME NEW p, NEW S, GoodPending(p, S), NEW T, S \subseteq T,
           NEW a \in Clients \cup Sessions, NEW h, GoodHandler(h, T)
    PROVE  GoodPending(With(p, a, h), T)
BY DEF GoodPending, GoodHandler, With

LEMMA WithoutPending ==
    ASSUME NEW p, NEW S, GoodPending(p, S), NEW A
    PROVE  GoodPending(Without(p, A), S)
BY DEF GoodPending, Without

LEMMA NewHandler ==
    ASSUME NEW s \in Sessions, NEW from \in HostInfo \cup {InMap}, NEW S, from = InMap => s \in S
    PROVE  GoodHandler(Answering(s, from), S)
BY DEF GoodHandler, Answering, Handler, Fields

\* Handlers stay good when sessions are removed.
LEMMA DetachedPending ==
    ASSUME GoodSessions(sessions), GoodPending(pending, DOMAIN sessions), NEW S
    PROVE  GoodPending(Detached(S), DOMAIN Without(sessions, S))
<1>1. ASSUME NEW a \in DOMAIN pending, pending[a].from = InMap, pending[a].session \in S
      PROVE  GoodHandler([pending[a] EXCEPT !.from = sessions[pending[a].session]],
                         DOMAIN Without(sessions, S))
  <2>1. /\ pending[a] \in Handler
        /\ sessions[pending[a].session] \in HostInfo
        /\ Len(pending[a].read) <= Len(Fields)
    BY <1>1 DEF GoodPending, GoodHandler, GoodSessions, GoodInfo
  <2> QED BY <2>1, SessionAssumption DEF SessionAssumption, Handler, GoodHandler
<1>2. ASSUME NEW a \in DOMAIN pending, ~(pending[a].from = InMap /\ pending[a].session \in S)
      PROVE  GoodHandler(pending[a], DOMAIN Without(sessions, S))
  BY <1>2 DEF GoodPending, GoodHandler, Without
<1> QED BY <1>1, <1>2 DEF Detached, GoodPending
-----------------------------------------------------------------------------
LEMMA InitInv == Init => SessionInv
<1> SUFFICES ASSUME Init PROVE SessionInv
  OBVIOUS
<1>1. DOMAIN sessions = {} /\ DOMAIN pending = {} /\ DOMAIN joined = {}
  BY DEF Init
<1> QED BY <1>1 DEF Init, SessionInv, TypeOK, StateMatchesClient

LEMMA NextFieldGood ==
    ASSUME NEW S, NEW h, GoodHandler(h, S), Len(h.read) # Len(Fields), NEW info \in HostInfo
    PROVE  GoodHandler(NextField(h, info), S)
<1>1. h \in Handler /\ h.read \in Seq(Words)
  BY DEF GoodHandler, Handler
<1>2. PICK n \in Nat : n = Len(h.read)
  BY <1>1
<1>3. n \in 0..3
  <2>1. Len(Fields) = 4
    BY DEF Fields
  <2>2. n <= Len(Fields) /\ n # Len(Fields)
    BY <1>2 DEF GoodHandler
  <2> QED BY <2>1, <2>2
<1>4. PICK field \in {"ip", "port", "state", "client"} : field = Fields[n + 1]
  BY <1>3 DEF Fields
<1>5. info[field] \in Words
  BY DEF HostInfo, Words
<1>6. PICK r : r = Append(h.read, info[field])
  OBVIOUS
<1>7. r \in Seq(Words) /\ Len(r) = n + 1
  BY <1>1, <1>2, <1>5, <1>6
<1>8. NextField(h, info) = [h EXCEPT !.read = r]
  BY <1>2, <1>4, <1>6 DEF NextField
<1>9. [h EXCEPT !.read = r] \in Handler /\ [h EXCEPT !.read = r].read = r
      /\ [h EXCEPT !.read = r].from = h.from /\ [h EXCEPT !.read = r].session = h.session
  BY <1>1, <1>7 DEF Handler
<1>10. Len(r) <= Len(Fields)
  BY <1>3, <1>7 DEF Fields
<1> QED BY <1>8, <1>9, <1>10 DEF GoodHandler

LEMMA EncodeFieldInv ==
    ASSUME SessionInv, NEW a \in Clients \cup Sessions, EncodeField(a)
    PROVE  SessionInv'
<1>1. /\ GoodSessions(sessions) /\ GoodPending(pending, DOMAIN sessions)
      /\ GoodOthers(joined, up, alive)
  BY InvParts
<1>2. /\ a \in DOMAIN pending
      /\ GoodHandler(pending[a], DOMAIN sessions)
      /\ Len(pending[a].read) # Len(Fields)
  BY <1>1 DEF EncodeField, GoodPending, Written
<1>3. Pointee(a) \in HostInfo
  <2>1. /\ pending[a].from \in HostInfo \cup {InMap}
        /\ pending[a].from = InMap => pending[a].session \in DOMAIN sessions
    BY <1>2 DEF GoodHandler, Handler
  <2> QED BY <1>1, <2>1 DEF Pointee, GoodSessions, GoodInfo
<1>4. /\ pending' = [pending EXCEPT ![a] = NextField(pending[a], Pointee(a))]
      /\ UNCHANGED <<sessions, joined, up, alive>>
  BY DEF EncodeField
<1>5. GoodHandler(NextField(pending[a], Pointee(a)), DOMAIN sessions)
  BY <1>2, <1>3, NextFieldGood
<1>6. GoodPending(pending', DOMAIN sessions)
  BY <1>1, <1>4, <1>5 DEF GoodPending
<1> QED BY <1>1, <1>4, <1>6, InvParts

LEMMA RegisterHostInv ==
    ASSUME SessionInv, NEW s \in Sessions, NEW addr \in Addresses, RegisterHost(s, addr)
    PROVE  SessionInv'
<1>1. /\ GoodSessions(sessions) /\ GoodPending(pending, DOMAIN sessions)
      /\ GoodOthers(joined, up, alive)
  BY InvParts
<1>2. UNCHANGED <<joined, up, alive>>
  BY DEF RegisterHost
<1>3. CASE s \in DOMAIN sessions
  <2>1. /\ sessions' = With(sessions, s, Registered(sessions[s], addr))
        /\ pending' = With(pending, s, Answering(s, NewInfo(addr, "")))
    BY <1>3 DEF RegisterHost
  <2>2. GoodInfo(Registered(sessions[s], addr))
    BY <1>1, <1>3, RegisteredType DEF GoodSessions, GoodInfo
  <2>3. GoodSessions(sessions')
    BY <1>1, <2>1, <2>2, WithSessions
  <2>4. DOMAIN sessions' = DOMAIN sessions
    BY <1>3, <2>1 DEF With
  <2>5. GoodHandler(Answering(s, NewInfo(addr, "")), DOMAIN sessions)
    BY <1>3, NewInfoType, NewHandler
  <2>6. GoodPending(pending', DOMAIN sessions)
    BY <1>1, <2>1, <2>5, WithPending
  <2> QED BY <1>1, <1>2, <2>3, <2>4, <2>6, InvParts
<1>4. CASE s \notin DOMAIN sessions
  <2>1. /\ sessions' = With(sessions, s, NewInfo(addr, "waiting"))
        /\ pending' = With(pending, s, Answering(s, InMap))
    BY <1>4 DEF RegisterHost
  <2>2. GoodInfo(NewInfo(addr, "waiting"))
    BY NewInfoType DEF GoodInfo
  <2>3. GoodSessions(sessions')
    BY <1>1, <2>1, <2>2, WithSessions
  <2>4. DOMAIN sessions' = DOMAIN sessions \cup {s}
    BY <2>1 DEF With
  <2>5. GoodHandler(Answering(s, InMap), DOMAIN sessions')
    BY <2>4, NewHandler
  <2>6. GoodPending(pending', DOMAIN sessions')
    BY <1>1, <2>1, <2>4, <2>5, WithPending
  <2> QED BY <1>1, <1>2, <2>3, <2>6, InvParts
<1> QED BY <1>3, <1>4

LEMMA ConnectClientInv ==
    ASSUME SessionInv, NEW c \in Clients, NEW s \in Sessions, ConnectClient(c, s)
    PROVE  SessionInv'
<1>1. /\ GoodSessions(sessions) /\ GoodPending(pending, DOMAIN sessions)
      /\ GoodOthers(joined, up, alive)
  BY InvParts
<1>2. /\ s \in DOMAIN sessions
      /\ sessions' = [sessions EXCEPT ![s] = Claimed(sessions[s], c)]
      /\ pending' = With(pending, c, Answering(s, InMap))
      /\ UNCHANGED <<joined, up, alive>>
  BY DEF ConnectClient
<1>3. GoodInfo(Claimed(sessions[s], c))
  <2>1. sessions[s] \in HostInfo
    BY <1>1, <1>2 DEF GoodSessions, GoodInfo
  <2> QED BY <2>1, ClaimedType, SessionAssumption DEF GoodInfo, SessionAssumption
<1>4. GoodSessions(sessions') /\ DOMAIN sessions' = DOMAIN sessions
  BY <1>1, <1>2, <1>3, ExceptSessions
<1>5. GoodPending(pending', DOMAIN sessions)
  BY <1>1, <1>2, NewHandler, WithPending
<1> QED BY <1>1, <1>2, <1>4, <1>5, InvParts

LEMMA DisconnectClientInv ==
    ASSUME SessionInv, NEW c \in Clients, DisconnectClient(c)
    PROVE  SessionInv'
<1>1. /\ GoodSessions(sessions) /\ GoodPending(pending, DOMAIN sessions)
      /\ GoodOthers(joined, up, alive)
  BY InvParts
<1>2. /\ joined' = Without(joined, {c})
      /\ UNCHANGED <<pending, up, alive>>
  BY DEF DisconnectClient
<1>3. GoodOthers(joined', up, alive)
  BY <1>1, <1>2 DEF GoodOthers, Without
<1>4. GoodSessions(sessions') /\ DOMAIN sessions' = DOMAIN sessions
  <2>1. CASE joined[c] \in DOMAIN sessions
    <3>1. sessions' = [sessions EXCEPT ![joined[c]] = Released(sessions[joined[c]])]
      BY <2>1 DEF DisconnectClient
    <3>2. GoodInfo(Released(sessions[joined[c]]))
      BY <1>1, <2>1, ReleasedType DEF GoodSessions, GoodInfo
    <3> QED BY <1>1, <2>1, <3>1, <3>2, ExceptSessions
  <2>2. CASE joined[c] \notin DOMAIN sessions
    BY <1>1, <2>2 DEF DisconnectClient
  <2> QED BY <2>1, <2>2
<1> QED BY <1>1, <1>2, <1>3, <1>4, InvParts

\* The other steps of the clients and hosts: what leaves the map, or ends.
LEMMA ReceiveAnswerInv ==
    ASSUME SessionInv, NEW a \in Clients \cup Sessions, ReceiveAnswer(a)
    PROVE  SessionInv'
<1>1. /\ GoodSessions(sessions) /\ GoodPending(pending, DOMAIN sessions)
      /\ GoodOthers(joined, up, alive)
  BY InvParts
<1>2. /\ a \in DOMAIN pending
      /\ pending' = Without(pending, {a})
      /\ UNCHANGED <<sessions, up, alive>>
  BY DEF ReceiveAnswer
<1>3. pending[a].session \in Sessions
  BY <1>1, <1>2 DEF GoodPending, GoodHandler, Handler
<1>4. GoodOthers(joined', up, alive)
  BY <1>1, <1>3 DEF ReceiveAnswer, GoodOthers, With
<1>5. GoodPending(pending', DOMAIN sessions)
  BY <1>1, <1>2, WithoutPending
<1> QED BY <1>1, <1>2, <1>4, <1>5, InvParts

LEMMA HeartbeatInv ==
    ASSUME SessionInv, NEW s \in Sessions, UpdateHostHeartbeat(s)
    PROVE  SessionInv'
<1>1. /\ GoodSessions(sessions) /\ GoodPending(pending, DOMAIN sessions)
      /\ GoodOthers(joined, up, alive)
  BY InvParts
<1>2. /\ s \in DOMAIN sessions
      /\ sessions' = [sessions EXCEPT ![s] = [sessions[s] EXCEPT !.age = 0]]
      /\ UNCHANGED <<pending, joined, up, alive>>
  BY DEF UpdateHostHeartbeat, Refreshed
<1>3. GoodInfo([sessions[s] EXCEPT !.age = 0])
  BY <1>1, <1>2, ZeroAge, AgedType DEF GoodSessions, GoodInfo
<1>4. GoodSessions(sessions') /\ DOMAIN sessions' = DOMAIN sessions
  BY <1>1, <1>2, <1>3, ExceptSessions
<1> QED BY <1>1, <1>2, <1>4, InvParts

LEMMA RemoveHostInv ==
    ASSUME SessionInv, NEW s \in Sessions, RemoveHost(s)
    PROVE  SessionInv'
<1>1. /\ GoodSessions(sessions) /\ GoodPending(pending, DOMAIN sessions)
      /\ GoodOthers(joined, up, alive)
  BY InvParts
<1>2. GoodSessions(sessions') /\ GoodPending(pending', DOMAIN sessions')
  BY <1>1, WithoutSessions, DetachedPending DEF RemoveHost
<1> QED BY <1>1, <1>2, InvParts DEF RemoveHost

LEMMA CrashInv ==
    ASSUME SessionInv,
           \/ \E s \in Sessions : HostCrashes(s)
           \/ \E c \in Clients : ClientCrashes(c)
    PROVE  SessionInv'
<1>1. /\ GoodSessions(sessions) /\ GoodPending(pending, DOMAIN sessions)
      /\ GoodOthers(joined, up, alive)
  BY InvParts
<1>2. CASE \E s \in Sessions : HostCrashes(s)
  <2>1. PICK s \in Sessions : HostCrashes(s)
    BY <1>2
  <2>2. GoodPending(pending', DOMAIN sessions)
    BY <1>1, <2>1, WithoutPending DEF HostCrashes
  <2>3. GoodOthers(joined', up', alive')
    BY <1>1, <2>1 DEF HostCrashes, GoodOthers
  <2> QED BY <1>1, <2>1, <2>2, <2>3, InvParts DEF HostCrashes
<1>3. CASE \E c \in Clients : ClientCrashes(c)
  <2>1. PICK c \in Clients : ClientCrashes(c)
    BY <1>3
  <2>2. GoodPending(pending', DOMAIN sessions)
    BY <1>1, <2>1, WithoutPending DEF ClientCrashes
  <2>3. GoodOthers(joined', up', alive')
    BY <1>1, <2>1 DEF ClientCrashes, GoodOthers, Without
  <2> QED BY <1>1, <2>1, <2>2, <2>3, InvParts DEF ClientCrashes
<1> QED BY <1>2, <1>3

LEMMA ServerInv ==
    ASSUME SessionInv, Cleanup \/ Tick \/ Restart
    PROVE  SessionInv'
<1>1. /\ GoodSessions(sessions) /\ GoodPending(pending, DOMAIN sessions)
      /\ GoodOthers(joined, up, alive)
  BY InvParts
<1>2. CASE Cleanup
  <2>1. GoodSessions(sessions') /\ GoodPending(pending', DOMAIN sessions')
    BY <1>1, <1>2, WithoutSessions, DetachedPending DEF Cleanup
  <2> QED BY <1>1, <1>2, <2>1, InvParts DEF Cleanup
<1>3. CASE Tick
  <2>1. DOMAIN sessions' = DOMAIN sessions /\ UNCHANGED <<pending, joined, up, alive>>
    BY <1>3 DEF Tick
  <2>2. ASSUME NEW s \in DOMAIN sessions, ~(sessions[s].age > Timeout)
        PROVE  GoodInfo([sessions[s] EXCEPT !.age = @ + 1])
    <3>1. GoodInfo(sessions[s])
      BY <1>1 DEF GoodSessions
    <3>2. sessions[s].age + 1 \in 0..(Timeout + 1)
      <4>1. PICK t : t = sessions[s].age
        OBVIOUS
      <4>2. t \in 0..(Timeout + 1)
        BY <3>1, <4>1 DEF GoodInfo, HostInfo
      <4>3. Timeout \in Nat
        BY SessionAssumption DEF SessionAssumption
      <4>4. ~(t > Timeout)
        BY <2>2, <4>1
      <4>5. t + 1 \in 0..(Timeout + 1)
        BY <4>2, <4>3, <4>4
      <4> QED BY <4>1, <4>5
    <3> QED BY <3>1, <3>2, AgedType DEF GoodInfo
  <2>3. GoodSessions(sessions')
    BY <1>1, <1>3, <2>2 DEF Tick, GoodSessions
  <2> QED BY <1>1, <2>1, <2>3, InvParts
<1>4. CASE Restart
  <2>1. DOMAIN sessions' = {} /\ DOMAIN pending' = {}
    BY <1>4 DEF Restart
  <2>2. GoodSessions(sessions') /\ GoodPending(pending', DOMAIN sessions')
    BY <2>1 DEF GoodSessions, GoodPending
  <2> QED BY <1>1, <1>4, <2>2, InvParts DEF Restart
<1> QED BY <1>2, <1>3, <1>4
-----------------------------------------------------------------------------
\* SessionInv is inductive.
LEMMA SessionInvStep == SessionInv /\ [Next]_vars => SessionInv'
<1> SUFFICES ASSUME SessionInv, [Next]_vars PROVE SessionInv'
  OBVIOUS
<1>1. CASE UNCHANGED vars
  BY <1>1, InvParts DEF vars
<1>2. CASE Next
  <2>1. CASE \E a \in Clients \cup Sessions : EncodeField(a) \/ ReceiveAnswer(a)
    BY <2>1, EncodeFieldInv, ReceiveAnswerInv
  <2>2. CASE \E s \in Sessions, addr \in Addresses : RegisterHost(s, addr)
    BY <2>2, RegisterHostInv
  <2>3. CASE \E s \in Sessions : UpdateHostHeartbeat(s) \/ RemoveHost(s)
    BY <2>3, HeartbeatInv, RemoveHostInv
  <2>4. CASE \E c \in Clients, s \in Sessions : ConnectClient(c, s)
    BY <2>4, ConnectClientInv
  <2>5. CASE \E c \in Clients : DisconnectClient(c)
    BY <2>5, DisconnectClientInv
  <2>6. CASE (\E s \in Sessions : HostCrashes(s)) \/ (\E c \in Clients : ClientCrashes(c))
    BY <2>6, CrashInv
  <2>7. CASE Cleanup \/ Tick \/ Restart
    BY <2>7, ServerInv
  <2> QED BY <1>2, <2>1, <2>2, <2>3, <2>4, <2>5, <2>6, <2>7 DEF Next
<1> QED BY <1>1, <1>2

\* The variables have their types; no stored session is without a state.
THEOREM SessionsTyped == Spec => []TypeOK
<1>1. SessionInv => TypeOK
  BY DEF SessionInv
<1> QED BY <1>1, InitInv, SessionInvStep, PTL DEF Spec

\* A session is connected exactly when it names a client.
THEOREM StatesMatchClients == Spec => []StateMatchesClient
<1>1. SessionInv => StateMatchesClient
  BY DEF SessionInv
<1> QED BY <1>1, InitInv, SessionInvStep, PTL DEF Spec
-----------------------------------------------------------------------------
LEMMA StepKeepsClients ==
    ASSUME SessionInv, Next, NEW s \in Sessions
    PROVE  Loses(s)
<1> SUFFICES ASSUME s \in DOMAIN sessions, s \in DOMAIN sessions', sessions[s].client # NoClient
             PROVE  sessions'[s].client \in {sessions[s].client, NoClient}
  BY DEF Loses
<1>1. GoodInfo(sessions[s]) /\ sessions[s].state = "connected"
  BY InvParts DEF GoodSessions, GoodInfo
<1>2. CASE \E a \in Clients \cup Sessions : EncodeField(a) \/ ReceiveAnswer(a)
  BY <1>2 DEF EncodeField, ReceiveAnswer
<1>3. CASE \E t \in Sessions, addr \in Addresses : RegisterHost(t, addr)
  <2>1. PICK t \in Sessions, addr \in Addresses : RegisterHost(t, addr)
    BY <1>3
  <2>2. CASE t = s
    <3>1. sessions'[s] = Registered(sessions[s], addr)
      BY <2>1, <2>2 DEF RegisterHost, With
    <3> QED BY <1>1, <3>1, RegisteredType DEF GoodInfo
  <2>3. CASE t # s
    BY <2>1, <2>3 DEF RegisterHost, With
  <2> QED BY <2>2, <2>3
<1>4. CASE \E t \in Sessions : UpdateHostHeartbeat(t) \/ RemoveHost(t) \/ HostCrashes(t)
  <2>1. PICK t \in Sessions : UpdateHostHeartbeat(t) \/ RemoveHost(t) \/ HostCrashes(t)
    BY <1>4
  <2>2. CASE UpdateHostHeartbeat(t)
    <3>1. sessions'[s] \in {sessions[s], [sessions[s] EXCEPT !.age = 0]}
      BY <2>2 DEF UpdateHostHeartbeat, Refreshed
    <3> QED BY <1>1, <3>1, ZeroAge, AgedType DEF GoodInfo
  <2>3. CASE RemoveHost(t) \/ HostCrashes(t)
    BY <2>3 DEF RemoveHost, HostCrashes, Without
  <2> QED BY <2>1, <2>2, <2>3
<1>5. CASE \E c \in Clients, t \in Sessions : ConnectClient(c, t)
  <2>1. PICK c \in Clients, t \in Sessions : ConnectClient(c, t)
    BY <1>5
  <2>2. t # s
    BY <1>1, <2>1 DEF ConnectClient, Claimable
  <2> QED BY <2>1, <2>2 DEF ConnectClient
<1>6. CASE \E c \in Clients : DisconnectClient(c) \/ ClientCrashes(c)
  <2>1. PICK c \in Clients : DisconnectClient(c) \/ ClientCrashes(c)
    BY <1>6
  <2>2. CASE DisconnectClient(c)
    <3>1. sessions'[s] \in {sessions[s], Released(sessions[s])}
      BY <2>2 DEF DisconnectClient
    <3> QED BY <1>1, <3>1, ReleasedType DEF GoodInfo
  <2>3. CASE ClientCrashes(c)
    BY <2>3 DEF ClientCrashes
  <2> QED BY <2>1, <2>2, <2>3
<1>7. CASE Cleanup \/ Restart
  <2>1. CASE Cleanup
    BY <2>1 DEF Cleanup, Without
  <2>2. CASE Restart
    <3>1. DOMAIN sessions' = {}
      BY <2>2 DEF Restart
    <3> QED BY <3>1
  <2> QED BY <1>7, <2>1, <2>2
<1>8. CASE Tick
  <2>1. CASE sessions[s].age > Timeout
    BY <1>8, <2>1 DEF Tick
  <2>2. CASE ~(sessions[s].age > Timeout)
    <3>1. sessions'[s] = [sessions[s] EXCEPT !.age = @ + 1]
      BY <1>8, <2>2 DEF Tick
    <3>2. sessions'[s].client = sessions[s].client
      BY <1>1, <3>1 DEF GoodInfo, HostInfo
    <3> QED BY <3>2
  <2> QED BY <2>1, <2>2
<1> QED BY <1>2, <1>3, <1>4, <1>5, <1>6, <1>7, <1>8 DEF Next

\* No step takes a session from one client to another.
THEOREM NobodySteals == Spec => NoStealing
<1>1. SessionInv /\ [Next]_vars => [\A s \in Sessions : Loses(s)]_vars
  BY StepKeepsClients
<1> QED BY <1>1, InitInv, SessionInvStep, PTL DEF Spec, NoStealing
-----------------------------------------------------------------------------
(* Who holds a session that is never removed *)

Holds(c, s) == s \in DOMAIN sessions /\ sessions[s].client = c

\* c was told that it has s, or is being told.
Told(c, s) ==
    \/ c \in DOMAIN joined /\ joined[c] = s
    \/ c \in DOMAIN pending /\ pending[c].session = s

\* What an answer says of the session's state and client.
Names(read, c) ==
    /\ Len(read) >= 3 => read[3] = "connected"
    /\ Len(read) >= 4 => read[4] = c

ToldOnce(c) == ~(c \in DOMAIN pending /\ c \in DOMAIN joined)

AnswerTrue(c, s) ==
    c \in DOMAIN pending /\ pending[c].session = s =>
        pending[c].from = InMap /\ Names(pending[c].read, c)

ToldHold(s) ==
    \A c \in Clients : ToldOnce(c) /\ AnswerTrue(c, s) /\ (Told(c, s) => Holds(c, s))

\* s stays in the map once it is there: no removal, no cleanup, no restart.
Kept(s) == s \in DOMAIN sessions => s \in DOMAIN sessions'

LEMMA DetachedOf ==
    ASSUME SessionInv, NEW S, NEW a \in DOMAIN pending, NEW p, p = Detached(S)
    PROVE  /\ a \in DOMAIN p
           /\ p[a].session = pending[a].session /\ p[a].read = pending[a].read
           /\ p[a].from = pending[a].from \/ pending[a].session \in S
<1>1. pending[a] \in Handler
  BY InvParts DEF GoodPending, GoodHandler
<1>2. QED BY <1>1 DEF Detached, Handler

\* What a step can do to the answer that a client waits for.
LEMMA AnswerSteps ==
    ASSUME SessionInv, Next, NEW c \in Clients, c \in DOMAIN pending'
    PROVE  \/ /\ c \in DOMAIN pending
              /\ pending'[c].session = pending[c].session
              /\ pending'[c].read = pending[c].read
              /\ pending'[c].from = pending[c].from \/ pending[c].session \notin DOMAIN sessions'
           \/ EncodeField(c)
           \/ \E t \in Sessions : ConnectClient(c, t)
<1> USE SessionAssumption DEF SessionAssumption
<1>1. CASE \E a \in Clients \cup Sessions : EncodeField(a) \/ ReceiveAnswer(a)
  <2>1. PICK a \in Clients \cup Sessions : EncodeField(a) \/ ReceiveAnswer(a)
    BY <1>1
  <2>2. CASE EncodeField(a) /\ a # c
    <3>1. c \in DOMAIN pending /\ pending'[c] = pending[c]
      BY <2>2 DEF EncodeField
    <3> QED BY <3>1
  <2>3. CASE ReceiveAnswer(a)
    <3>1. c \in DOMAIN pending /\ pending'[c] = pending[c]
      BY <2>3 DEF ReceiveAnswer, Without
    <3> QED BY <3>1
  <2> QED BY <2>1, <2>2, <2>3
<1>2. CASE \E t \in Sessions, addr \in Addresses : RegisterHost(t, addr)
  <2>1. PICK t \in Sessions, addr \in Addresses : RegisterHost(t, addr)
    BY <1>2
  <2>2. PICK h : pending' = With(pending, t, h)
    BY <2>1 DEF RegisterHost
  <2>3. t # c
    OBVIOUS
  <2>4. c \in DOMAIN pending /\ pending'[c] = pending[c]
    BY <2>2, <2>3 DEF With
  <2> QED BY <2>4
<1>3. CASE \E t \in Sessions : RemoveHost(t)
  <2>1. PICK t \in Sessions : pending' = Detached({t}) /\ t \notin DOMAIN sessions'
    BY <1>3 DEF RemoveHost, Without
  <2>2. c \in DOMAIN pending
    BY <2>1 DEF Detached
  <2>3. QED BY <2>1, <2>2, DetachedOf
<1>4. CASE \E t \in Sessions : UpdateHostHeartbeat(t) \/ HostCrashes(t)
  <2>1. c \in DOMAIN pending /\ pending'[c] = pending[c]
    BY <1>4 DEF UpdateHostHeartbeat, HostCrashes, Without
  <2> QED BY <2>1
<1>5. CASE \E d \in Clients, t \in Sessions : ConnectClient(d, t)
  <2>1. PICK d \in Clients, t \in Sessions : ConnectClient(d, t)
    BY <1>5
  <2>2. PICK h : pending' = With(pending, d, h)
    BY <2>1 DEF ConnectClient
  <2>3. CASE d # c
    <3>1. c \in DOMAIN pending /\ pending'[c] = pending[c]
      BY <2>2, <2>3 DEF With
    <3> QED BY <3>1
  <2> QED BY <2>1, <2>3
<1>6. CASE \E d \in Clients : DisconnectClient(d) \/ ClientCrashes(d)
  BY <1>6 DEF DisconnectClient, ClientCrashes, Without
<1>7. CASE Cleanup
  <2> DEFINE old == {t \in DOMAIN sessions : Expired(sessions[t])}
  <2>1. pending' = Detached(old) /\ old \cap DOMAIN sessions' = {}
    BY <1>7 DEF Cleanup, Without
  <2>2. c \in DOMAIN pending
    BY <2>1 DEF Detached
  <2>3. QED BY <2>1, <2>2, DetachedOf
<1>8. CASE Tick
  BY <1>8 DEF Tick
<1>9. CASE Restart
  BY <1>9 DEF Restart
<1>10. QED BY <1>1, <1>2, <1>3, <1>4, <1>5, <1>6, <1>7, <1>8, <1>9 DEF Next

\* A client is told nothing but by its own answer.
LEMMA JoinedSteps ==
    ASSUME Next, NEW c \in Clients, c \in DOMAIN joined'
    PROVE  \/ c \in DOMAIN joined /\ joined'[c] = joined[c] /\ ~DisconnectClient(c)
           \/ /\ c \in DOMAIN pending /\ c \notin DOMAIN pending'
              /\ joined'[c] = pending[c].session
              /\ ~DisconnectClient(c)
<1> USE SessionAssumption DEF SessionAssumption
<1>1. ~DisconnectClient(c)
  BY DEF DisconnectClient, Without
<1>2. CASE \E a \in Clients \cup Sessions : EncodeField(a) \/ ReceiveAnswer(a)
  BY <1>1, <1>2 DEF EncodeField, ReceiveAnswer, With, Without
<1>3. CASE \E d \in Clients : DisconnectClient(d) \/ ClientCrashes(d)
  BY <1>1, <1>3 DEF DisconnectClient, ClientCrashes, Without
<1>4. CASE UNCHANGED joined
  BY <1>1, <1>4
<1>5. QED
  BY <1>2, <1>3, <1>4 DEF Next, RegisterHost, UpdateHostHeartbeat, RemoveHost, HostCrashes,
     ConnectClient, Cleanup, Tick, Restart

\* Only its own release takes a kept session from a client that was told of it.
LEMMA HolderStep ==
    ASSUME SessionInv, Next, NEW s \in Sessions, ToldHold(s), Kept(s),
           NEW c \in Clients, Told(c, s), ~DisconnectClient(c)
    PROVE  Holds(c, s)'
<1>1. Holds(c, s) /\ s \in DOMAIN sessions /\ s \in DOMAIN sessions'
  BY DEF ToldHold, Kept, Holds
<1>2. GoodInfo(sessions[s]) /\ sessions[s].client = c /\ sessions[s].state = "connected"
  BY <1>1, InvParts, SessionAssumption
  DEF SessionAssumption, Holds, GoodSessions, GoodInfo
<1> SUFFICES sessions'[s].client = c
  BY <1>1 DEF Holds
<1>3. CASE UNCHANGED sessions
  BY <1>2, <1>3
<1>4. CASE \E t \in Sessions, addr \in Addresses : RegisterHost(t, addr)
  <2>1. PICK t \in Sessions, addr \in Addresses : RegisterHost(t, addr)
    BY <1>4
  <2>2. CASE t = s
    <3>1. sessions'[s] = Registered(sessions[s], addr)
      BY <1>1, <2>1, <2>2 DEF RegisterHost, With
    <3> QED BY <1>2, <3>1, RegisteredType DEF GoodInfo
  <2>3. CASE t # s
    BY <1>1, <1>2, <2>1, <2>3 DEF RegisterHost, With
  <2> QED BY <2>2, <2>3
<1>5. CASE \E t \in Sessions : UpdateHostHeartbeat(t) \/ RemoveHost(t)
  <2>1. PICK t \in Sessions : UpdateHostHeartbeat(t) \/ RemoveHost(t)
    BY <1>5
  <2>2. CASE UpdateHostHeartbeat(t)
    <3>1. sessions'[s] \in {sessions[s], [sessions[s] EXCEPT !.age = 0]}
      BY <1>1, <2>2 DEF UpdateHostHeartbeat, Refreshed
    <3> QED BY <1>2, <3>1, ZeroAge, AgedType DEF GoodInfo
  <2>3. CASE RemoveHost(t)
    BY <1>1, <1>2, <2>3 DEF RemoveHost, Without
  <2> QED BY <2>1, <2>2, <2>3
<1>6. CASE \E d \in Clients, t \in Sessions : ConnectClient(d, t)
  <2>1. PICK d \in Clients, t \in Sessions : ConnectClient(d, t)
    BY <1>6
  <2>2. t # s
    BY <1>2, <2>1 DEF ConnectClient, Claimable
  <2> QED BY <1>2, <2>1, <2>2 DEF ConnectClient
<1>7. CASE \E d \in Clients : DisconnectClient(d)
  <2>1. PICK d \in Clients : DisconnectClient(d)
    BY <1>7
  <2>2. d # c
    BY <2>1
  <2>3. joined[d] # s
    BY <1>2, <2>1, <2>2 DEF DisconnectClient, ToldHold, Told, Holds
  <2>4. sessions'[s] = sessions[s]
    BY <1>1, <2>1, <2>3 DEF DisconnectClient
  <2> QED BY <1>2, <2>4
<1>8. CASE Cleanup
  BY <1>1, <1>2, <1>8 DEF Cleanup, Without
<1>9. CASE Restart
  <2>1. DOMAIN sessions' = {}
    BY <1>9 DEF Restart
  <2> QED BY <1>1, <2>1
<1>10. CASE Tick
  <2>1. CASE sessions[s].age > Timeout
    BY <1>1, <1>2, <1>10, <2>1 DEF Tick
  <2>2. CASE ~(sessions[s].age > Timeout)
    <3>1. sessions'[s] = [sessions[s] EXCEPT !.age = @ + 1]
      BY <1>1, <1>10, <2>2 DEF Tick
    <3> QED BY <1>2, <3>1 DEF GoodInfo, HostInfo
  <2> QED BY <2>1, <2>2
<1> QED
  BY <1>3, <1>4, <1>5, <1>6, <1>7, <1>8, <1>9, <1>10
  DEF Next, EncodeField, ReceiveAnswer, HostCrashes, ClientCrashes

\* The fields of an answer that are read from the map while its client holds
\* the session.
LEMMA NamesNext ==
    ASSUME NEW h \in Handler, NEW info \in HostInfo, NEW c, Names(h.read, c),
           Len(h.read) < Len(Fields), info.state = "connected", info.client = c
    PROVE  Names(NextField(h, info).read, c)
<1> DEFINE n == Len(h.read)
           v == info[Fields[n + 1]]
<1>1. h.read \in Seq(Words) /\ n \in Nat
  BY DEF Handler
<1>2. NextField(h, info).read = Append(h.read, v)
  BY DEF NextField, Handler
<1>3. n = 2 => v = "connected"
  BY DEF Fields
<1>4. n = 3 => v = c
  BY DEF Fields
<1>5. /\ Len(Append(h.read, v)) = n + 1
      /\ Append(h.read, v)[n + 1] = v
      /\ \A i \in 1..n : Append(h.read, v)[i] = h.read[i]
  BY <1>1
<1>6. PICK r : r = Append(h.read, v)
  OBVIOUS
<1>7. (n >= 3 => h.read[3] = "connected") /\ (n >= 4 => h.read[4] = c)
  BY DEF Names
<1> HIDE DEF n, v
<1>8. Len(r) = n + 1 /\ r[n + 1] = v /\ \A i \in 1..n : r[i] = h.read[i]
  BY <1>5, <1>6
<1>9. n + 1 >= 3 => r[3] = "connected"
  <2>1. CASE n = 2
    BY <1>3, <1>8, <2>1
  <2>2. CASE n >= 3
    <3>1. 3 \in 1..n
      BY <1>1, <2>2
    <3> QED BY <1>7, <1>8, <2>2, <3>1
  <2> QED BY <1>1, <2>1, <2>2
<1>10. n + 1 >= 4 => r[4] = c
  <2>1. CASE n = 3
    BY <1>4, <1>8, <2>1
  <2>2. CASE n >= 4
    <3>1. 4 \in 1..n
      BY <1>1, <2>2
    <3> QED BY <1>7, <1>8, <2>2, <3>1
  <2> QED BY <1>1, <2>1, <2>2
<1>11. QED BY <1>2, <1>6, <1>8, <1>9, <1>10 DEF Names

LEMMA AnswerStep ==
    ASSUME SessionInv, Next, NEW s \in Sessions, ToldHold(s), Kept(s), NEW c \in Clients
    PROVE  AnswerTrue(c, s)'
<1> SUFFICES ASSUME c \in DOMAIN pending', pending'[c].session = s
             PROVE  pending'[c].from = InMap /\ Names(pending'[c].read, c)
  BY DEF AnswerTrue
<1>1. CASE /\ c \in DOMAIN pending
           /\ pending'[c].session = pending[c].session
           /\ pending'[c].read = pending[c].read
           /\ pending'[c].from = pending[c].from \/ pending[c].session \notin DOMAIN sessions'
  <2>1. AnswerTrue(c, s) /\ Holds(c, s)
    BY <1>1 DEF ToldHold, Told
  <2>2. s \in DOMAIN sessions'
    BY <2>1 DEF Kept, Holds
  <2>3. QED BY <1>1, <2>1, <2>2 DEF AnswerTrue
<1>2. CASE EncodeField(c)
  <2>1. c \in DOMAIN pending /\ ~Written(c) /\ pending[c] \in Handler
        /\ Len(pending[c].read) <= Len(Fields)
    BY <1>2, InvParts DEF EncodeField, GoodPending, GoodHandler
  <2>2. pending'[c] = NextField(pending[c], Pointee(c))
    BY <1>2 DEF EncodeField
  <2>3. /\ NextField(pending[c], Pointee(c)).session = pending[c].session
        /\ NextField(pending[c], Pointee(c)).from = pending[c].from
    BY <2>1 DEF NextField, Handler
  <2>4. AnswerTrue(c, s) /\ Holds(c, s) /\ pending[c].session = s
    BY <2>1, <2>2, <2>3 DEF ToldHold, Told
  <2>5. pending[c].from = InMap /\ Names(pending[c].read, c)
    BY <2>1, <2>4 DEF AnswerTrue
  <2>6. Pointee(c) = sessions[s]
    BY <2>4, <2>5 DEF Pointee
  <2>7. /\ sessions[s] \in HostInfo /\ sessions[s].client = c
        /\ sessions[s].state = "connected"
    BY <2>4, InvParts, SessionAssumption
    DEF SessionAssumption, Holds, GoodSessions, GoodInfo
  <2>8. Len(pending[c].read) < Len(Fields)
    <3>1. Len(pending[c].read) \in Nat /\ Len(Fields) \in Nat
      BY <2>1 DEF Fields, Handler
    <3> QED BY <2>1, <3>1 DEF Written
  <2>9. Names(NextField(pending[c], sessions[s]).read, c)
    BY <2>1, <2>5, <2>7, <2>8, NamesNext
  <2> QED BY <2>2, <2>3, <2>5, <2>6, <2>9
<1>3. CASE \E t \in Sessions : ConnectClient(c, t)
  <2>1. PICK t \in Sessions : ConnectClient(c, t)
    BY <1>3
  <2>2. pending'[c] = Answering(t, InMap)
    BY <2>1 DEF ConnectClient, With
  <2>3. pending'[c].from = InMap /\ pending'[c].read = <<>>
    BY <2>2 DEF Answering
  <2> QED BY <2>3 DEF Names
<1> QED BY <1>1, <1>2, <1>3, AnswerSteps

LEMMA ToldHoldStep ==
    ASSUME NEW s \in Sessions
    PROVE  SessionInv /\ ToldHold(s) /\ [Next]_vars /\ [Kept(s)]_vars => ToldHold(s)'
<1> SUFFICES ASSUME SessionInv, ToldHold(s), [Next]_vars, [Kept(s)]_vars,
                    NEW c \in Clients
             PROVE  ToldOnce(c)' /\ AnswerTrue(c, s)' /\ (Told(c, s)' => Holds(c, s)')
  BY DEF ToldHold
<1>1. CASE UNCHANGED vars
  BY <1>1 DEF vars, ToldHold, ToldOnce, AnswerTrue, Told, Holds
<1>2. CASE Next /\ Kept(s)
  <2>1. ToldOnce(c)'
    <3> SUFFICES ASSUME c \in DOMAIN pending', c \in DOMAIN joined' PROVE FALSE
      BY DEF ToldOnce
    <3>1. c \in DOMAIN joined
      BY <1>2, JoinedSteps
    <3>2. c \notin DOMAIN pending
      BY <3>1 DEF ToldHold, ToldOnce
    <3>3. \E t \in Sessions : ConnectClient(c, t)
      BY <1>2, <3>2, AnswerSteps DEF EncodeField
    <3>4. QED BY <3>1, <3>3 DEF ConnectClient
  <2>2. AnswerTrue(c, s)'
    BY <1>2, AnswerStep
  <2>3. ASSUME Told(c, s)' PROVE Holds(c, s)'
    <3>1. CASE c \in DOMAIN joined' /\ joined'[c] = s
      <4>1. Told(c, s) /\ ~DisconnectClient(c)
        BY <1>2, <3>1, JoinedSteps DEF Told
      <4>2. QED BY <1>2, <4>1, HolderStep
    <3>2. CASE c \in DOMAIN pending' /\ pending'[c].session = s
      <4>1. CASE \E t \in Sessions : ConnectClient(c, t)
        <5>1. PICK t \in Sessions : ConnectClient(c, t)
          BY <4>1
        <5>2. pending'[c] = Answering(t, InMap)
          BY <5>1 DEF ConnectClient, With
        <5>3. t = s
          BY <3>2, <5>2 DEF Answering
        <5>4. s \in DOMAIN sessions /\ sessions'[s] = Claimed(sessions[s], c)
              /\ s \in DOMAIN sessions'
          BY <5>1, <5>3 DEF ConnectClient
        <5>5. sessions[s] \in HostInfo
          BY <5>4, InvParts DEF GoodSessions, GoodInfo
        <5>6. QED BY <5>4, <5>5, ClaimedType DEF Holds
      <4>2. CASE EncodeField(c)
        <5>1. c \in DOMAIN pending /\ pending[c] \in Handler
              /\ pending'[c] = NextField(pending[c], Pointee(c))
          BY <4>2, InvParts DEF EncodeField, GoodPending, GoodHandler
        <5>2. pending[c].session = s
          BY <3>2, <5>1 DEF NextField, Handler
        <5>3. QED BY <4>2, <5>1, <5>2 DEF EncodeField, ToldHold, Told, Holds
      <4>3. CASE c \in DOMAIN pending /\ pending'[c].session = pending[c].session
                 /\ ~DisconnectClient(c)
        <5>1. Told(c, s)
          BY <3>2, <4>3 DEF Told
        <5>2. QED BY <1>2, <4>3, <5>1, HolderStep
      <4>4. c \in DOMAIN pending => ~DisconnectClient(c)
        BY DEF ToldHold, ToldOnce, DisconnectClient
      <4> QED BY <1>2, <3>2, <4>1, <4>2, <4>3, <4>4, AnswerSteps
    <3> QED BY <2>3, <3>1, <3>2 DEF Told
  <2> QED BY <2>1, <2>2, <2>3
<1> QED BY <1>1, <1>2

\* A session that is never removed (by its host, the cleanup or a restart) is
\* had only by the one client that holds it: whoever was told that it has the
\* session is the client that the map names, until it releases it.  And though
\* the answer is read from the stored HostInfo after the mutex was given back,
\* it says "connected" and names the client it is for (ConnectClient,
\* DisconnectClient, respondSuccess).
THEOREM ClaimsAreExclusive ==
    ASSUME NEW s \in Sessions
    PROVE  Spec /\ [][Kept(s)]_vars => []ToldHold(s)
<1>1. Init => SessionInv /\ ToldHold(s)
  <2>1. Init => ToldHold(s)
    <3> SUFFICES ASSUME Init PROVE ToldHold(s)
      OBVIOUS
    <3>1. DOMAIN pending = {} /\ DOMAIN joined = {}
      BY DEF Init
    <3> QED BY <3>1 DEF ToldHold, ToldOnce, AnswerTrue, Told
  <2> QED BY <2>1, InitInv
<1> QED BY <1>1, SessionInvStep, ToldHoldStep, PTL DEF Spec

\* So no two clients are told that they have it.
COROLLARY NeverToldToTwo ==
    ASSUME NEW s \in Sessions, NEW c \in Clients, NEW d \in Clients, c # d
    PROVE  Spec /\ [][Kept(s)]_vars => [](~(Told(c, s) /\ Told(d, s)))
<1>1. ToldHold(s) => ~(Told(c, s) /\ Told(d, s))
  BY DEF ToldHold, Holds
<1> QED BY <1>1, ClaimsAreExclusive, PTL
=============================================================================
