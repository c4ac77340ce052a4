--------------------------- MODULE SessionManager ---------------------------
(***************************************************************************)
(* The signaling server (signaling/session.go, signaling/api.go): hosts    *)
(* register under a session id and send heartbeats, clients claim a session*)
(* and release it, and a cleanup removes the sessions not heard of.        *)
(*                                                                         *)
(* Each method of SessionManager holds the mutex from end to end and is one*)
(* step.  The handlers of register and connect write their answer after it,*)
(* field by field, from a pointer to the HostInfo.  While that object is in*)
(* the map, others may change what the handler will read; once it is       *)
(* removed, or if it never was in the map, the handler alone has it: from  *)
(* is InMap first, and the content of the object then.  A request that is  *)
(* refused changes nothing and is not an action.                           *)
(***************************************************************************)
EXTENDS Naturals, Sequences

CONSTANTS Sessions,         \* session ids, one for each host
          Clients,
          Addresses,        \* where a host may say that it is
          Timeout,          \* SessionManager::timeout
          NoClient,         \* ClientID ""
          InMap             \* a pointer to a stored HostInfo

VARIABLES sessions,         \* SessionManager::sessions
          pending,          \* the handlers that are writing an answer
          joined,           \* clients told that they have a session, and which
          up,               \* hosts that are running
          alive             \* clients that are running

vars == <<sessions, pending, joined, up, alive>>

\* HostInfo: port stands for TCPPort and UDPPort, age for the time since LastSeen.
HostInfo == [ip : Addresses, port : Addresses, state : {"", "waiting", "connected"},
             client : Clients \cup {NoClient}, age : 0..(Timeout + 1)]

\* A handler that is writing an answer, and what it has read.
Words   == Addresses \cup {"", "waiting", "connected"} \cup Clients \cup {NoClient}
Handler == [session : Sessions, from : HostInfo \cup {InMap}, read : Seq(Words)]

ASSUME SessionAssumption ==
    /\ Sessions \cap Clients = {}
    /\ NoClient \notin Clients
    /\ InMap \notin HostInfo
    /\ Timeout \in Nat

\* The order encoding/json reads the fields in.
Fields == <<"ip", "port", "state", "client">>

Without(f, S) == [x \in DOMAIN f \ S |-> f[x]]
With(f, k, v) == [x \in DOMAIN f \cup {k} |-> IF x = k THEN v ELSE f[x]]

Init ==
    /\ sessions = <<>>
    /\ pending = <<>>
    /\ joined = <<>>
    /\ up = Sessions
    /\ alive = Clients
-----------------------------------------------------------------------------
(* Answers *)

\* What the handler of a will read its answer from.
Answering(s, from) == [session |-> s, from |-> from, read |-> <<>>]

Pointee(a) == IF pending[a].from = InMap THEN sessions[pending[a].session] ELSE pending[a].from

\* The sessions in S leave the map: handlers that point to them keep them.
Detached(S) ==
    [a \in DOMAIN pending |->
        IF pending[a].from = InMap /\ pending[a].session \in S
        THEN [pending[a] EXCEPT !.from = sessions[pending[a].session]]
        ELSE pending[a]]

Written(a) == Len(pending[a].read) = Len(Fields)

NextField(h, info) == [h EXCEPT !.read = Append(@, info[Fields[Len(@) + 1]])]

\* respondSuccess encodes one more field.
EncodeField(a) ==
    /\ a \in DOMAIN pending
    /\ ~Written(a)
    /\ pending' = [pending EXCEPT ![a] = NextField(@, Pointee(a))]
    /\ UNCHANGED <<sessions, joined, up, alive>>

\* The answer arrives.  It tells a client that it has the session.
ReceiveAnswer(a) ==
    /\ a \in DOMAIN pending
    /\ Written(a)
    /\ pending' = Without(pending, {a})
    /\ joined' = IF a \in Clients THEN With(joined, a, pending[a].session) ELSE joined
    /\ UNCHANGED <<sessions, up, alive>>
-----------------------------------------------------------------------------
(* Hosts *)

NewInfo(addr, state) ==
    [ip |-> addr, port |-> addr, state |-> state, client |-> NoClient, age |-> 0]

\* Mutant of Registered: the state is not kept.
RegisteredAsNew(info, addr) ==
    [info EXCEPT !.ip = addr, !.port = addr, !.age = 0, !.state = "waiting"]

\* An existing session takes the new address and keeps its client.
Registered(info, addr) ==
    [info EXCEPT !.ip = addr, !.port = addr, !.age = 0,
                 !.state = IF info.state = "connected" THEN "connected" ELSE "waiting"]

\* Mutant of RegisterHost: a new session is stored before its state is set.
RegisterHostStateless(s, addr) ==
    /\ s \in up
    /\ s \notin DOMAIN pending
    /\ IF s \in DOMAIN sessions
       THEN /\ sessions' = With(sessions, s, Registered(sessions[s], addr))
            /\ pending' = With(pending, s, Answering(s, NewInfo(addr, "")))
       ELSE /\ sessions' = With(sessions, s, NewInfo(addr, ""))
            /\ pending' = With(pending, s, Answering(s, InMap))
    /\ UNCHANGED <<joined, up, alive>>

\* RegisterHost and its handler, which answers with the HostInfo it made: the
\* stored one for a new session, one of its own otherwise.
RegisterHost(s, addr) ==
    /\ s \in up
    /\ s \notin DOMAIN pending
    /\ IF s \in DOMAIN sessions
       THEN /\ sessions' = With(sessions, s, Registered(sessions[s], addr))
            /\ pending' = With(pending, s, Answering(s, NewInfo(addr, "")))
       ELSE /\ sessions' = With(sessions, s, NewInfo(addr, "waiting"))
            /\ pending' = With(pending, s, Answering(s, InMap))
    /\ UNCHANGED <<joined, up, alive>>

Refreshed(info) == [info EXCEPT !.age = 0]

UpdateHostHeartbeat(s) ==
    /\ s \in up
    /\ s \in DOMAIN sessions
    /\ sessions' = [sessions EXCEPT ![s] = Refreshed(@)]
    /\ UNCHANGED <<pending, joined, up, alive>>

RemoveHost(s) ==
    /\ s \in up
    /\ s \in DOMAIN sessions
    /\ sessions' = Without(sessions, {s})
    /\ pending' = Detached({s})
    /\ UNCHANGED <<joined, up, alive>>

\* The host is gone for good and tells nobody.
HostCrashes(s) ==
    /\ s \in up
    /\ up' = up \ {s}
    /\ pending' = Without(pending, {s})
    /\ UNCHANGED <<sessions, joined, alive>>
-----------------------------------------------------------------------------
(* Clients *)

\* Mutant of Claimable: only the states that are never set are refused.
ClaimableAlways(info) == info.state # "offline"

Claimable(info) == info.state # "connected" /\ info.state # "offline"

Claimed(info, c) == [info EXCEPT !.client = c, !.state = "connected", !.age = 0]

\* Mutant of Released: the client stays.
ReleasedByState(info) == [info EXCEPT !.state = "waiting"]

Released(info) == [info EXCEPT !.client = NoClient, !.state = "waiting"]

\* The handler answers with the stored HostInfo.
ConnectClient(c, s) ==
    /\ c \in alive
    /\ c \notin DOMAIN pending \cup DOMAIN joined
    /\ s \in DOMAIN sessions
    /\ Claimable(sessions[s])
    /\ sessions' = [sessions EXCEPT ![s] = Claimed(@, c)]
    /\ pending' = With(pending, c, Answering(s, InMap))
    /\ UNCHANGED <<joined, up, alive>>

\* A client releases the session it was told it has: DisconnectClient is
\* given the session only.
DisconnectClient(c) ==
    /\ c \in alive
    /\ c \in DOMAIN joined
    /\ sessions' = IF joined[c] \in DOMAIN sessions
                   THEN [sessions EXCEPT ![joined[c]] = Released(@)]
                   ELSE sessions
    /\ joined' = Without(joined, {c})
    /\ UNCHANGED <<pending, up, alive>>

\* The client is gone, or its answer is lost and it gives up.
ClientCrashes(c) ==
    /\ c \in alive
    /\ alive' = alive \ {c}
    /\ pending' = Without(pending, {c})
    /\ joined' = Without(joined, {c})
    /\ UNCHANGED <<sessions, up>>
-----------------------------------------------------------------------------
(* The server *)

\* Mutant of Expired: a session with a client is left alone.
ExpiredUnclaimed(info) == info.age > Timeout /\ info.state # "connected"

Expired(info) == info.age > Timeout

\* cleanup, at a tick of cleanupLoop.
Cleanup ==
    LET old == {s \in DOMAIN sessions : Expired(sessions[s])} IN
    /\ old # {}
    /\ sessions' = Without(sessions, old)
    /\ pending' = Detached(old)
    /\ UNCHANGED <<joined, up, alive>>

\* Time passes; an age saturates just past Timeout.
Tick ==
    /\ sessions' = [s \in DOMAIN sessions |->
           IF sessions[s].age > Timeout THEN sessions[s]
           ELSE [sessions[s] EXCEPT !.age = @ + 1]]
    /\ UNCHANGED <<pending, joined, up, alive>>

\* The server is stopped and started again: nothing is persisted, and the
\* requests in progress fail.
Restart ==
    /\ sessions' = <<>>
    /\ pending' = <<>>
    /\ UNCHANGED <<joined, up, alive>>

Next ==
    \/ \E a \in Clients \cup Sessions : EncodeField(a) \/ ReceiveAnswer(a)
    \/ \E s \in Sessions, addr \in Addresses : RegisterHost(s, addr)
    \/ \E s \in Sessions : UpdateHostHeartbeat(s) \/ RemoveHost(s) \/ HostCrashes(s)
    \/ \E c \in Clients, s \in Sessions : ConnectClient(c, s)
    \/ \E c \in Clients : DisconnectClient(c) \/ ClientCrashes(c)
    \/ Cleanup \/ Tick \/ Restart

Spec == Init /\ [][Next]_vars

\* The clock runs and the ticker fires.
FairSpec == Spec /\ WF_vars(Tick) /\ WF_vars(Cleanup)
-----------------------------------------------------------------------------
\* The types of the variables.  No stored session is ever without a state,
\* busy or offline, and a pointer to a stored HostInfo is to one in the map.
TypeOK ==
    /\ DOMAIN sessions \subseteq Sessions
    /\ \A s \in DOMAIN sessions :
           sessions[s] \in HostInfo /\ sessions[s].state # ""
    /\ DOMAIN pending \subseteq Clients \cup Sessions
    /\ \A a \in DOMAIN pending :
           /\ pending[a] \in Handler
           /\ pending[a].from = InMap => pending[a].session \in DOMAIN sessions
           /\ Len(pending[a].read) <= Len(Fields)
    /\ DOMAIN joined \subseteq Clients
    /\ \A c \in DOMAIN joined : joined[c] \in Sessions
    /\ up \subseteq Sessions
    /\ alive \subseteq Clients

\* A session is connected exactly when it names a client, whatever
\* registrations, claims, releases and removals came before.
StateMatchesClient ==
    \A s \in DOMAIN sessions :
        sessions[s].state = "connected" <=> sessions[s].client # NoClient

\* No step takes a session from one client to another: it is free in between.
Loses(s) ==
    s \in DOMAIN sessions /\ s \in DOMAIN sessions' /\ sessions[s].client # NoClient
        => sessions'[s].client \in {sessions[s].client, NoClient}

NoStealing == [][\A s \in Sessions : Loses(s)]_vars

\* A host that is gone for good is removed for good, unless clients keep
\* claiming its session for ever.
StaleRemoved ==
    \A s \in Sessions :
        <>[](s \notin up) =>
            \/ <>[](s \notin DOMAIN sessions)
            \/ []<>(s \in DOMAIN sessions /\ sessions[s].age = 0)
=============================================================================
