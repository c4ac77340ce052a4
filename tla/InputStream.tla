----------------------------- MODULE InputStream -----------------------------
(***************************************************************************)
(* The control connection from a client to the host, as the host reads it: *)
(* NetworkServer::ReceiveThread (host/network_server.cpp) peeks at a       *)
(* header to learn what comes, then receives an input packet, for the      *)
(* InputHandler, or a control packet, from a TCP stream that arrives in    *)
(* pieces of any size.  A cell is 4 bytes: nothing in the code depends on  *)
(* a finer cut, for every size it uses is a multiple of 4.                 *)
(*                                                                         *)
(* The packets are numbered in the order they were sent.  A send that      *)
(* times out may leave a piece of its packet in the stream, and nobody     *)
(* looks at what it returned.  Outside of the model: a payload that        *)
(* happens to begin like a header.                                         *)
(***************************************************************************)
EXTENDS Naturals, Sequences

CONSTANTS HeaderSize,       \* cells of a header, 2
          InputSize,        \* cells of an InputPacket, 9
          ControlSize,      \* cells of a ControlPacket, 17
          DrainSize,        \* cells thrown away at an invalid header, 64
          PieceSizes,       \* cells that a send which fails may leave
          MaxPackets        \* bound on the packets sent

ASSUME StreamAssumption ==
    /\ {HeaderSize, InputSize, ControlSize, DrainSize} \subseteq Nat \ {0}
    /\ HeaderSize <= InputSize /\ HeaderSize <= ControlSize
    /\ PieceSizes \subseteq Nat \ {0}
    /\ MaxPackets \in Nat

VARIABLES sent,             \* the packets: kind, first cell, cells in the stream,
                            \* whether the handler was there
          link,             \* "open", "closed" by the client, or "reset"
          arrived,          \* cells that have reached the host's socket
          consumed,         \* cells that recv has taken out of it
          step,             \* what ReceiveThread does next
          freed,            \* KeepaliveThread has freed the ClientInfo
          inputHandler,     \* SetInputHandler was called
          injected          \* numbers of the packets given to InputHandler

client == <<sent, link>>
server == <<step, freed, injected>>
vars == <<client, arrived, consumed, server, inputHandler>>

Kinds == {"input", "control"}
-----------------------------------------------------------------------------
Size(kind) == IF kind = "input" THEN InputSize ELSE ControlSize

\* Cells sent so far.
Length == IF sent = <<>> THEN 0
          ELSE sent[Len(sent)].start + sent[Len(sent)].size

\* What may get into the stream of a packet: all of it, or a piece.
Sizes(kind) == {Size(kind)} \union {n \in PieceSizes : n < Size(kind)}

\* A packet went into the stream in part.
Torn == \E i \in DOMAIN sent : sent[i].size # Size(sent[i].kind)

Available == arrived - consumed

\* Mutant of Recv: waits until there are n cells.
RecvAll(n) == n

\* What recv takes out of the socket when it is asked for n cells.
Recv(n) == IF Available < n THEN Available ELSE n

\* The packets whose header starts at the next cell: one, or none.
Next1 == {i \in DOMAIN sent : sent[i].start = consumed /\ sent[i].size >= HeaderSize}

HeaderOf(kind) == \E i \in Next1 : sent[i].kind = kind

Init ==
    /\ sent = <<>> /\ link = "open"
    /\ arrived = 0 /\ consumed = 0
    /\ step = "peek" /\ freed = FALSE
    /\ inputHandler = FALSE
    /\ injected = <<>>

(***************************************************************************)
(* The client and the network.                                             *)
(***************************************************************************)
\* SendInputEvent, SendKeepalive: send takes the whole packet, or n cells of it.
Send(kind, n) ==
    /\ link = "open" /\ Len(sent) < MaxPackets
    /\ sent' = Append(sent, [kind |-> kind, start |-> Length, size |-> n,
                             heard |-> inputHandler])
    /\ UNCHANGED <<link, arrived, consumed, server, inputHandler>>

\* Everything that was sent still arrives.
Close ==
    /\ link = "open"
    /\ link' = "closed"
    /\ UNCHANGED <<sent, arrived, consumed, server, inputHandler>>

\* Nothing can be sent or received any more.
Reset ==
    /\ link = "open"
    /\ link' = "reset"
    /\ UNCHANGED <<sent, arrived, consumed, server, inputHandler>>

\* The network delivers another piece of the stream.
Arrive ==
    /\ link # "reset"
    /\ \E n \in arrived + 1 .. Length : arrived' = n
    /\ UNCHANGED <<client, consumed, server, inputHandler>>

\* The host application sets the handler after it has started the server.
SetInputHandler ==
    /\ ~inputHandler
    /\ inputHandler' = TRUE
    /\ UNCHANGED <<client, arrived, consumed, server>>
-----------------------------------------------------------------------------
(***************************************************************************)
(* ReceiveThread.  Each recv is a step of its own: more of the stream can  *)
(* arrive between the peek and the recv after it.                          *)
(***************************************************************************)
\* recv returns 0 at the end of the stream, and an error after a reset: the
\* client is inactive and the thread ends.  A timeout, and a header that is not
\* there yet, only make it wait.
PeekFails ==
    /\ step = "peek" /\ ~freed
    /\ link = "reset" \/ (link = "closed" /\ arrived = Length /\ Available = 0)
    /\ step' = "ended"
    /\ UNCHANGED <<client, arrived, consumed, freed, injected, inputHandler>>

\* A whole header is there: the kind of the packet that begins at it, or no
\* packet does.
PeekHeader ==
    /\ step = "peek" /\ link # "reset"
    /\ Available >= HeaderSize
    /\ step' = CASE HeaderOf("input") -> "input"
                 [] HeaderOf("control") -> "control"
                 [] OTHER -> "drain"
    /\ UNCHANGED <<client, arrived, consumed, freed, injected, inputHandler>>

Drain ==
    /\ step = "drain" /\ link # "reset"
    /\ consumed' = consumed + Recv(DrainSize)
    /\ step' = "peek"
    /\ UNCHANGED <<client, arrived, freed, injected, inputHandler>>

\* The packet is injected, whatever SendInput makes of it.
HandleInputPacket(i) == Append(injected, i)

\* Mutant of ReceiveInput: the packet is peeked at again, not received.
ReceiveInputPeeks ==
    /\ step = "input" /\ link # "reset"
    /\ UNCHANGED consumed
    /\ injected' = IF Recv(InputSize) = InputSize /\ inputHandler
                   THEN HandleInputPacket(CHOOSE i \in Next1 : TRUE) ELSE injected
    /\ step' = "peek"
    /\ UNCHANGED <<client, arrived, freed, inputHandler>>

\* A packet that has not arrived as a whole is thrown away with what there
\* is of it; a whole one goes to InputHandler::HandleInputPacket, if any.  Of a
\* packet that is in the stream in part the end is the next one's beginning.
ReceiveInput ==
    LET n == Recv(InputSize)
        i == CHOOSE j \in Next1 : TRUE
    IN  /\ step = "input" /\ link # "reset"
        /\ consumed' = consumed + n
        /\ injected' = IF n = InputSize /\ inputHandler
                       THEN HandleInputPacket(i) ELSE injected
        /\ step' = "peek"
        /\ UNCHANGED <<client, arrived, freed, inputHandler>>

\* HandleControlPacket changes nothing, whole or not.
ReceiveControl ==
    /\ step = "control" /\ link # "reset"
    /\ consumed' = consumed + Recv(ControlSize)
    /\ step' = "peek"
    /\ UNCHANGED <<client, arrived, freed, injected, inputHandler>>

\* The second recv fails, and the peek after it will.
ReceiveFails ==
    /\ step \in {"drain"} \union Kinds /\ ~freed /\ link = "reset"
    /\ step' = "peek"
    /\ UNCHANGED <<client, arrived, consumed, freed, injected, inputHandler>>

\* The ClientInfo is gone under the thread: its next look at active, and at the
\* socket, finds anything, and the loop ends or goes round.
ReadsFreed ==
    /\ freed /\ step # "ended"
    /\ step' \in {"peek", "ended"}
    /\ UNCHANGED <<client, arrived, consumed, freed, injected, inputHandler>>

\* KeepaliveThread: a client that was silent for too long, whatever its link is,
\* is disconnected, which ends the connection; and every inactive client is
\* erased and freed in the same critical section.
KeepaliveTimeout ==
    /\ ~freed
    /\ freed' = TRUE
    /\ link' = "reset"
    /\ UNCHANGED <<sent, arrived, consumed, step, injected, inputHandler>>

ReceiveThread ==
    \/ PeekFails \/ PeekHeader \/ Drain \/ ReceiveInput \/ ReceiveControl
    \/ ReceiveFails \/ ReadsFreed

Next ==
    \/ \E kind \in Kinds : \E n \in Sizes(kind) : Send(kind, n)
    \/ Close \/ Reset \/ Arrive \/ SetInputHandler
    \/ ReceiveThread \/ KeepaliveTimeout

Spec == Init /\ [][Next]_vars
-----------------------------------------------------------------------------
\* The types of the variables: no more is read than arrived, and no more
\* arrives than was sent.
TypeOK ==
    /\ sent \in Seq([kind : Kinds, start : Nat, size : Nat \ {0}, heard : BOOLEAN])
    /\ Len(sent) <= MaxPackets
    /\ link \in {"open", "closed", "reset"}
    /\ arrived \in 0..Length
    /\ consumed \in 0..arrived
    /\ step \in {"peek", "drain", "input", "control", "ended"}
    /\ step \in Kinds => HeaderOf(step)
    /\ freed \in BOOLEAN /\ inputHandler \in BOOLEAN
    /\ injected \in Seq(Nat)

\* However the stream is cut into pieces and whatever is thrown away, the
\* host acts on input packets that the client sent, each at most once, in the
\* order of the client: also where a send that failed has put it out of step.
\* (ReceiveThread; only of a packet sent in part is what it injects another's.)
InjectedFaithfully ==
    /\ \A k \in DOMAIN injected :
          injected[k] \in DOMAIN sent /\ sent[injected[k]].kind = "input"
    /\ \A k, m \in DOMAIN injected : k < m => injected[k] < injected[m]

\* "TCP for control: Reliability for input events": an input packet that the
\* host has read past was injected, if the handler was there when it was sent
\* and every send has put its whole packet into the stream.
EveryEventInjected ==
    ~Torn => \A i \in DOMAIN sent :
        sent[i].kind = "input" /\ sent[i].heard
          /\ consumed >= sent[i].start + InputSize /\ step = "peek"
        => \E k \in DOMAIN injected : injected[k] = i
=============================================================================
