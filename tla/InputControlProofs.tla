-------------------------- MODULE InputControlProofs --------------------------
(***************************************************************************)
(* What is proved of the control connection, for every size of a header,   *)
(* of a packet and of the drain buffer, every way TCP can cut the stream   *)
(* and every piece of a packet that a failing send can leave in it: the    *)
(* host injects only input packets the client sent, each at most once and  *)
(* in order.                                                               *)
(*                                                                         *)
(* The argument: packets start at increasing cells (StartsIncrease), and   *)
(* what was injected starts before the next cell to be read (InjectedRead),*)
(* so a packet that starts at that cell is a later one.                    *)
(*                                                                         *)
(* Then, of the composition with user and desktop: it implements the       *)
(* stream; a key that is down at the host is down since an injected event  *)
(* (DownSince), one whose last event sent was to go down is pressed or its *)
(* release was not sent (PressedSince), so a host that lost nothing holds  *)
(* no key too many; and the pointer is where the last injected movement    *)
(* took it (PointerAt).                                                    *)
(***************************************************************************)
EXTENDS InputControl, TLAPS

Packet == [kind : Kinds, start : Nat, size : Nat \ {0}, heard : BOOLEAN]

\* The parts of the invariant, as far as they are about the client ...
SentTyped == sent \in Seq(Packet) /\ inputHandler \in BOOLEAN

StartsIncrease ==
    /\ \A i, j \in DOMAIN sent : i < j => sent[i].start < sent[j].start
    /\ \A i \in DOMAIN sent : sent[i].start < Length

\* ... and about the host.
ReadTyped ==
    /\ consumed \in Nat /\ arrived \in Nat
    /\ consumed <= arrived
    /\ injected \in Seq(Nat)
    /\ step = "input" => HeaderOf("input")

InjectedRead ==
    \A k \in DOMAIN injected :
        /\ injected[k] \in DOMAIN sent
        /\ sent[injected[k]].kind = "input"
        /\ sent[injected[k]].start < consumed

InjectedIncrease ==
    \A k, m \in DOMAIN injected : k < m => injected[k] < injected[m]

StreamInv ==
    SentTyped /\ StartsIncrease /\ ReadTyped /\ InjectedRead /\ InjectedIncrease
-----------------------------------------------------------------------------
LEMMA SizesArePositive ==
    /\ InputSize \in Nat \ {0} /\ ControlSize \in Nat \ {0}
    /\ DrainSize \in Nat \ {0} /\ HeaderSize \in Nat \ {0}
    /\ \A kind \in Kinds : Size(kind) \in Nat \ {0} /\ Size(kind) >= HeaderSize
    /\ \A kind \in Kinds : Sizes(kind) \subseteq Nat \ {0}
  BY StreamAssumption DEF StreamAssumption, Size, Sizes, Kinds

\* The length of the stream is a number, and 0 only if nothing was sent.
LEMMA LengthIsNat ==
    ASSUME SentTyped
    PROVE  Length \in Nat
<1>1. CASE sent = <<>>
  BY <1>1 DEF Length
<1>2. CASE sent # <<>>
  <2>1. Len(sent) \in DOMAIN sent /\ sent[Len(sent)] \in Packet
    BY <1>2 DEF SentTyped
  <2>2. sent[Len(sent)].start \in Nat /\ sent[Len(sent)].size \in Nat
    BY <2>1 DEF Packet
  <2>3. QED BY <1>2, <2>2 DEF Length
<1>3. QED BY <1>1, <1>2

LEMMA PacketTyped ==
    ASSUME SentTyped, NEW i \in DOMAIN sent
    PROVE  /\ i \in Nat /\ sent[i].start \in Nat /\ sent[i].kind \in Kinds
           /\ sent[i].size \in Nat \ {0}
<1>1. sent[i] \in Packet /\ i \in Nat
  BY DEF SentTyped
<1>2. QED BY <1>1 DEF Packet

\* recv takes nothing that has not arrived.
LEMMA RecvBounds ==
    ASSUME ReadTyped, NEW n \in Nat
    PROVE  Recv(n) \in Nat /\ Recv(n) <= n /\ consumed + Recv(n) <= arrived
  BY DEF ReadTyped, Recv, Available
-----------------------------------------------------------------------------
LEMMA StreamStarts == Init => StreamInv
<1> SUFFICES ASSUME Init PROVE StreamInv
  OBVIOUS
<1>1. /\ sent = <<>> /\ injected = <<>> /\ consumed = 0 /\ arrived = 0
      /\ step = "peek" /\ inputHandler = FALSE
  BY DEF Init
<1>2. SentTyped /\ StartsIncrease
  <2>1. SentTyped
    <3>1. <<>> \in Seq(Packet)
      OBVIOUS
    <3>2. inputHandler \in BOOLEAN
      BY <1>1
    <3>3. sent = <<>>
      BY <1>1
    <3>4. QED BY <3>1, <3>2, <3>3, Zenon DEF SentTyped
  <2>2. DOMAIN sent = {}
    BY <1>1
  <2>3. StartsIncrease
    BY <2>2 DEF StartsIncrease
  <2>4. QED BY <2>1, <2>3
<1>3. ReadTyped /\ InjectedRead /\ InjectedIncrease
  BY <1>1 DEF ReadTyped, InjectedRead, InjectedIncrease
<1>4. QED BY <1>2, <1>3 DEF StreamInv

\* What the client sends is put behind everything else.
LEMMA SendStep ==
    ASSUME StreamInv, NEW kind \in Kinds, NEW n \in Sizes(kind), Send(kind, n)
    PROVE  StreamInv'
<1> DEFINE p == [kind |-> kind, start |-> Length, size |-> n, heard |-> inputHandler]
<1>0. SentTyped /\ StartsIncrease /\ ReadTyped /\ InjectedRead /\ InjectedIncrease
  BY DEF StreamInv
<1>1. /\ sent' = Append(sent, p)
      /\ UNCHANGED <<arrived, consumed, step, injected, inputHandler>>
  BY DEF Send, server
<1>2. Length \in Nat /\ n \in Nat \ {0}
  BY <1>0, LengthIsNat, SizesArePositive
<1>3. p \in Packet
  BY <1>0, <1>2 DEF Packet, SentTyped
<1>4. /\ SentTyped'
      /\ DOMAIN sent' = 1 .. Len(sent) + 1
      /\ sent'[Len(sent) + 1] = p
      /\ \A i \in DOMAIN sent : i \in DOMAIN sent' /\ sent'[i] = sent[i]
  BY <1>0, <1>1, <1>3 DEF SentTyped
<1>5. Len(sent) \in Nat /\ DOMAIN sent = 1 .. Len(sent) /\ Len(sent') = Len(sent) + 1
  BY <1>0, <1>1, <1>3 DEF SentTyped
<1>6. \A i \in DOMAIN sent : sent[i].start \in Nat
  BY <1>0, PacketTyped
<1>7. Length' = Length + n
  <2>1. sent' # <<>>
    BY <1>0, <1>1, <1>3 DEF SentTyped
  <2>2. Length' = sent'[Len(sent')].start + sent'[Len(sent')].size
    BY <2>1 DEF Length
  <2>3. QED BY <1>4, <1>5, <2>2
<1>8. Length < Length'
  BY <1>2, <1>7
<1>9. StartsIncrease'
  <2>1. \A i \in DOMAIN sent' : sent'[i].start <= Length
    BY <1>0, <1>2, <1>4, <1>5, <1>6 DEF StartsIncrease
  <2>2. \A i \in DOMAIN sent' : sent'[i].start \in Nat
    BY <1>2, <1>4, <1>5, <1>6
  <2>3. Length' \in Nat
    BY <1>2, <1>7
  <2>4. \A i \in DOMAIN sent' : sent'[i].start < Length'
    BY <1>2, <1>8, <2>1, <2>2, <2>3
  <2>5. ASSUME NEW i \in DOMAIN sent', NEW j \in DOMAIN sent', i < j
        PROVE  sent'[i].start < sent'[j].start
    <3>1. i \in DOMAIN sent
      BY <1>4, <1>5, <2>5
    <3>2. CASE j \in DOMAIN sent
      BY <1>0, <1>4, <2>5, <3>1, <3>2 DEF StartsIncrease
    <3>3. CASE j = Len(sent) + 1
      BY <1>0, <1>4, <3>1, <3>3 DEF StartsIncrease
    <3>4. QED BY <1>4, <1>5, <3>2, <3>3
  <2>6. QED BY <2>4, <2>5 DEF StartsIncrease
<1>10. HeaderOf("input") => HeaderOf("input")'
  BY <1>1, <1>4 DEF HeaderOf, Next1
<1>11. ReadTyped'
  BY <1>0, <1>1, <1>10 DEF ReadTyped
<1>12. InjectedRead' /\ InjectedIncrease'
  BY <1>0, <1>1, <1>4 DEF InjectedRead, InjectedIncrease
<1>13. QED
  BY <1>4, <1>9, <1>11, <1>12 DEF StreamInv

\* A step that neither sends nor injects, and only reads on.
LEMMA ReadOnStep ==
    ASSUME StreamInv, UNCHANGED <<sent, injected>>,
           inputHandler' \in BOOLEAN,
           consumed' \in Nat, arrived' \in Nat,
           consumed <= consumed', consumed' <= arrived',
           step' = "input" => HeaderOf("input")'
    PROVE  StreamInv'
<1>0. SentTyped /\ StartsIncrease /\ ReadTyped /\ InjectedRead /\ InjectedIncrease
  BY DEF StreamInv
<1>1. SentTyped' /\ StartsIncrease' /\ InjectedIncrease'
  BY <1>0 DEF SentTyped, StartsIncrease, InjectedIncrease, Length
<1>2. ReadTyped'
  BY <1>0 DEF ReadTyped
<1>3. InjectedRead'
  <2>1. \A k \in DOMAIN injected : sent[injected[k]].start \in Nat
    BY <1>0, PacketTyped DEF InjectedRead
  <2>2. consumed \in Nat
    BY <1>0 DEF ReadTyped
  <2>3. QED BY <1>0, <2>1, <2>2 DEF InjectedRead
<1>4. QED BY <1>1, <1>2, <1>3 DEF StreamInv

\* What ReceiveInput receives is the input packet whose header was seen.
LEMMA ReceivedIsNext ==
    ASSUME StreamInv, HeaderOf("input"), NEW i, i = CHOOSE j \in Next1 : TRUE
    PROVE  i \in Next1 /\ sent[i].kind = "input"
<1>1. PICK j \in Next1 : sent[j].kind = "input"
  BY DEF HeaderOf
<1>2. i \in Next1
  BY <1>1
<1>3. /\ i \in DOMAIN sent /\ j \in DOMAIN sent
      /\ sent[i].start = consumed /\ sent[j].start = consumed
  BY <1>1, <1>2 DEF Next1
<1>4. i \in Nat /\ j \in Nat /\ consumed \in Nat
  BY <1>3 DEF StreamInv, SentTyped, ReadTyped
<1>5. ~(i < j) /\ ~(j < i)
  BY <1>3, <1>4 DEF StreamInv, StartsIncrease
<1>6. QED BY <1>1, <1>2, <1>4, <1>5

\* The only step that injects: the packet starts at the cell to be read next.
LEMMA ReceiveInputStep ==
    ASSUME StreamInv, ReceiveInput
    PROVE  StreamInv'
<1> DEFINE n == Recv(InputSize)
           i == CHOOSE j \in Next1 : TRUE
<1>0. SentTyped /\ StartsIncrease /\ ReadTyped /\ InjectedRead /\ InjectedIncrease
  BY DEF StreamInv
<1>1. /\ step = "input" /\ step' = "peek"
      /\ consumed' = consumed + n
      /\ injected' = IF n = InputSize /\ inputHandler
                     THEN Append(injected, i) ELSE injected
      /\ UNCHANGED <<sent, arrived, inputHandler>>
      /\ inputHandler' \in BOOLEAN
  BY <1>0 DEF ReceiveInput, HandleInputPacket, client, SentTyped
<1>2. n \in Nat /\ consumed + n <= arrived /\ consumed \in Nat /\ arrived \in Nat
  BY <1>0, RecvBounds, SizesArePositive DEF ReadTyped
<1>3. i \in DOMAIN sent /\ sent[i].start = consumed /\ sent[i].kind = "input"
  BY <1>0, <1>1, ReceivedIsNext DEF ReadTyped, Next1
<1> HIDE DEF n, i
<1>4. CASE ~(n = InputSize /\ inputHandler)
  BY <1>1, <1>2, <1>4, ReadOnStep
<1>5. CASE n = InputSize /\ inputHandler
  <2>1. injected' = Append(injected, i) /\ consumed < consumed'
    BY <1>1, <1>2, <1>5, SizesArePositive
  <2>2. i \in Nat
    BY <1>0, <1>3 DEF SentTyped
  <2>3. /\ injected' \in Seq(Nat)
        /\ DOMAIN injected = 1 .. Len(injected) /\ Len(injected) \in Nat
        /\ DOMAIN injected' = 1 .. Len(injected) + 1
        /\ injected'[Len(injected) + 1] = i
        /\ \A k \in DOMAIN injected : injected'[k] = injected[k]
    BY <1>0, <2>1, <2>2 DEF ReadTyped
  <2>4. \A k \in DOMAIN injected : injected[k] < i
    <3> SUFFICES ASSUME NEW k \in DOMAIN injected PROVE injected[k] < i
      OBVIOUS
    <3>1. injected[k] \in DOMAIN sent /\ sent[injected[k]].start < consumed
      BY <1>0 DEF InjectedRead
    <3>2. injected[k] \in Nat /\ sent[injected[k]].start \in Nat
      BY <1>0, <3>1, PacketTyped
    <3>3. injected[k] # i /\ ~(i < injected[k])
      BY <1>0, <1>2, <1>3, <3>1, <3>2 DEF StartsIncrease
    <3>4. QED BY <2>2, <3>2, <3>3
  <2>5. SentTyped' /\ StartsIncrease'
    BY <1>0, <1>1 DEF SentTyped, StartsIncrease, Length
  <2>6. ReadTyped'
    BY <1>1, <1>2, <2>3 DEF ReadTyped
  <2>7. InjectedIncrease'
    <3> SUFFICES ASSUME NEW k \in DOMAIN injected', NEW m \in DOMAIN injected', k < m
                 PROVE  injected'[k] < injected'[m]
      BY DEF InjectedIncrease
    <3>1. k \in DOMAIN injected
      BY <2>3
    <3>2. CASE m \in DOMAIN injected
      BY <1>0, <2>3, <3>1, <3>2 DEF InjectedIncrease
    <3>3. CASE m = Len(injected) + 1
      BY <2>3, <2>4, <3>1, <3>3
    <3>4. QED BY <2>3, <3>2, <3>3
  <2>8. InjectedRead'
    <3> SUFFICES ASSUME NEW k \in DOMAIN injected'
                 PROVE  /\ injected'[k] \in DOMAIN sent
                        /\ sent[injected'[k]].kind = "input"
                        /\ sent[injected'[k]].start < consumed'
      BY <1>1 DEF InjectedRead
    <3>1. CASE k \in DOMAIN injected
      <4>1. injected[k] \in DOMAIN sent /\ sent[injected[k]].kind = "input"
            /\ sent[injected[k]].start < consumed
        BY <1>0, <3>1 DEF InjectedRead
      <4>2. sent[injected[k]].start \in Nat
        BY <1>0, <4>1, PacketTyped
      <4>3. QED BY <1>1, <1>2, <2>1, <2>3, <3>1, <4>1, <4>2
    <3>2. CASE k = Len(injected) + 1
      BY <1>3, <2>1, <2>3, <3>2
    <3>3. QED BY <2>3, <3>1, <3>2
  <2>9. QED BY <2>5, <2>6, <2>7, <2>8 DEF StreamInv
<1>6. QED BY <1>4, <1>5

LEMMA StreamStep == StreamInv /\ [Next]_vars => StreamInv'
<1> SUFFICES ASSUME StreamInv, [Next]_vars PROVE StreamInv'
  OBVIOUS
<1>0. SentTyped /\ ReadTyped /\ Length \in Nat
  BY LengthIsNat DEF StreamInv
<1>1. /\ inputHandler \in BOOLEAN
      /\ consumed \in Nat /\ arrived \in Nat /\ consumed <= arrived
  BY <1>0 DEF ReadTyped, SentTyped
<1>2. CASE \E kind \in Kinds : \E n \in Sizes(kind) : Send(kind, n)
  BY <1>2, SendStep
<1>3. ASSUME UNCHANGED <<sent, injected, arrived, consumed>>,
             step' \in {step, "peek", "ended"}, inputHandler' \in BOOLEAN
      PROVE  StreamInv'
  <2>1. step' = "input" => HeaderOf("input")'
    BY <1>0, <1>3 DEF ReadTyped, HeaderOf, Next1
  <2>2. QED BY <1>1, <1>3, <2>1, ReadOnStep
<1>4. CASE Close \/ Reset \/ SetInputHandler \/ PeekFails \/ ReceiveFails
             \/ ReadsFreed \/ KeepaliveTimeout \/ UNCHANGED vars
  <2>1. /\ UNCHANGED <<sent, injected, arrived, consumed>>
        /\ step' \in {step, "peek", "ended"} /\ inputHandler' \in BOOLEAN
    BY <1>1, <1>4 DEF Close, Reset, SetInputHandler, PeekFails, ReceiveFails, ReadsFreed,
       KeepaliveTimeout, vars, client, server
  <2>2. QED BY <1>3, <2>1
<1>5. CASE Arrive
  <2>1. arrived' \in Nat /\ arrived <= arrived'
        /\ UNCHANGED <<sent, injected, consumed, step, inputHandler>>
    BY <1>0, <1>1, <1>5 DEF Arrive, client, server
  <2>2. step' = "input" => HeaderOf("input")'
    BY <1>0, <2>1 DEF ReadTyped, HeaderOf, Next1
  <2>3. QED BY <1>1, <2>1, <2>2, ReadOnStep
<1>6. CASE PeekHeader
  <2>1. /\ UNCHANGED <<sent, injected, arrived, consumed, inputHandler>>
        /\ step' = "input" => HeaderOf("input")
    BY <1>6 DEF PeekHeader, client
  <2>2. step' = "input" => HeaderOf("input")'
    BY <2>1 DEF HeaderOf, Next1
  <2>3. QED BY <1>1, <2>1, <2>2, ReadOnStep
<1>7. CASE Drain \/ ReceiveControl
  <2>1. PICK n \in Nat : consumed' = consumed + Recv(n)
    BY <1>7, SizesArePositive DEF Drain, ReceiveControl
  <2>2. step' = "peek" /\ UNCHANGED <<sent, injected, arrived, inputHandler>>
    BY <1>7 DEF Drain, ReceiveControl, client
  <2>3. Recv(n) \in Nat /\ consumed + Recv(n) <= arrived
    BY <1>0, RecvBounds
  <2>4. QED BY <1>1, <2>1, <2>2, <2>3, ReadOnStep
<1>8. CASE ReceiveInput
  BY <1>8, ReceiveInputStep
<1>9. QED
  BY <1>2, <1>4, <1>5, <1>6, <1>7, <1>8 DEF Next, ReceiveThread

-----------------------------------------------------------------------------
\* What TypeOK says beyond StreamInv.
RestTyped ==
    /\ Len(sent) <= MaxPackets
    /\ link \in {"open", "closed", "reset"}
    /\ arrived <= Length
    /\ step \in {"peek", "drain", "input", "control", "ended"}
    /\ step = "control" => HeaderOf("control")
    /\ freed \in BOOLEAN

LEMMA RestStarts == Init => RestTyped
<1> SUFFICES ASSUME Init PROVE RestTyped
  OBVIOUS
<1>1. sent = <<>> /\ link = "open" /\ arrived = 0 /\ step = "peek" /\ freed = FALSE
  BY DEF Init
<1>2. Len(sent) <= MaxPackets /\ arrived <= Length
  BY <1>1, StreamAssumption DEF StreamAssumption, Length
<1>3. QED BY <1>1, <1>2 DEF RestTyped

\* The stream only gets longer.
LEMMA LengthGrows ==
    ASSUME SentTyped, NEW kind \in Kinds, NEW n \in Sizes(kind), Send(kind, n)
    PROVE  /\ Len(sent') = Len(sent) + 1
           /\ Length' \in Nat /\ Length <= Length'
           /\ HeaderOf("control") => HeaderOf("control")'
<1> DEFINE p == [kind |-> kind, start |-> Length, size |-> n, heard |-> inputHandler]
<1>1. sent' = Append(sent, p) /\ consumed' = consumed /\ Length \in Nat /\ n \in Nat \ {0}
  BY LengthIsNat, SizesArePositive DEF Send
<1>2. p \in Packet
  BY <1>1 DEF Packet, SentTyped
<1>3. /\ sent' # <<>> /\ Len(sent') = Len(sent) + 1 /\ Len(sent') \in Nat
      /\ sent'[Len(sent')] = p
      /\ \A i \in DOMAIN sent : i \in DOMAIN sent' /\ sent'[i] = sent[i]
  BY <1>1, <1>2 DEF SentTyped
<1>4. Length' = sent'[Len(sent')].start + sent'[Len(sent')].size
  BY <1>3 DEF Length
<1>5. Length' = Length + n
  BY <1>3, <1>4
<1>6. HeaderOf("control") => HeaderOf("control")'
  BY <1>1, <1>3 DEF HeaderOf, Next1
<1>7. QED BY <1>1, <1>3, <1>5, <1>6

LEMMA RestStep == StreamInv /\ RestTyped /\ [Next]_vars => RestTyped'
<1> SUFFICES ASSUME StreamInv, RestTyped, [Next]_vars PROVE RestTyped'
  OBVIOUS
<1>0. SentTyped /\ ReadTyped /\ Length \in Nat
  BY LengthIsNat DEF StreamInv
<1>1. ASSUME NEW kind \in Kinds, NEW n \in Sizes(kind), Send(kind, n)
      PROVE  RestTyped'
  <2>1. /\ Len(sent') <= MaxPackets
        /\ UNCHANGED <<link, arrived, step, freed>>
    BY <1>0, <1>1, LengthGrows, StreamAssumption
    DEF StreamAssumption, Send, server, SentTyped
  <2>2. Length' \in Nat
    BY <1>0, <1>1, LengthGrows
  <2>3. arrived' <= Length'
    BY <1>0, <1>1, <2>1, <2>2, LengthGrows DEF ReadTyped, RestTyped
  <2>4. HeaderOf("control") => HeaderOf("control")'
    BY <1>0, <1>1, LengthGrows
  <2>5. QED BY <2>1, <2>3, <2>4 DEF RestTyped
<1>2. ASSUME UNCHANGED sent, link' \in {"open", "closed", "reset"},
             arrived' <= Length, freed' \in BOOLEAN,
             \/ UNCHANGED <<step, consumed>>
             \/ step' \in {"peek", "drain", "input", "control", "ended"}
                  /\ (step' = "control" => HeaderOf("control") /\ UNCHANGED consumed)
      PROVE  RestTyped'
  <2>1. Length' = Length
    BY <1>2 DEF Length
  <2>2. UNCHANGED consumed => HeaderOf("control")' = HeaderOf("control")
    BY <1>2 DEF HeaderOf, Next1
  <2>3. QED BY <1>2, <2>1, <2>2 DEF RestTyped
<1>3. CASE Close \/ Reset \/ SetInputHandler \/ KeepaliveTimeout \/ PeekFails
             \/ ReceiveFails \/ ReadsFreed \/ UNCHANGED vars
  BY <1>2, <1>3 DEF Close, Reset, SetInputHandler, KeepaliveTimeout, PeekFails,
     ReceiveFails, ReadsFreed, vars, client, server, RestTyped
<1>4. CASE Arrive
  <2>1. arrived' <= Length
    BY <1>0, <1>4 DEF Arrive, ReadTyped
  <2>2. QED BY <1>2, <1>4, <2>1 DEF Arrive, client, server, RestTyped
<1>5. CASE PeekHeader
  <2>1. /\ step' \in {"peek", "drain", "input", "control", "ended"}
        /\ step' = "control" => HeaderOf("control")
    BY <1>5 DEF PeekHeader
  <2>2. QED BY <1>2, <1>5, <2>1 DEF PeekHeader, client, RestTyped
<1>6. CASE Drain \/ ReceiveInput \/ ReceiveControl
  BY <1>2, <1>6 DEF Drain, ReceiveInput, ReceiveControl, client, RestTyped
<1>7. QED
  BY <1>1, <1>3, <1>4, <1>5, <1>6 DEF Next, ReceiveThread
-----------------------------------------------------------------------------
\* The types of the stream: nothing is read that has not arrived, nothing
\* arrives that was not sent, and a second recv follows a header it knows.
THEOREM StreamTyped == Spec => []TypeOK
<1>1. StreamInv /\ RestTyped => TypeOK
  <2> SUFFICES ASSUME StreamInv, RestTyped PROVE TypeOK
    OBVIOUS
  <2>1. SentTyped /\ ReadTyped /\ Length \in Nat
    BY LengthIsNat DEF StreamInv
  <2>2. arrived \in 0..Length /\ consumed \in 0..arrived
    BY <2>1 DEF ReadTyped, RestTyped
  <2>3. step \in Kinds => HeaderOf(step)
    BY <2>1 DEF ReadTyped, RestTyped, Kinds
  <2>4. QED
    BY <2>1, <2>2, <2>3 DEF TypeOK, SentTyped, ReadTyped, RestTyped, Packet
<1>2. QED
  BY <1>1, StreamStarts, StreamStep, RestStarts, RestStep, PTL DEF Spec

\* Whatever TCP, the drain and sends that fail do to the stream, the host
\* injects input packets that the client sent, in order, and at most once.
THEOREM InputFaithful == Spec => []InjectedFaithfully
<1>1. StreamInv => InjectedFaithfully
  BY DEF StreamInv, InjectedRead, InjectedIncrease, InjectedFaithfully
<1>2. QED BY <1>1, StreamStarts, StreamStep, PTL DEF Spec

-----------------------------------------------------------------------------
(***************************************************************************)
(* Where events are lost, as long as every send puts its whole packet into *)
(* the stream.  A recv that finds its packet in part is the only way: as   *)
(* long as none does, the host stays in step with the packets (InStep),    *)
(* never drains, and injects every input packet it reads past.             *)
(***************************************************************************)
\* The packet whose header was seen is there as a whole when it is received.
NotShort == (ReceiveInput \/ ReceiveControl) => Available >= Size(step)

\* Every byte that has arrived belongs to a packet that has arrived as a whole.
WholeArrivals == arrived = Length \/ \E i \in DOMAIN sent : sent[i].start = arrived

Contiguous ==
    \A i \in DOMAIN sent :
        sent[i].start + Size(sent[i].kind)
           = IF i = Len(sent) THEN Length ELSE sent[i + 1].start

InStep == consumed = Length \/ Next1 # {}

NeverDrains == step # "drain"

HeardByHandler == \A i \in DOMAIN sent : sent[i].heard => inputHandler

\* Every input packet before the next cell to be read was injected.
PastInjected ==
    \A i \in DOMAIN sent :
        sent[i].kind = "input" /\ sent[i].heard /\ sent[i].start < consumed => Injected(i)

WholeInv == Contiguous /\ InStep /\ NeverDrains /\ HeardByHandler /\ PastInjected

UntornInv == Torn \/ WholeInv

LEMMA WholeStarts == Init => WholeInv
<1> SUFFICES ASSUME Init PROVE WholeInv
  OBVIOUS
<1>1. DOMAIN sent = {} /\ Length = 0 /\ consumed = 0 /\ step = "peek"
  BY DEF Init, Length
<1>2. QED
  BY <1>1 DEF WholeInv, Contiguous, InStep, NeverDrains, HeardByHandler, PastInjected

\* A new packet begins where the stream ended.
LEMMA SendWhole ==
    ASSUME StreamInv, WholeInv, ~Torn',
           NEW kind \in Kinds, NEW n \in Sizes(kind), Send(kind, n)
    PROVE  WholeInv'
<1> DEFINE p == [kind |-> kind, start |-> Length, size |-> n, heard |-> inputHandler]
<1>0. /\ SentTyped /\ ReadTyped /\ Contiguous /\ InStep /\ HeardByHandler /\ PastInjected
      /\ Length \in Nat
  BY LengthIsNat DEF StreamInv, WholeInv
<1>1. /\ sent' = Append(sent, p)
      /\ UNCHANGED <<arrived, consumed, step, injected, inputHandler>>
  BY DEF Send, server
<1>2. /\ p \in Packet /\ p.kind = kind /\ p.start = Length /\ p.heard = inputHandler
      /\ p.size = n
  BY <1>0, SizesArePositive DEF Packet, SentTyped
<1> HIDE DEF p
<1>3. /\ Len(sent) \in Nat /\ Len(sent') = Len(sent) + 1 /\ sent' # <<>>
      /\ DOMAIN sent = 1 .. Len(sent) /\ DOMAIN sent' = 1 .. Len(sent) + 1
      /\ sent'[Len(sent) + 1] = p
      /\ \A i \in DOMAIN sent : sent'[i] = sent[i]
  BY <1>0, <1>1, <1>2 DEF SentTyped
<1>3a. Len(sent) # Len(sent') /\ Len(sent') = Len(sent) + 1
  <2>1. ASSUME NEW m \in Nat, NEW l, l = m + 1 PROVE m # l
    BY <2>1
  <2>2. QED BY <1>3, <2>1
<1>3b. n = Size(kind) /\ n >= HeaderSize
  <2>1. Len(sent) + 1 \in DOMAIN sent'
    BY <1>3
  <2>2. n = Size(kind)
    BY <1>2, <1>3, <2>1 DEF Torn, Size
  <2>3. QED BY <2>2, SizesArePositive
<1>4. Length' = Length + Size(kind)
  BY <1>1, <1>2, <1>3, <1>3b DEF Length, Size
<1>5. Contiguous'
  <2> SUFFICES ASSUME NEW i \in DOMAIN sent'
               PROVE  sent'[i].start + Size(sent'[i].kind)
                        = IF i = Len(sent') THEN Length' ELSE sent'[i + 1].start
    BY DEF Contiguous, Size
  <2>1. CASE i = Len(sent) + 1
    <3>1. sent'[i] = p /\ i = Len(sent')
      BY <1>3, <2>1
    <3>2. QED BY <1>2, <1>4, <3>1
  <2>2. CASE i = Len(sent) /\ i \in DOMAIN sent
    <3>1. sent'[i] = sent[i] /\ sent'[i + 1] = p /\ i # Len(sent')
      BY <1>3, <1>3a, <2>2, Zenon
    <3>2. sent[i].start + Size(sent[i].kind) = Length
      BY <1>0, <2>2 DEF Contiguous
    <3>3. QED BY <1>2, <3>1, <3>2
  <2>3. CASE i # Len(sent) /\ i \in DOMAIN sent
    <3>1. i + 1 \in DOMAIN sent /\ i # Len(sent')
      BY <1>3, <2>3
    <3>2. sent'[i] = sent[i] /\ sent'[i + 1] = sent[i + 1]
      BY <1>3, <2>3, <3>1
    <3>3. sent[i].start + Size(sent[i].kind) = sent[i + 1].start
      BY <1>0, <2>3 DEF Contiguous
    <3>4. QED BY <3>1, <3>2, <3>3
  <2>4. QED BY <1>3, <2>1, <2>2, <2>3
<1>6. InStep'
  <2>1. CASE consumed = Length
    BY <1>1, <1>2, <1>3, <1>3b, <2>1 DEF InStep, Next1
  <2>2. CASE Next1 # {}
    <3>1. PICK i \in DOMAIN sent : sent[i].start = consumed /\ sent[i].size >= HeaderSize
      BY <2>2 DEF Next1
    <3>2. i \in DOMAIN sent' /\ sent'[i].start = consumed' /\ sent'[i].size >= HeaderSize
      BY <1>1, <1>3, <3>1
    <3>3. QED BY <3>2 DEF InStep, Next1
  <2>3. QED BY <1>0, <2>1, <2>2 DEF InStep
<1>7. NeverDrains'
  BY <1>1 DEF WholeInv, NeverDrains
<1>8. HeardByHandler'
  BY <1>0, <1>1, <1>2, <1>3 DEF HeardByHandler
<1>9. PastInjected'
  <2> SUFFICES ASSUME NEW i \in DOMAIN sent', sent'[i].kind = "input", sent'[i].heard,
                      sent'[i].start < consumed
               PROVE  Injected(i)
    BY <1>1 DEF PastInjected, Injected
  <2>1. consumed \in Nat
    BY <1>0 DEF ReadTyped
  <2>2. CASE i \in DOMAIN sent
    BY <1>0, <1>3, <2>2 DEF PastInjected
  <2>3. CASE i = Len(sent) + 1
    <3>1. Length < consumed
      BY <1>2, <1>3, <2>3
    <3>2. \A j \in DOMAIN sent : sent[j].start < Length
      BY DEF StreamInv, StartsIncrease
    <3>3. FALSE
      BY <1>0, <2>1, <3>1, <3>2 DEF InStep, Next1
    <3>4. QED BY <3>3
  <2>4. QED BY <1>3, <2>2, <2>3
<1>10. QED BY <1>5, <1>6, <1>7, <1>8, <1>9 DEF WholeInv

\* A header that is there is the header of a packet, while the host is in step.
LEMMA HeaderThere ==
    ASSUME StreamInv, RestTyped, WholeInv, Available >= HeaderSize
    PROVE  HeaderOf("input") \/ HeaderOf("control")
<1>0. SentTyped /\ ReadTyped /\ InStep /\ Length \in Nat /\ arrived <= Length
  BY LengthIsNat DEF StreamInv, WholeInv, RestTyped
<1>1. HeaderSize \in Nat \ {0} /\ arrived \in Nat /\ consumed \in Nat
  BY <1>0, SizesArePositive DEF ReadTyped
<1>2. consumed # Length
  BY <1>0, <1>1 DEF Available
<1>3. PICK i \in Next1 : TRUE
  BY <1>0, <1>2 DEF InStep
<1>4. sent[i].kind \in Kinds
  BY <1>0, PacketTyped DEF Next1
<1>5. QED BY <1>3, <1>4 DEF HeaderOf, Kinds

\* Only the packet at the next cell starts before the one behind it.
LEMMA NextPacket ==
    ASSUME StreamInv, Contiguous, NEW i \in Next1,
           NEW j \in DOMAIN sent, sent[j].start < consumed + Size(sent[i].kind)
    PROVE  j = i \/ sent[j].start < consumed
<1>0. SentTyped /\ StartsIncrease
  BY DEF StreamInv
<1>1. /\ i \in DOMAIN sent /\ sent[i].start = consumed
      /\ i \in Nat /\ j \in Nat /\ Len(sent) \in Nat /\ DOMAIN sent = 1 .. Len(sent)
      /\ sent[j].start \in Nat
  BY <1>0, PacketTyped DEF Next1, SentTyped
<1>2. CASE j < i
  BY <1>0, <1>1, <1>2 DEF StartsIncrease
<1>3. CASE i < j
  <2>1. i + 1 \in DOMAIN sent /\ i # Len(sent)
    BY <1>1, <1>3
  <2>2. sent[i + 1].start = consumed + Size(sent[i].kind)
    BY <1>1, <2>1 DEF Contiguous
  <2>3. sent[i + 1].start \in Nat
    BY <1>0, <2>1, PacketTyped
  <2>4. i + 1 = j \/ sent[i + 1].start < sent[j].start
    <3>1. i + 1 = j \/ i + 1 < j
      BY <1>1, <1>3
    <3>2. QED BY <1>0, <2>1, <3>1 DEF StartsIncrease
  <2>5. ~(sent[j].start < sent[i + 1].start)
    BY <1>1, <2>3, <2>4
  <2>6. QED BY <2>2, <2>5
<1>4. QED BY <1>1, <1>2, <1>3

\* A packet that is received as a whole leaves the host at the next one.
LEMMA ReceiveWhole ==
    ASSUME StreamInv, WholeInv, RestTyped, ~Torn, NEW i \in Next1,
           UNCHANGED <<sent, inputHandler>>, step' = "peek",
           consumed' = consumed + Size(sent[i].kind),
           \A j \in DOMAIN sent : Injected(j) => Injected(j)',
           sent[i].kind = "input" /\ sent[i].heard => Injected(i)'
    PROVE  WholeInv'
<1>0. /\ SentTyped /\ ReadTyped /\ Contiguous /\ HeardByHandler /\ PastInjected
      /\ Length \in Nat
  BY LengthIsNat DEF StreamInv, WholeInv
<1>1. i \in DOMAIN sent /\ sent[i].start = consumed
  BY DEF Next1
<1>2. Length' = Length
  BY DEF Length, Size
<1>3. InStep'
  <2>1. CASE i = Len(sent)
    BY <1>0, <1>1, <1>2, <2>1 DEF Contiguous, InStep
  <2>2. CASE i # Len(sent)
    <3>1. i + 1 \in DOMAIN sent
      BY <1>0, <1>1, <2>2 DEF SentTyped
    <3>2. sent[i + 1].start = consumed'
      BY <1>0, <1>1, <2>2 DEF Contiguous
    <3>3. sent[i + 1].size >= HeaderSize
      BY <1>0, <3>1, PacketTyped, SizesArePositive DEF Torn
    <3>4. QED BY <3>1, <3>2, <3>3 DEF InStep, Next1
  <2>3. QED BY <2>1, <2>2
<1>4. Contiguous' /\ HeardByHandler'
  BY <1>0, <1>2 DEF Contiguous, HeardByHandler, Size
<1>5. NeverDrains'
  BY DEF NeverDrains
<1>6. PastInjected'
  <2> SUFFICES ASSUME NEW j \in DOMAIN sent, sent[j].kind = "input", sent[j].heard,
                      sent[j].start < consumed'
               PROVE  Injected(j)'
    BY DEF PastInjected
  <2>1. j = i \/ sent[j].start < consumed
    BY <1>0, NextPacket
  <2>2. CASE j = i
    BY <2>2
  <2>3. CASE sent[j].start < consumed
    BY <1>0, <2>3 DEF PastInjected
  <2>4. QED BY <2>1, <2>2, <2>3
<1>7. QED BY <1>3, <1>4, <1>5, <1>6 DEF WholeInv

\* A step that reads nothing loses nothing.
LEMMA NothingRead ==
    ASSUME WholeInv, UNCHANGED <<sent, consumed, injected>>, inputHandler => inputHandler',
           step' # "drain"
    PROVE  WholeInv'
<1>1. Length' = Length /\ Next1' = Next1 /\ \A i : Injected(i)' = Injected(i)
  BY DEF Length, Size, Next1, Injected
<1>2. Contiguous' /\ InStep' /\ NeverDrains'
  BY <1>1 DEF WholeInv, Contiguous, InStep, NeverDrains, Size
<1>3. HeardByHandler' /\ PastInjected'
  BY <1>1 DEF WholeInv, HeardByHandler, PastInjected
<1>4. QED BY <1>2, <1>3 DEF WholeInv

\* What was injected stays injected.
LEMMA StaysInjected ==
    ASSUME injected \in Seq(Nat), NEW n \in Nat, injected' = Append(injected, n)
    PROVE  Injected(n)' /\ \A j : Injected(j) => Injected(j)'
<1>1. /\ DOMAIN injected' = 1 .. Len(injected) + 1 /\ Len(injected) \in Nat
      /\ DOMAIN injected = 1 .. Len(injected)
      /\ injected'[Len(injected) + 1] = n
      /\ \A k \in DOMAIN injected : injected'[k] = injected[k]
  OBVIOUS
<1>2. QED BY <1>1 DEF Injected

\* What is in the stream in part stays there.
LEMMA TornStays == ASSUME SentTyped, Torn, [Next]_vars PROVE Torn'
<1>1. CASE \E kind \in Kinds : \E n \in Sizes(kind) : Send(kind, n)
  <2>1. PICK kind \in Kinds : \E n \in Sizes(kind) : Send(kind, n)
    BY <1>1
  <2>2. PICK n \in Sizes(kind) : Send(kind, n)
    BY <2>1
  <2>3. \E p : sent' = Append(sent, p)
    BY <2>2 DEF Send
  <2>4. \A i \in DOMAIN sent : i \in DOMAIN sent' /\ sent'[i] = sent[i]
    BY <2>3 DEF SentTyped
  <2>5. QED BY <2>4 DEF Torn, Size
<1>2. CASE UNCHANGED sent
  BY <1>2 DEF Torn, Size
<1>3. QED
  BY <1>1, <1>2 DEF Next, ReceiveThread, vars, client, Close, Reset, Arrive, SetInputHandler,
     PeekFails, PeekHeader, Drain, ReceiveInput, ReceiveControl, ReceiveFails, ReadsFreed,
     KeepaliveTimeout

LEMMA WholeStep ==
    ASSUME StreamInv, RestTyped, WholeInv, ~Torn', [Next]_vars, NotShort
    PROVE  WholeInv'
<1>0. /\ SentTyped /\ ReadTyped /\ HeardByHandler /\ NeverDrains /\ Length \in Nat
      /\ ~Torn
  BY LengthIsNat, TornStays DEF StreamInv, WholeInv
<1>1. CASE \E kind \in Kinds : \E n \in Sizes(kind) : Send(kind, n)
  BY <1>1, SendWhole
<1>2. CASE Close \/ Reset \/ Arrive \/ SetInputHandler \/ PeekFails \/ ReceiveFails
             \/ ReadsFreed \/ KeepaliveTimeout \/ UNCHANGED vars
  <2>1. /\ UNCHANGED <<sent, consumed, injected>> /\ step' \in {step, "peek", "ended"}
        /\ inputHandler => inputHandler'
    BY <1>2 DEF Close, Reset, Arrive, SetInputHandler, PeekFails, ReceiveFails,
       ReadsFreed, KeepaliveTimeout, vars, client, server
  <2>2. QED BY <1>0, <2>1, NothingRead DEF NeverDrains
<1>3. CASE PeekHeader
  <2>1. HeaderOf("input") \/ HeaderOf("control")
    BY <1>3, HeaderThere DEF PeekHeader
  <2>2. /\ UNCHANGED <<sent, consumed, injected, inputHandler>>
        /\ step' \in Kinds
    BY <1>3, <2>1 DEF PeekHeader, client, Kinds
  <2>3. QED BY <2>2, NothingRead DEF Kinds
<1>4. ~Drain
  BY <1>0 DEF Drain, NeverDrains
<1>5. CASE ReceiveInput
  <2> DEFINE i == CHOOSE j \in Next1 : TRUE
  <2>1. PICK k \in Next1 : k = i /\ sent[k].kind = "input"
    BY <1>0, <1>5, ReceivedIsNext DEF ReceiveInput, ReadTyped
  <2>2. k \in DOMAIN sent /\ k \in Nat
    BY <1>0, <2>1, PacketTyped DEF Next1
  <2>4. step = "input" /\ Available >= InputSize
    BY <1>5 DEF NotShort, ReceiveInput, Size
  <2>5. Recv(InputSize) = InputSize
    BY <1>0, <2>4, SizesArePositive DEF Recv, Available, ReadTyped
  <2>6. /\ consumed' = consumed + InputSize /\ step' = "peek"
        /\ UNCHANGED <<sent, inputHandler>>
        /\ injected' = IF inputHandler THEN Append(injected, k) ELSE injected
    BY <1>5, <2>1, <2>5 DEF ReceiveInput, HandleInputPacket, client
  <2>7. /\ \A j \in DOMAIN sent : Injected(j) => Injected(j)'
        /\ inputHandler => Injected(k)'
    <3>1. CASE inputHandler
      <4>1. injected' = Append(injected, k)
        BY <2>6, <3>1, Zenon
      <4>2. injected \in Seq(Nat)
        BY <1>0 DEF ReadTyped
      <4>3. Injected(k)' /\ \A j : Injected(j) => Injected(j)'
        BY <2>2, <4>1, <4>2, StaysInjected
      <4>4. QED BY <4>3, Zenon
    <3>2. CASE ~inputHandler
      <4>1. injected' = injected
        BY <2>6, <3>2, Zenon
      <4>2. \A j : Injected(j)' = Injected(j)
        BY <4>1 DEF Injected
      <4>3. QED BY <3>2, <4>2, Zenon
    <3>3. QED BY <3>1, <3>2
  <2>8. sent[k].heard => inputHandler
    BY <1>0, <2>2 DEF HeardByHandler
  <2>9. consumed' = consumed + Size(sent[k].kind)
    BY <2>1, <2>6 DEF Size
  <2>10. sent[k].kind = "input" /\ sent[k].heard => Injected(k)'
    BY <2>7, <2>8, Zenon
  <2>11. \A j \in DOMAIN sent : Injected(j) => Injected(j)'
    BY <2>7, Zenon
  <2>12. UNCHANGED <<sent, inputHandler>> /\ step' = "peek"
    BY <2>6
  <2>13. QED BY <1>0, <2>1, <2>9, <2>10, <2>11, <2>12, ReceiveWhole, Zenon
<1>6. CASE ReceiveControl
  <2>1. PICK i \in Next1 : sent[i].kind = "control"
    BY <1>6 DEF ReceiveControl, RestTyped, HeaderOf
  <2>2. step = "control" /\ Available >= ControlSize
    BY <1>6 DEF NotShort, ReceiveControl, Size
  <2>3. Recv(ControlSize) = ControlSize
    BY <1>0, <2>2, SizesArePositive DEF Recv, Available, ReadTyped
  <2>4. /\ consumed' = consumed + ControlSize /\ step' = "peek"
        /\ UNCHANGED <<sent, inputHandler, injected>>
    BY <1>6, <2>3 DEF ReceiveControl, client
  <2>5. consumed' = consumed + Size(sent[i].kind)
    BY <2>1, <2>4 DEF Size
  <2>6. \A j \in DOMAIN sent : Injected(j) => Injected(j)'
    BY <2>4 DEF Injected
  <2>7. QED BY <1>0, <2>1, <2>4, <2>5, <2>6, ReceiveWhole
<1>7. QED
  BY <1>1, <1>2, <1>3, <1>4, <1>5, <1>6 DEF Next, ReceiveThread

LEMMA UntornStarts == Init => UntornInv
  BY WholeStarts DEF UntornInv

LEMMA UntornStep ==
    ASSUME StreamInv, RestTyped, UntornInv, [Next]_vars, WholeInv => NotShort
    PROVE  UntornInv'
<1>1. CASE Torn
  BY <1>1, TornStays DEF UntornInv, StreamInv
<1>2. CASE WholeInv
  BY <1>2, WholeStep DEF UntornInv
<1>3. QED BY <1>1, <1>2 DEF UntornInv

LEMMA WholeInjectsAll ==
    ASSUME StreamInv, UntornInv
    PROVE  EveryEventInjected
<1> SUFFICES ASSUME ~Torn, NEW i \in DOMAIN sent, sent[i].kind = "input", sent[i].heard,
                    consumed >= sent[i].start + InputSize
             PROVE  Injected(i)
  BY DEF EveryEventInjected, Injected
<1>1. sent[i].start \in Nat /\ consumed \in Nat /\ InputSize \in Nat \ {0}
  BY PacketTyped, SizesArePositive DEF StreamInv, ReadTyped
<1>2. sent[i].start < consumed
  BY <1>1
<1>3. QED BY <1>2 DEF UntornInv, WholeInv, PastInjected

LEMMA UncutStep ==
    StreamInv /\ RestTyped /\ UntornInv /\ [Next]_vars /\ [NotShort]_vars => UntornInv'
<1> SUFFICES ASSUME StreamInv, RestTyped, UntornInv, [Next]_vars, [NotShort]_vars
             PROVE  UntornInv'
  OBVIOUS
<1>1. CASE NotShort
  BY <1>1, UntornStep
<1>2. CASE UNCHANGED vars
  <2>1. Torn' = Torn
    BY <1>2 DEF vars, client, Torn, Size
  <2>2. WholeInv => WholeInv'
    BY <1>2, NothingRead DEF vars, client, server, WholeInv, NeverDrains
  <2>3. QED BY <2>1, <2>2 DEF UntornInv
<1>3. QED BY <1>1, <1>2

\* As long as every send takes its whole packet and no recv finds one in part,
\* the host injects every input packet it reads past, if the handler was there
\* when it was sent.  Of what was sent as a whole a short recv is therefore the
\* only thing that loses an event (ReceiveThread).
THEOREM LostOnlyByShortRecv ==
    Spec /\ [][NotShort]_vars => []EveryEventInjected
<1>1. StreamInv /\ UntornInv => EveryEventInjected
  BY WholeInjectsAll
<1>2. QED
  BY <1>1, UncutStep, StreamStarts, StreamStep, RestStarts, RestStep, UntornStarts, PTL DEF Spec

\* Between the peek and the recv behind it nothing is taken out of the socket.
HeaderArrived == step \in {"drain"} \union Kinds => consumed < arrived

LEMMA HeaderArrivedStep ==
    StreamInv /\ RestTyped /\ HeaderArrived /\ [Next]_vars => HeaderArrived'
<1> SUFFICES ASSUME StreamInv, RestTyped, HeaderArrived, [Next]_vars PROVE HeaderArrived'
  OBVIOUS
<1>0. SentTyped /\ arrived \in Nat /\ consumed \in Nat /\ Length \in Nat
  BY LengthIsNat DEF StreamInv, ReadTyped
<1>1. CASE PeekHeader
  <2>1. Available >= HeaderSize /\ UNCHANGED <<arrived, consumed>>
    BY <1>1 DEF PeekHeader
  <2>2. QED BY <1>0, <2>1, SizesArePositive DEF Available, HeaderArrived
<1>2. CASE Arrive
  <2>1. arrived < arrived' /\ arrived' \in Nat /\ UNCHANGED <<step, consumed>>
    BY <1>0, <1>2 DEF Arrive, server
  <2>2. QED BY <1>0, <2>1 DEF HeaderArrived
<1>3. CASE Drain \/ ReceiveInput \/ ReceiveControl \/ ReceiveFails \/ ReadsFreed \/ PeekFails
  <2>1. step' \in {"peek", "ended"}
    BY <1>3 DEF Drain, ReceiveInput, ReceiveControl, ReceiveFails, ReadsFreed, PeekFails
  <2>2. QED BY <2>1 DEF HeaderArrived, Kinds
<1>4. CASE (\E kind \in Kinds : \E n \in Sizes(kind) : Send(kind, n)) \/ Close \/ Reset
             \/ SetInputHandler \/ KeepaliveTimeout \/ UNCHANGED vars
  <2>1. UNCHANGED <<step, consumed, arrived>>
    BY <1>4 DEF Send, Close, Reset, SetInputHandler, KeepaliveTimeout, vars, client, server
  <2>2. QED BY <2>1 DEF HeaderArrived
<1>5. QED BY <1>1, <1>2, <1>3, <1>4 DEF Next, ReceiveThread

\* When only whole packets have arrived, the one that is received has.
LEMMA WholeIsNotShort ==
    ASSUME StreamInv, RestTyped, WholeInv, HeaderArrived, WholeArrivals,
           NEW i \in Next1, step \in Kinds
    PROVE  Available >= Size(sent[i].kind)
<1>0. /\ SentTyped /\ StartsIncrease /\ Contiguous
      /\ arrived \in Nat /\ consumed \in Nat /\ Length \in Nat
      /\ consumed < arrived /\ arrived <= Length
  BY LengthIsNat DEF StreamInv, ReadTyped, WholeInv, HeaderArrived, RestTyped
<1>1. /\ i \in DOMAIN sent /\ sent[i].start = consumed
      /\ sent[i].kind \in Kinds
  BY <1>0, PacketTyped DEF Next1
<1>2. Size(sent[i].kind) \in Nat
  BY <1>1, SizesArePositive
<1>3. consumed + Size(sent[i].kind) <= arrived
  <2>1. SUFFICES ASSUME arrived < consumed + Size(sent[i].kind) PROVE FALSE
    BY <1>0, <1>2
  <2>2. CASE \E j \in DOMAIN sent : sent[j].start = arrived
    <3>1. PICK j \in DOMAIN sent : sent[j].start = arrived
      BY <2>2
    <3>2. j = i \/ sent[j].start < consumed
      BY <1>0, <2>1, <3>1, NextPacket
    <3>3. arrived = consumed \/ arrived < consumed
      BY <1>1, <3>1, <3>2
    <3>4. QED BY <1>0, <3>3
  <2>3. CASE arrived = Length
    <3>1. CASE i = Len(sent)
      <4>1. consumed + Size(sent[i].kind) = Length
        BY <1>0, <1>1, <3>1 DEF Contiguous
      <4>2. QED BY <1>0, <2>1, <2>3, <4>1
    <3>2. CASE i # Len(sent)
      <4>1. i + 1 \in DOMAIN sent
        BY <1>0, <1>1, <3>2 DEF SentTyped
      <4>2. consumed + Size(sent[i].kind) = sent[i + 1].start
        BY <1>0, <1>1, <3>2 DEF Contiguous
      <4>3. sent[i + 1].start < Length /\ sent[i + 1].start \in Nat
        BY <1>0, <4>1, PacketTyped DEF StartsIncrease
      <4>4. QED BY <1>0, <2>1, <2>3, <4>2, <4>3
    <3>3. QED BY <3>1, <3>2
  <2>4. QED BY <2>2, <2>3 DEF WholeArrivals
<1>4. QED BY <1>0, <1>2, <1>3 DEF Available

\* On a connection that never cuts a packet no input event is lost as long as
\* every send takes its whole packet, whatever is sent in between and whenever
\* the handler is set.
THEOREM NothingLostUncut ==
    Spec /\ []WholeArrivals => []EveryEventInjected
<1>1. Init => HeaderArrived
  BY DEF Init, HeaderArrived, Kinds
<1>2. StreamInv /\ RestTyped /\ UntornInv /\ HeaderArrived /\ WholeArrivals /\ [Next]_vars
         => UntornInv'
  <2> SUFFICES ASSUME StreamInv, RestTyped, UntornInv, HeaderArrived, WholeArrivals, [Next]_vars
               PROVE  UntornInv'
    OBVIOUS
  <2>1. ASSUME WholeInv, ReceiveInput PROVE Available >= Size(step)
    <3>1. step = "input" /\ HeaderOf("input")
      BY <2>1 DEF ReceiveInput, StreamInv, ReadTyped
    <3>2. PICK i \in Next1 : sent[i].kind = "input"
      BY <3>1 DEF HeaderOf
    <3>3. QED BY <2>1, <3>1, <3>2, WholeIsNotShort DEF Kinds
  <2>2. ASSUME WholeInv, ReceiveControl PROVE Available >= Size(step)
    <3>1. step = "control" /\ HeaderOf("control")
      BY <2>2 DEF ReceiveControl, RestTyped
    <3>2. PICK i \in Next1 : sent[i].kind = "control"
      BY <3>1 DEF HeaderOf
    <3>3. QED BY <2>2, <3>1, <3>2, WholeIsNotShort DEF Kinds
  <2>3. WholeInv => NotShort
    BY <2>1, <2>2 DEF NotShort
  <2>4. QED BY <2>3, UntornStep
<1>3. StreamInv /\ UntornInv => EveryEventInjected
  BY WholeInjectsAll
<1>4. QED
  BY <1>1, <1>2, <1>3, StreamStarts, StreamStep, RestStarts, RestStep, UntornStarts,
     HeaderArrivedStep, PTL DEF Spec

-----------------------------------------------------------------------------
(***************************************************************************)
(* The composition.                                                        *)
(***************************************************************************)
LEMMA ControlStepIsStreamStep == [ControlNext]_controlVars => [Next]_vars
<1>1. \A event : SendInputEvent(event) => Next
  BY DEF SendInputEvent, Next, Kinds
<1>2. User => Next \/ UNCHANGED vars
  <2>0. EventDropped => UNCHANGED vars
    BY DEF EventDropped
  <2>1. \A k : KeyDown(k) \/ KeyUp(k) => Next \/ UNCHANGED vars
    BY <1>1, <2>0 DEF KeyDown, KeyUp
  <2>2. \A x : MouseMoves(x) => Next
    BY <1>1 DEF MouseMoves
  <2>3. SendKeepalive => Next
    BY DEF SendKeepalive, Next, Kinds
  <2>4. QED BY <2>1, <2>2, <2>3 DEF User
<1>3. Handle => Next
  BY DEF Handle, Next, ReceiveThread
<1>4. Passes => Next
  BY DEF Passes, Next, ReceiveThread
<1>5. UNCHANGED controlVars => UNCHANGED vars
  BY DEF controlVars
<1>6. QED BY <1>2, <1>3, <1>4, <1>5 DEF ControlNext

\* Remote control from end to end uses the control connection only as its
\* module allows, so what is proved of the connection holds.
THEOREM ControlImplementsStream == ControlSpec => Spec
<1>1. ControlInit => Init
  BY DEF ControlInit
<1>2. QED BY <1>1, ControlStepIsStreamStep, PTL DEF ControlSpec, Spec

\* The host injects what the user did, whole, in order, and at most once.
THEOREM ControlFaithful == ControlSpec => []InjectedFaithfully
BY ControlImplementsStream, InputFaithful, PTL

-----------------------------------------------------------------------------
(* Coordinates: with a desktop that is not too wide nothing wraps around. *)

\* Integer division: the quotient and what it leaves.
LEMMA DivBounds ==
    ASSUME NEW a \in Nat, NEW b \in Nat \ {0}
    PROVE  /\ a \div b \in Nat
           /\ (a \div b) * b <= a
           /\ a < (a \div b) * b + b
<1>1. a \div b \in Int /\ a % b \in 0..(b-1) /\ a = b * (a \div b) + (a % b)
  OBVIOUS
<1>2. QED BY <1>1

\* A remainder is determined by its range.
LEMMA ModUnique ==
    ASSUME NEW n \in Nat, NEW b \in Nat \ {0}, n < b
    PROVE  n % b = n
<1>1. n % b \in 0..(b-1) /\ n \div b \in Int /\ n = b * (n \div b) + (n % b)
  OBVIOUS
<1>2. QED BY <1>1

\* The real sizes are among those that are assumed: coordinates of 16 bits,
\* products of 32, and desktops of up to 32769 pixels.  With one more the
\* product may not fit.
LEMMA RealSizes ==
    /\ \A width \in 1..32769 : (width - 1) * 65535 <= 2147483647 /\ 2 * (width - 1) <= 65535 + 1
    /\ (32770 - 1) * 65535 > 2147483647
OBVIOUS

LEMMA NoWrap ==
    ASSUME NEW n \in Nat, n <= IntMax
    PROVE  Int32(n) = n
<1>1. IntMax \in Nat
  BY ControlAssumption DEF ControlAssumption
<1>2. n + IntMax + 1 \in Nat /\ 2 * (IntMax + 1) \in Nat \ {0} /\ n + IntMax + 1 < 2 * (IntMax + 1)
  BY <1>1
<1>3. (n + IntMax + 1) % (2 * (IntMax + 1)) = n + IntMax + 1
  BY <1>2, ModUnique
<1>4. QED BY <1>1, <1>3 DEF Int32

LEMMA Clamped ==
    ASSUME NEW x \in Int
    PROVE  Clamp(x) \in 0 .. Width - 1
BY ControlAssumption DEF ControlAssumption, Clamp

\* Multiplication by the range keeps the order.
LEMMA ProductGrows ==
    ASSUME NEW a \in Nat, NEW b \in Nat, NEW c \in Nat, a <= b
    PROVE  a * c <= b * c
OBVIOUS

\* The absolute coordinate is the exact one, rounded down.
LEMMA AbsoluteBounds ==
    ASSUME NEW x \in Int
    PROVE  /\ Absolute(x) \in Nat
           /\ Absolute(x) * Width <= Clamp(x) * AbsRange
           /\ Clamp(x) * AbsRange < Absolute(x) * Width + Width
<1> DEFINE c == Clamp(x)
<1>1. Width \in Nat \ {0} /\ AbsRange \in Nat /\ IntMax \in Nat /\ (Width - 1) * AbsRange <= IntMax
  BY ControlAssumption DEF ControlAssumption
<1>2. c \in Nat /\ c <= Width - 1 /\ Width - 1 \in Nat
  BY <1>1, Clamped
<1> HIDE DEF c
<1>3. c * AbsRange \in Nat /\ c * AbsRange <= IntMax
  <2>1. c * AbsRange <= (Width - 1) * AbsRange
    BY <1>1, <1>2, ProductGrows
  <2>2. c * AbsRange \in Nat /\ (Width - 1) * AbsRange \in Nat
    BY <1>1, <1>2
  <2>3. QED BY <1>1, <2>1, <2>2
<1>4. Int32(c * AbsRange) = c * AbsRange
  BY <1>3, NoWrap
<1>5. Absolute(x) = (c * AbsRange) \div Width
  BY <1>4 DEF Absolute, c
<1>6. QED BY <1>1, <1>3, <1>5, DivBounds DEF c

LEMMA MoveIsInt ==
    ASSUME NEW e \in Events, Inject(e), pointer \in Int
    PROVE  pointer' \in Int
<1>1. CASE e.what = "move"
  <2>0. Coordinates \subseteq Int
    BY ControlAssumption DEF ControlAssumption
  <2>1. e.x \in Int
    <3>1. e = KeepAlive => e.what = "keepalive"
      BY DEF KeepAlive
    <3>2. e \in [what : {"key"}, key : Keys, down : BOOLEAN] => e.what = "key"
      OBVIOUS
    <3>3. e \in [what : {"move"}, x : Coordinates]
      BY <1>1, <3>1, <3>2 DEF Events
    <3>4. QED BY <2>0, <3>3
  <2>2. QED BY <1>1, <2>1, AbsoluteBounds DEF Inject
<1>2. CASE e.what # "move"
  BY <1>2 DEF Inject
<1>3. QED BY <1>1, <1>2
-----------------------------------------------------------------------------
(* What a step does to the events, to the keys and to the desktop. *)

\* The parts of the invariant of the composition.
EventsTyped ==
    /\ events \in Seq(Events) /\ Len(events) = Len(sent)
    /\ \A i \in DOMAIN sent : sent[i].kind = "control" <=> events[i] = KeepAlive

KeysTyped ==
    /\ pressed \subseteq Keys /\ unsent \subseteq Keys /\ down \subseteq Keys
    /\ pointer \in Int /\ refused \in BOOLEAN

DownSince ==
    refused \/ Torn \/ \A k \in down : \E n \in DOMAIN injected :
        /\ events[injected[n]] = Key(k, TRUE)
        /\ \A m \in DOMAIN injected : m > n => events[injected[m]] # Key(k, FALSE)

\* What the user has not let go of, as far as the host can know.
Held == pressed \union unsent

PressedSince ==
    \A k \in Keys, i \in DOMAIN events :
        /\ events[i] = Key(k, TRUE)
        /\ \A j \in DOMAIN events : j > i => events[j] # Key(k, FALSE)
        => k \in Held

PointerAt ==
    refused \/ Torn \/ \A n \in DOMAIN injected :
        LastMove(n) => pointer = Absolute(events[injected[n]].x)

ControlInv ==
    /\ StreamInv /\ EventsTyped /\ KeysTyped
    /\ DownSince /\ PressedSince /\ PointerAt

\* A step of the user: one event is appended ...
Appends(event, kind) ==
    /\ event \in Events /\ kind \in Kinds
    /\ kind = "control" <=> event = KeepAlive
    /\ \E n \in Sizes(kind) : Send(kind, n)
    /\ events' = Append(events, event)
    /\ UNCHANGED desktop
    /\ pressed' \subseteq Keys /\ unsent' \subseteq Keys
    /\ \A k \in Keys : event = Key(k, TRUE) => k \in Held'
    /\ \A k \in Held : event # Key(k, FALSE) => k \in Held'

\* ... or dropped.  A step of the host that injects nothing is like it.
Quiet ==
    /\ UNCHANGED <<sent, events, injected, desktop>>
    /\ pressed' \subseteq Keys /\ unsent' \subseteq Keys
    /\ Held \subseteq Held'

\* A step of the host that injects packet i, or tries to.
Injects(i) ==
    /\ UNCHANGED <<sent, events, user>>
    /\ injected' = Append(injected, i)
    /\ i \in DOMAIN sent /\ sent[i].kind = "input"
    /\ (\E event \in Says(i) : Inject(event)) \/ InjectionRefused

\* Every key can go down and up.
LEMMA KeyEvents == \A k \in Keys, d \in BOOLEAN : Key(k, d) \in Events
BY DEF Key, Events

LEMMA UserAppends ==
    ASSUME KeysTyped, User
    PROVE  Quiet \/ \E event, kind : Appends(event, kind)
<1>0. ASSUME NEW event, SendInputEvent(event)
      PROVE  /\ \E n \in Sizes("input") : Send("input", n)
             /\ events' = Append(events, event) /\ UNCHANGED desktop
  BY <1>0 DEF SendInputEvent
<1>1. ASSUME NEW k \in Keys, KeyDown(k)
      PROVE  Quiet \/ Appends(Key(k, TRUE), "input")
  <2>1. \A l \in Keys : Key(k, TRUE) # KeepAlive /\ (Key(k, TRUE) = Key(l, TRUE) => l = k)
    BY DEF Key, KeepAlive
  <2>2. Key(k, TRUE) \in Events
    BY KeyEvents
  <2>3. pressed' = pressed \union {k} /\ unsent' = unsent
    BY <1>1 DEF KeyDown
  <2>4. CASE SendInputEvent(Key(k, TRUE))
    BY <1>0, <2>1, <2>2, <2>3, <2>4 DEF Appends, Kinds, KeysTyped, Held
  <2>5. CASE EventDropped
    BY <2>3, <2>5 DEF EventDropped, Quiet, KeysTyped, Held, vars, client, server
  <2>6. QED BY <1>1, <2>4, <2>5 DEF KeyDown
<1>2. ASSUME NEW k \in Keys, KeyUp(k)
      PROVE  Quiet \/ Appends(Key(k, FALSE), "input")
  <2>1. \A l \in Keys : Key(k, FALSE) # KeepAlive /\ Key(k, FALSE) # Key(l, TRUE)
    BY DEF Key, KeepAlive
  <2>2. Key(k, FALSE) \in Events
    BY KeyEvents
  <2>3. pressed' = pressed \ {k}
    BY <1>2 DEF KeyUp
  <2>4. CASE SendInputEvent(Key(k, FALSE)) /\ unsent' = unsent \ {k}
    <3>1. \A l \in Held : l \in Held' \/ l = k
      BY <2>3, <2>4 DEF Held
    <3>2. QED BY <1>0, <2>1, <2>2, <2>3, <2>4, <3>1 DEF Appends, Kinds, KeysTyped
  <2>5. CASE EventDropped /\ unsent' = unsent \union {k}
    BY <2>3, <2>5 DEF EventDropped, Quiet, KeysTyped, Held, vars, client, server
  <2>6. QED BY <1>2, <2>4, <2>5 DEF KeyUp
<1>3. ASSUME NEW x \in Coordinates, MouseMoves(x)
      PROVE  Appends(Move(x), "input")
  <2>1. Move(x) # KeepAlive /\ \A l \in Keys : Move(x) # Key(l, TRUE)
    BY DEF Key, KeepAlive, Move
  <2>2. Move(x) \in Events
    BY DEF Events, Move
  <2>3. QED
    BY <1>0, <1>3, <2>1, <2>2 DEF Appends, MouseMoves, Kinds, KeysTyped, Held, user
<1>4. ASSUME SendKeepalive
      PROVE  Appends(KeepAlive, "control")
  <2>1. KeepAlive \in Events /\ \A l \in Keys : KeepAlive # Key(l, TRUE)
    BY DEF Key, KeepAlive, Events
  <2>2. QED
    BY <1>4, <2>1 DEF Appends, SendKeepalive, Kinds, KeysTyped, Held, user
<1>5. QED BY <1>1, <1>2, <1>3, <1>4 DEF User

LEMMA HandleInjects ==
    ASSUME StreamInv, Handle
    PROVE  \/ \E i : Injects(i)
           \/ UNCHANGED <<sent, events, injected, desktop, user>>
<1> DEFINE i == CHOOSE j \in Next1 : TRUE
<1>0. injected \in Seq(Nat) /\ HeaderOf("input")
  BY DEF StreamInv, ReadTyped, Handle, ReceiveInput
<1>1. i \in DOMAIN sent /\ sent[i].kind = "input"
  BY <1>0, ReceivedIsNext DEF Next1
<1>2. UNCHANGED <<sent, events, user>>
  BY DEF Handle, ReceiveInput, client
<1>3. injected' = Append(injected, i) \/ injected' = injected
  BY DEF Handle, ReceiveInput, HandleInputPacket
<1>4. CASE injected' = injected
  BY <1>2, <1>4 DEF Handle
<1>5. CASE injected' = Append(injected, i) /\ injected' # injected
  <2>1. i \in Nat
    BY <1>1 DEF StreamInv, SentTyped
  <2> HIDE DEF i
  <2>2. injected'[Len(injected')] = i
    BY <1>0, <1>5, <2>1
  <2>3. (\E event \in Says(i) : Inject(event)) \/ InjectionRefused
    BY <1>5, <2>2 DEF Handle
  <2>4. Injects(i)
    BY <1>1, <1>2, <1>5, <2>3 DEF Injects
  <2>5. QED BY <2>4
<1>6. QED BY <1>3, <1>4, <1>5

LEMMA PassesLeave ==
    ASSUME Passes \/ UNCHANGED controlVars
    PROVE  UNCHANGED <<sent, events, injected, desktop, user>>
BY DEF Passes, controlVars, vars, client, server, PeekFails, PeekHeader, Drain, ReceiveControl,
   ReceiveFails, ReadsFreed, KeepaliveTimeout, Close, Reset, Arrive, SetInputHandler

-----------------------------------------------------------------------------
LEMMA ControlStarts == ControlInit => ControlInv
<1> SUFFICES ASSUME ControlInit PROVE ControlInv
  OBVIOUS
<1>1. sent = <<>> /\ injected = <<>>
  BY DEF ControlInit, Init
<1>2. StreamInv
  BY StreamStarts DEF ControlInit
<1>3. EventsTyped /\ KeysTyped
  <2>1. EventsTyped
    BY <1>1 DEF ControlInit, EventsTyped
  <2>2. pointer \in Int
    BY DEF ControlInit, Nowhere
  <2>4. refused \in BOOLEAN
    BY DEF ControlInit
  <2>3. pressed \subseteq Keys /\ unsent \subseteq Keys /\ down \subseteq Keys
    BY DEF ControlInit
  <2>5. QED BY <2>1, <2>2, <2>3, <2>4 DEF KeysTyped
<1>4. DOMAIN injected = {} /\ DOMAIN events = {} /\ down = {}
  BY <1>1 DEF ControlInit
<1>5. DownSince /\ PressedSince /\ PointerAt
  BY <1>4 DEF DownSince, PressedSince, PointerAt
<1>6. QED BY <1>2, <1>3, <1>5 DEF ControlInv

\* A step of the user.
LEMMA AppendStep ==
    ASSUME ControlInv, NEW event, NEW kind, Appends(event, kind)
    PROVE  EventsTyped' /\ KeysTyped' /\ DownSince' /\ PressedSince' /\ PointerAt'
<1> PICK size \in Sizes(kind) : Send(kind, size)
  BY DEF Appends
<1> DEFINE p == [kind |-> kind, start |-> Length, size |-> size, heard |-> inputHandler]
<1>0. /\ SentTyped /\ InjectedRead /\ EventsTyped /\ KeysTyped /\ injected \in Seq(Nat)
      /\ Length \in Nat
  BY LengthIsNat DEF ControlInv, StreamInv, ReadTyped
<1>1. sent' = Append(sent, p) /\ events' = Append(events, event) /\ injected' = injected
  BY DEF Appends, Send, server
<1>2. p \in Packet
  <2>1. size \in Nat \ {0} /\ kind \in Kinds
    BY SizesArePositive DEF Appends
  <2>2. QED BY <1>0, <2>1 DEF Packet, SentTyped
<1>3. /\ Len(sent') = Len(sent) + 1 /\ Len(sent) \in Nat
      /\ sent'[Len(sent) + 1] = p
      /\ \A i \in DOMAIN sent : sent'[i] = sent[i]
      /\ DOMAIN sent = 1..Len(sent) /\ DOMAIN sent' = 1..(Len(sent) + 1)
  BY <1>0, <1>1, <1>2 DEF SentTyped
<1> HIDE DEF p
<1>4. /\ events' \in Seq(Events)
      /\ Len(events') = Len(sent) + 1
      /\ events'[Len(sent) + 1] = event
      /\ \A i \in DOMAIN sent : events'[i] = events[i]
      /\ DOMAIN events = DOMAIN sent /\ DOMAIN events' = DOMAIN sent'
  BY <1>0, <1>1, <1>3 DEF EventsTyped, Appends
<1>5. EventsTyped'
  <2>1. p.kind = kind
    BY DEF p
  <2>2. ASSUME NEW i \in DOMAIN sent'
        PROVE  sent'[i].kind = "control" <=> events'[i] = KeepAlive
    <3>1. CASE i \in DOMAIN sent
      BY <1>0, <1>3, <1>4, <3>1 DEF EventsTyped
    <3>2. CASE i = Len(sent) + 1
      BY <1>3, <1>4, <2>1, <3>2 DEF Appends
    <3>3. QED BY <1>3, <3>1, <3>2
  <2>3. QED BY <1>3, <1>4, <2>2 DEF EventsTyped
<1>6. KeysTyped'
  BY <1>0 DEF KeysTyped, Appends, desktop
<1>7. \A n \in DOMAIN injected : injected[n] \in DOMAIN sent
                                 /\ events'[injected[n]] = events[injected[n]]
  BY <1>0, <1>4 DEF InjectedRead
<1>7a. Torn => Torn'
  BY <1>3 DEF Torn, Size
<1>8. DownSince'
  <2>1. UNCHANGED <<down, refused, injected>> /\ DownSince
    BY <1>1 DEF ControlInv, Appends, desktop
  <2>2. ASSUME ~refused, ~Torn, NEW k \in down
        PROVE  \E n \in DOMAIN injected :
                   /\ events'[injected[n]] = Key(k, TRUE)
                   /\ \A m \in DOMAIN injected : m > n => events'[injected[m]] # Key(k, FALSE)
    <3>1. PICK n \in DOMAIN injected :
              /\ events[injected[n]] = Key(k, TRUE)
              /\ \A m \in DOMAIN injected : m > n => events[injected[m]] # Key(k, FALSE)
      BY <2>1, <2>2 DEF DownSince
    <3>2. QED BY <1>7, <3>1
  <2>3. QED BY <1>7a, <2>1, <2>2 DEF DownSince
<1>9. PressedSince'
  <2> SUFFICES ASSUME NEW k \in Keys, NEW i \in DOMAIN events',
                      events'[i] = Key(k, TRUE),
                      \A j \in DOMAIN events' : j > i => events'[j] # Key(k, FALSE)
               PROVE  k \in Held'
    BY DEF PressedSince, Held
  <2>1. CASE i = Len(sent) + 1
    BY <1>4, <2>1 DEF Appends
  <2>2. CASE i \in DOMAIN sent
    <3>0. \A j \in DOMAIN sent : j \in DOMAIN sent'
      BY <1>3
    <3>1. /\ i \in DOMAIN events /\ events[i] = Key(k, TRUE)
          /\ \A j \in DOMAIN events : j > i => events[j] # Key(k, FALSE)
      BY <1>4, <2>2, <3>0
    <3>2. k \in Held
      BY <3>1 DEF ControlInv, PressedSince
    <3>3. event # Key(k, FALSE)
      <4>1. Len(sent) + 1 > i /\ Len(sent) + 1 \in DOMAIN sent'
        BY <1>3, <2>2
      <4>2. QED BY <1>4, <4>1
    <3>4. QED BY <3>2, <3>3 DEF Appends
  <2>3. QED BY <1>3, <1>4, <2>1, <2>2
<1>10. PointerAt'
  <2>1. \A n \in DOMAIN injected : LastMove(n)' <=> LastMove(n)
    <3> SUFFICES ASSUME NEW n \in DOMAIN injected PROVE LastMove(n)' <=> LastMove(n)
      OBVIOUS
    <3>1. n \in Nat \ {0} /\ n + 1 .. Len(injected) \subseteq DOMAIN injected
      BY <1>0
    <3>2. QED BY <1>1, <1>7, <3>1 DEF LastMove
  <2>2. QED BY <1>1, <1>7, <1>7a, <2>1 DEF ControlInv, PointerAt, Appends, desktop
<1>11. QED BY <1>5, <1>6, <1>8, <1>9, <1>10

\* A step of the host.
LEMMA InjectStep ==
    ASSUME ControlInv, NEW i, Injects(i)
    PROVE  EventsTyped' /\ KeysTyped' /\ DownSince' /\ PressedSince' /\ PointerAt'
<1> DEFINE n == Len(injected)
<1>0. /\ SentTyped /\ InjectedRead /\ EventsTyped /\ KeysTyped
      /\ injected \in Seq(Nat) /\ n \in Nat /\ DOMAIN injected = 1..n
  BY DEF ControlInv, StreamInv, ReadTyped
<1>1. /\ UNCHANGED <<sent, events, pressed, unsent>> /\ Torn' = Torn
      /\ i \in DOMAIN sent /\ i \in Nat
      /\ injected' = Append(injected, i)
  BY <1>0 DEF Injects, SentTyped, user, Torn, Size
<1>2. /\ Len(injected') = n + 1 /\ DOMAIN injected' = 1..(n + 1)
      /\ injected'[n + 1] = i
      /\ \A m \in DOMAIN injected : m \in DOMAIN injected' /\ injected'[m] = injected[m]
  BY <1>0, <1>1
<1>3. /\ events[i] \in Events /\ Says(i) \subseteq Events
      /\ ~Torn => Says(i) = {events[i]}
  <2>1. events[i] \in Events
    BY <1>0, <1>1 DEF EventsTyped
  <2>2. ~Torn => sent[i].size = InputSize
    BY <1>1 DEF Torn, Size, Injects
  <2>3. QED BY <2>1, <2>2 DEF Says
<1>4. EventsTyped' /\ PressedSince'
  BY <1>0, <1>1 DEF ControlInv, EventsTyped, PressedSince, Held
<1>5. PICK e \in Events :
          /\ ~Torn => e = events[i]
          /\ (InjectionRefused /\ refused') \/ (Inject(e) /\ refused' = refused)
  <2>1. CASE InjectionRefused
    BY <1>3, <2>1 DEF InjectionRefused
  <2>2. ASSUME NEW e \in Says(i), Inject(e)
        PROVE  e \in Events /\ refused' = refused /\ (~Torn => e = events[i])
    BY <1>3, <2>2 DEF Inject
  <2>3. QED BY <2>1, <2>2 DEF Injects
<1>6. KeysTyped' /\ (Inject(e) => \A k \in down' : k \in down \/ e = Key(k, TRUE))
  <2>1. CASE InjectionRefused
    BY <1>0, <1>1, <2>1 DEF InjectionRefused, KeysTyped, Inject, InjectKey
  <2>2. CASE Inject(e)
    <3>1. CASE e.what = "key"
      <4>1. e.key \in Keys /\ e.down \in BOOLEAN /\ e = Key(e.key, e.down)
        BY <3>1 DEF Events, Key, KeepAlive
      <4>2. down' = InjectKey(e) /\ UNCHANGED <<refused, pointer>>
        BY <2>2, <3>1 DEF Inject
      <4>3. QED BY <1>0, <1>1, <4>1, <4>2 DEF InjectKey, KeysTyped
    <3>2. CASE e.what # "key"
      <4>1. UNCHANGED <<down, refused>>
        BY <2>2, <3>2 DEF Inject
      <4>2. pointer' \in Int
        BY <1>0, <2>2, MoveIsInt DEF Inject, KeysTyped
      <4>3. QED BY <1>0, <1>1, <4>1, <4>2 DEF KeysTyped
    <3>3. QED BY <3>1, <3>2
  <2>3. QED BY <1>5, <2>1, <2>2
<1>7. DownSince'
  <2> SUFFICES ASSUME ~refused', ~Torn', NEW k \in down'
               PROVE  \E m \in DOMAIN injected' :
                   /\ events'[injected'[m]] = Key(k, TRUE)
                   /\ \A l \in DOMAIN injected' : l > m => events'[injected'[l]] # Key(k, FALSE)
    BY DEF DownSince
  <2>1. Inject(e) /\ ~refused /\ ~Torn /\ e = events[i]
    BY <1>1, <1>5
  <2>2. CASE e = Key(k, TRUE)
    <3>1. n + 1 \in DOMAIN injected' /\ \A l \in DOMAIN injected' : ~(l > n + 1)
      BY <1>0, <1>2
    <3>2. events'[injected'[n + 1]] = Key(k, TRUE)
      BY <1>1, <1>2, <2>1, <2>2
    <3>3. QED BY <3>1, <3>2
  <2>3. CASE e # Key(k, TRUE)
    <3>1. k \in down
      BY <1>6, <2>1, <2>3
    <3>2. PICK m \in DOMAIN injected :
              /\ events[injected[m]] = Key(k, TRUE)
              /\ \A l \in DOMAIN injected : l > m => events[injected[l]] # Key(k, FALSE)
      BY <2>1, <3>1 DEF ControlInv, DownSince
    <3>3. e # Key(k, FALSE)
      <4>1. e = Key(k, FALSE) => k \notin down'
        BY <2>1 DEF Inject, InjectKey, Key
      <4>2. QED BY <4>1
    <3>4. ASSUME NEW l \in DOMAIN injected', l > m
          PROVE  events'[injected'[l]] # Key(k, FALSE)
      <4>1. CASE l \in DOMAIN injected
        <5>1. injected'[l] = injected[l] /\ events' = events
          BY <1>1, <1>2, <4>1
        <5>2. events[injected[l]] # Key(k, FALSE)
          BY <3>2, <3>4, <4>1
        <5>3. QED BY <5>1, <5>2
      <4>2. CASE l = n + 1
        <5>1. injected'[l] = i /\ events'[i] = e
          BY <1>1, <1>2, <2>1, <4>2
        <5>2. QED BY <3>3, <5>1
      <4>3. l \in DOMAIN injected \/ l = n + 1
        BY <1>0, <1>2
      <4>4. QED BY <4>1, <4>2, <4>3
    <3>5. QED BY <1>1, <1>2, <3>2, <3>4
  <2>4. QED BY <2>2, <2>3
<1>8. PointerAt'
  <2> SUFFICES ASSUME ~refused', ~Torn', NEW m \in DOMAIN injected', LastMove(m)'
               PROVE  pointer' = Absolute(events'[injected'[m]].x)
    BY DEF PointerAt, Absolute, Int32, Clamp
  <2>1. Inject(e) /\ ~refused /\ ~Torn /\ e = events[i]
    BY <1>1, <1>5
  <2>2. CASE m = n + 1
    <3>1. injected'[m] = i /\ events' = events /\ events[i] = e
      BY <1>1, <1>2, <2>1, <2>2
    <3>2. e.what = "move"
      BY <3>1 DEF LastMove
    <3>3. QED BY <2>1, <3>1, <3>2 DEF Inject
  <2>3. CASE m \in DOMAIN injected
    <3>1. m \in Nat /\ n + 1 \in m + 1 .. n + 1
          /\ \A l \in m + 1 .. n : l \in DOMAIN injected /\ l \in m + 1 .. n + 1
      BY <1>0, <2>3
    <3>2. e.what # "move"
      BY <1>1, <1>2, <2>1, <3>1 DEF LastMove
    <3>3. LastMove(m)
      BY <1>1, <1>2, <2>3, <3>1 DEF LastMove
    <3>4. pointer = Absolute(events[injected[m]].x)
      BY <2>1, <2>3, <3>3 DEF ControlInv, PointerAt
    <3>5. pointer' = pointer
      BY <2>1, <3>2 DEF Inject
    <3>6. QED BY <1>1, <1>2, <2>3, <3>4, <3>5
  <2>4. QED BY <1>0, <1>2, <2>2, <2>3
<1>9. QED BY <1>4, <1>6, <1>7, <1>8

-----------------------------------------------------------------------------
LEMMA ControlStep == ControlInv /\ [ControlNext]_controlVars => ControlInv'
<1> SUFFICES ASSUME ControlInv, [ControlNext]_controlVars PROVE ControlInv'
  OBVIOUS
<1>1. StreamInv'
  BY ControlStepIsStreamStep, StreamStep DEF ControlInv
<1>2. CASE Quiet
  <2>1. EventsTyped' /\ KeysTyped' /\ Torn' = Torn
    BY <1>2 DEF Quiet, ControlInv, EventsTyped, KeysTyped, desktop, Torn, Size
  <2>2. DownSince' /\ PressedSince'
    <3>1. DownSince'
      BY <1>2, <2>1 DEF Quiet, ControlInv, DownSince, desktop
    <3>2. PressedSince'
      BY <1>2 DEF Quiet, ControlInv, PressedSince
    <3>3. QED BY <3>1, <3>2
  <2>3. PointerAt'
    BY <1>2, <2>1 DEF Quiet, ControlInv, PointerAt, LastMove, desktop
  <2>4. QED BY <1>1, <2>1, <2>2, <2>3 DEF ControlInv
<1>3. ASSUME UNCHANGED <<sent, events, injected, desktop, user>>
      PROVE  ControlInv'
  BY <1>2, <1>3 DEF Quiet, ControlInv, KeysTyped, Held, user
<1>4. CASE User
  <2>1. CASE \E event, kind : Appends(event, kind)
    BY <1>1, <2>1, AppendStep DEF ControlInv
  <2>2. QED BY <1>2, <1>4, <2>1, UserAppends DEF ControlInv
<1>5. CASE Handle
  <2>1. CASE \E i : Injects(i)
    BY <1>1, <2>1, InjectStep DEF ControlInv
  <2>2. QED BY <1>3, <1>5, <2>1, HandleInjects DEF ControlInv
<1>6. CASE Passes \/ UNCHANGED controlVars
  BY <1>3, <1>6, PassesLeave
<1>7. QED BY <1>4, <1>5, <1>6 DEF ControlNext

\* The types of the composition: every packet is about something, and what
\* was injected can be looked up.
THEOREM ControlTyped == ControlSpec => []ControlTypeOK
<1>1. ControlInv /\ TypeOK => ControlTypeOK
  BY DEF ControlInv, ControlTypeOK, EventsTyped, KeysTyped
<1>2. QED
  BY <1>1, ControlStarts, ControlStep, ControlImplementsStream, StreamTyped, PTL DEF ControlSpec

\* A host that has lost nothing since it began to listen holds no key but those
\* that the user holds and those whose release could not be sent, for any keys
\* and any packets.
THEOREM KeysNeverStick == ControlSpec => []NoKeyStuck
<1>1. ControlInv => NoKeyStuck
  <2> SUFFICES ASSUME ControlInv, CaughtUp, NEW k \in down PROVE k \in Held
    BY DEF NoKeyStuck, Held
  <2>0. /\ SentTyped /\ InjectedRead /\ InjectedIncrease /\ EventsTyped /\ KeysTyped
        /\ injected \in Seq(Nat) /\ ~refused /\ ~Torn
    BY DEF ControlInv, StreamInv, ReadTyped, CaughtUp
  <2>1. PICK n \in DOMAIN injected :
            /\ events[injected[n]] = Key(k, TRUE)
            /\ \A m \in DOMAIN injected : m > n => events[injected[m]] # Key(k, FALSE)
    BY <2>0 DEF ControlInv, DownSince
  <2>2. injected[n] \in DOMAIN sent /\ DOMAIN events = DOMAIN sent
    BY <2>0 DEF InjectedRead, EventsTyped, SentTyped
  <2>3. ASSUME NEW j \in DOMAIN sent, j > injected[n], events[j] = Key(k, FALSE)
        PROVE  FALSE
    <3>1. sent[j].kind = "input"
      <4>1. events[j] # KeepAlive
        BY <2>3 DEF Key, KeepAlive
      <4>2. sent[j] \in Packet
        BY <2>0, <2>3 DEF SentTyped
      <4>3. QED BY <2>0, <2>3, <4>1, <4>2 DEF EventsTyped, Kinds, Packet
    <3>2. Injected(injected[n])
      BY DEF Injected
    <3>3. injected[n] < j
      BY <2>0, <2>2, <2>3 DEF SentTyped
    <3>4. PICK m \in DOMAIN injected : injected[m] = j
      BY <2>2, <3>1, <3>2, <3>3 DEF CaughtUp, Injected
    <3>5. m > n
      <4>1. m \in Nat /\ n \in Nat /\ injected[m] \in Nat /\ injected[n] \in Nat
        BY <2>0
      <4>2. m < n => injected[m] < injected[n]
        BY <2>0 DEF InjectedIncrease
      <4>3. QED BY <3>3, <3>4, <4>1, <4>2
    <3>6. QED BY <2>1, <2>3, <3>4, <3>5
  <2>4. QED BY <2>0, <2>1, <2>2, <2>3 DEF ControlInv, PressedSince, KeysTyped
<1>2. QED BY <1>1, ControlStarts, ControlStep, PTL DEF ControlSpec

\* As long as no recv, no send and no SendInput fails a packet, a host that has
\* read everything holds no key but those that the user holds and those whose
\* release was never sent: the keys that stick are those of packets cut by TCP,
\* of packets dropped by the client, and of injections the desktop refused.
THEOREM KeysReleasedUnlessShort ==
    ControlSpec /\ [][NotShort]_vars
      => [](link = "open" /\ step = "peek" /\ consumed = Length /\ ~refused /\ ~Torn
              /\ (\A i \in DOMAIN sent : sent[i].heard)
            => down \subseteq pressed \union unsent)
<1>1. StreamInv /\ UntornInv /\ NoKeyStuck
         => (link = "open" /\ step = "peek" /\ consumed = Length /\ ~refused /\ ~Torn
               /\ (\A i \in DOMAIN sent : sent[i].heard)
             => down \subseteq pressed \union unsent)
  <2> SUFFICES ASSUME StreamInv, UntornInv, NoKeyStuck, link = "open", step = "peek",
                      consumed = Length, ~refused, ~Torn,
                      \A i \in DOMAIN sent : sent[i].heard
               PROVE  down \subseteq pressed \union unsent
    OBVIOUS
  <2>1. \A j \in DOMAIN sent : sent[j].kind = "input" => Injected(j)
    BY DEF StreamInv, StartsIncrease, UntornInv, WholeInv, PastInjected
  <2>2. CaughtUp
    BY <2>1 DEF CaughtUp
  <2>3. QED BY <2>2 DEF NoKeyStuck
<1>2. QED
  BY <1>1, UncutStep, ControlImplementsStream, KeysNeverStick, StreamStarts, StreamStep,
     RestStarts, RestStep, UntornStarts, PTL DEF Spec
-----------------------------------------------------------------------------
\* The pixel of an absolute coordinate is a pixel to the left at most.
LEMMA PixelOfAbsolute ==
    ASSUME NEW x \in Int
    PROVE  /\ Pixel(Absolute(x)) \in Nat
           /\ Pixel(Absolute(x)) <= Clamp(x)
           /\ Clamp(x) - 1 <= Pixel(Absolute(x))
<1> DEFINE c == Clamp(x)
           a == Absolute(x)
           p == Pixel(a)
           R == AbsRange + 1
<1>1. Width \in Nat \ {0} /\ R \in Nat \ {0} /\ AbsRange \in Nat /\ 2 * (Width - 1) <= R
  BY ControlAssumption DEF ControlAssumption
<1>2. c \in Nat /\ c < Width
  BY <1>1, Clamped
<1>3. a \in Nat /\ a * Width <= c * AbsRange /\ c * AbsRange < a * Width + Width
  BY AbsoluteBounds
<1>4. p \in Nat /\ p * R <= a * Width /\ a * Width < p * R + R
  <2>1. a * Width \in Nat
    BY <1>1, <1>3
  <2>2. QED BY <1>1, <2>1, DivBounds DEF Pixel
<1> HIDE DEF a, c, p
<1>5. c * R = c * AbsRange + c
  BY <1>1, <1>2
<1> HIDE DEF R
<1>6. p <= c
  <2>1. p * R < c * R + R /\ c * R + R = (c + 1) * R
    BY <1>1, <1>2, <1>3, <1>4, <1>5
  <2>2. p >= c + 1 => (c + 1) * R <= p * R
    BY <1>1, <1>2, <1>4, ProductGrows
  <2>3. p * R \in Nat /\ (c + 1) * R \in Nat
    BY <1>1, <1>2, <1>4
  <2>4. QED BY <1>2, <1>4, <2>1, <2>2, <2>3
<1>7. c - 1 <= p
  <2>1. c * R < p * R + R + R /\ p * R + R + R = (p + 2) * R
    BY <1>1, <1>2, <1>3, <1>4, <1>5
  <2>2. c >= p + 2 => (p + 2) * R <= c * R
    BY <1>1, <1>2, <1>4, ProductGrows
  <2>3. c * R \in Nat /\ (p + 2) * R \in Nat
    BY <1>1, <1>2, <1>4
  <2>4. QED BY <1>2, <1>4, <2>1, <2>2, <2>3
<1>8. QED BY <1>4, <1>6, <1>7 DEF a, c, p

\* For every screen that Windows allows and every coordinate, the pointer
\* lands on the screen and next to where the last movement put it, as long as
\* packets are sent as a whole and injected.
THEOREM PointerAlwaysLands == ControlSpec => []PointerLands
<1>1. ControlInv => PointerLands
  <2> SUFFICES ASSUME ControlInv, NEW n \in DOMAIN injected, ~refused, ~Torn, LastMove(n)
               PROVE  LET x == events[injected[n]].x
                          at == Pixel(pointer)
                      IN  /\ at \in 0 .. Width - 1
                          /\ x \in 0 .. Width - 1 => at \in {x - 1, x}
                          /\ x >= Width => at >= Width - 2
                          /\ x < 0 => at = 0
    BY DEF PointerLands
  <2> DEFINE e == events[injected[n]]
             x == e.x
             at == Pixel(pointer)
  <2>1. e \in Events
    <3>1. injected[n] \in DOMAIN sent
      BY DEF ControlInv, StreamInv, InjectedRead
    <3>2. events \in Seq(Events) /\ Len(events) = Len(sent) /\ SentTyped
      BY DEF ControlInv, StreamInv, EventsTyped
    <3>3. QED BY <3>1, <3>2 DEF SentTyped
  <2>2. x \in Int
    <3>1. Coordinates \subseteq Int
      BY ControlAssumption DEF ControlAssumption
    <3>2. e.what = "move"
      BY DEF LastMove
    <3> HIDE DEF e
    <3>3. e \in [what : {"move"}, x : Coordinates]
      <4>1. e = KeepAlive => e.what = "keepalive"
        BY DEF KeepAlive
      <4>2. e \in [what : {"key"}, key : Keys, down : BOOLEAN] => e.what = "key"
        OBVIOUS
      <4>3. QED BY <2>1, <3>2, <4>1, <4>2 DEF Events
    <3>4. QED BY <3>1, <3>3
  <2>3. pointer = Absolute(x)
    BY DEF ControlInv, PointerAt
  <2> HIDE DEF x
  <2>4. at \in Nat /\ at <= Clamp(x) /\ Clamp(x) - 1 <= at
    BY <2>2, <2>3, PixelOfAbsolute
  <2> HIDE DEF at
  <2>5. Width \in Nat \ {0}
    BY ControlAssumption DEF ControlAssumption
  <2>6. /\ at \in 0 .. Width - 1
        /\ x \in 0 .. Width - 1 => at \in {x - 1, x}
        /\ x >= Width => at >= Width - 2
        /\ x < 0 => at = 0
    BY <2>2, <2>4, <2>5 DEF Clamp
  <2>7. QED BY <2>6 DEF x, at
<1>2. QED BY <1>1, ControlStarts, ControlStep, PTL DEF ControlSpec
=============================================================================
