---------------------------- MODULE VideoStream ----------------------------
(***************************************************************************)
(* The video path: the host's send loop cuts an encoded frame into UDP     *)
(* datagrams (host/network_server.cpp), the network loses, duplicates and  *)
(* reorders them, the client's UDP receive thread assembles them per frame,*)
(* expires what stays incomplete, and queues whole frames for the main     *)
(* loop (client/network_client.cpp).                                       *)
(*                                                                         *)
(* The host addresses its datagrams to the port of the client's TCP        *)
(* connection; the client reads a UDP socket whose port the system chose,  *)
(* and nobody tells the host which.  They meet only if the two numbers are *)
(* the same by chance (samePort): without that no datagram is ever read.   *)
(* Nothing obliges any step to happen: main may leave its loop with frames *)
(* in the jitter buffer, and they are then never taken.                    *)
(*                                                                         *)
(* Time is the age of each assembler in ticks, which saturates just past   *)
(* FrameTimeout: the code compares it with FRAME_TIMEOUT_US and nothing    *)
(* else.  MaxFrames, MaxDups and MaxSessions bound what a run explores;    *)
(* the invariants hold for every value of them.                            *)
(***************************************************************************)
EXTENDS Packetizer, Sequences, FiniteSets

CONSTANTS FrameSizes,       \* sizes in bytes the encoder may produce
          FrameTimeout,     \* FRAME_TIMEOUT_US, in ticks
          MaxFrames,        \* frames encoded per session
          MaxDups,          \* datagrams the network duplicates
          MaxSessions       \* host processes the client connects to in turn

ASSUME StreamAssumption ==
    /\ FrameSizes \subseteq Nat \ {0}    \* the encoder never emits 0 bytes
    /\ FrameTimeout \in Nat
    /\ MaxFrames \in Nat
    /\ MaxDups \in Nat
    /\ MaxSessions \in Nat \ {0}

VARIABLES session,          \* which host process is streaming
          encoded,          \* the frames it has encoded, by frameNumber
          sender,           \* "sending": PacketizeAndSend is in its loop ...
          sendIndex,        \* ... about to send this sequence number
          samePort,         \* the client's UDP and TCP sockets have one port number
          net,              \* datagrams in flight
          dups,             \* duplications so far
          frameAssemblers,  \* frameId -> FrameAssembler
          jitterBuffer,     \* whole frames for the main loop
          outFrame          \* {} or the frame GetNextFrame returned last

hostVars   == <<session, encoded, sender, sendIndex>>
clientVars == <<frameAssemblers, jitterBuffer, outFrame>>
vars       == <<hostVars, samePort, net, dups, clientVars>>
-----------------------------------------------------------------------------
(* Datagrams *)

TotalPackets(n) == CalculatePacketCount(encoded[n].bitstreamSize)

\* The bytes of datagram i of frame n, and where they come from.
Chunk(n, i) == [session |-> session, frame |-> n,
                bytes |-> ChunkBytes(encoded[n].bitstreamSize, i)]

CreateVideoPacket(n, i) ==
    [frameId      |-> n,
     sequenceNum  |-> i,
     totalPackets |-> TotalPackets(n),
     isKeyframe   |-> encoded[n].isKeyframe,       \* FLAG_IDR_FRAME
     data         |-> Chunk(n, i)]

(* FrameAssembler *)

\* A default-constructed map entry.
NewAssembler == [totalPackets |-> 0, receivedPackets |-> 0,
                 isKeyframe |-> FALSE, age |-> 0, packets |-> [s \in {} |-> s]]

\* The first datagram fixes what the frame is taken to be.
Opened(a, p) ==
    IF a.totalPackets # 0 THEN a
    ELSE [totalPackets |-> p.totalPackets, receivedPackets |-> a.receivedPackets,
          isKeyframe |-> p.isKeyframe, age |-> 0, packets |-> a.packets]

IsDuplicate(a, p) == p.sequenceNum \in DOMAIN a.packets

\* Mutant of Stored: pieces are kept in the order they arrive.
StoredAsItArrives(packets, p) ==
    [s \in DOMAIN packets \cup {Cardinality(DOMAIN packets)} |->
        IF s \in DOMAIN packets THEN packets[s] ELSE p.data]

Stored(packets, p) ==
    [s \in DOMAIN packets \cup {p.sequenceNum} |->
        IF s = p.sequenceNum THEN p.data ELSE packets[s]]

\* The assembler AddPacket leaves behind ...
AddPacket(a, p) ==
    LET b == Opened(a, p)
    IN  IF IsDuplicate(b, p) THEN b
        ELSE [totalPackets |-> b.totalPackets, receivedPackets |-> b.receivedPackets + 1,
              isKeyframe |-> b.isKeyframe, age |-> b.age,
              packets |-> Stored(b.packets, p)]

\* ... and whether it returns true.
Completes(a, p) ==
    /\ ~IsDuplicate(Opened(a, p), p)
    /\ AddPacket(a, p).receivedPackets = AddPacket(a, p).totalPackets

\* Mutant of GetFrame: the loop ends one piece early.
GetFrameShort(f, a) ==
    [frameNumber |-> f,
     isKeyframe  |-> a.isKeyframe,
     data |-> [i \in (0..(a.totalPackets - 2)) \cap DOMAIN a.packets |-> a.packets[i]]]

\* Concatenates whatever pieces are there below totalPackets.
GetFrame(f, a) ==
    [frameNumber |-> f,
     isKeyframe  |-> a.isKeyframe,
     data |-> [i \in (0..(a.totalPackets - 1)) \cap DOMAIN a.packets |-> a.packets[i]]]

\* Mutant of IsExpired: >= for >.
IsExpiredEarly(a) == a.age >= FrameTimeout

IsExpired(a) == a.age > FrameTimeout
(* JitterBuffer *)

Push(frames, frame) == Append(frames, frame)

\* Mutant of Erased: a completed frame's entry is not erased.
NeverErased(f, done) == DOMAIN frameAssemblers \cup {f}

\* The frames with an entry once a datagram of frame f is stored, f's own
\* entry erased if that completed it.
Erased(f, done) ==
    IF done THEN DOMAIN frameAssemblers \ {f} ELSE DOMAIN frameAssemblers \cup {f}
-----------------------------------------------------------------------------
Init ==
    /\ session = 1
    /\ encoded = <<>>
    /\ sender = "idle"
    /\ sendIndex = 0
    /\ samePort \in BOOLEAN
    /\ net = {}
    /\ dups = 0
    /\ frameAssemblers = [f \in {} |-> NewAssembler]
    /\ jitterBuffer = <<>>
    /\ outFrame = {}

\* The encoder hands the main loop a frame and SendFrame enters its loop.
EncodeFrame ==
    /\ sender = "idle"
    /\ Len(encoded) < MaxFrames
    /\ \E size \in FrameSizes, key \in BOOLEAN :
          encoded' = Append(encoded, [bitstreamSize |-> size, isKeyframe |-> key])
    /\ sender' = "sending"
    /\ sendIndex' = 0
    /\ UNCHANGED <<session, samePort, net, dups, clientVars>>

\* One iteration of the loop in PacketizeAndSend; the last one ends it.  The
\* datagram goes to the address of the client's TCP connection.
SendVideoPacket ==
    /\ sender = "sending"
    /\ net' = net \cup {CreateVideoPacket(Len(encoded), sendIndex)}
    /\ sendIndex' = sendIndex + 1
    /\ sender' = IF sendIndex + 1 < TotalPackets(Len(encoded)) THEN "sending" ELSE "idle"
    /\ UNCHANGED <<session, encoded, samePort, dups, clientVars>>

\* sendto succeeds for no client: the rest of the frame is dropped.
SendVideoPacketFails ==
    /\ sender = "sending"
    /\ sender' = "idle"
    /\ UNCHANGED <<session, encoded, sendIndex, samePort, net, dups, clientVars>>

\* The network (external) loses a datagram, or finds nobody at its port.
LosePacket ==
    /\ \E p \in net : net' = net \ {p}
    /\ UNCHANGED <<hostVars, samePort, dups, clientVars>>

\* One iteration of UdpReceiveThread: store the datagram, hand over the
\* frame it completes, then drop every assembler that is too old.
UdpReceive(p) ==
    LET f    == p.frameId
        old  == IF f \in DOMAIN frameAssemblers THEN frameAssemblers[f] ELSE NewAssembler
        new  == AddPacket(old, p)
        done == Completes(old, p)
        open == Erased(f, done)
        held == [g \in open |-> IF g = f THEN new ELSE frameAssemblers[g]]
    IN  /\ jitterBuffer' = IF done THEN Push(jitterBuffer, GetFrame(f, new))
                                   ELSE jitterBuffer
        /\ frameAssemblers' = [g \in {h \in open : ~IsExpired(held[h])} |-> held[g]]
        /\ UNCHANGED <<hostVars, samePort, outFrame>>

\* A datagram reaches the port that recvfrom reads.
Deliver ==
    /\ samePort
    /\ \E p \in net :
       /\ UdpReceive(p)
       /\ \/ net' = net \ {p} /\ UNCHANGED dups
          \/ dups < MaxDups /\ dups' = dups + 1 /\ UNCHANGED net

\* JitterBuffer::Pop from the main loop; it does not wait.
GetNextFrame ==
    /\ jitterBuffer # <<>>
    /\ outFrame' = {Head(jitterBuffer)}
    /\ jitterBuffer' = Tail(jitterBuffer)
    /\ UNCHANGED <<hostVars, samePort, net, dups, frameAssemblers>>

Tick ==
    /\ \E f \in DOMAIN frameAssemblers : ~IsExpired(frameAssemblers[f])
    /\ frameAssemblers' =
          [f \in DOMAIN frameAssemblers |->
              IF IsExpired(frameAssemblers[f]) THEN frameAssemblers[f]
              ELSE [frameAssemblers[f] EXCEPT !.age = @ + 1]]
    /\ UNCHANGED <<hostVars, samePort, net, dups, jitterBuffer, outFrame>>

\* Disconnect, a new host process, Connect and Start: the encoder counts
\* from 1 again, the client has new sockets and a new jitter buffer, and
\* nobody clears frameAssemblers.
Reconnect ==
    /\ session < MaxSessions
    /\ session' = session + 1
    /\ encoded' = <<>>
    /\ sender' = "idle"
    /\ sendIndex' = 0
    /\ samePort' \in BOOLEAN
    /\ net' = {}
    /\ jitterBuffer' = <<>>
    /\ UNCHANGED <<dups, frameAssemblers, outFrame>>

Next == \/ EncodeFrame \/ SendVideoPacket \/ SendVideoPacketFails
        \/ LosePacket \/ Deliver
        \/ GetNextFrame \/ Tick \/ Reconnect

Spec == Init /\ [][Next]_vars
-----------------------------------------------------------------------------
EncodedFrames == [bitstreamSize : FrameSizes, isKeyframe : BOOLEAN]

SequenceNums == UNION {0..(CalculatePacketCount(size) - 1) : size \in FrameSizes}

Chunks == [session : 1..MaxSessions, frame : 1..MaxFrames, bytes : SUBSET Nat]

Packets == [frameId : 1..MaxFrames, sequenceNum : SequenceNums,
            totalPackets : Nat \ {0}, isKeyframe : BOOLEAN, data : Chunks]

Assembler(S) == [totalPackets : Nat, receivedPackets : Nat, isKeyframe : BOOLEAN,
                 age : 0..(FrameTimeout + 1), packets : [S -> Chunks]]

IsMap(m) == m = [f \in DOMAIN m |-> m[f]]

IsAssembler(a) == \E S \in SUBSET SequenceNums : a \in Assembler(S)

HostTypeOK ==
    /\ session \in 1..MaxSessions
    /\ encoded \in Seq(EncodedFrames)
    /\ Len(encoded) <= MaxFrames
    /\ sender \in {"idle", "sending"}
    /\ sendIndex \in Nat
    /\ sender = "sending" => Len(encoded) > 0 /\ sendIndex < TotalPackets(Len(encoded))

NetTypeOK == samePort \in BOOLEAN /\ net \subseteq Packets /\ dups \in 0..MaxDups

MapTypeOK ==
    /\ IsMap(frameAssemblers)
    /\ DOMAIN frameAssemblers \subseteq 1..MaxFrames
    /\ \A f \in DOMAIN frameAssemblers : IsAssembler(frameAssemblers[f])

\* The types of the variables, the age of an assembler and the position of
\* the send loop included.
TypeOK == HostTypeOK /\ NetTypeOK /\ MapTypeOK

Waiting(a) ==
    /\ 0 < a.receivedPackets /\ a.receivedPackets < a.totalPackets
    /\ IsFiniteSet(DOMAIN a.packets)
    /\ a.receivedPackets = Cardinality(DOMAIN a.packets)

\* Between two datagrams every assembler in the map is waiting for something
\* (UdpReceiveThread): at least one piece is in, at least one is missing, and
\* receivedPackets counts the pieces that are really there.  A complete frame
\* never stays behind in the map, and an entry never starts out empty.
AssemblersWaiting ==
    \A f \in DOMAIN frameAssemblers : Waiting(frameAssemblers[f])

\* The bytes of frame n of the current session, in order: what a
\* ReceivedFrame must hold.
IsWhole(fr) ==
    /\ fr.frameNumber \in 1..Len(encoded)
    /\ fr.isKeyframe = encoded[fr.frameNumber].isKeyframe
    /\ \A i \in DOMAIN fr.data : fr.data[i].session = session /\ fr.data[i].frame = fr.frameNumber
    /\ UNION {fr.data[i].bytes : i \in DOMAIN fr.data}
          = 0..(encoded[fr.frameNumber].bitstreamSize - 1)
    /\ \A i, j \in DOMAIN fr.data : i < j =>
          \A x \in fr.data[i].bytes, y \in fr.data[j].bytes : x < y

\* One of the frame's pieces came in before the client connected again.
BegunEarlier(fr) == \E i \in DOMAIN fr.data : fr.data[i].session < session

\* Every frame GetFrame hands to the jitter buffer is, byte for byte and in
\* order, the bitstream the host encoded under that frame number, with its
\* keyframe flag, whatever was lost, duplicated, reordered or expired.  Only
\* a frame that was begun in an earlier session, whose assembler Connect left
\* in the map, may be anything else.
FramesWhole ==
    \A k \in DOMAIN jitterBuffer :
        BegunEarlier(jitterBuffer[k]) \/ IsWhole(jitterBuffer[k])

\* An assembler leaves the map only because its frame was handed over in that
\* very step, or because it had outlived the timeout: the sweep never throws
\* away a frame that still had time.
DropsJustified ==
    [][\A f \in DOMAIN frameAssemblers \ DOMAIN frameAssemblers' :
          \/ frameAssemblers[f].age > FrameTimeout
          \/ /\ Len(jitterBuffer') = Len(jitterBuffer) + 1
             /\ jitterBuffer'[Len(jitterBuffer')].frameNumber = f]_vars
-----------------------------------------------------------------------------
(* The inductive invariant behind FramesWhole *)

\* Every datagram in flight is one the host sent.
NetGenuine ==
    \A p \in net : \E n \in 1..Len(encoded) :
        \E i \in 0..(TotalPackets(n) - 1) : p = CreateVideoPacket(n, i)

\* An assembler describes the frame it is filed under, and its pieces are
\* pieces of that frame in their places.
Genuine(f, a) ==
    /\ f \in 1..Len(encoded)
    /\ a.totalPackets = TotalPackets(f)
    /\ a.isKeyframe = encoded[f].isKeyframe
    /\ DOMAIN a.packets \subseteq 0..(TotalPackets(f) - 1)
    /\ \A s \in DOMAIN a.packets : a.packets[s] = Chunk(f, s)

\* The assembler was begun in an earlier session, and GetFrame will show it.
Stale(a) == \E i \in (0..(a.totalPackets - 1)) \cap DOMAIN a.packets :
               a.packets[i].session < session

AssemblersGenuine ==
    \A f \in DOMAIN frameAssemblers :
        Stale(frameAssemblers[f]) \/ Genuine(f, frameAssemblers[f])

\* The ReceivedFrame that frame n amounts to.
WholeFrame(n) ==
    [frameNumber |-> n, isKeyframe |-> encoded[n].isKeyframe,
     data |-> [i \in 0..(TotalPackets(n) - 1) |-> Chunk(n, i)]]

WholeFrames == {WholeFrame(n) : n \in 1..Len(encoded)}

FramesGenuine ==
    \A k \in DOMAIN jitterBuffer :
        jitterBuffer[k] \in WholeFrames \/ (session > 1 /\ BegunEarlier(jitterBuffer[k]))

IInv == TypeOK /\ AssemblersWaiting /\ NetGenuine /\ AssemblersGenuine /\ FramesGenuine

\* The ReceivedFrame that frame n would amount to, encoded so in session k.
PossibleFrame(k, n, key, size) ==
    [frameNumber |-> n, isKeyframe |-> key,
     data |-> [i \in 0..(CalculatePacketCount(size) - 1) |->
                 [session |-> k, frame |-> n, bytes |-> ChunkBytes(size, i)]]]

AllFrames == {PossibleFrame(k, n, key, size) :
                 k \in 1..MaxSessions, n \in 1..MaxFrames,
                 key \in BOOLEAN, size \in FrameSizes}

\* The video path does what FrameStream promises, in every session.
Abstract == INSTANCE FrameStream
               WITH Frames <- AllFrames, offered <- WholeFrames,
                    ready <- jitterBuffer, current <- outFrame

ImplementsFrameStream == Abstract!Spec
=============================================================================
