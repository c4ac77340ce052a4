-------------------------- MODULE VideoStreamProofs --------------------------
(***************************************************************************)
(* Theorems about the video path, for every payload size, frame size,      *)
(* timeout and number of frames, duplicates and sessions.  First the       *)
(* packetizer's arithmetic: the datagrams of a frame carry its bytes       *)
(* exactly once, in order, and none is empty or too big.                   *)
(***************************************************************************)
EXTENDS VideoStream, FiniteSetTheorems, SequenceTheorems, TLAPS

(* The packetizer *)

\* Integer division: the quotient and what it leaves.
LEMMA DivBounds ==
    ASSUME NEW a \in Nat, NEW b \in Nat \ {0}
    PROVE  /\ a \div b \in Nat
           /\ (a \div b) * b <= a
           /\ a < (a \div b) * b + b
<1>1. a \div b \in Int /\ a % b \in 0..(b-1) /\ a = b * (a \div b) + (a % b)
  OBVIOUS
<1>2. QED BY <1>1

\* The packet count is the least number of payloads that hold the bitstream
\* (CalculatePacketCount).
LEMMA PacketCountBounds ==
    ASSUME NEW size \in Nat \ {0}
    PROVE  LET n == CalculatePacketCount(size)
           IN  /\ n \in Nat \ {0}
               /\ (n - 1) * MaxUdpPayload < size
               /\ size <= n * MaxUdpPayload
<1> DEFINE P == MaxUdpPayload
           n == CalculatePacketCount(size)
           q == (size + P - 1) \div P
<1>0. P \in Nat \ {0}
  BY PayloadAssumption
<1>1. q \in Nat /\ q * P <= size + P - 1 /\ size + P - 1 < q * P + P
  <2>1. size + P - 1 \in Nat
    BY <1>0
  <2>2. QED BY <1>0, <2>1, DivBounds
<1>2. n = q
  BY DEF CalculatePacketCount
<1>3. q # 0
  BY <1>0, <1>1
<1>4. (q - 1) * P = q * P - P
  BY <1>0, <1>1
<1> HIDE DEF q, n
<1>5. QED BY <1>0, <1>1, <1>2, <1>3, <1>4 DEF n

\* No datagram is empty and none exceeds MAX_UDP_PAYLOAD: VideoPacket.data
\* never overflows and IsValid never rejects a datagram the host sent.
THEOREM ChunksFit ==
    ASSUME NEW size \in Nat \ {0}, NEW i \in 0..(CalculatePacketCount(size) - 1)
    PROVE  ChunkSize(size, i) \in 1..MaxUdpPayload
<1> DEFINE P == MaxUdpPayload
           n == CalculatePacketCount(size)
<1>1. P \in Nat \ {0}
  BY PayloadAssumption
<1>2. n \in Nat \ {0} /\ (n - 1) * P < size
  BY PacketCountBounds
<1>3. i \in Nat /\ i <= n - 1
  BY <1>2
<1>4. i * P <= (n - 1) * P /\ i * P \in Nat
  BY <1>1, <1>2, <1>3
<1> HIDE DEF n
<1>5. QED BY <1>1, <1>2, <1>4 DEF ChunkSize, ChunkOffset

\* The datagrams of a frame cover its bytes, all of them and nothing else.
THEOREM ChunksCover ==
    ASSUME NEW size \in Nat \ {0}
    PROVE  UNION {ChunkBytes(size, i) : i \in 0..(CalculatePacketCount(size) - 1)}
              = 0..(size - 1)
<1> DEFINE P == MaxUdpPayload
           n == CalculatePacketCount(size)
<1>0. P \in Nat \ {0}
  BY PayloadAssumption
<1>1. n \in Nat \ {0} /\ (n - 1) * P < size /\ size <= n * P
  BY PacketCountBounds
<1> HIDE DEF n
<1>2. ASSUME NEW i \in 0..(n - 1), NEW x \in ChunkBytes(size, i)
      PROVE  x \in 0..(size - 1)
  <2>1. i * P \in Nat
    BY <1>0, <1>1
  <2>2. QED BY <1>0, <2>1 DEF ChunkBytes, ChunkSize, ChunkOffset
<1>3. ASSUME NEW x \in 0..(size - 1)
      PROVE  \E i \in 0..(n - 1) : x \in ChunkBytes(size, i)
  <2> DEFINE i == x \div P
  <2>1. i \in Nat /\ i * P <= x /\ x < i * P + P
    BY <1>0, DivBounds
  <2>2. i < n
    <3>1. SUFFICES ASSUME i >= n PROVE FALSE
      BY <2>1, <1>1
    <3>2. i * P >= n * P
      BY <3>1, <2>1, <1>0, <1>1
    <3>3. QED BY <3>2, <2>1, <1>0, <1>1
  <2>3. i * P \in Nat
    BY <1>0, <2>1
  <2> HIDE DEF i
  <2>4. x \in ChunkBytes(size, i)
    BY <1>0, <2>1, <2>3 DEF ChunkBytes, ChunkSize, ChunkOffset
  <2>5. QED BY <1>1, <2>1, <2>2, <2>4
<1>4. QED BY <1>2, <1>3 DEF n

\* A later datagram carries later bytes, so concatenating the pieces by
\* sequence number restores the bitstream.
THEOREM ChunksOrdered ==
    ASSUME NEW size \in Nat \ {0}, NEW i \in Nat, NEW j \in Nat, i < j,
           NEW x \in ChunkBytes(size, i), NEW y \in ChunkBytes(size, j)
    PROVE  x < y
<1> DEFINE P == MaxUdpPayload
<1>1. P \in Nat \ {0}
  BY PayloadAssumption
<1>2. (i + 1) * P <= j * P /\ (i + 1) * P = i * P + P /\ i * P \in Nat /\ j * P \in Nat
  BY <1>1
<1>3. QED BY <1>1, <1>2 DEF ChunkBytes, ChunkSize, ChunkOffset
-----------------------------------------------------------------------------
(* What the operators return *)

\* A frame has at least one datagram, and each one is a Packet.
LEMMA PacketsTyped ==
    ASSUME HostTypeOK, NEW n \in 1..Len(encoded)
    PROVE  /\ TotalPackets(n) \in Nat \ {0}
           /\ \A i \in 0..(TotalPackets(n) - 1) : CreateVideoPacket(n, i) \in Packets
<1> DEFINE size == encoded[n].bitstreamSize
<1>1. encoded[n] \in EncodedFrames
  BY ElementOfSeq DEF HostTypeOK
<1>2. /\ size \in FrameSizes /\ size \in Nat \ {0} /\ encoded[n].isKeyframe \in BOOLEAN
      /\ n \in 1..MaxFrames /\ session \in 1..MaxSessions
  <2>1. size \in FrameSizes /\ encoded[n].isKeyframe \in BOOLEAN
    BY <1>1 DEF EncodedFrames
  <2>2. Len(encoded) \in Nat /\ Len(encoded) <= MaxFrames
    BY LenProperties DEF HostTypeOK
  <2>3. session \in 1..MaxSessions
    BY DEF HostTypeOK
  <2>4. n \in 1..MaxFrames
    BY <2>2, StreamAssumption
  <2>5. size \in Nat \ {0}
    BY <2>1, StreamAssumption
  <2>6. QED BY <2>1, <2>3, <2>4, <2>5
<1>3. TotalPackets(n) \in Nat \ {0}
  BY <1>2, PacketCountBounds DEF TotalPackets
<1>4. ASSUME NEW i \in 0..(TotalPackets(n) - 1)
      PROVE  CreateVideoPacket(n, i) \in Packets
  <2>1. i \in SequenceNums
    BY <1>2 DEF SequenceNums, TotalPackets
  <2>2. ChunkBytes(size, i) \subseteq Nat
    <3>1. ChunkSize(size, i) \in 1..MaxUdpPayload /\ i * MaxUdpPayload \in Nat
      BY <1>2, <1>3, ChunksFit, PayloadAssumption DEF TotalPackets
    <3>2. QED BY <3>1, PayloadAssumption DEF ChunkBytes, ChunkOffset
  <2>3. Chunk(n, i) \in Chunks
    BY <2>2, <1>2 DEF Chunk, Chunks
  <2>4. QED BY <1>2, <1>3, <2>1, <2>3 DEF CreateVideoPacket, Packets
<1>5. QED BY <1>3, <1>4

\* Storing a piece keeps an assembler an assembler.
LEMMA AddPacketTyped ==
    ASSUME NEW a, IsAssembler(a), NEW p \in Packets
    PROVE  IsAssembler(AddPacket(a, p))
<1>1. PICK S \in SUBSET SequenceNums : a \in Assembler(S)
  BY DEF IsAssembler
<1> DEFINE b == Opened(a, p)
<1>2. b \in Assembler(S)
  BY <1>1, StreamAssumption DEF Opened, Assembler, Packets
<1>3. CASE IsDuplicate(b, p)
  BY <1>2, <1>3 DEF AddPacket, IsAssembler
<1>4. CASE ~IsDuplicate(b, p)
  <2> DEFINE T == S \cup {p.sequenceNum}
  <2>1. T \in SUBSET SequenceNums
    BY DEF Packets
  <2>2. Stored(b.packets, p) \in [T -> Chunks]
    BY <1>2 DEF Stored, Assembler, Packets
  <2>3. b.receivedPackets + 1 \in Nat /\ b.totalPackets \in Nat
        /\ b.isKeyframe \in BOOLEAN /\ b.age \in 0..(FrameTimeout + 1)
    BY <1>2 DEF Assembler
  <2> HIDE DEF T
  <2>4. AddPacket(a, p) \in Assembler(T)
    BY <1>4, <2>2, <2>3 DEF AddPacket, Assembler
  <2>5. QED BY <2>1, <2>4 DEF IsAssembler
<1>5. QED BY <1>3, <1>4

LEMMA NewAssemblerTyped == IsAssembler(NewAssembler)
<1>1. NewAssembler \in Assembler({})
  BY StreamAssumption DEF NewAssembler, Assembler
<1>2. QED BY <1>1 DEF IsAssembler

\* The domain of the map and its entries after a datagram.
LEMMA AssemblersAfter ==
    ASSUME NEW p, UdpReceive(p), NEW f \in DOMAIN frameAssemblers'
    PROVE  LET old == IF p.frameId \in DOMAIN frameAssemblers
                      THEN frameAssemblers[p.frameId] ELSE NewAssembler
           IN  /\ f = p.frameId => /\ ~Completes(old, p)
                                   /\ frameAssemblers'[f] = AddPacket(old, p)
               /\ f # p.frameId => /\ f \in DOMAIN frameAssemblers
                                   /\ frameAssemblers'[f] = frameAssemblers[f]
               /\ ~IsExpired(frameAssemblers'[f])
BY DEF UdpReceive, Erased

-----------------------------------------------------------------------------
(* Type correctness *)

\* A datagram leaves a well-typed map behind.
LEMMA UdpReceiveTyped ==
    ASSUME MapTypeOK, NEW p \in Packets, UdpReceive(p)
    PROVE  MapTypeOK'
<1> DEFINE old == IF p.frameId \in DOMAIN frameAssemblers
                  THEN frameAssemblers[p.frameId] ELSE NewAssembler
<1>1. IsAssembler(old)
  BY NewAssemblerTyped DEF MapTypeOK
<1>2. IsAssembler(AddPacket(old, p))
  BY <1>1, AddPacketTyped
<1>3. IsMap(frameAssemblers')
  BY DEF UdpReceive, IsMap
<1>4. p.frameId \in 1..MaxFrames
  BY DEF Packets
<1> HIDE DEF old
<1>5. ASSUME NEW f \in DOMAIN frameAssemblers'
      PROVE  f \in 1..MaxFrames /\ IsAssembler(frameAssemblers'[f])
  BY <1>2, <1>4, AssemblersAfter DEF MapTypeOK, old
<1>6. QED BY <1>3, <1>5 DEF MapTypeOK

\* A tick only makes assemblers older, up to just past the timeout.
LEMMA TickTyped ==
    ASSUME MapTypeOK, Tick
    PROVE  MapTypeOK'
<1> DEFINE Aged(a) == IF IsExpired(a) THEN a ELSE [a EXCEPT !.age = @ + 1]
<1>1. ASSUME NEW a, IsAssembler(a) PROVE IsAssembler(Aged(a))
  <2>1. PICK S \in SUBSET SequenceNums : a \in Assembler(S)
    BY <1>1 DEF IsAssembler
  <2>2. Aged(a) \in Assembler(S)
    BY <2>1, StreamAssumption DEF Assembler, IsExpired
  <2>3. QED BY <2>2 DEF IsAssembler
<1>2. frameAssemblers' = [f \in DOMAIN frameAssemblers |-> Aged(frameAssemblers[f])]
  BY DEF Tick
<1> HIDE DEF Aged
<1>3. QED BY <1>1, <1>2 DEF MapTypeOK, IsMap

\* Every variable keeps its type, ages stay within the timeout plus one and
\* the send loop stays within its frame (VideoStream).
THEOREM TypeCorrect == Spec => []TypeOK
<1>1. Init => TypeOK
  <2> SUFFICES ASSUME Init PROVE TypeOK
    OBVIOUS
  <2>1. encoded \in Seq(EncodedFrames) /\ Len(encoded) = 0
    BY EmptySeq DEF Init
  <2>2. HostTypeOK
    BY <2>1, StreamAssumption DEF Init, HostTypeOK
  <2>3. NetTypeOK
    BY StreamAssumption DEF Init, NetTypeOK
  <2>4. MapTypeOK
    BY DEF Init, MapTypeOK, IsMap
  <2>5. QED BY <2>2, <2>3, <2>4 DEF TypeOK
<1>2. TypeOK /\ [Next]_vars => TypeOK'
  <2> SUFFICES ASSUME TypeOK, [Next]_vars PROVE TypeOK'
    OBVIOUS
  <2> USE DEF TypeOK
  <2>1. CASE EncodeFrame
    <3>1. PICK e \in EncodedFrames : encoded' = Append(encoded, e)
      BY <2>1 DEF EncodeFrame, EncodedFrames
    <3>2. encoded' \in Seq(EncodedFrames) /\ Len(encoded') = Len(encoded) + 1
          /\ encoded'[Len(encoded) + 1] = e /\ Len(encoded) \in Nat
      BY <3>1, AppendProperties, LenProperties DEF HostTypeOK
    <3>3. CalculatePacketCount(e.bitstreamSize) \in Nat \ {0}
      BY PacketCountBounds, StreamAssumption DEF EncodedFrames
    <3>4. sender' = "sending" => Len(encoded') > 0 /\ sendIndex' < TotalPackets(Len(encoded))'
      BY <2>1, <3>2, <3>3 DEF EncodeFrame, TotalPackets
    <3>5. Len(encoded') <= MaxFrames /\ sendIndex' \in Nat /\ sender' \in {"idle", "sending"}
      BY <2>1, <3>2, StreamAssumption DEF EncodeFrame
    <3>6. UNCHANGED <<session, samePort, net, dups, frameAssemblers>>
      BY <2>1 DEF EncodeFrame, clientVars
    <3>7. QED BY <3>2, <3>4, <3>5, <3>6 DEF HostTypeOK, NetTypeOK, MapTypeOK
  <2>2. CASE SendVideoPacket
    <3>1. Len(encoded) \in 1..Len(encoded)
      BY <2>2, LenProperties DEF SendVideoPacket, HostTypeOK
    <3>2. TotalPackets(Len(encoded)) \in Nat
          /\ CreateVideoPacket(Len(encoded), sendIndex) \in Packets
      BY <2>2, <3>1, PacketsTyped DEF SendVideoPacket, HostTypeOK
    <3>3. HostTypeOK'
      BY <2>2, <3>1, <3>2 DEF SendVideoPacket, HostTypeOK, TotalPackets
    <3>4. QED
      BY <2>2, <3>2, <3>3 DEF SendVideoPacket, clientVars, NetTypeOK, MapTypeOK
  <2>3. CASE SendVideoPacketFails
    BY <2>3 DEF SendVideoPacketFails, clientVars, HostTypeOK, NetTypeOK, MapTypeOK
  <2>4. CASE LosePacket
    BY <2>4 DEF LosePacket, clientVars, hostVars, HostTypeOK, TotalPackets, NetTypeOK, MapTypeOK
  <2>5. CASE Deliver
    <3>1. PICK p \in Packets : UdpReceive(p)
      BY <2>5 DEF Deliver, NetTypeOK
    <3>2. HostTypeOK'
      BY <3>1 DEF UdpReceive, hostVars, HostTypeOK, TotalPackets
    <3>3. NetTypeOK'
      <4>1. net' \subseteq net /\ dups' \in 0..MaxDups
        BY <2>5, StreamAssumption DEF Deliver, NetTypeOK
      <4>2. QED BY <3>1, <4>1 DEF UdpReceive, NetTypeOK
    <3>4. QED BY <3>1, <3>2, <3>3, UdpReceiveTyped
  <2>6. CASE GetNextFrame
    BY <2>6 DEF GetNextFrame, hostVars, HostTypeOK, TotalPackets, NetTypeOK, MapTypeOK
  <2>7. CASE Tick
    <3>1. HostTypeOK' /\ NetTypeOK'
      BY <2>7 DEF Tick, hostVars, HostTypeOK, TotalPackets, NetTypeOK
    <3>2. QED BY <2>7, <3>1, TickTyped
  <2>8. CASE Reconnect
    <3>1. HostTypeOK'
      <4>1. encoded' \in Seq(EncodedFrames) /\ Len(encoded') = 0
        BY <2>8, EmptySeq DEF Reconnect
      <4>2. QED BY <2>8, <4>1, StreamAssumption DEF Reconnect, HostTypeOK
    <3>2. QED BY <2>8, <3>1 DEF Reconnect, NetTypeOK, MapTypeOK
  <2>9. CASE UNCHANGED vars
    BY <2>9 DEF vars, hostVars, clientVars, HostTypeOK, TotalPackets, NetTypeOK, MapTypeOK
  <2>10. QED
    BY <2>1, <2>2, <2>3, <2>4, <2>5, <2>6, <2>7, <2>8, <2>9 DEF Next
<1>3. QED BY <1>1, <1>2, PTL DEF Spec
-----------------------------------------------------------------------------
(* Assemblers wait for what is missing *)

\* A datagram that does not complete an assembler leaves it waiting.
LEMMA AddPacketWaiting ==
    ASSUME NEW a, IsAssembler(a), a = NewAssembler \/ Waiting(a),
           NEW p \in Packets, ~Completes(a, p)
    PROVE  Waiting(AddPacket(a, p))
<1> DEFINE c == AddPacket(a, p)
<1>1. p.totalPackets \in Nat \ {0}
  BY DEF Packets
<1>2. CASE a = NewAssembler
  <2>1. /\ c.totalPackets = p.totalPackets /\ c.receivedPackets = 1
        /\ DOMAIN c.packets = {p.sequenceNum}
    BY <1>2 DEF AddPacket, Opened, IsDuplicate, Stored, NewAssembler
  <2>2. c.receivedPackets # c.totalPackets
    BY <1>2 DEF Completes, Opened, IsDuplicate, NewAssembler
  <2>3. IsFiniteSet(DOMAIN c.packets) /\ Cardinality(DOMAIN c.packets) = 1
    BY <2>1, FS_Singleton
  <2> HIDE DEF c
  <2>4. Waiting(c)
    BY <1>1, <2>1, <2>2, <2>3 DEF Waiting
  <2>5. QED BY <2>4 DEF c
<1>3. CASE Waiting(a)
  <2>1. a.totalPackets \in Nat /\ a.receivedPackets \in Nat
    BY DEF IsAssembler, Assembler
  <2>2. Opened(a, p) = a
    BY <1>3, <2>1 DEF Opened, Waiting
  <2>3. CASE IsDuplicate(a, p)
    BY <1>3, <2>2, <2>3 DEF AddPacket
  <2>4. CASE ~IsDuplicate(a, p)
    <3>1. /\ c.totalPackets = a.totalPackets
          /\ c.receivedPackets = a.receivedPackets + 1
          /\ DOMAIN c.packets = DOMAIN a.packets \cup {p.sequenceNum}
      BY <2>2, <2>4 DEF AddPacket, Stored
    <3>2. c.receivedPackets # c.totalPackets
      BY <2>2, <2>4 DEF Completes
    <3>3. IsFiniteSet(DOMAIN c.packets)
          /\ Cardinality(DOMAIN c.packets) = Cardinality(DOMAIN a.packets) + 1
      <4>1. IsFiniteSet(DOMAIN a.packets) /\ p.sequenceNum \notin DOMAIN a.packets
        BY <1>3, <2>4 DEF Waiting, IsDuplicate
      <4>2. /\ IsFiniteSet(DOMAIN a.packets \cup {p.sequenceNum})
            /\ Cardinality(DOMAIN a.packets \cup {p.sequenceNum})
                 = Cardinality(DOMAIN a.packets) + 1
        BY <4>1, FS_AddElement
      <4>3. QED BY <3>1, <4>2, Zenon
    <3> HIDE DEF c
    <3>4. Waiting(c)
      BY <1>3, <2>1, <3>1, <3>2, <3>3 DEF Waiting
    <3>5. QED BY <3>4 DEF c
  <2>5. QED BY <2>3, <2>4
<1>4. QED BY <1>2, <1>3

\* Whatever arrives, in whatever session, no assembler in the map is ever
\* complete, empty or miscounted (UdpReceiveThread).
THEOREM AssemblersAlwaysWait == Spec => []AssemblersWaiting
<1>1. Init => AssemblersWaiting
  BY DEF Init, AssemblersWaiting
<1>2. TypeOK /\ AssemblersWaiting /\ [Next]_vars => AssemblersWaiting'
  <2> SUFFICES ASSUME TypeOK, AssemblersWaiting, [Next]_vars
               PROVE  AssemblersWaiting'
    OBVIOUS
  <2>1. CASE Deliver
    <3>1. PICK p \in Packets : UdpReceive(p)
      BY <2>1 DEF Deliver, TypeOK, NetTypeOK
    <3> DEFINE old == IF p.frameId \in DOMAIN frameAssemblers
                      THEN frameAssemblers[p.frameId] ELSE NewAssembler
    <3>2. IsAssembler(old) /\ (old = NewAssembler \/ Waiting(old))
      BY NewAssemblerTyped DEF TypeOK, MapTypeOK, AssemblersWaiting
    <3> HIDE DEF old
    <3>3. ASSUME NEW f \in DOMAIN frameAssemblers' PROVE Waiting(frameAssemblers'[f])
      <4>1. CASE f = p.frameId
        BY <3>1, <3>2, <4>1, AssemblersAfter, AddPacketWaiting DEF old
      <4>2. CASE f # p.frameId
        BY <3>1, <4>2, AssemblersAfter DEF AssemblersWaiting
      <4>3. QED BY <4>1, <4>2
    <3>4. QED BY <3>3 DEF AssemblersWaiting
  <2>2. CASE Tick
    <3>1. ASSUME NEW f \in DOMAIN frameAssemblers'
          PROVE  Waiting(frameAssemblers'[f])
      <4>1. f \in DOMAIN frameAssemblers
        BY <2>2 DEF Tick
      <4>2. PICK S \in SUBSET SequenceNums : frameAssemblers[f] \in Assembler(S)
        BY <4>1 DEF TypeOK, MapTypeOK, IsAssembler
      <4>3. /\ frameAssemblers'[f].totalPackets = frameAssemblers[f].totalPackets
            /\ frameAssemblers'[f].receivedPackets = frameAssemblers[f].receivedPackets
            /\ frameAssemblers'[f].packets = frameAssemblers[f].packets
        BY <2>2, <4>1, <4>2 DEF Tick, Assembler
      <4>4. QED BY <4>1, <4>3 DEF AssemblersWaiting, Waiting
    <3>2. QED BY <3>1 DEF AssemblersWaiting
  <2>3. CASE EncodeFrame \/ SendVideoPacket \/ SendVideoPacketFails \/ LosePacket
    BY <2>3 DEF EncodeFrame, SendVideoPacket, SendVideoPacketFails, LosePacket,
                clientVars, AssemblersWaiting
  <2>4. CASE GetNextFrame \/ Reconnect \/ UNCHANGED vars
    BY <2>4 DEF GetNextFrame, Reconnect, vars, clientVars, AssemblersWaiting
  <2>5. QED BY <2>1, <2>2, <2>3, <2>4 DEF Next
<1>3. QED BY <1>1, <1>2, TypeCorrect, PTL DEF Spec
-----------------------------------------------------------------------------
(* Nothing is dropped early *)

\* The jitter buffer is a queue.
Queued == \E S : jitterBuffer \in Seq(S)

LEMMA PushQueues ==
    ASSUME NEW s, \E S : s \in Seq(S), NEW e
    PROVE  /\ \E S : Push(s, e) \in Seq(S)
           /\ Len(Push(s, e)) = Len(s) + 1
           /\ Push(s, e)[Len(Push(s, e))] = e
<1>1. PICK S : s \in Seq(S)
  OBVIOUS
<1>2. s \in Seq(S \cup {e}) /\ e \in S \cup {e}
  BY <1>1
<1>3. QED BY <1>2, AppendProperties DEF Push

LEMMA QueuedInvariant == Spec => []Queued
<1>1. Init => Queued
  BY EmptySeq DEF Init, Queued
<1>2. Queued /\ [Next]_vars => Queued'
  <2> SUFFICES ASSUME Queued, [Next]_vars PROVE Queued'
    OBVIOUS
  <2>1. CASE Deliver
    <3>1. jitterBuffer' = jitterBuffer \/ \E e : jitterBuffer' = Push(jitterBuffer, e)
      BY <2>1, Zenon DEF Deliver, UdpReceive
    <3>2. QED BY <3>1, PushQueues DEF Queued
  <2>2. CASE GetNextFrame
    BY <2>2, HeadTailProperties DEF GetNextFrame, Queued
  <2>3. CASE Reconnect
    BY <2>3, EmptySeq DEF Reconnect, Queued
  <2>4. QED
    BY <2>1, <2>2, <2>3 DEF Next, EncodeFrame, SendVideoPacket, SendVideoPacketFails, LosePacket,
       Tick, clientVars, vars, Queued
<1>3. QED BY <1>1, <1>2, PTL DEF Spec

\* A datagram makes no assembler older.
LEMMA AddPacketKeepsAge ==
    ASSUME NEW a, Waiting(a), IsAssembler(a), NEW p
    PROVE  AddPacket(a, p).age = a.age
<1>1. a.totalPackets # 0
  BY DEF IsAssembler, Assembler, Waiting
<1>2. Opened(a, p) = a
  BY <1>1 DEF Opened
<1>3. QED BY <1>2 DEF AddPacket

JustifiedDrops ==
    \A f \in DOMAIN frameAssemblers \ DOMAIN frameAssemblers' :
        \/ frameAssemblers[f].age > FrameTimeout
        \/ /\ Len(jitterBuffer') = Len(jitterBuffer) + 1
           /\ jitterBuffer'[Len(jitterBuffer')].frameNumber = f

\* An assembler leaves the map when its frame is handed over, or when it is
\* older than the timeout, and never otherwise (UdpReceiveThread).
THEOREM NothingDroppedEarly == Spec => DropsJustified
<1>1. TypeOK /\ AssemblersWaiting /\ Queued /\ [Next]_vars => [JustifiedDrops]_vars
  <2> SUFFICES ASSUME TypeOK, AssemblersWaiting, Queued, [Next]_vars,
                      NEW f \in DOMAIN frameAssemblers \ DOMAIN frameAssemblers'
               PROVE  \/ frameAssemblers[f].age > FrameTimeout
                      \/ /\ Len(jitterBuffer') = Len(jitterBuffer) + 1
                         /\ jitterBuffer'[Len(jitterBuffer')].frameNumber = f
    BY DEF JustifiedDrops
  <2>1. CASE Deliver
    <3>1. PICK p \in net : UdpReceive(p)
      BY <2>1 DEF Deliver
    <3> DEFINE old == IF p.frameId \in DOMAIN frameAssemblers
                      THEN frameAssemblers[p.frameId] ELSE NewAssembler
               new == AddPacket(old, p)
               open == Erased(p.frameId, Completes(old, p))
               held == [g \in open |-> IF g = p.frameId THEN new ELSE frameAssemblers[g]]
    <3>2. /\ f \notin open \/ IsExpired(held[f])
          /\ Completes(old, p) => jitterBuffer' = Push(jitterBuffer, GetFrame(p.frameId, new))
      BY <3>1, Zenon DEF UdpReceive
    <3>3. CASE f \notin open
      <4>1. Completes(old, p) /\ f = p.frameId
        BY <3>3 DEF Erased
      <4>2. /\ Len(jitterBuffer') = Len(jitterBuffer) + 1
            /\ jitterBuffer'[Len(jitterBuffer')] = GetFrame(f, new)
        BY <3>2, <4>1, PushQueues DEF Queued
      <4>3. QED BY <4>2 DEF GetFrame
    <3>4. CASE f \in open /\ IsExpired(held[f]) /\ f # p.frameId
      BY <3>4 DEF IsExpired
    <3>5. CASE f \in open /\ IsExpired(held[f]) /\ f = p.frameId
      <4>1. Waiting(frameAssemblers[f]) /\ IsAssembler(frameAssemblers[f])
        BY DEF AssemblersWaiting, TypeOK, MapTypeOK
      <4>2. old = frameAssemblers[f] /\ held[f] = new
        BY <3>5
      <4> HIDE DEF old, held
      <4>3. held[f].age = frameAssemblers[f].age
        BY <4>1, <4>2, AddPacketKeepsAge
      <4>4. QED BY <3>5, <4>3 DEF IsExpired
    <3>6. QED BY <3>2, <3>3, <3>4, <3>5
  <2>2. CASE ~Deliver
    <3>1. DOMAIN frameAssemblers' = DOMAIN frameAssemblers
      BY <2>2 DEF Next, EncodeFrame, SendVideoPacket, SendVideoPacketFails, LosePacket,
         GetNextFrame, Tick, Reconnect, clientVars, vars
    <3>2. QED BY <3>1
  <2>3. QED BY <2>1, <2>2
<1>2. Spec => [][JustifiedDrops]_vars
  BY <1>1, TypeCorrect, AssemblersAlwaysWait, QueuedInvariant, PTL DEF Spec
<1>3. QED BY <1>2 DEF DropsJustified, JustifiedDrops
-----------------------------------------------------------------------------
(* Frames are whole *)

\* A datagram of frame n keeps the pieces genuine.
LEMMA AddPacketGenuine ==
    ASSUME NEW n \in 1..Len(encoded), NEW i \in 0..(TotalPackets(n) - 1),
           TotalPackets(n) \in Nat \ {0},
           NEW a, IsAssembler(a), a = NewAssembler \/ (Waiting(a) /\ Genuine(n, a))
    PROVE  Genuine(n, AddPacket(a, CreateVideoPacket(n, i)))
<1> DEFINE p == CreateVideoPacket(n, i)
<1>1. /\ p.sequenceNum = i /\ p.totalPackets = TotalPackets(n)
      /\ p.isKeyframe = encoded[n].isKeyframe /\ p.data = Chunk(n, i)
  BY DEF CreateVideoPacket
<1> HIDE DEF p
<1>2. CASE a = NewAssembler
  <2>1. AddPacket(a, p) = [totalPackets |-> p.totalPackets, receivedPackets |-> 0 + 1,
                           isKeyframe |-> p.isKeyframe, age |-> 0,
                           packets |-> Stored([s \in {} |-> s], p)]
    BY <1>2 DEF AddPacket, Opened, IsDuplicate, NewAssembler
  <2>2. /\ DOMAIN Stored([s \in {} |-> s], p) = {i}
        /\ Stored([s \in {} |-> s], p)[i] = Chunk(n, i)
    BY <1>1 DEF Stored
  <2>3. QED BY <1>1, <2>1, <2>2 DEF Genuine, p
<1>3. CASE Waiting(a) /\ Genuine(n, a)
  <2>1. a.totalPackets # 0
    BY <1>3 DEF Genuine
  <2>2. Opened(a, p) = a
    BY <2>1 DEF Opened
  <2>3. CASE IsDuplicate(a, p)
    BY <1>3, <2>2, <2>3 DEF AddPacket, p
  <2>4. CASE ~IsDuplicate(a, p)
    <3>1. AddPacket(a, p) = [totalPackets |-> a.totalPackets,
                             receivedPackets |-> a.receivedPackets + 1,
                             isKeyframe |-> a.isKeyframe, age |-> a.age,
                             packets |-> Stored(a.packets, p)]
      BY <2>2, <2>4 DEF AddPacket
    <3>2. /\ DOMAIN Stored(a.packets, p) = DOMAIN a.packets \cup {i}
          /\ \A s \in DOMAIN a.packets \cup {i} :
                Stored(a.packets, p)[s] = Chunk(n, s)
      BY <1>1, <1>3 DEF Stored, Genuine
    <3>3. QED BY <1>3, <3>1, <3>2 DEF Genuine, p
  <2>5. QED BY <2>3, <2>4
<1>4. QED BY <1>2, <1>3

\* The datagram that completes an assembler makes its frame whole.
LEMMA CompleteIsWhole ==
    ASSUME NEW n \in 1..Len(encoded), NEW i \in 0..(TotalPackets(n) - 1),
           TotalPackets(n) \in Nat \ {0},
           NEW a, IsAssembler(a), a = NewAssembler \/ (Waiting(a) /\ Genuine(n, a)),
           Completes(a, CreateVideoPacket(n, i))
    PROVE  GetFrame(n, AddPacket(a, CreateVideoPacket(n, i))) = WholeFrame(n)
<1> DEFINE p == CreateVideoPacket(n, i)
           c == AddPacket(a, p)
           T == TotalPackets(n)
<1>1. Genuine(n, c)
  BY AddPacketGenuine
<1>2. p.sequenceNum = i /\ p.totalPackets = T
  BY DEF CreateVideoPacket
<1>3. ~IsDuplicate(Opened(a, p), p) /\ c.receivedPackets = c.totalPackets
  BY DEF Completes
<1>4. IsFiniteSet(DOMAIN c.packets) /\ Cardinality(DOMAIN c.packets) = T
  <2>1. CASE a = NewAssembler
    <3>1. c.receivedPackets = 1 /\ DOMAIN c.packets = {i}
      BY <1>2, <1>3, <2>1 DEF AddPacket, Opened, Stored, NewAssembler, IsDuplicate
    <3>2. c.receivedPackets = T
      BY <1>1, <1>3 DEF Genuine
    <3>3. IsFiniteSet({i}) /\ Cardinality({i}) = 1
      BY FS_Singleton
    <3> HIDE DEF c, T
    <3>4. QED BY <3>1, <3>2, <3>3
  <2>2. CASE Waiting(a) /\ Genuine(n, a)
    <3>1. Opened(a, p) = a
      BY <2>2 DEF Opened, Genuine
    <3>2. /\ c.receivedPackets = a.receivedPackets + 1
          /\ DOMAIN c.packets = DOMAIN a.packets \cup {i} /\ i \notin DOMAIN a.packets
      BY <1>2, <1>3, <3>1 DEF AddPacket, Stored, IsDuplicate
    <3>3. c.receivedPackets = T
      BY <1>1, <1>3 DEF Genuine
    <3> DEFINE D == DOMAIN a.packets
    <3>4. IsFiniteSet(D) /\ a.receivedPackets = Cardinality(D)
      BY <2>2 DEF Waiting
    <3> HIDE DEF c, T, D
    <3>5. IsFiniteSet(D \cup {i})
          /\ (i \notin D => Cardinality(D \cup {i}) = Cardinality(D) + 1)
      BY <3>4, FS_AddElement
    <3>6. DOMAIN c.packets = D \cup {i} /\ i \notin D
      BY <3>2 DEF D
    <3>7. QED BY <3>2, <3>3, <3>4, <3>5, <3>6
  <2>3. QED BY <2>1, <2>2
<1>5. DOMAIN c.packets = 0..(T - 1)
  <2>1. IsFiniteSet(0..(T - 1)) /\ Cardinality(0..(T - 1)) = T
    <3>1. T \in Nat \ {0}
      OBVIOUS
    <3> HIDE DEF T
    <3>2. 0 \in Int /\ T - 1 \in Int /\ ~(0 > T - 1) /\ (T - 1) - 0 + 1 = T
      BY <3>1
    <3>3. QED BY <3>2, FS_Interval
  <2>2. DOMAIN c.packets \in SUBSET (0..(T - 1))
    BY <1>1 DEF Genuine
  <2> HIDE DEF c, T
  <2>3. QED BY <1>4, <2>1, <2>2, FS_Subset
<1>6. [k \in (0..(c.totalPackets - 1)) \cap DOMAIN c.packets |-> c.packets[k]]
         = [k \in 0..(T - 1) |-> Chunk(n, k)]
  <2>1. c.totalPackets = T /\ \A s \in DOMAIN c.packets : c.packets[s] = Chunk(n, s)
    BY <1>1 DEF Genuine
  <2> HIDE DEF c, T
  <2>2. QED BY <1>5, <2>1
<1>7. c.isKeyframe = encoded[n].isKeyframe
  BY <1>1 DEF Genuine
<1> HIDE DEF c, p
<1>8. GetFrame(n, c) = WholeFrame(n)
  BY <1>6, <1>7 DEF GetFrame, WholeFrame
<1>9. QED BY <1>8 DEF c, p

\* Once begun in an earlier session, an assembler stays so, and so will the
\* frame that comes out of it be.
LEMMA AddPacketStale ==
    ASSUME NEW a, IsAssembler(a), Stale(a), NEW p, NEW f
    PROVE  /\ Stale(AddPacket(a, p))
           /\ BegunEarlier(GetFrame(f, AddPacket(a, p)))
<1> DEFINE c == AddPacket(a, p)
<1>1. PICK i \in (0..(a.totalPackets - 1)) \cap DOMAIN a.packets :
         a.packets[i].session < session
  BY DEF Stale
<1>2. a.totalPackets \in Nat
  BY DEF IsAssembler, Assembler
<1>3. a.totalPackets # 0
  BY <1>1, <1>2
<1>4. Opened(a, p) = a
  BY <1>3 DEF Opened
<1>5. c.totalPackets = a.totalPackets /\ i \in DOMAIN c.packets /\ c.packets[i] = a.packets[i]
  BY <1>1, <1>4 DEF AddPacket, IsDuplicate, Stored
<1> HIDE DEF c
<1>6. Stale(c)
  BY <1>1, <1>5 DEF Stale
<1>7. BegunEarlier(GetFrame(f, c))
  BY <1>1, <1>5 DEF BegunEarlier, GetFrame
<1>8. QED BY <1>6, <1>7 DEF c

\* No piece of the first session is older than the session.
LEMMA FirstSessionFresh ==
    ASSUME session = 1, NEW a, IsAssembler(a)
    PROVE  ~Stale(a)
<1>1. SUFFICES ASSUME NEW i \in DOMAIN a.packets, a.packets[i].session < session
               PROVE  FALSE
  BY DEF Stale
<1>2. a.packets[i] \in Chunks
  BY DEF IsAssembler, Assembler
<1>3. a.packets[i].session \in 1..MaxSessions
  BY <1>2 DEF Chunks
<1>4. QED BY <1>1, <1>3

\* When the client connects again, every assembler that is left has a piece
\* of an earlier session.
LEMMA ReconnectMakesStale ==
    ASSUME TypeOK, AssemblersWaiting, AssemblersGenuine, Reconnect,
           NEW f \in DOMAIN frameAssemblers
    PROVE  Stale(frameAssemblers[f])'
<1> DEFINE a == frameAssemblers[f]
<1>1. session \in Nat /\ session' = session + 1 /\ frameAssemblers' = frameAssemblers
  BY DEF Reconnect, TypeOK, HostTypeOK
<1>2. IsAssembler(a) /\ Waiting(a)
  BY DEF TypeOK, MapTypeOK, AssemblersWaiting
<1>3. PICK i \in (0..(a.totalPackets - 1)) \cap DOMAIN a.packets : a.packets[i].session <= session
  <2>1. CASE Stale(a)
    <3>1. PICK i \in (0..(a.totalPackets - 1)) \cap DOMAIN a.packets : a.packets[i].session < session
      BY <2>1 DEF Stale
    <3>2. a.packets[i] \in Chunks
      BY <1>2, <3>1 DEF IsAssembler, Assembler
    <3>3. a.packets[i].session \in Int
      BY <3>2 DEF Chunks
    <3> HIDE DEF a
    <3>4. QED BY <1>1, <3>1, <3>3
  <2>2. CASE ~Stale(a)
    <3>1. Genuine(f, a)
      BY <2>2 DEF AssemblersGenuine
    <3>2. DOMAIN a.packets # {}
      BY <1>2, FS_EmptySet DEF Waiting
    <3>3. PICK i \in DOMAIN a.packets : TRUE
      BY <3>2
    <3>4. i \in 0..(a.totalPackets - 1) /\ a.packets[i] = Chunk(f, i)
      BY <3>1, <3>3 DEF Genuine
    <3>5. a.packets[i].session = session
      BY <3>4 DEF Chunk
    <3> HIDE DEF a
    <3>6. QED BY <1>1, <3>3, <3>4, <3>5
  <2>3. QED BY <2>1, <2>2
<1>4. a.packets[i] \in Chunks
  BY <1>2 DEF IsAssembler, Assembler
<1>5. a.packets[i].session \in Int
  BY <1>4 DEF Chunks
<1>6. a.packets[i].session < session'
  BY <1>1, <1>3, <1>5
<1>7. a' = a
  BY <1>1
<1> HIDE DEF a
<1>8. Stale(a)'
  BY <1>3, <1>6, <1>7 DEF Stale
<1>9. QED BY <1>8 DEF a

\* What is already encoded does not change when another frame is.
LEMMA EncodeKeeps ==
    ASSUME HostTypeOK, EncodeFrame
    PROVE  /\ 1..Len(encoded) \subseteq 1..Len(encoded')
           /\ \A n \in 1..Len(encoded) : encoded'[n] = encoded[n]
           /\ session' = session
<1>1. PICK e \in EncodedFrames : encoded' = Append(encoded, e)
  BY DEF EncodeFrame, EncodedFrames
<1>2. QED BY <1>1, AppendProperties, LenProperties DEF HostTypeOK, EncodeFrame

\* ... so datagrams, pieces and whole frames stay what they were.
LEMMA EncodeKeepsFrames ==
    ASSUME HostTypeOK, EncodeFrame, NEW n \in 1..Len(encoded)
    PROVE  /\ n \in 1..Len(encoded)'
           /\ TotalPackets(n)' = TotalPackets(n)
           /\ \A i : Chunk(n, i)' = Chunk(n, i)
           /\ \A i : CreateVideoPacket(n, i)' = CreateVideoPacket(n, i)
           /\ WholeFrame(n)' = WholeFrame(n)
<1>1. n \in 1..Len(encoded') /\ encoded'[n] = encoded[n] /\ session' = session
  BY EncodeKeeps
<1>2. TotalPackets(n)' = TotalPackets(n)
  BY <1>1 DEF TotalPackets
<1>3. ASSUME NEW i PROVE Chunk(n, i)' = Chunk(n, i)
  BY <1>1 DEF Chunk
<1>4. ASSUME NEW i PROVE CreateVideoPacket(n, i)' = CreateVideoPacket(n, i)
  BY <1>1, <1>2, <1>3 DEF CreateVideoPacket
<1>5. WholeFrame(n)' = WholeFrame(n)
  BY <1>1, <1>2, <1>3 DEF WholeFrame
<1>6. QED BY <1>1, <1>2, <1>3, <1>4, <1>5

StreamInv == NetGenuine /\ AssemblersGenuine /\ FramesGenuine

\* What a datagram does, given the invariant: the frame it completes, if it
\* completes one, joins the queue, whole or begun in an earlier session; the
\* map stays genuine.
LEMMA UdpReceiveGenuine ==
    ASSUME TypeOK, AssemblersWaiting, StreamInv, NEW p \in net, UdpReceive(p)
    PROVE  /\ AssemblersGenuine'
           /\ \/ UNCHANGED jitterBuffer
              \/ \E w : /\ jitterBuffer' = Push(jitterBuffer, w)
                        /\ w \in WholeFrames \/ (session > 1 /\ BegunEarlier(w))
<1>0. PICK n \in 1..Len(encoded) :
         \E i \in 0..(TotalPackets(n) - 1) : p = CreateVideoPacket(n, i)
  BY DEF StreamInv, NetGenuine
<1>1. PICK i \in 0..(TotalPackets(n) - 1) : p = CreateVideoPacket(n, i)
  BY <1>0
<1>2. p.frameId = n
  BY <1>1 DEF CreateVideoPacket
<1>3. TotalPackets(n) \in Nat \ {0}
  BY PacketsTyped DEF TypeOK
<1> DEFINE old == IF n \in DOMAIN frameAssemblers THEN frameAssemblers[n] ELSE NewAssembler
<1>4. /\ IsAssembler(old)
      /\ old = NewAssembler \/ Stale(old) \/ (Waiting(old) /\ Genuine(n, old))
  BY NewAssemblerTyped DEF TypeOK, MapTypeOK, AssemblersWaiting, StreamInv, AssemblersGenuine
<1>5. UNCHANGED <<encoded, session>>
  BY DEF UdpReceive, hostVars
<1> HIDE DEF old
<1>6. ASSUME NEW f \in DOMAIN frameAssemblers'
      PROVE  Stale(frameAssemblers'[f]) \/ Genuine(f, frameAssemblers'[f])
  <2>1. CASE f = n
    <3>1. frameAssemblers'[f] = AddPacket(old, p)
      BY <1>2, <2>1, AssemblersAfter DEF old
    <3>2. Stale(old) => Stale(AddPacket(old, p))
      BY <1>4, AddPacketStale
    <3>3. ~Stale(old) => Genuine(n, AddPacket(old, p))
      BY <1>1, <1>3, <1>4, AddPacketGenuine
    <3>4. QED BY <2>1, <3>1, <3>2, <3>3
  <2>2. CASE f # n
    <3>1. f \in DOMAIN frameAssemblers /\ frameAssemblers'[f] = frameAssemblers[f]
      BY <1>2, <2>2, AssemblersAfter
    <3>2. QED BY <3>1 DEF StreamInv, AssemblersGenuine
  <2>3. QED BY <2>1, <2>2
<1>6a. AssemblersGenuine'
  BY <1>5, <1>6 DEF AssemblersGenuine, Genuine, Stale, TotalPackets, Chunk
<1>7. CASE Completes(old, p)
  <2> DEFINE w == GetFrame(n, AddPacket(old, p))
  <2>1. jitterBuffer' = Push(jitterBuffer, w)
    BY <1>2, <1>7 DEF UdpReceive, old
  <2>2. w \in WholeFrames \/ (session > 1 /\ BegunEarlier(w))
    <3>1. CASE Stale(old)
      <4>1. BegunEarlier(w) /\ session # 1
        BY <1>4, <3>1, AddPacketStale, FirstSessionFresh
      <4>2. session > 1
        BY <4>1 DEF TypeOK, HostTypeOK
      <4>3. QED BY <4>1, <4>2
    <3>2. CASE ~Stale(old)
      <4>1. w = WholeFrame(n)
        BY <1>1, <1>3, <1>4, <1>7, <3>2, CompleteIsWhole
      <4>2. QED BY <4>1 DEF WholeFrames
    <3>3. QED BY <3>1, <3>2
  <2> HIDE DEF w
  <2>3. QED BY <1>6a, <2>1, <2>2
<1>8. CASE ~Completes(old, p)
  <2>1. UNCHANGED jitterBuffer
    BY <1>2, <1>8 DEF UdpReceive, old
  <2>2. QED BY <1>6a, <2>1
<1>9. QED BY <1>7, <1>8

\* What a queue holds after a push and after a pop.
LEMMA QueueElements ==
    ASSUME NEW q, \E S : q \in Seq(S)
    PROVE  /\ \A e : \A k \in DOMAIN Push(q, e) :
                  Push(q, e)[k] = e \/ (k \in DOMAIN q /\ Push(q, e)[k] = q[k])
           /\ q # <<>> => \A k \in DOMAIN Tail(q) :
                  k + 1 \in DOMAIN q /\ Tail(q)[k] = q[k + 1]
<1>1. PICK S : q \in Seq(S)
  OBVIOUS
<1>2. ASSUME NEW e, NEW k \in DOMAIN Push(q, e)
      PROVE  Push(q, e)[k] = e \/ (k \in DOMAIN q /\ Push(q, e)[k] = q[k])
  BY <1>1 DEF Push
<1>3. ASSUME q # <<>>, NEW k \in DOMAIN Tail(q)
      PROVE  k + 1 \in DOMAIN q /\ Tail(q)[k] = q[k + 1]
  BY <1>1, <1>3
<1>4. QED BY <1>2, <1>3

\* The conjuncts of IInv that speak of frame contents are inductive.
LEMMA StreamInvStep ==
    ASSUME TypeOK, AssemblersWaiting, Queued, StreamInv, [Next]_vars
    PROVE  StreamInv'
<1>1. CASE EncodeFrame
  <2>1. HostTypeOK /\ UNCHANGED <<net, frameAssemblers, jitterBuffer>>
    BY <1>1 DEF EncodeFrame, clientVars, TypeOK
  <2>2. NetGenuine'
    <3>1. ASSUME NEW p \in net
          PROVE  \E n \in 1..Len(encoded)' : \E i \in 0..(TotalPackets(n) - 1)' :
                    p = CreateVideoPacket(n, i)'
      <4>0. PICK n \in 1..Len(encoded) :
               \E i \in 0..(TotalPackets(n) - 1) : p = CreateVideoPacket(n, i)
        BY DEF StreamInv, NetGenuine
      <4>1. PICK i \in 0..(TotalPackets(n) - 1) : p = CreateVideoPacket(n, i)
        BY <4>0
      <4>2. /\ n \in 1..Len(encoded)' /\ i \in 0..(TotalPackets(n) - 1)'
            /\ p = CreateVideoPacket(n, i)'
        BY <1>1, <2>1, <4>1, EncodeKeepsFrames
      <4>3. QED BY <4>2
    <3>2. QED BY <2>1, <3>1 DEF NetGenuine
  <2>3. AssemblersGenuine'
    <3>1. ASSUME NEW f \in DOMAIN frameAssemblers, Genuine(f, frameAssemblers[f])
          PROVE  Genuine(f, frameAssemblers[f])'
      <4>1. f \in 1..Len(encoded)
        BY <3>1 DEF Genuine
      <4>2. encoded'[f] = encoded[f]
        BY <1>1, <2>1, <4>1, EncodeKeeps
      <4>3. QED BY <1>1, <2>1, <3>1, <4>1, <4>2, EncodeKeepsFrames DEF Genuine
    <3>2. ASSUME NEW f \in DOMAIN frameAssemblers, Stale(frameAssemblers[f])
          PROVE  Stale(frameAssemblers[f])'
      BY <1>1, <2>1, <3>2, EncodeKeeps DEF Stale
    <3>3. QED BY <2>1, <3>1, <3>2 DEF StreamInv, AssemblersGenuine
  <2>4. FramesGenuine'
    <3>1. WholeFrames \subseteq WholeFrames'
      BY <1>1, <2>1, EncodeKeepsFrames DEF WholeFrames
    <3>2. session' = session
      BY <1>1, <2>1, EncodeKeeps
    <3>3. QED BY <2>1, <3>1, <3>2 DEF StreamInv, FramesGenuine, BegunEarlier
  <2>5. QED BY <2>2, <2>3, <2>4 DEF StreamInv
<1>2. CASE SendVideoPacket
  <2>1. UNCHANGED <<session, encoded, frameAssemblers, jitterBuffer>>
    BY <1>2 DEF SendVideoPacket, clientVars
  <2>2. AssemblersGenuine' /\ FramesGenuine'
    BY <2>1 DEF StreamInv, AssemblersGenuine, Genuine, Stale, TotalPackets, Chunk,
                FramesGenuine, BegunEarlier, WholeFrames, WholeFrame
  <2>3. Len(encoded) \in 1..Len(encoded) /\ TotalPackets(Len(encoded)) \in Nat
    BY <1>2, LenProperties, PacketsTyped DEF SendVideoPacket, TypeOK, HostTypeOK
  <2>4. sendIndex \in 0..(TotalPackets(Len(encoded)) - 1)
    BY <1>2, <2>3 DEF SendVideoPacket, TypeOK, HostTypeOK
  <2>5. ASSUME NEW p \in net'
        PROVE  \E n \in 1..Len(encoded) : \E i \in 0..(TotalPackets(n) - 1) :
                  p = CreateVideoPacket(n, i)
    BY <1>2, <2>3, <2>4 DEF SendVideoPacket, StreamInv, NetGenuine
  <2>6. NetGenuine'
    BY <2>1, <2>5 DEF NetGenuine, CreateVideoPacket, TotalPackets, Chunk
  <2>7. QED BY <2>2, <2>6 DEF StreamInv
<1>3. CASE Deliver
  <2>1. PICK p \in net : UdpReceive(p)
    BY <1>3 DEF Deliver
  <2>2. net' \subseteq net /\ UNCHANGED <<session, encoded>>
    BY <1>3, <2>1 DEF Deliver, UdpReceive, hostVars
  <2>3. NetGenuine'
    BY <2>2 DEF StreamInv, NetGenuine, CreateVideoPacket, TotalPackets, Chunk
  <2>4. /\ AssemblersGenuine'
        /\ \/ UNCHANGED jitterBuffer
           \/ \E w : /\ jitterBuffer' = Push(jitterBuffer, w)
                     /\ w \in WholeFrames \/ (session > 1 /\ BegunEarlier(w))
    BY <2>1, UdpReceiveGenuine
  <2>5. ASSUME NEW k \in DOMAIN jitterBuffer'
        PROVE  \/ jitterBuffer'[k] \in WholeFrames
               \/ session > 1 /\ BegunEarlier(jitterBuffer'[k])
    BY <2>4, QueueElements DEF Queued, StreamInv, FramesGenuine
  <2>6. WholeFrames' = WholeFrames
    BY <2>2 DEF WholeFrames, WholeFrame, TotalPackets, Chunk
  <2>7. FramesGenuine'
    BY <2>2, <2>5, <2>6 DEF FramesGenuine, BegunEarlier
  <2>8. QED BY <2>3, <2>4, <2>7 DEF StreamInv
<1>4. CASE GetNextFrame
  <2>1. UNCHANGED <<session, encoded, net, frameAssemblers>>
    BY <1>4 DEF GetNextFrame, hostVars
  <2>2. ASSUME NEW k \in DOMAIN jitterBuffer'
        PROVE  \/ jitterBuffer'[k] \in WholeFrames
               \/ session > 1 /\ BegunEarlier(jitterBuffer'[k])
    BY <1>4, QueueElements DEF GetNextFrame, Queued, StreamInv, FramesGenuine
  <2>3. WholeFrames' = WholeFrames
    BY <2>1 DEF WholeFrames, WholeFrame, TotalPackets, Chunk
  <2>4. FramesGenuine'
    BY <2>1, <2>2, <2>3 DEF FramesGenuine, BegunEarlier
  <2>5. QED BY <2>1, <2>4 DEF StreamInv, NetGenuine, CreateVideoPacket, TotalPackets, Chunk,
                              AssemblersGenuine, Genuine, Stale
<1>5. CASE Tick
  <2>1. UNCHANGED <<session, encoded, net, jitterBuffer>>
    BY <1>5 DEF Tick, hostVars
  <2>2. ASSUME NEW f \in DOMAIN frameAssemblers'
        PROVE  Stale(frameAssemblers'[f]) \/ Genuine(f, frameAssemblers'[f])
    <3>1. f \in DOMAIN frameAssemblers
      BY <1>5 DEF Tick
    <3>2. PICK S \in SUBSET SequenceNums : frameAssemblers[f] \in Assembler(S)
      BY <3>1 DEF TypeOK, MapTypeOK, IsAssembler
    <3>3. /\ frameAssemblers'[f].totalPackets = frameAssemblers[f].totalPackets
          /\ frameAssemblers'[f].isKeyframe = frameAssemblers[f].isKeyframe
          /\ frameAssemblers'[f].packets = frameAssemblers[f].packets
      BY <1>5, <3>1, <3>2 DEF Tick, Assembler
    <3>4. QED BY <3>1, <3>3 DEF StreamInv, AssemblersGenuine, Genuine, Stale
  <2>3. AssemblersGenuine'
    BY <2>1, <2>2 DEF AssemblersGenuine, Genuine, Stale, TotalPackets, Chunk
  <2>4. QED BY <2>1, <2>3 DEF StreamInv, NetGenuine, CreateVideoPacket, TotalPackets, Chunk,
                              FramesGenuine, BegunEarlier, WholeFrames, WholeFrame
<1>6. CASE SendVideoPacketFails \/ LosePacket \/ UNCHANGED vars
  <2>1. net' \subseteq net /\ UNCHANGED <<session, encoded, frameAssemblers, jitterBuffer>>
    BY <1>6 DEF SendVideoPacketFails, LosePacket, vars, hostVars, clientVars
  <2>2. QED BY <2>1 DEF StreamInv, NetGenuine, CreateVideoPacket, TotalPackets, Chunk,
                        AssemblersGenuine, Genuine, Stale, FramesGenuine, BegunEarlier,
                        WholeFrames, WholeFrame
<1>7. CASE Reconnect
  <2>1. net' = {} /\ jitterBuffer' = <<>> /\ UNCHANGED frameAssemblers
    BY <1>7 DEF Reconnect
  <2>2. \A f \in DOMAIN frameAssemblers : Stale(frameAssemblers[f])'
    BY <1>7, ReconnectMakesStale DEF StreamInv
  <2>3. QED BY <2>1, <2>2 DEF StreamInv, NetGenuine, AssemblersGenuine, FramesGenuine
<1>8. QED BY <1>1, <1>2, <1>3, <1>4, <1>5, <1>6, <1>7 DEF Next

LEMMA StreamInvariant == Spec => [](TypeOK /\ AssemblersWaiting /\ StreamInv)
<1>1. Init => StreamInv
  BY EmptySeq DEF Init, StreamInv, NetGenuine, AssemblersGenuine, FramesGenuine
<1>2. TypeOK /\ AssemblersWaiting /\ Queued /\ StreamInv /\ [Next]_vars => StreamInv'
  BY StreamInvStep
<1>3. QED BY <1>1, <1>2, TypeCorrect, AssemblersAlwaysWait, QueuedInvariant, PTL DEF Spec

\* A whole frame is the bitstream, byte for byte.
LEMMA WholeFrameIsWhole ==
    ASSUME HostTypeOK, NEW n \in 1..Len(encoded)
    PROVE  IsWhole(WholeFrame(n))
<1> DEFINE size == encoded[n].bitstreamSize
           T    == CalculatePacketCount(size)
           fr   == WholeFrame(n)
           d    == [i \in 0..(T - 1) |-> Chunk(n, i)]
<1>1. encoded[n] \in EncodedFrames
  BY ElementOfSeq DEF HostTypeOK
<1>2. size \in Nat \ {0}
  BY <1>1, StreamAssumption DEF EncodedFrames
<1>3. fr.frameNumber = n /\ fr.isKeyframe = encoded[n].isKeyframe /\ fr.data = d
  BY DEF WholeFrame, TotalPackets
<1>4. /\ DOMAIN d = 0..(T - 1)
      /\ \A i \in 0..(T - 1) : /\ d[i].session = session
                                /\ d[i].frame = n
                                /\ d[i].bytes = ChunkBytes(size, i)
  BY DEF Chunk
<1> HIDE DEF fr, d
<1>5. UNION {d[i].bytes : i \in DOMAIN d} = 0..(size - 1)
  <2>1. UNION {ChunkBytes(size, i) : i \in 0..(T - 1)} = 0..(size - 1)
    BY <1>2, ChunksCover
  <2> HIDE DEF T, size
  <2>2. {d[i].bytes : i \in DOMAIN d} = {ChunkBytes(size, i) : i \in 0..(T - 1)}
    BY <1>4
  <2>3. QED BY <2>1, <2>2
<1>6. ASSUME NEW i \in DOMAIN d, NEW j \in DOMAIN d, i < j,
             NEW x \in d[i].bytes, NEW y \in d[j].bytes
      PROVE  x < y
  <2>1. /\ i \in Nat /\ j \in Nat
        /\ x \in ChunkBytes(size, i) /\ y \in ChunkBytes(size, j)
    BY <1>4, <1>6
  <2> HIDE DEF T, size
  <2>2. QED BY <1>2, <1>6, <2>1, ChunksOrdered
<1>7. IsWhole(fr)
  <2>1. \A i \in DOMAIN d : d[i].session = session /\ d[i].frame = n
    BY <1>4
  <2>2. \A i, j \in DOMAIN d : i < j => \A x \in d[i].bytes, y \in d[j].bytes : x < y
    BY <1>6
  <2> HIDE DEF T
  <2>3. QED BY <1>3, <1>5, <2>1, <2>2 DEF IsWhole
<1>8. QED BY <1>7 DEF fr

\* What is in the jitter buffer is a whole frame of this session, or was begun
\* in an earlier one.
LEMMA QueuedWhole ==
    ASSUME TypeOK, StreamInv, NEW k \in DOMAIN jitterBuffer
    PROVE  \/ IsWhole(jitterBuffer[k])
           \/ session > 1 /\ BegunEarlier(jitterBuffer[k])
BY WholeFrameIsWhole DEF StreamInv, FramesGenuine, WholeFrames, TypeOK

\* Every frame handed to the jitter buffer is the bitstream the host encoded
\* under its number, unless one of its pieces came in an earlier session, for
\* any payload and frame sizes, any loss, duplication, reordering and expiry,
\* and any number of connections (AddPacket, GetFrame, Connect).
THEOREM FramesAlwaysWhole == Spec => []FramesWhole
<1>1. TypeOK /\ StreamInv => FramesWhole
  BY QueuedWhole DEF FramesWhole
<1>2. QED BY <1>1, StreamInvariant, PTL

\* Until the client connects for the second time, which its main never does,
\* there is no exception: every frame handed over is whole.
THEOREM FirstSessionWhole ==
    Spec => [](session = 1 => \A k \in DOMAIN jitterBuffer : IsWhole(jitterBuffer[k]))
<1>1. TypeOK /\ StreamInv
         => (session = 1 => \A k \in DOMAIN jitterBuffer : IsWhole(jitterBuffer[k]))
  BY QueuedWhole
<1>2. QED BY <1>1, StreamInvariant, PTL
-----------------------------------------------------------------------------
(* The video path implements FrameStream *)

\* Encoding a frame adds exactly that frame, a new one, to those on offer.
LEMMA EncodeOffers ==
    ASSUME HostTypeOK, EncodeFrame
    PROVE  \E f \in AllFrames \ WholeFrames : WholeFrames' = WholeFrames \cup {f}
<1>1. PICK e \in EncodedFrames : encoded' = Append(encoded, e)
  BY DEF EncodeFrame, EncodedFrames
<1>2. PICK n \in Nat : n = Len(encoded) + 1
  BY LenProperties DEF HostTypeOK
<1> DEFINE w == PossibleFrame(session, n, e.isKeyframe, e.bitstreamSize)
<1>3. /\ Len(encoded) \in Nat /\ 1..Len(encoded') = 1..Len(encoded) \cup {n}
      /\ encoded'[n] = e /\ Len(encoded') = n
  BY <1>1, AppendProperties, LenProperties, <1>2 DEF HostTypeOK
<1>4. session' = session
  BY DEF EncodeFrame
<1>5. n \in 1..MaxFrames
  BY <1>2, <1>3, StreamAssumption DEF EncodeFrame
<1>6. w \in AllFrames
  <2>1. e.isKeyframe \in BOOLEAN /\ e.bitstreamSize \in FrameSizes
    BY DEF EncodedFrames
  <2>2. session \in 1..MaxSessions
    BY DEF HostTypeOK
  <2>3. QED BY <1>5, <2>1, <2>2 DEF AllFrames
<1>7. WholeFrame(n)' = w
  <2>1. TotalPackets(n)' = CalculatePacketCount(e.bitstreamSize)
    BY <1>3 DEF TotalPackets
  <2>2. \A i : Chunk(n, i)' = [session |-> session, frame |-> n,
                              bytes |-> ChunkBytes(e.bitstreamSize, i)]
    BY <1>3, <1>4 DEF Chunk
  <2>3. QED BY <1>3, <2>1, <2>2 DEF WholeFrame, PossibleFrame
<1>8. w \notin WholeFrames
  <2>1. w.frameNumber = n
    BY DEF PossibleFrame
  <2>2. \A f \in WholeFrames : f.frameNumber \in 1..Len(encoded)
    BY DEF WholeFrames, WholeFrame
  <2> HIDE DEF w
  <2>3. QED BY <1>2, <1>3, <2>1, <2>2
<1> HIDE DEF w
<1>9. WholeFrames' = WholeFrames \cup {w}
  <2>1. \A m \in 1..Len(encoded) : WholeFrame(m)' = WholeFrame(m)
    BY EncodeKeepsFrames
  <2>2. QED BY <1>3, <1>7, <2>1 DEF WholeFrames
<1>10. QED BY <1>6, <1>8, <1>9

\* A queued frame is the last of the queue.
LEMMA LastPushed ==
    ASSUME Queued, NEW w, jitterBuffer' = Push(jitterBuffer, w)
    PROVE  /\ Len(jitterBuffer') = Len(jitterBuffer) + 1
           /\ jitterBuffer'[Len(jitterBuffer')] = w
<1>1. PICK S : jitterBuffer \in Seq(S)
  BY DEF Queued
<1>2. Len(jitterBuffer) \in Nat /\ jitterBuffer' = Append(jitterBuffer, w)
  BY <1>1 DEF Push
<1>3. jitterBuffer \in Seq(S \cup {w})
  BY <1>1
<1>4. QED BY <1>2, <1>3, AppendProperties

\* Every step of the video path is a step of FrameStream or changes nothing
\* it shows, for any number of sessions: encoding offers a frame, completing
\* an assembler delivers one, GetNextFrame takes one, a new connection starts
\* anew.
THEOREM Refinement == Spec => ImplementsFrameStream
<1>1. Init => Abstract!Init
  BY DEF Init, Abstract!Init, WholeFrames
<1>2. TypeOK /\ Queued /\ AssemblersWaiting /\ StreamInv /\ [Next]_vars
         => [Abstract!Next]_(Abstract!vars)
  <2> SUFFICES ASSUME TypeOK, Queued, AssemblersWaiting, StreamInv, [Next]_vars
               PROVE  [Abstract!Next]_(Abstract!vars)
    OBVIOUS
  <2>1. UNCHANGED <<session, encoded>> => WholeFrames' = WholeFrames
    BY DEF WholeFrames, WholeFrame, TotalPackets, Chunk
  <2>2. CASE EncodeFrame
    <3>1. \E f \in AllFrames \ WholeFrames : WholeFrames' = WholeFrames \cup {f}
      BY <2>2, EncodeOffers DEF TypeOK
    <3>2. UNCHANGED <<session, jitterBuffer, outFrame>>
      BY <2>2 DEF EncodeFrame, clientVars
    <3>3. Abstract!Offer
      BY <3>1, <3>2 DEF Abstract!Offer
    <3>4. QED BY <3>3 DEF Abstract!Next
  <2>3. CASE Deliver
    <3>1. PICK p \in net : UdpReceive(p)
      BY <2>3 DEF Deliver
    <3>2. UNCHANGED <<session, encoded, outFrame>>
      BY <3>1 DEF UdpReceive, hostVars
    <3>3. CASE UNCHANGED jitterBuffer
      BY <2>1, <3>2, <3>3 DEF Abstract!vars
    <3>4. ASSUME NEW w, jitterBuffer' = Push(jitterBuffer, w),
                 w \in WholeFrames \/ (session > 1 /\ BegunEarlier(w))
          PROVE  Abstract!Deliver
      <4>1. w \in WholeFrames \/ Abstract!Mixed(w)
        BY <3>4 DEF Abstract!Mixed, BegunEarlier
      <4>2. /\ Len(jitterBuffer') = Len(jitterBuffer) + 1
            /\ jitterBuffer'[Len(jitterBuffer')] = w
        BY <3>4, LastPushed
      <4>3. QED BY <2>1, <3>2, <3>4, <4>1, <4>2 DEF Abstract!Deliver, Push
    <3>5. QED BY <3>1, <3>3, <3>4, UdpReceiveGenuine DEF Abstract!Next
  <2>4. CASE GetNextFrame
    BY <2>1, <2>4 DEF GetNextFrame, hostVars, Abstract!Next, Abstract!Take
  <2>5. CASE SendVideoPacket \/ SendVideoPacketFails \/ LosePacket \/ Tick \/ UNCHANGED vars
    <3>1. UNCHANGED <<session, encoded, jitterBuffer, outFrame>>
      BY <2>5 DEF SendVideoPacket, SendVideoPacketFails, LosePacket, Tick,
                  vars, hostVars, clientVars
    <3>2. QED BY <2>1, <3>1 DEF Abstract!vars
  <2>6. CASE Reconnect
    <3>1. /\ session' = session + 1 /\ encoded' = <<>>
          /\ jitterBuffer' = <<>> /\ UNCHANGED outFrame
      BY <2>6 DEF Reconnect
    <3>2. WholeFrames' = {}
      BY <3>1 DEF WholeFrames
    <3>3. QED BY <3>1, <3>2 DEF Abstract!Next, Abstract!Restart
  <2>7. QED BY <2>2, <2>3, <2>4, <2>5, <2>6 DEF Next
<1>3. QED BY <1>1, <1>2, StreamInvariant, QueuedInvariant, PTL
          DEF Spec, ImplementsFrameStream, Abstract!Spec
=============================================================================
