----------------------------- MODULE Packetizer -----------------------------
(***************************************************************************)
(* How the host cuts an encoded bitstream into UDP payloads                *)
(* (common/packet.h CalculatePacketCount and CreateVideoPacket,            *)
(* host/network_server.cpp PacketizeAndSend).  Pure arithmetic: the bytes   *)
(* themselves are abstracted to the positions they have in the bitstream.  *)
(***************************************************************************)
EXTENDS Integers

CONSTANT MaxUdpPayload      \* MAX_UDP_PAYLOAD, 1360 bytes in the source

ASSUME PayloadAssumption == MaxUdpPayload \in Nat \ {0}

\* Number of datagrams for a bitstream: the size divided by the payload,
\* rounded up.
CalculatePacketCount(bitstreamSize) ==
    (bitstreamSize + MaxUdpPayload - 1) \div MaxUdpPayload

ChunkOffset(i) == i * MaxUdpPayload

\* std::min(MAX_UDP_PAYLOAD, frame.data.size() - offset)
ChunkSize(bitstreamSize, i) ==
    LET rest == bitstreamSize - ChunkOffset(i)
    IN  IF rest < MaxUdpPayload THEN rest ELSE MaxUdpPayload

\* The byte positions datagram i carries.
ChunkBytes(bitstreamSize, i) ==
    ChunkOffset(i) .. (ChunkOffset(i) + ChunkSize(bitstreamSize, i) - 1)
=============================================================================
