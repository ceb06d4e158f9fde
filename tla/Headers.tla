------------------------------ MODULE Headers ------------------------------
(***************************************************************************)
(* The two headers of the wire format, bit by bit: the packet header of    *)
(* src/src/packet.c and the chunk header of src/src/chunk.c.  A buffer is  *)
(* a sequence of bytes; shifts and masks are \div, * and %.  A header is   *)
(* encoded and decoded, as by the two ends of a connection.                *)
(***************************************************************************)
EXTENDS Integers, Sequences

CONSTANTS
    Flags, Sizes, Sequences16,   \* fields of the chunk headers encoded
    PacketFlags, Acks, Counts    \* fields of the packet headers encoded

\* The types of the fields of DDProtoChunkHeader and DDProtoPacketHeader, and
\* the flags there are.
Uint8 == 0 .. 255
Uint16 == 0 .. 65535
ChunkFlags == 0 .. 3
PacketFlagBits == 0 .. 63

ASSUME HeadersAssumption ==
    /\ Flags \subseteq ChunkFlags /\ Sizes \subseteq Uint16 /\ Sequences16 \subseteq Uint16
    /\ PacketFlags \subseteq PacketFlagBits /\ Acks \subseteq Uint16 /\ Counts \subseteq Uint8

VARIABLES
    header,   \* the header to be sent, flags in its own bits only
    buf,      \* its bytes, or <<>>
    seen      \* the header that was decoded, or the one to be sent

vars == <<header, buf, seen>>

----------------------------------------------------------------------------
\* DDPROTO_CHUNK_FLAG_VITAL and _RESEND are the bits 1 and 2 of flags.
Vital(flags) == flags % 2 = 1

\* The bitwise or of two numbers of two bits.
Or2(a, b) == (IF a \div 2 = 1 \/ b \div 2 = 1 THEN 2 ELSE 0)
             + (IF a % 2 = 1 \/ b % 2 = 1 THEN 1 ELSE 0)

\* A variant of EncodeChunkHeader with an error: the high nibble starts at
\* bit 8 of the number, where the third byte ends.
EncodeChunkHeaderNoOverlap(h) ==
    LET b0 == h.flags * 64 + ((h.size \div 16) % 64)
    IN  IF Vital(h.flags)
          THEN <<b0, ((h.sequence \div 256) % 16) * 16 + (h.size % 16), h.sequence % 256>>
          ELSE <<b0, h.size % 16>>

\* A variant of EncodeChunkHeader with an error: the number is always sent.
EncodeChunkHeaderAlwaysThree(h) ==
    <<h.flags * 64 + ((h.size \div 16) % 64),
      ((h.sequence \div 64) % 16) * 16 + (h.size % 16), h.sequence % 256>>

\* ddproto_encode_chunk_header.  Bits 6 and 7 of the number are sent twice.
EncodeChunkHeader(h) ==
    LET b0 == h.flags * 64 + ((h.size \div 16) % 64)
    IN  IF Vital(h.flags)
          THEN <<b0, ((h.sequence \div 64) % 16) * 16 + (h.size % 16), h.sequence % 256>>
          ELSE <<b0, h.size % 16>>

\* ddproto_decode_chunk_header.
DecodeChunkHeader(b) ==
    LET flags == b[1] \div 64
        high  == b[2] \div 16
    IN  [flags    |-> flags,
         size     |-> (b[1] % 64) * 16 + (b[2] % 16),
         sequence |-> IF Vital(flags)
                        THEN (high \div 4) * 256 + Or2(high % 4, b[3] \div 64) * 64 + (b[3] % 64)
                        ELSE 0]

\* A variant of EncodePacketHeader with an error: 1024 itself is let through.
EncodePacketHeaderBoundary(h) ==
    IF h.ack > 1024 THEN <<>>
    ELSE <<((h.flags * 4) % 256) + ((h.ack \div 256) % 4), h.ack % 256, h.num_chunks>>

\* ddproto_encode_packet_header; <<>> is DDPROTO_ERR_ACK_OUT_OF_BOUNDS.
EncodePacketHeader(h) ==
    IF h.ack >= 1024 THEN <<>>
    ELSE <<((h.flags * 4) % 256) + ((h.ack \div 256) % 4), h.ack % 256, h.num_chunks>>

\* ddproto_decode_packet_header.
DecodePacketHeader(b) ==
    [flags |-> b[1] \div 4, ack |-> (b[1] % 4) * 256 + b[2], num_chunks |-> b[3]]

----------------------------------------------------------------------------
ChunkHeaders == [flags : Flags, size : Sizes, sequence : Sequences16]
PacketHeaders == [flags : PacketFlags, ack : Acks, num_chunks : Counts]

Init ==
    /\ header \in ChunkHeaders \cup PacketHeaders
    /\ buf = <<>> /\ seen = header

SendChunkHeader ==
    /\ buf = <<>> /\ header \in ChunkHeaders
    /\ buf' = EncodeChunkHeader(header)
    /\ seen' = DecodeChunkHeader(buf')
    /\ UNCHANGED header

SendPacketHeader ==
    /\ buf = <<>> /\ header \in PacketHeaders
    /\ buf' = EncodePacketHeader(header)
    /\ seen' = IF buf' = <<>> THEN header ELSE DecodePacketHeader(buf')
    /\ UNCHANGED header

Next == SendChunkHeader \/ SendPacketHeader

Spec == Init /\ [][Next]_vars

----------------------------------------------------------------------------
(* What the receiver decodes from a chunk header that was sent: the flags, *)
(* and ten bits of the size and, of a vital chunk, of the number, those    *)
(* that are sent twice included.                                           *)
ChunkHeaderReadsBack ==
    buf # <<>> /\ header \in ChunkHeaders =>
        seen = [flags    |-> header.flags,
                size     |-> header.size % 1024,
                sequence |-> IF Vital(header.flags) THEN header.sequence % 1024 ELSE 0]

(* A packet header is decoded as it was, or not sent at all.               *)
PacketHeaderReadsBack == header \in PacketHeaders => seen = header

(* A buffer holds bytes, and as many as the decoder consumes: 3 for a      *)
(* packet header and for a vital chunk, 2 for another chunk.               *)
BufferIsBytes ==
    /\ \A i \in DOMAIN buf : buf[i] \in 0 .. 255
    /\ buf # <<>> => Len(buf) = IF header \in ChunkHeaders /\ ~Vital(seen.flags) THEN 2 ELSE 3
=============================================================================
