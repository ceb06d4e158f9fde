--------------------------- MODULE HeadersProofs ---------------------------
(***************************************************************************)
(* What is decoded from a header is what was encoded, for every value of   *)
(* the fields.                                                             *)
(***************************************************************************)
EXTENDS Headers, TLAPS

(* The two halves of a number, split at 2^4, 2^6 or 2^8, give it back.     *)
LEMMA Split ==
    ASSUME NEW n \in Nat
    PROVE  /\ n = (n \div 16) * 16 + (n % 16) /\ n % 16 \in 0 .. 15 /\ n \div 16 \in Nat
           /\ n = (n \div 64) * 64 + (n % 64) /\ n % 64 \in 0 .. 63 /\ n \div 64 \in Nat
           /\ n = (n \div 256) * 256 + (n % 256) /\ n % 256 \in 0 .. 255 /\ n \div 256 \in Nat
  BY SMT

(* Of a quantity of the form q * 64 + r the parts can be read off: what    *)
(* the flags and the size do in the first byte of a chunk header.          *)
LEMMA FirstByte ==
    ASSUME NEW q \in 0 .. 3, NEW r \in 0 .. 63
    PROVE  (q * 64 + r) \div 64 = q /\ (q * 64 + r) % 64 = r /\ q * 64 + r \in 0 .. 255
  BY SMT

(* The same of q * 16 + r: the second byte.                                *)
LEMMA SecondByte ==
    ASSUME NEW q \in 0 .. 15, NEW r \in 0 .. 15
    PROVE  (q * 16 + r) \div 16 = q /\ (q * 16 + r) % 16 = r /\ q * 16 + r \in 0 .. 255
  BY SMT

(* The size comes back, but for what lies above its ten bits.              *)
LEMMA SizeReadsBack ==
    ASSUME NEW n \in Nat
    PROVE  ((n \div 16) % 64) * 16 + (n % 16) = n % 1024
  BY SMT

(* So does the number, from the two bytes that share two of its bits.      *)
LEMMA NumberReadsBack ==
    ASSUME NEW n \in Nat
    PROVE  LET high == (n \div 64) % 16
               low  == n % 256
           IN  (high \div 4) * 256 + Or2(high % 4, low \div 64) * 64 + (low % 64) = n % 1024
<1> DEFINE high == (n \div 64) % 16
           low  == n % 256
<1>1. high % 4 = low \div 64 /\ high % 4 \in 0 .. 3
  BY SMT
<1>2. Or2(high % 4, low \div 64) = high % 4
  BY <1>1, SMT DEF Or2
<1>3. (high \div 4) * 256 + (high % 4) * 64 + (low % 64) = n % 1024
  BY SMT
<1> QED
  BY <1>2, <1>3

(* A header is of one kind only.                                           *)
LEMMA KindsDiffer == ChunkHeaders \cap PacketHeaders = {}
<1> SUFFICES ASSUME NEW h \in ChunkHeaders, h \in PacketHeaders PROVE FALSE
  OBVIOUS
<1>1. "size" \in DOMAIN h
  BY SMT DEF ChunkHeaders
<1>2. "size" \notin DOMAIN h
  BY SMT DEF PacketHeaders
<1> QED
  BY <1>1, <1>2

(* The ranges of the fields.                                               *)
LEMMA ChunkFields ==
    ASSUME NEW h \in ChunkHeaders
    PROVE  h.flags \in 0 .. 3 /\ h.size \in Nat /\ h.sequence \in Nat
<1>1. h.flags \in Flags /\ h.size \in Sizes /\ h.sequence \in Sequences16
  BY DEF ChunkHeaders
<1>2. h.flags \in ChunkFlags /\ h.size \in Uint16 /\ h.sequence \in Uint16
  BY <1>1, HeadersAssumption, Zenon
<1>3. ChunkFlags = 0 .. 3 /\ Uint16 \subseteq Nat
  BY SMT DEF ChunkFlags, Uint16
<1> QED
  BY <1>2, <1>3, Zenon

(* The same of a packet header.                                            *)
LEMMA PacketFields ==
    ASSUME NEW h \in PacketHeaders
    PROVE  h.flags \in PacketFlagBits /\ h.ack \in Uint16 /\ h.num_chunks \in Uint8
<1>1. h.flags \in PacketFlags /\ h.ack \in Acks /\ h.num_chunks \in Counts
  BY DEF PacketHeaders
<1> QED
  BY <1>1, HeadersAssumption, Zenon

(* ddproto_decode_chunk_header after ddproto_encode_chunk_header, and the  *)
(* bytes in between.                                                       *)
LEMMA ChunkHeader ==
    ASSUME NEW h \in ChunkHeaders
    PROVE  LET b == EncodeChunkHeader(h)
           IN  /\ b # <<>> /\ \A i \in DOMAIN b : b[i] \in 0 .. 255
               /\ Len(b) = IF Vital(h.flags) THEN 3 ELSE 2
               /\ DecodeChunkHeader(b) =
                      [flags    |-> h.flags,
                       size     |-> h.size % 1024,
                       sequence |-> IF Vital(h.flags) THEN h.sequence % 1024 ELSE 0]
<1> DEFINE size6 == (h.size \div 16) % 64
           size4 == h.size % 16
           high  == (h.sequence \div 64) % 16
           low   == h.sequence % 256
           b0    == h.flags * 64 + size6
           b1    == high * 16 + size4
           b     == EncodeChunkHeader(h)
<1>1. h.flags \in 0 .. 3 /\ h.size \in Nat /\ h.sequence \in Nat
  BY ChunkFields
<1>2. size6 \in 0 .. 63 /\ size4 \in 0 .. 15 /\ high \in 0 .. 15 /\ low \in 0 .. 255
  BY <1>1, SMT
<1>3. b0 \div 64 = h.flags /\ b0 % 64 = size6 /\ b0 \in 0 .. 255
  BY <1>1, <1>2, FirstByte
<1>4. b1 \div 16 = high /\ b1 % 16 = size4 /\ b1 \in 0 .. 255
  BY <1>2, SecondByte
<1>5. size6 * 16 + size4 = h.size % 1024
  BY <1>1, SizeReadsBack
<1>6. (high \div 4) * 256 + Or2(high % 4, low \div 64) * 64 + (low % 64) = h.sequence % 1024
  BY <1>1, NumberReadsBack
<1>7. CASE Vital(h.flags)
  <2>1. b = <<b0, b1, low>>
    BY <1>7 DEF EncodeChunkHeader
  <2> HIDE DEF size6, size4, high, low, b0, b1, b
  <2>2. /\ Len(b) = 3 /\ b[1] = b0 /\ b[2] = b1 /\ b[3] = low /\ b # <<>>
        /\ \A i \in DOMAIN b : b[i] \in 0 .. 255
    BY <2>1, <1>2, <1>3, <1>4
  <2>3. DecodeChunkHeader(b) =
           [flags |-> h.flags, size |-> h.size % 1024, sequence |-> h.sequence % 1024]
    BY <2>2, <1>3, <1>4, <1>5, <1>6, <1>7 DEF DecodeChunkHeader
  <2> QED
    BY <2>2, <2>3, <1>7 DEF b
<1>8. CASE ~Vital(h.flags)
  <2>1. b = <<b0, size4>>
    BY <1>8 DEF EncodeChunkHeader
  <2>2. size4 % 16 = size4
    BY <1>2, SMT
  <2> HIDE DEF size6, size4, high, low, b0, b1, b
  <2>3. /\ Len(b) = 2 /\ b[1] = b0 /\ b[2] = size4 /\ b # <<>>
        /\ \A i \in DOMAIN b : b[i] \in 0 .. 255
    BY <2>1, <1>2, <1>3
  <2>4. DecodeChunkHeader(b) =
           [flags |-> h.flags, size |-> h.size % 1024, sequence |-> 0]
    BY <2>3, <2>2, <1>3, <1>5, <1>8 DEF DecodeChunkHeader
  <2> QED
    BY <2>3, <2>4, <1>8 DEF b
<1> QED
  BY <1>7, <1>8

(* ddproto_decode_packet_header after ddproto_encode_packet_header.        *)
LEMMA PacketHeader ==
    ASSUME NEW h \in PacketHeaders, h.ack < 1024
    PROVE  LET b == EncodePacketHeader(h)
           IN  /\ Len(b) = 3 /\ b # <<>> /\ \A i \in DOMAIN b : b[i] \in 0 .. 255
               /\ DecodePacketHeader(b) = h
<1> DEFINE b0 == ((h.flags * 4) % 256) + ((h.ack \div 256) % 4)
           b1 == h.ack % 256
           b  == EncodePacketHeader(h)
<1>1. h.flags \in 0 .. 63 /\ h.ack \in 0 .. 1023 /\ h.num_chunks \in 0 .. 255
  <2> DEFINE f == h.flags  a == h.ack  n == h.num_chunks
  <2>1. f \in PacketFlagBits /\ a \in Uint16 /\ n \in Uint8 /\ a < 1024
    BY PacketFields
  <2> HIDE DEF f, a, n
  <2>2. a \in Nat
    BY <2>1, SMT DEF Uint16
  <2>3. a \in 0 .. 1023
    BY <2>1, <2>2, SMT
  <2>4. f \in 0 .. 63
    BY <2>1, SMT DEF PacketFlagBits
  <2>5. n \in 0 .. 255
    BY <2>1, SMT DEF Uint8
  <2> QED
    BY <2>3, <2>4, <2>5 DEF f, a, n
<1>2. h = [flags |-> h.flags, ack |-> h.ack, num_chunks |-> h.num_chunks]
  BY DEF PacketHeaders
<1>3. b0 \in 0 .. 255 /\ b1 \in 0 .. 255 /\ b0 \div 4 = h.flags /\ (b0 % 4) * 256 + b1 = h.ack
  <2>1. (h.flags * 4) % 256 = h.flags * 4 /\ h.flags * 4 \in 0 .. 252
    BY <1>1, SMT
  <2>2. (h.ack \div 256) % 4 = h.ack \div 256 /\ h.ack \div 256 \in 0 .. 3
    BY <1>1, SMT
  <2>3. b1 \in 0 .. 255 /\ (h.ack \div 256) * 256 + b1 = h.ack
    <3>1. ASSUME NEW n \in Nat
          PROVE  n % 256 \in 0 .. 255 /\ (n \div 256) * 256 + (n % 256) = n
      BY SMT
    <3>2. h.ack \in Nat
      BY <1>1, SMT
    <3> QED
      BY <3>1, <3>2
  <2>4. ASSUME NEW f \in 0 .. 63, NEW a \in 0 .. 3
        PROVE  (f * 4 + a) \div 4 = f /\ (f * 4 + a) % 4 = a /\ f * 4 + a \in 0 .. 255
    BY SMT
  <2>5. b0 = h.flags * 4 + (h.ack \div 256)
    BY <2>1, <2>2
  <2> QED
    BY <1>1, <2>2, <2>3, <2>4, <2>5
<1>4. b = <<b0, b1, h.num_chunks>>
  <2>1. ~(h.ack >= 1024)
    BY <1>1
  <2> QED
    BY <2>1 DEF EncodePacketHeader
<1> HIDE DEF b0, b1, b
<1>5. Len(b) = 3 /\ b # <<>> /\ b[1] = b0 /\ b[2] = b1 /\ b[3] = h.num_chunks
  BY <1>4
<1>6. \A i \in DOMAIN b : b[i] \in 0 .. 255
  BY <1>4, <1>1, <1>3
<1>7. DecodePacketHeader(b) = h
  BY <1>5, <1>3, <1>2 DEF DecodePacketHeader
<1> QED
  BY <1>5, <1>6, <1>7 DEF b

----------------------------------------------------------------------------
(* A vital or not vital chunk header is decoded as it was, up to ten bits  *)
(* of its size and its number (ddproto_encode_chunk_header).               *)
THEOREM ChunkHeadersReadBack == Spec => []ChunkHeaderReadsBack
<1>1. Init => ChunkHeaderReadsBack
  BY DEF Init, ChunkHeaderReadsBack
<1>2. ChunkHeaderReadsBack /\ [Next]_vars => ChunkHeaderReadsBack'
  <2> SUFFICES ASSUME ChunkHeaderReadsBack, [Next]_vars PROVE ChunkHeaderReadsBack'
    OBVIOUS
  <2>1. CASE SendChunkHeader
    BY <2>1, ChunkHeader DEF SendChunkHeader, ChunkHeaderReadsBack
  <2>2. CASE SendPacketHeader
    BY <2>2, KindsDiffer DEF SendPacketHeader, ChunkHeaderReadsBack
  <2>3. CASE UNCHANGED vars
    BY <2>3 DEF vars, ChunkHeaderReadsBack, ChunkHeaders
  <2> QED
    BY <2>1, <2>2, <2>3 DEF Next
<1> QED
  BY <1>1, <1>2, PTL DEF Spec

(* A packet header whose ack fits is decoded as it was, and no other is    *)
(* encoded (ddproto_encode_packet_header).                                 *)
THEOREM PacketHeadersReadBack == Spec => []PacketHeaderReadsBack
<1>1. Init => PacketHeaderReadsBack
  BY DEF Init, PacketHeaderReadsBack
<1>2. PacketHeaderReadsBack /\ [Next]_vars => PacketHeaderReadsBack'
  <2> SUFFICES ASSUME PacketHeaderReadsBack, [Next]_vars PROVE PacketHeaderReadsBack'
    OBVIOUS
  <2>1. CASE SendChunkHeader
    BY <2>1, KindsDiffer DEF SendChunkHeader, PacketHeaderReadsBack
  <2>2. CASE SendPacketHeader
    <3>1. CASE header.ack < 1024
      BY <2>2, <3>1, PacketHeader DEF SendPacketHeader, PacketHeaderReadsBack
    <3>2. CASE ~(header.ack < 1024)
      <4>1. header.ack \in Nat
        <5>1. header.ack \in Uint16
          BY <2>2, PacketFields, Zenon DEF SendPacketHeader
        <5>2. \A x \in Uint16 : x \in Nat
          BY SMT DEF Uint16
        <5> QED
          BY <5>1, <5>2, Zenon
      <4>2. EncodePacketHeader(header) = <<>>
        BY <4>1, <3>2 DEF EncodePacketHeader
      <4> QED
        BY <2>2, <4>2 DEF SendPacketHeader, PacketHeaderReadsBack
    <3> QED
      BY <3>1, <3>2
  <2>3. CASE UNCHANGED vars
    BY <2>3 DEF vars, PacketHeaderReadsBack, PacketHeaders
  <2> QED
    BY <2>1, <2>2, <2>3 DEF Next
<1> QED
  BY <1>1, <1>2, PTL DEF Spec
(* A buffer holds bytes, as many as the receiver will take for the header  *)
(* it decodes from them: the lengths at the two ends agree                 *)
(* (ddproto_encode_chunk_header and ddproto_encode_packet_header).         *)
THEOREM BuffersAreBytes == Spec => []BufferIsBytes
<1>1. Init => BufferIsBytes
  <2>1. DOMAIN <<>> = {}
    BY SMT
  <2> QED
    BY <2>1 DEF Init, BufferIsBytes
<1>2. BufferIsBytes /\ [Next]_vars => BufferIsBytes'
  <2> SUFFICES ASSUME BufferIsBytes, [Next]_vars PROVE BufferIsBytes'
    OBVIOUS
  <2>1. CASE SendChunkHeader
    <3>1. header' = header /\ header \in ChunkHeaders /\ buf' = EncodeChunkHeader(header)
      BY <2>1 DEF SendChunkHeader
    <3>2. seen'.flags = header.flags
      BY <2>1, <3>1, ChunkHeader DEF SendChunkHeader
    <3>3. /\ \A i \in DOMAIN buf' : buf'[i] \in 0 .. 255
          /\ Len(buf') = IF Vital(header.flags) THEN 3 ELSE 2
      <4> DEFINE b == EncodeChunkHeader(header)
      <4>1. /\ \A i \in DOMAIN b : b[i] \in 0 .. 255
            /\ Len(b) = IF Vital(header.flags) THEN 3 ELSE 2
        <5>1. header \in ChunkHeaders
          BY <3>1
        <5>2. Len(b) = IF Vital(header.flags) THEN 3 ELSE 2
          BY <5>1, ChunkHeader
        <5>3. \A i \in DOMAIN b : b[i] \in 0 .. 255
          BY <5>1, ChunkHeader
        <5> QED
          BY <5>2, <5>3
      <4>2. buf' = b
        BY <3>1
      <4> HIDE DEF b
      <4> QED
        BY <4>1, <4>2, Zenon
    <3> QED
      BY <3>1, <3>2, <3>3 DEF BufferIsBytes
  <2>2. CASE SendPacketHeader
    <3>1. header' = header /\ header \in PacketHeaders /\ header \notin ChunkHeaders
          /\ buf' = EncodePacketHeader(header)
      BY <2>2, KindsDiffer DEF SendPacketHeader
    <3>2. CASE buf' = <<>>
      <4>1. DOMAIN <<>> = {}
        BY SMT
      <4> QED
        BY <3>2, <4>1 DEF BufferIsBytes
    <3>3. CASE buf' # <<>>
      <4>1. header.ack < 1024
        <5>1. ~(header.ack >= 1024)
          BY <3>1, <3>3 DEF EncodePacketHeader
        <5>2. header.ack \in Uint16
          BY <3>1, PacketFields, Zenon
        <5>3. \A x \in Uint16 : ~(x >= 1024) => x < 1024
          BY SMT DEF Uint16
        <5> QED
          BY <5>1, <5>2, <5>3, Zenon
      <4>2. Len(buf') = 3 /\ \A i \in DOMAIN buf' : buf'[i] \in 0 .. 255
        BY <3>1, <4>1, PacketHeader
      <4> QED
        BY <3>1, <4>2 DEF BufferIsBytes
    <3> QED
      BY <3>2, <3>3
  <2>3. CASE UNCHANGED vars
    BY <2>3 DEF vars, BufferIsBytes, ChunkHeaders
  <2> QED
    BY <2>1, <2>2, <2>3 DEF Next
<1> QED
  BY <1>1, <1>2, PTL DEF Spec
=============================================================================
