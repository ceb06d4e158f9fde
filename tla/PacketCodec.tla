---------------------------- MODULE PacketCodec ----------------------------
(***************************************************************************)
(* ddproto_encode_packet and ddproto_decode_packet with all they call, and *)
(* the client's twclient_on_network_data around them: how a payload is     *)
(* divided into chunks, control message and token, which packets are       *)
(* refused, and who owns the memory.                                       *)
(*                                                                         *)
(* A payload is known by its length.  If this library encoded it, the      *)
(* bytes where a chunk starts hold the header of that chunk; anywhere      *)
(* else, and in a packet of a foreign sender, they may hold any header.    *)
(***************************************************************************)
EXTENDS Integers, Sequences, FiniteSets, SequencesExt

CONSTANTS
    MaxPayload,   \* DDPROTO_MAX_PACKET_SIZE without the packet header
    Room,         \* the bytes behind the packet header in the buffer that the
                  \* caller of ddproto_encode_packet gives it
    PackerSize,   \* DDPROTO_PACKER_BUFFER_SIZE
    SizeLimit,    \* 2^10: chunk headers carry the size modulo this
    MaxChunks,    \* bound: chunks of a packet
    MaxMessage,   \* bound: the longest message that is encoded
    MaxReason     \* bound: the longest reason that is encoded

ASSUME CodecAssumption ==
    /\ MaxPayload \in Nat /\ MaxPayload >= 9 /\ SizeLimit \in Nat \ {0}
    /\ {Room, PackerSize, MaxChunks, MaxMessage, MaxReason} \subseteq Nat

\* The buffer that ddproto_decode_packet allocates for the payload has
\* DDPROTO_MAX_PACKET_SIZE bytes: DDPROTO_PACKET_HEADER_SIZE more than a
\* datagram can fill, but a payload that is decompressed can fill it.
PacketHeaderSize == 3
BufferSize == MaxPayload + PacketHeaderSize

\* sizeof(DDProtoToken); the blocks of memory a packet is made of, next to
\* the snapshot of its i-th chunk, which is block i.
TokenSize == 4
Payload == 0
Array == -1

VARIABLES
    phase,    \* "idle", "encoding", "arrived", "chunks", "decoded", "exited";
              \* "overrun" and "outside": the code wrote behind the caller's
              \* buffer, or read behind that of the payload
    wire,     \* the packet on its way
    kind,     \* DDProtoPacket.kind
    control,  \* DDProtoPacket.control; reason is its bytes, 0 for NULL
    chunks,   \* Context.chunks: what ddproto_fetch_chunks has found
    buf,      \* buf - start in ddproto_fetch_chunks
    tokenAt,  \* where header.token was read, -1 if it was not
    err,      \* the error ddproto_decode_packet reports
    data,     \* packet.chunks.data is set
    heap      \* blocks allocated for the packet

decodeVars == <<kind, control, chunks, buf, tokenAt, err, data>>
vars == <<phase, wire, kind, control, chunks, buf, tokenAt, err, data, heap>>

NoControl == [kind |-> "none", reason |-> 0]
ControlKinds == {"KEEPALIVE", "CONNECT", "CONNECTACCEPT", "ACCEPT", "CLOSE"}

Init ==
    /\ phase = "idle"
    /\ wire = [own |-> FALSE, control |-> FALSE, compressed |-> FALSE, num |-> 0,
               len |-> 0, chunks |-> <<>>, msg |-> NoControl]
    /\ kind = "CONNLESS" /\ control = NoControl /\ chunks = <<>>
    /\ buf = 0 /\ tokenAt = -1 /\ err = "NONE" /\ data = FALSE
    /\ heap = {}

HeaderSize(vital) == IF vital THEN 3 ELSE 2

----------------------------------------------------------------------------
(* ddproto_encode_packet *)

\* A packet of this library, as far as it is encoded.
OwnPacket(isControl, len, msg) ==
    [own |-> TRUE, control |-> isControl, compressed |-> FALSE, num |-> 0, len |-> len,
     chunks |-> <<>>, msg |-> msg]

StartPacket ==
    /\ phase = "idle" /\ phase' = "encoding"
    /\ wire' = OwnPacket(FALSE, 0, NoControl)
    /\ UNCHANGED <<decodeVars, heap>>

\* The next bytes are written up to len.  Nothing compares that with the
\* length of the buffer, of which only the packet header is known to fit.
Write(len, packet, then) ==
    /\ \/ len <= Room /\ wire' = packet /\ phase' = then
       \/ len > Room /\ phase' = "overrun" /\ UNCHANGED wire
    /\ UNCHANGED <<decodeVars, heap>>

\* One round of the loop: a chunk header, then the message.  One that cannot be
\* encoded sets the error for good, and the caller drops the packet.
EncodeChunk(vital, size) ==
    LET after == wire.len + HeaderSize(vital) + size
        chunk == [at |-> wire.len, vital |-> vital, size |-> size]
    IN  /\ phase = "encoding" /\ Len(wire.chunks) < MaxChunks
        /\ Write(after,
                 [wire EXCEPT !.num = @ + 1, !.len = after, !.chunks = Append(@, chunk)],
                 "encoding")

EncodeToken ==
    /\ phase = "encoding"
    /\ Write(wire.len + TokenSize, [wire EXCEPT !.len = @ + TokenSize], "arrived")

\* A reason that does not fit into the packer is left out, and no one is told.
PackedReason(msg) == IF msg.reason <= PackerSize THEN msg.reason ELSE 0

\* The bytes ddproto_encode_control writes.
ControlSize(msg) == 1 + (IF msg.kind = "CONNECT" THEN TokenSize ELSE PackedReason(msg))

\* ddproto_encode_control cannot encode CONNECTACCEPT.  A reason takes at
\* least two bytes: an empty one is left out.
EncodeControl(msg) ==
    LET len == ControlSize(msg) + TokenSize
    IN  /\ phase = "idle"
        /\ msg.kind # "CONNECTACCEPT" /\ msg.reason # 1
        /\ msg.kind # "CLOSE" => msg.reason = 0
        /\ Write(len, OwnPacket(TRUE, len, msg), "arrived")

\* A packet of someone else.  Its datagram may be shorter than the packet
\* header, or too long.  The payload of a compressed one has the length it is
\* decompressed to, which may be more than that of a datagram.
Foreign(isControl, compressed, num, len) ==
    /\ phase = "idle" /\ phase' = "arrived"
    /\ compressed => len >= 0
    /\ wire' = [own |-> FALSE, control |-> isControl, compressed |-> compressed, num |-> num,
                len |-> len, chunks |-> <<>>, msg |-> NoControl]
    /\ UNCHANGED <<decodeVars, heap>>

----------------------------------------------------------------------------
(* ddproto_decode_packet *)

\* The packet is returned.
Return(error, at) ==
    phase' = "decoded" /\ err' = error /\ tokenAt' = at

\* The longest payload of a datagram, and of one that is decompressed.
Longest == IF wire.compressed THEN BufferSize ELSE MaxPayload

\* The datagram is not too short, and not too long.
Readable == wire.len \in 0 .. Longest

DecodeInvalid ==
    /\ phase = "arrived" /\ ~Readable
    /\ Return("INVALID_PACKET", -1)
    /\ kind' = "CONNLESS" /\ control' = NoControl /\ chunks' = <<>> /\ data' = FALSE
    /\ UNCHANGED <<wire, buf, heap>>

\* The payload is allocated, and ddproto_huffman_decompress fails.
DecompressFails ==
    /\ phase = "arrived" /\ wire.compressed
    /\ heap' = {Payload}
    /\ Return("HUFFMAN", -1)
    /\ kind' = "CONNLESS" /\ control' = NoControl /\ chunks' = <<>> /\ data' = FALSE
    /\ UNCHANGED <<wire, buf>>

\* The control messages that the payload may be read as: its own, or any.  The
\* end of a reason is looked for with strlen: it may be in the payload, or in
\* what is behind it in its buffer, or not there either (BufferSize).
ControlAs == IF wire.own THEN {[kind |-> wire.msg.kind, reason |-> PackedReason(wire.msg)]}
             ELSE [kind : ControlKinds \cup {"invalid"}, reason : 1 .. BufferSize]

\* A variant of ReasonFollows with an error: room for the reason is taken to
\* be there only if it is longer than a token.
ReasonFollowsToken == wire.len - 1 > 2 * TokenSize

\* len - 1 is unsigned: nothing follows the kind byte of an empty payload,
\* but the test lets it pass.
ReasonFollows == wire.len = 0 \/ wire.len - 1 > TokenSize

\* The token is read behind the control message, whether or not the payload
\* goes on there.
TokenBehind(size) ==
    \/ size + TokenSize <= BufferSize /\ Return("NONE", size)
    \/ size + TokenSize > BufferSize /\ phase' = "outside" /\ UNCHANGED <<err, tokenAt>>

\* ddproto_decode_control, for the message m and the magic token found.  After
\* an error the token is read at the beginning.
DecodeControl(m, magic) ==
    /\ phase = "arrived" /\ wire.control /\ Readable
    /\ wire.own => magic
    /\ heap' = {Payload}
    /\ kind' = "CONTROL" /\ chunks' = <<>> /\ data' = FALSE
    /\ control' = [kind |-> m.kind,
                   reason |-> IF m.kind = "CLOSE" /\ ReasonFollows THEN m.reason ELSE 0]
    /\ \/ m.kind = "invalid" /\ Return("INVALID_CONTROL_MESSAGE", 0)
       \/ m.kind \in {"CONNECT", "CONNECTACCEPT"} /\ ~magic /\ Return("INVALID_TOKEN_MAGIC", 0)
       \/ m.kind \in {"CONNECT", "CONNECTACCEPT"} /\ magic /\ Return("NONE", 1 + TokenSize)
       \/ m.kind \in {"KEEPALIVE", "ACCEPT", "CLOSE"} /\ TokenBehind(1 + control'.reason)
    /\ UNCHANGED <<wire, buf>>

DecodeNormal ==
    /\ phase = "arrived" /\ ~wire.control /\ Readable
    /\ phase' = "chunks" /\ heap' = {Payload, Array}
    /\ kind' = "NORMAL" /\ control' = NoControl /\ chunks' = <<>> /\ data' = FALSE
    /\ buf' = 0 /\ tokenAt' = -1 /\ err' = "NONE"
    /\ UNCHANGED wire

----------------------------------------------------------------------------
(* ddproto_fetch_chunks: one round of its loop is one action. *)

\* A variant of InLoop with an error: one round too many.
InLoopOneMore == phase = "chunks" /\ Len(chunks) <= wire.num

InLoop == phase = "chunks" /\ Len(chunks) # wire.num

Space == wire.len - buf

\* The chunks of the sender that start where buf points.
OwnHere == {i \in DOMAIN wire.chunks : wire.own /\ wire.chunks[i].at = buf}

\* What ddproto_decode_chunk_header may find at buf.
HeadersHere ==
    IF OwnHere = {}
      THEN [vital : BOOLEAN, size : 0 .. SizeLimit - 1]
      ELSE {[vital |-> wire.chunks[i].vital, size |-> wire.chunks[i].size % SizeLimit] : i \in OwnHere}

\* ddproto_decode_message gets a whole message of this library.
OwnMessage(h) == \E i \in OwnHere : wire.chunks[i].size = h.size

FetchTooShort ==
    /\ InLoop /\ Space < 4
    /\ Return("END_OF_BUFFER", -1)
    /\ UNCHANGED <<wire, kind, control, chunks, buf, data, heap>>

\* A variant of Cut with an error: the room left is that of before the header
\* was read.
CutStale(h) == Space < h.size

\* The message does not fit in what follows the chunk header.
Cut(h) == Space - HeaderSize(h.vital) < h.size

FetchCut(h) ==
    /\ InLoop /\ Space >= 4 /\ Cut(h)
    /\ Return("END_OF_BUFFER", -1)
    /\ UNCHANGED <<wire, kind, control, chunks, buf, data, heap>>

\* on_chunk gets the chunk, which may own a snapshot.
OnChunk(h, snapshot) ==
    /\ chunks' = Append(chunks, [at |-> buf, vital |-> h.vital, size |-> h.size,
                                 snapshot |-> snapshot])
    /\ heap' = IF snapshot THEN heap \cup {Len(chunks')} ELSE heap

\* ddproto_decode_message knows the message, or it is an unknown one, which is
\* no error.  The library encodes no snapshots.
FetchMessage(h, snapshot) ==
    /\ InLoop /\ Space >= 4 /\ ~Cut(h)
    /\ OwnMessage(h) => ~snapshot
    /\ OnChunk(h, snapshot)
    /\ buf' = buf + HeaderSize(h.vital) + h.size
    /\ UNCHANGED <<phase, wire, kind, control, tokenAt, err, data>>

\* ddproto_decode_message fails, perhaps in the middle of a snapshot.
FetchUndecodable(h, snapshot) ==
    /\ InLoop /\ Space >= 4 /\ ~Cut(h) /\ ~OwnMessage(h)
    /\ OnChunk(h, snapshot)
    /\ Return("MESSAGE", -1)
    /\ UNCHANGED <<wire, kind, control, buf, data>>

\* A variant of TakeChunks with an error: bytes after the token are ignored.
TakeChunksIgnoringRest ==
    /\ phase = "chunks" /\ Len(chunks) = wire.num
    /\ data' = TRUE
    /\ \/ Space < TokenSize /\ Return("MISSING_DDNET_SECURITY_TOKEN", -1)
       \/ Space >= TokenSize /\ Return("NONE", buf)
    /\ UNCHANGED <<wire, kind, control, chunks, buf, heap>>

\* All chunks were found: the packet gets the array, and the token must be
\* all that is left.
TakeChunks ==
    /\ phase = "chunks" /\ Len(chunks) = wire.num
    /\ data' = TRUE
    /\ \/ Space < TokenSize /\ Return("MISSING_DDNET_SECURITY_TOKEN", -1)
       \/ Space > TokenSize /\ Return("REMAINING_BYTES_IN_BUFFER", -1)
       \/ Space = TokenSize /\ Return("NONE", buf)
    /\ UNCHANGED <<wire, kind, control, chunks, buf, heap>>

----------------------------------------------------------------------------
(* twclient_on_network_data, after the packet is decoded and handled *)

\* A variant of Held with an error: snapshots are forgotten.
HeldWithoutSnapshots == (heap \cap {Payload}) \cup (IF data THEN {Array} ELSE {})

\* What ddproto_free_packet frees: all that can be reached from the packet.
Held ==
    (heap \cap {Payload})
      \cup (IF data THEN {Array} \cup {i \in DOMAIN chunks : chunks[i].snapshot} ELSE {})

Free ==
    /\ phase = "decoded" /\ err = "NONE" /\ control.kind # "CLOSE"
    /\ heap' = heap \ Held
    /\ phase' = "idle" /\ data' = FALSE /\ chunks' = <<>>
    /\ UNCHANGED <<wire, kind, control, buf, tokenAt, err>>

\* The packet is ignored, and what was allocated for it is never freed.
Ignore ==
    /\ phase = "decoded" /\ err # "NONE" /\ kind = "CONNLESS"
    /\ phase' = "idle"
    /\ UNCHANGED <<wire, decodeVars, heap>>

Exit ==
    /\ phase = "decoded"
    /\ (err # "NONE" /\ kind # "CONNLESS") \/ (err = "NONE" /\ control.kind = "CLOSE")
    /\ phase' = "exited"
    /\ UNCHANGED <<wire, decodeVars, heap>>

Encode ==
    \/ StartPacket \/ EncodeToken
    \/ \E vital \in BOOLEAN, size \in 1 .. MaxMessage : EncodeChunk(vital, size)
    \/ \E msg \in [kind : ControlKinds, reason : 0 .. MaxReason] : EncodeControl(msg)

Decode ==
    \/ DecodeInvalid \/ DecompressFails \/ DecodeNormal
    \/ \E m \in ControlAs, magic \in BOOLEAN : DecodeControl(m, magic)
    \/ FetchTooShort \/ TakeChunks
    \/ \E h \in HeadersHere :
          \/ FetchCut(h)
          \/ \E snapshot \in BOOLEAN : FetchMessage(h, snapshot) \/ FetchUndecodable(h, snapshot)

Next ==
    \/ Encode
    \/ \E isControl, compressed \in BOOLEAN, num \in 0 .. MaxChunks, len \in -3 .. BufferSize :
          Foreign(isControl, compressed, num, len)
    \/ Decode
    \/ Free \/ Ignore \/ Exit

Spec == Init /\ [][Next]_vars

----------------------------------------------------------------------------
TypeOK ==
    /\ phase \in {"idle", "encoding", "arrived", "chunks", "decoded", "exited", "overrun", "outside"}
    /\ wire.own \in BOOLEAN /\ wire.control \in BOOLEAN /\ wire.compressed \in BOOLEAN
    /\ wire.num \in 0 .. MaxChunks
    /\ wire.len \in -3 .. IF wire.own THEN Room ELSE BufferSize
    /\ kind \in {"CONNLESS", "CONTROL", "NORMAL"}
    /\ control.reason \in 0 .. BufferSize
    /\ Len(chunks) <= MaxChunks /\ buf \in 0 .. BufferSize
    /\ tokenAt \in -1 .. BufferSize - TokenSize
    /\ data \in BOOLEAN
    /\ heap \subseteq {Payload, Array} \cup 1 .. MaxChunks

\* The byte after the chunk.
End(c) == c.at + HeaderSize(c.vital) + c.size

(* Whatever a packet holds, the chunks that ddproto_fetch_chunks hands out *)
(* lie in the payload one after the other, and in the array allocated for  *)
(* them.                                                                   *)
ChunksInPayload ==
    /\ kind = "NORMAL" => Len(chunks) <= wire.num
    /\ \A i \in DOMAIN chunks :
          /\ chunks[i].at = IF i = 1 THEN 0 ELSE End(chunks[i - 1])
          /\ End(chunks[i]) <= wire.len

(* A normal packet that is decoded without error is used up: the number of *)
(* chunks of its header, then the token, and nothing else.                 *)
NormalIsUsedUp ==
    phase = "decoded" /\ kind = "NORMAL" /\ err = "NONE" =>
        /\ Len(chunks) = wire.num
        /\ tokenAt = IF chunks = <<>> THEN 0 ELSE End(Last(chunks))
        /\ tokenAt + TokenSize = wire.len

(* A packet this library encodes, as far as its caller has room for it,    *)
(* decodes to the same chunks or the same control message, with the token  *)
(* at its end, or it is longer than DDPROTO_MAX_PACKET_SIZE, which only    *)
(* ddproto_decode_packet tests: then it is refused as a whole.  A reason   *)
(* that no packer holds is lost, but not the message.                      *)
OwnPacketsDecode ==
    wire.own =>
        /\ phase # "outside"
        /\ phase = "decoded" =>
            IF wire.len > MaxPayload THEN err = "INVALID_PACKET" /\ kind = "CONNLESS" /\ chunks = <<>>
            ELSE /\ err = "NONE" /\ tokenAt + TokenSize = wire.len
                 /\ IF wire.control
                    THEN /\ kind = "CONTROL" /\ control.kind = wire.msg.kind
                         /\ control.reason = PackedReason(wire.msg)
                    ELSE /\ kind = "NORMAL" /\ Len(chunks) = Len(wire.chunks)
                         /\ \A i \in DOMAIN chunks :
                               /\ chunks[i].at = wire.chunks[i].at
                               /\ chunks[i].vital = wire.chunks[i].vital
                               /\ chunks[i].size = wire.chunks[i].size

(* Nothing of a packet that was handled stays allocated: not its payload,  *)
(* not its chunks, not the snapshots in them (ddproto_free_packet).        *)
HandledIsFreed == phase = "idle" /\ err = "NONE" => heap = {}
=============================================================================
