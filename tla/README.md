# A TLA+ model of ddnet_protocol

ddnet_protocol is a C library for the network protocol of DDNet (teeworlds
0.6), with an example client. This directory models how a connection is kept
reliable on top of UDP, checks the model with TLC on small instances, and
proves its safety properties with TLAPS for all values of the constants.

Paths below are relative to the repository.

## The system

| component | code | state | operations |
|---|---|---|---|
| client | `examples/client.c` | `TwClient`: session, `request_resend`, `last_send` | `main` loop; handlers of control packets, normal packets, chunks; `twclient_send_*` |
| session | `session.h`, `src/session.c` | `DDProtoSession`: `ack`, `sequence`, `peer_ack`, `token` | `ddproto_seq_in_backroom` |
| packet builder | `src/packet.c`, `src/chunk.c` | writes `session.sequence` | `ddproto_build_packet`, `ddproto_fill_chunk_header` |
| packet codec | `src/packet.c`, `src/chunk.c`, `src/fetch_chunks.c`, `src/control_message.c`, `src/token.c` | none (allocations of one packet) | decode and encode packet, headers, chunks, control messages, token; `ddproto_free_packet` |
| packer, unpacker | `src/packer.c` | a cursor and a sticky error | integers, strings, raw data |
| messages | `src/message.c` | none | encode and decode each message kind |
| snapshots | `src/snapshot.c` | none (allocations) | decode and free a snapshot |
| huffman | `src/huffman.c` | the static tree and lookup table | compress, decompress |
| int strings | `src/int_string.c` | none | strings packed into ints, in snapshot items |

Interaction. `main` is one thread. Each round it sends CLOSE and stops if SIGINT
was seen, sends a keep-alive if nothing was sent for more than a second, and
handles at most one packet. A packet is decoded as a whole; its chunks go one by
one to `twclient_on_chunk`, which moves `session.ack`, sets `request_resend`, and
may answer with a packet built from the session, which in turn carries `ack` and
the resend flag. The peer is reached over UDP, and everything hard comes from
there: packets are lost, repeated and reordered, the numbers in them have ten
bits and wrap, and both sides act on each other's old numbers.

What makes each part correct:

- client and session: a vital message counts as received once, in order, and
  only after it was acted on; a number is never taken for another of the same
  residue; a gap is reported; the peer learns of what was received.
- packet builder: vital messages on the wire carry consecutive numbers.
- codec, packer, messages, int strings: decode after encode gives the input
  back, errors are reported, what is allocated is freed, and what is decoded comes from
  the packet. The code itself does not keep to its buffers everywhere: it may write behind the
  caller's when a packet is encoded, and read behind a payload where a CLOSE has a reason
  without an end, and behind a message where nothing is left of it and a string is read. The
  models have these places, and the properties say what holds in spite of them.
- snapshots: what is handed out is whole: the arrays are as long as announced, every
  entry was decoded, and freeing leaves nothing.
- huffman: decompress after compress is the identity; anything else is decompressed
  exactly as the codes say or refused, with the bit buffer never too short or too full.

## Modules

| module | models |
|---|---|
| `SeqNum` | the sequence arithmetic: `SeqInBackroom` is `ddproto_seq_in_backroom`, branch by branch |
| `Network` | UDP: a set of packets each way; sending keeps any subset (loss), delivery may leave the packet there (duplication), any packet may be delivered next (reordering) |
| `Client` | `examples/client.c` |
| `Connection` | the client, the network and a peer; the properties |
| `ReliableStream` | what the connection promises: a stream of which the receiver accepts one message after the other, and the sender is sure of a prefix of what was accepted |
| `PacketBuilder` | `ddproto_build_packet` and what reaches the wire |
| `Headers` | the bits of the packet header and of the chunk header |
| `PacketCodec` | `ddproto_encode_packet`, `ddproto_decode_packet` with all they call, and `twclient_on_network_data` around them: chunk walk, control messages, token, errors, memory |
| `VarInt` | the variable-length integers, bit by bit |
| `Packer` | `DDProtoPacker` and `DDProtoUnpacker`: every add and get, the bounded buffer, the kept error, sanitizing |
| `Fields` | the unpacker as the decoders of messages see it: a sequence of fields, the last of which may be cut off |
| `IntString` | strings packed into 32 bit integers |
| `Snapshot` | `ddproto_decode_snapshot`, `ddproto_decode_snap_item`, `ddproto_free_snapshot` |
| `Messages` | `ddproto_encode_message` and `ddproto_decode_message`: all kinds, with `Snapshot` for the ones that carry it |
| `Huffman` | the tree, the codes, compress and decompress |
| `MCConnection`, `MCHeaders`, `MCPacker`, `MCMessages`, `MCHuffman` | the modules the runs use; also what headers and comments say that the code does not do |
| `ConnectionProofs`, `BuilderProofs`, `HeadersProofs`, `CodecProofs`, `PackerProofs`, `MessagesProofs`, `HuffmanProofs` | the proofs; `MessagesProofs` begins with the lemmas about `Fields` and `Snapshot` |
| `SequenceLemmas` | the facts about sequences, and induction over natural numbers, that the proofs share |

They build on each other: `Connection` is `Client`, `Network` and a peer over `SeqNum`,
and implements `ReliableStream`; `Messages` extends `Snapshot`, which extends `Fields` and
`IntString`; `Packer` extends `VarInt`. The layers meet in what they take each other for:
`Client` takes a packet to decode or not, which `PacketCodec` shows; `PacketCodec` takes a
message to decode if it is not cut, which `Messages` shows; `Messages` takes a field to read
back or to set the error, which `Packer` shows; `Packer` takes the bytes of an integer from
`VarInt`. `Huffman` stands between packet and datagram and is a black box to `PacketCodec`.

`Client` has one action per handler. Control packets: `RecvConnectAccept`,
`RecvClose`, `RecvIgnored`. A packet that does not decode: `RecvUndecodable` (the
process exits) or `RecvConnless` (ignored, as `packet.kind` is still 0 when
the header or the decompression fails). `RecvNormal` takes the chunks into `inbox`
and `AcceptNext`, `DropKnown`, `HandleOutOfOrder`, `HandleNonVital` are the paths
through `twclient_on_chunk`, one step per chunk. `Tick`, `KeepAlive` and
`Disconnect` are the rest of the loop. A step may be that fine without harm: the
peer only acts when `inbox` is empty, and while the client handles a packet it
only adds to what is in flight.

Choices a reader should know:

- `last_send` is the boolean `idle`: more than a second has passed. The loop sends
  the keep-alive before it receives, hence `~idle` in `Recv`. SIGINT may come at
  any time; it is noticed at the top of the loop, so it is not a variable.
- Messages are their kind. Only the kinds with an answer differ (`Reply`).
- `ackIdx` and `handled` in the client, `idx`, `ackIdx` and `stamp` in chunks and
  packets, `confirmed` in the peer are history variables: they say which message
  of the stream a number stands for. No action of the client is decided by one.
- CONNECT was sent once, before the loop; it may have been lost (`ClientInit`).
- The receiver's `peer_ack` is in the session and never changes, as in the code.

`PacketCodec` follows one packet after the other from encoding (`Encode`) or from
a foreign sender (`Foreign`) through `Decode` to the client's `Free`, `Ignore` or
`Exit`. Encoding writes a chunk, a control message or the token at a time (`Write`), and as in
the code nothing compares that with the length of the buffer: `Room` is what the caller has
behind the packet header. A packet that takes more ends in the phase `overrun`; one that fits `Room`
and is longer than a datagram may be is sent and refused by `DecodeInvalid`. A reason longer than
the packer is dropped without an error (`PackedReason`). A compressed payload may be decompressed
to all of the buffer that `ddproto_decode_packet` allocates (`Longest`). The reason of a
foreign CLOSE ends where its first zero is, in the payload, behind it in that buffer or not in it at
all; the token is read behind the reason (`TokenBehind`), and `outside` is where that
leaves the buffer.

One round of the loop of `ddproto_fetch_chunks` is one action, and each
error of `ddproto_decode_packet` is a disjunct that returns it. A payload is known by
its length: where a chunk of this library starts, its header is found; at any other
place, and in a foreign packet, the bytes may be any header or message. Messages
are their size. A message of this library that is not cut is taken to decode
(`OwnMessage`), which is what `Messages` shows. `heap`
holds what was allocated for the packet: the payload, the array of chunks, and
the snapshot of each chunk as one block.

`Packer` packs items one by one, as `ddproto_encode_message` does, and if the packer has
no error at the end, unpacks them by their types; or it unpacks the bytes of any sender as
anything. An integer that runs out of room leaves all but its last byte packed, and one cut
off leaves the unpacker on its last byte; neither unpacking integers nor raw data looks at
the error. With nothing left `ddproto_unpacker_get_string` reads the byte behind the data and goes on
from there, without an error (`Text`); the room left is then a difference below 0, which is a huge
`size_t`, so that integers and raw data are read from there too (`Left`). `behind` is the memory
behind the data, as far as it is known; the model stops where it ends (`outside`). Strings are
sanitized in place, in bytes no unpacker of the model reads again: `data` and `behind` keep the bytes that came.

`Messages` sends one message and decodes it. On the wire a message is a sequence of fields,
each with its type, its value and whether it is whole: an integer has its value, a string is a
number that stands for it, raw data is its size. A negative string has control characters,
and `Sanitize` makes of it its absolute value, the string without them. `behind` is what reads behind the
message find, as in `Packer`.
Within a packet that is the next chunk or the token. The tables `SystemEncodes` and
`SystemDecodes`, `GameEncodes` and `GameDecodes` list the members in the order in which the
code packs and unpacks them, one table for each function, so that a difference between the
two shows. CL_SAY is packed from the members of a chat (`InSay`), which are where its own are if both structs are
laid out alike: `ChatAt` and `SayAt` have the places, for pointers of `PointerSize` bytes. The
kind of the chunk is at first that of any message (`StaleKinds`), as the chunk is an unset variable on
the stack of `ddproto_fetch_chunks`; `Kept` are the errors after which that chunk stays in the packet. `Cut`
ends a message anywhere, in the middle of a field included, as a chunk
header with a smaller size does. Snapshots come from another sender, as the library has
no encoder for them: `SendSnapshot` writes the items in the order of their structs, `SendForeign`
sends counts and items that do not belong together. `SnapItem` is one round of the loop over the
items; an early return leaves the kind of the chunk as it was, and `heap` holds the two arrays. Where
what comes next depends on memory of which nothing is known, the model stops: in the phase
`undefined` a member that was never set is encoded, in `outside` more is read than `behind` has, or
more vote options than there is room for are written, or an array of negative length is asked for.
Tune parameters are floats: `Scaled` is what the conversion to a float, the product with
100 and the cast to an integer make of a number of hundredths.

`Huffman` has the frequency table of the code and its constants. The variable `bits` is a
sequence of bits, the lowest first, so that shifts are heads and concatenations; `bitcount` is
the counter beside it, which wraps (at 2^30 here, at 2^32 in the code; no call comes near
either). A symbol that is compressed and a round of the loop of the decompression are one
action each. `DecodeLut` is an entry of the lookup table, and the walk from it to a symbol is
`Descend`; the walk may go on behind the last bit, over zeros, as in the code.

The peer is external (the repository has no server): it hands out a token, and
then may send the next vital message if fewer than `Window` are unconfirmed,
resend one or two of its buffer, send a non-vital message, a keep-alive, CLOSE, or a
packet that does not decode, at any time. It frees what an ack covers, by the
same comparison of numbers as the client. What it needs for the protocol to work
at all with ten-bit numbers is stated as assumptions: `Window + MaxLag < Half`
and `2 * MaxLag < Half`, where a packet is gone from the network after `MaxLag`
further messages. UDP alone would allow a packet to reappear a thousand messages
later; no protocol with ten-bit numbers survives that.

## Properties and runs

| run | question | states |
|---|---|---|
| `conn_safety` | do acks and chunks keep their meaning under loss, duplication, reordering and wrap? | 1.8 M, 2 min |
| `conn_traffic` | and with every kind of packet and message, answers included? | 2.6 M, 2 min |
| `conn_liveness` | does every message get through, and does the peer learn of it? | 61 k, 75 s |
| `build_safety` | are the numbers on the wire consecutive? | 1.2 k |
| `headers` | do the fields of the headers come back? | 110 k |
| `codec_safety` | what decodes, as what, and is it freed? | 542 k, 1 min |
| `packer` | is what was packed unpacked, and does no error get lost? | 829 k, 30 s |
| `messages` | does every message and every snapshot come back, and is a damaged one noticed? | 916 k, 1 min |
| `huffman` | is what was compressed decompressed, and anything else refused or read as it stands? | 798 k, 80 s |
| `conn_client_vitals`, `msg_map_data`, `snap_game_data` | what documents say and the code does not do (below) | |

Invariants of `conn_safety`: `AckedWereHandled` (what ack counts was acted on),
`BufferIsUnconfirmed` (the peer forgets exactly what was confirmed, however old the
ack), `NumbersInStep` (every number in flight stands for one message). Action
properties: `AcceptsInOrder`, `AcceptedHasNoEffect`, `NothingNewDropped`,
`ResendOnlyForGap`, `GapIsReported` (in `conn_traffic`, as it needs answers).
`ImplementsStream` is the refinement.

Invariants of `codec_safety`: `ChunksInPayload` (whatever the bytes, chunks lie one after
the other in the payload), `NormalIsUsedUp` (a normal packet without error is its
chunks and the token), `OwnPacketsDecode` (what was encoded within the caller's buffer decodes to the same, control messages with
and without a reason included, or it is too long and refused as a whole), `HandledIsFreed`. `headers` has `ChunkHeaderReadsBack`,
`PacketHeaderReadsBack` and `BufferIsBytes`.

Invariants of `packer`: `ItemsReadBack` (a packer without an error gives back every item,
strings but for what was sanitized, with no error and nothing left) and `ReadWithoutGap`
(whatever the bytes, an unpacker without an error has read them item after item, and each
bool was one; only from a string of which nothing was left did it go on behind the data).

Invariants of `messages`: `FieldsReadBack` (a message of the library comes back as the message
it was, member by member, strings without control characters; the decoder leaves its message for too many vote
options and for nothing else),
`CutIsNoticed` (no read in `message.c` looks at the error, and yet
a message that was cut off and decodes without one has lost nothing, unless it ends exactly before a
string: that string and all behind it are then read from the memory behind the message, which the error does not
tell; `EndsBeforeString`), `SnapReadsBack` (the
same for snapshots, strings in integers included), `SnapHandedOut` (whatever was sent, and whatever the chunk
said before, a chunk that stays in the packet and says it is a
snapshot is one: arrays of the announced lengths, every entry decoded),
`SnapIsFreed`. Invariants of `huffman`: `CompressedSize` (`BUFFER_FULL` exactly when the codes do
not fit), `ReadsBack`, and `ExactOrError`, which compares any input with a reference decoder
that only knows the codes.

Bounds. Eight numbers instead of 1024, a window of 2, `MaxLag` 1: the largest
values with `Window + MaxLag < 4`. `MaxSent` 9 lets the numbers wrap and go past the
first reuse of number 1. Two packets in flight each way, each of one or two
chunks, are enough to reorder and to repeat an old packet after a newer one.
`MaxInfos` bounds how often the network repeats CONNECTACCEPT. `Uint16` is 8: in
`conn_traffic` the counter of the client's own messages wraps too. In `PacketBuilder` the number on
the wire has 4 values and the counter 8; packets have up to three messages.
In `PacketCodec` a payload of 16 bytes
holds three chunks and the token, or a reason longer than the token, and every
foreign length from below 0 (a datagram shorter than the header) to one too many; chunk
headers carry sizes below 4, so that three chunks of the largest size exceed the
payload. `Room` is one byte more than a payload, so that packets are too long to be decoded, or too
long for the caller; a reason of up to 14 bytes exceeds both that and the packer of 13. `headers` runs over all numbers and
acks of ten bits and some above. In `packer` a buffer of eight bytes is too small for
two long integers or three strings, so that items overflow it in the middle; the integers
are those at the limits of each length, and the foreign data is all strings of up to three of five bytes
(with and without extend and sign bit, terminator) and some longer integers. Behind the data are a string or an empty one,
integers that are whole, cut off or no bool.
In `messages` every member has a value of its own, so that no two can be exchanged unnoticed, and a
bool has both of its; strings have control characters or none; the number of vote options is from
-1 to 15, with as many descriptions set as that, fewer or more. Behind a message is nothing that is known, one
value, or enough for the longest message, of valid bools or of none. A pointer has 8 bytes, in
`snap_game_data` 4, where no CL_SAY can be encoded. Every message is cut off behind and in each of its fields; every item
type comes alone and with every other, and strings of items have all lengths that matter: none,
one, one less than fits, and all that fits. Tune parameters go up to 80000 and
have both signs: from 2^17 on a float has too few bits left for hundredths, and more than one may be lost. `huffman` decompresses
all inputs of up to two bytes, and compresses every byte alone, pairs with one byte for
each length of a code, and short strings of the shortest and longest codes; the
decompression then gets it whole or short of one or two bytes. Codes are 1 to 15 bits
long, so that the buffer is refilled from every count; rooms of 0, 2 and 8 are too small for some and not
for others.
The runs of `PacketCodec`, `Packer`, `Headers`, `Messages` and `Huffman` do not check for
deadlock: a header and a message are sent once, a call of huffman returns, the items of a packer
are bounded, and a client that exits does nothing more. The runs of `Connection` do not check for deadlock: the
system stops when the client has exited
and the network is empty.

Fairness (`conn_liveness`). The loop runs (`WF` of a chunk in hand), time passes
(`SF` of `Tick` or of sending something). The network delivers a packet that is sent again and again: the
client's ack (sent at least every two seconds by the keep-alive), and the message the
client misses, which the peer resends. The client resends nothing, so fairness
to its own vital messages would say nothing, and `ClientVitalsArrive` fails under
the same fairness.

Where the code does not do what a document says:

- `conn_client_vitals`: the client never resends (`chunk.h:19`, `session.h:15`).
- `msg_map_data`: MAP_DATA is decoded as MAP_CHANGE (`message.c:153`, `msg_system.h:68`).
- `snap_game_data`: the carriers of the two flags are exchanged in a decoded snapshot
  (`snapshot.c:77`, `snap_items.h:187`).

The models show more of the kind, without a run of their own:

- A message that came too early is acted on and answered, and again when it is resent
  (`examples/client.c:259`, action `HandleOutOfOrder`). `ack` is right throughout.
- `session.sequence` also counts the vital messages of a failed build, which are never sent
  (`packet.c:173`, `session.h:30`, action `SendFails`).
- ACCEPT carries ack 0 also when a CONNECTACCEPT is repeated after messages were received
  (`examples/client.c:126`, `session.h:24`).
- The number in a chunk header is not reduced modulo 1024 before it is encoded (`chunk.h:42`),
  and the size is sent modulo 1024 (`chunk.c:49`, `chunk.h:37`): `OwnPacketsAreDecoded` is proved
  for messages below that size.
- A packet is encoded without regard to the length of the buffer (`packet.c:140`), although `len` is given and
  `packet.c:129` returns BUFFER_FULL for a buffer shorter than the packet header; a packet longer
  than 1400 bytes is encoded and cannot be decoded (`packet.c:54`).
- A reason longer than the packer is left out of CLOSE, and the error stays in the packer (`control_message.c:68`).
- The end of a foreign reason is looked for beyond the payload (`control_message.c:30`), and the token is read
  behind it (`packet.c:76`).
- A string of which nothing is left is not one of "the unpacker data" (`packer.h:119`): it is read from what is
  behind, in a packet from the next chunk or the token, without an error (`packer.c:367`, operator `Text`). So a
  message that is cut right before a string decodes without an error (operator `EndsBeforeString`).
- A string is sanitized where it lies (`packer.c:378`): the bytes of the payload change, and if the string was read from
  behind its message, those of the next chunk or the token. The models do not have this last effect.
- CL_SAY is encoded from the chat message in the same union (`message.c:422`): right where pointers have eight bytes, and
  not where they have four.
- More than 14 vote options are written behind the array of them (`message.c:93`).
- The token of a control packet is not looked for at its end, nor missed when it is not there
  (`packet.c:76`, `packet.h:93`).
- After a chunk that does not decode the array of the chunks is out of reach (`packet.c:91`,
  `packet.h:185`), and the client never frees the payload of a packet that does not decompress
  (`examples/client.c:336`, action `Ignore`).
- The description behind the last vote option is still packed, set or not (`message.c:403`,
  `msg_game.h:176`, operator `BehindOptions`).
- After an early error a snapshot has a length and no array, or an array with entries that were
  never written (`snapshot.h:114`); the chunk then has the kind that was in its memory, and the packet is not handed out.
- The types without an item are told from the others at 3000, not at 30000 (`snapshot.c:173`, `snapshot.c:166`).
- A tune parameter may lose a hundredth at every encoding (operator `SameValue`).
- A string of exactly `4 * num_ints` characters is accepted and loses its last (`int_string.c:31`).
- An input of huffman that ends in the walk down the tree may be reported as a full buffer
  instead of an input that ended (`huffman.c:298`); it is never taken for a good one.

## Proofs

For every `MaxSequence` (even, at least 4), `Window`, `MaxLag`, capacity and bound
that satisfy the assumptions above:

- `ConnectionProofs!BackroomIsRecentPast`: of the numbers less than half the circle
  from `ack`, `ddproto_seq_in_backroom` holds for exactly those not ahead of it.
- `ConnectionProofs!InvHolds`: `Inv == TypeOK /\ NumbersInStep /\
  AckedWereHandled /\ BufferIsUnconfirmed` is inductive. `NumbersInStep` is the
  strengthening: each number in a packet, in the inbox and in the buffer is the
  place of its message relative to `session.ack` (`NumberOf`), and the message is
  close enough. Without it nothing connects a comparison of numbers with the
  messages they stand for. Each action has a lemma; the number of an old message
  is restated when `ack` moves (`Shift`).
- `TypeCorrect`, `NumbersStayInStep`, `AckedAreHandled`, `UnconfirmedAreKept` follow.
- At the end of `ConnectionProofs`: `AcceptedInOrder`, `AcceptedAgainIsIgnored`, `DroppedWasHandled`,
  `ResendIsForGap`, `GapsAreReported` are the action properties, each from `Inv` and the four paths
  of `twclient_on_chunk`. `Implements` is the refinement of `ReliableStream`.

- `HeadersProofs`: `ChunkHeadersReadBack` and `PacketHeadersReadBack`, for all flags, sizes,
  numbers, acks and counts of the fields' types. The chunk header is the hard one: bits 6
  and 7 of the number are in two bytes, and a lemma puts the number together again. `BuffersAreBytes`: whatever
  the fields, each byte
  of a buffer is one.

- `PackerProofs!IntReadsBack`: for every 32 bit integer and whatever follows it, the
  unpacker finds the length the packer used, and no other, and the value. A magnitude
  is split into digits at the places of the bytes (`Digits`), and extend and sign bits
  are taken off each byte.

- `BuilderProofs`: `BuilderTypes`, `NumbersFollow` (`SentInSequence`), `NumbersStayApart`
  (`NumbersDiffer`), for every width of the number on the wire that divides the width of the counter.
  The strengthening is a base, the number last on the wire, from which the chunks that wait to
  be sent count on, and of which the counter is the end; that the counter wraps does not matter
  because one width divides the other.

- `CodecProofs`: `CodecTypes`, `ChunksStayInPayload`, `NothingIsLeft`, `HandledPacketsAreFreed`, and
  `OwnPacketsAreDecoded` if `MaxMessage < SizeLimit`, for every payload, caller's buffer, packer and size. No
  packet is assumed to fit: `OwnPacketsAreDecoded` says of one that is too long that it is refused. `CodecTypes`
  says that the token is read within the
  buffer of the payload, not within the payload, unless the phase is `outside`. The
  inductive invariant has four parts: what encoding put on the wire lies end to end and fits
  the caller's buffer (`WireFits`); the cursor is at the end of the last chunk (`Progress`); what is allocated
  is what the packet refers to (`HeapKept`); and, for a packet of the library, the chunks found so
  far are the first ones that were encoded (`Matching`).

- `PackerProofs`: `PackerTypes`: the packer never holds more than its buffer, the unpacker stays in
  its data and the known memory behind, and integers have 32 bits, whatever is packed and whatever bytes come. It needs of the
  integers that they are packed in one to five bytes. `NoGaps` (`ReadWithoutGap`): what was read so far,
  one item after the other, is the memory from the beginning of the data up to the cursor unless the error is set, and
only a string that begins at the end of the data, or what is read after one, lies behind that end. `PackedItemsReadBack`
  (`ItemsReadBack`): while the items of the packer are unpacked, the cursor is at the end of the
  bytes of the items read, so that the next item lies there; `IntReadsBack` and its like for strings
  do the rest.

- `MessagesProofs`, for every set of messages and snapshots in range:
  - `MessagesTypes`, `SnapshotsHandedOut` (`SnapHandedOut`) and `SnapshotsFreed` (`SnapIsFreed`) from
    the inductive `MInv`: what is on the wire is typed, the cursor is in it or, outside of snapshots, in the
    known memory behind, and in the loop over the
    items the arrays are allocated with the lengths announced, the entries written so far are the
    ones below the index, and the chunk has no kind yet.
  - `FieldsAlwaysReadBack` (`FieldsReadBack`) and `CutAlwaysNoticed` (`CutIsNoticed`) from `FInv`:
    what is on the wire of a message of the library is that message, or the beginning of it. The lemma
    `AllCame` goes over the members of a message: after the first of them, if the error is not
    set, either the cursor is behind as many fields, all of them whole, and the members have their values, or the
    message ended right before one of the strings, and the members before that string keep their values; a
    message that is whole sets no error. `ScaledNear` is about tune parameters: the conversion to
    a float and back loses at most one hundredth.
  - `SnapshotsReadBack` (`SnapReadsBack`) from `SInv`: while a snapshot of a server is on its way,
    its integers lie on the wire, each in its place or behind the cut (`OnWire`), and in the loop over
    the items the cursor is where the next item begins and the items so far are the first
    that were sent (`SoFar`). Lemmas take the integers apart: into the counts, the keys and
    the items (`SnapLiesApart`), an item into its members (`PartsLie`), a string into the four
    characters of each integer (`StringBack`); `DecodeItemCame` puts them together again,
    for every type of item and for types the client does not know. It also shows
    that a snapshot that can be sent never reaches a negative count.
  - About the tables the proofs need that raw data comes last, that no member is named twice, that
    members are unpacked in the order in which they are packed (an integer as an integer or a bool; of CL_SAY
    only where it packs members of its own, `OwnMembers`), and that no two messages
    have the same number; about the items, that their members are read in the order of the
    struct, the carriers of the flags apart. Those are `TablesAssumption`, `ItemsAssumption` and `PointerAssumption`: facts
    about the tables as they stand in the code. `MessagesAssumption` says what may be sent: members
    that are set (`Settable`), and snapshots of any keys and items (`SnapSendable`) of which the strings fit
    into their integers (`Accepts`, what `str_to_ints` tests), the bools are 0 or 1, and an item of an unknown type has
    as many integers as it says. TLC evaluates all of them.

- `HuffmanProofs`, for any bytes that are compressed, any input of the decompression and any room:
  `HuffmanTypes`, `CompressedToSize` (`CompressedSize`), `DecompressedExactly` (`ExactOrError`) and
  `CompressedReadsBack` (`ReadsBack`), all from the inductive `HuffmanInv`:
  - While it compresses, the bits of the output and those in the bit buffer are, one after the other, the
    codes of the bytes taken so far (`Holds`). So the size follows, and so does what the bits
    of the output are.
  - While it decompresses, the bits in the buffer lie in the input where the last code ended,
    and the output so far with the symbols from there on are the symbols of the whole input
    (`OnTrack`). The fill leaves less than 24 bits only at the end of the input, so a code
    that is not all there is one the input cut off (`MissedCode`).
  - The exception: behind exactly ten bits a walk wraps `bitcount` below 0. Nothing is left of the input
    then, its symbols do not end with the end symbol, and that stays so (`Lost`): the rounds
    that follow read zeros, which never lead to the end symbol.
  - `WalkMeets` says that the walk finds the one symbol whose code the bits begin with, and `ParsesAll` and
    `ParsesPart` what the definition of `Parsed` makes of the codes of bytes, whole or cut.
  - Of the tree the proofs need what `TreeAssumption` says: a node is where its bits lead, no code
    begins with another, a code has 1 to 24 bits, and the code of the end symbol has a 1 behind its first
    ten bits. These are facts about the frequency table, which TLC computes: the tree is
    built by the code from 257 numbers, and to a prover that is a fold of 256 steps. `HuffmanAssumption`
    says that bytes are bytes and lengths are natural numbers.

Induction. The library states induction over naturals for a predicate given as an operator, which the
provers cannot instantiate. `SequenceLemmas!Induction` states it for a set of naturals instead, from the
theorem that the order of the naturals is well-founded; a proof by induction defines the set of all
numbers for which its claim holds.

Assumed: what is named `...Assumption`, on the constants and about the tables and the tree; TLC
evaluates all of it.

Only model-checked: `EventuallyConfirmed`, as liveness is out of TLAPS's reach, and that the tables
and the tree of the code have the properties assumed of them, which TLC evaluates.

## Not modelled, and the plan

Every part of the library that keeps state or decides something has a module. What the
modules leave out:

- What happens after a write behind a buffer, a read of memory of which nothing is known, more vote
  options than there is room for, an array of negative length, and a member that was never set. The models stop there,
  in a phase of its own. Reads behind a message or a reason are modelled as far as the memory is known
  (`Behind`, `BufferSize`); that the memory may be the next chunk of the same packet, and that sanitizing may change
  it, is not.
- The error of `ddproto_encode_packet_header`, which `ddproto_encode_packet` ignores (`packet.c:135`): `Headers` has the
  function and `PacketCodec` only the payload.
- What `malloc` does when memory is short: its result is used unchecked throughout.
- The lazy initialization of the huffman tables in a program with threads (`huffman.c:130`): the
  library has no threads and says nothing of them.
- The bytes of messages above 127 where `char` has no sign (`int_string.c:47`).
- Timers, beyond that more than a second has passed; the socket's errors.

Next, in this order:

1. `Packer` under `PacketCodec`: the bytes of a message instead of its size, on a payload of
   a few bytes.
2. `Huffman` under `PacketCodec`: what a compressed payload is decompressed to, instead of its size.

Not planned: `src/errors.c` (a table of names), `examples/huffman.c` (a command line tool), tests
and build files.
