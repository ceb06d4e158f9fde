---------------------------- MODULE PacketBuilder ----------------------------
(***************************************************************************)
(* The sending half of the library, src/src/packet.c: ddproto_build_packet *)
(* numbers the vital messages of a packet from the session, and            *)
(* ddproto_encode_packet puts the packet on the wire.  A message that      *)
(* cannot be encoded (no room in the packer, or a kind the encoder does    *)
(* not know) makes both fail; the caller then sends nothing                *)
(* (twclient_send_packet in src/examples/client.c).                        *)
(***************************************************************************)
EXTENDS SeqNum, Sequences, FiniteSetsExt

CONSTANTS
    Uint16,       \* 2^16, the range of DDProtoSession.sequence
    MaxMessages   \* bound: messages in one packet

ASSUME BuilderAssumption ==
    /\ Uint16 \in Nat \ {0} /\ Uint16 % MaxSequence = 0
    /\ MaxMessages \in Nat /\ MaxMessages < MaxSequence

\* A message: what ddproto_is_vital_msg says of its kind, and whether
\* ddproto_encode_message can encode it.
Messages == [vital : BOOLEAN, encodes : BOOLEAN]

VARIABLES
    sequence,   \* DDProtoSession.sequence
    packet,     \* chunk headers filled in, of a packet not yet sent
    error,      \* the last build returned an error
    pending,    \* a packet is built and not yet handed to the encoder
    wire,       \* history: the number of the last vital chunk on the wire
    skipped     \* history: a build has failed since then

vars == <<sequence, packet, error, pending, wire, skipped>>

Init ==
    /\ sequence = 0 /\ packet = <<>> /\ error = FALSE /\ pending = FALSE
    /\ wire = 0 /\ skipped = FALSE

\* The loop of ddproto_build_packet stops at the first message that
\* ddproto_fill_chunk_header cannot encode.
Last(messages) ==
    LET failing == {i \in DOMAIN messages : ~messages[i].encodes}
    IN  IF failing = {} THEN Len(messages) ELSE Min(failing)

\* The VITAL bit of a chunk header after ddproto_fill_chunk_header, which sets
\* the flags only when it succeeds: otherwise the bit is what malloc returned.
VitalBit(message, garbage) == IF message.encodes THEN message.vital ELSE garbage

\* A variant of CountedUpTo with an error: messages that are not vital count.
EveryMessageCounted(messages, garbage, i) == (sequence + i) % Uint16

\* A variant of CountedUpTo with an error: the count does not wrap.
CountedUnwrapped(messages, garbage, i) ==
    sequence + Cardinality({j \in 1 .. i : VitalBit(messages[j], garbage)})

\* The count after the loop has been through messages 1 .. i.
CountedUpTo(messages, garbage, i) ==
    (sequence + Cardinality({j \in 1 .. i : VitalBit(messages[j], garbage)})) % Uint16

Build(messages, garbage) ==
    /\ ~pending
    /\ LET last == Last(messages)
       IN  /\ packet' = [i \in 1 .. last |->
                            [vital    |-> VitalBit(messages[i], garbage),
                             sequence |-> CountedUpTo(messages, garbage, i)]]
           /\ sequence' = CountedUpTo(messages, garbage, last)
    /\ error' = (\E i \in DOMAIN messages : ~messages[i].encodes)
    /\ pending' = TRUE
    /\ UNCHANGED <<wire, skipped>>

\* The vital chunks of the packet, by their place in it.
VitalPlaces == {i \in DOMAIN packet : packet[i].vital}

\* A variant of OnWire with an error: one bit too few.
OnWireShort(number) == number % Half

\* ddproto_encode_chunk_header keeps the low bits of a number.
OnWire(number) == number % MaxSequence

\* The packet is encoded and sent.
Send ==
    /\ pending /\ ~error
    /\ wire' = IF VitalPlaces = {} THEN wire
               ELSE OnWire(packet[Max(VitalPlaces)].sequence)
    /\ skipped' = (skipped /\ VitalPlaces = {})
    /\ packet' = <<>> /\ pending' = FALSE
    /\ UNCHANGED <<sequence, error>>

\* The encoder meets the failing message again and nothing is sent.
SendFails ==
    /\ pending /\ error
    /\ skipped' = TRUE
    /\ packet' = <<>> /\ pending' = FALSE
    /\ UNCHANGED <<sequence, error, wire>>

Next ==
    \/ \E n \in 1 .. MaxMessages : \E messages \in [1 .. n -> Messages], garbage \in BOOLEAN :
          Build(messages, garbage)
    \/ Send
    \/ SendFails

Spec == Init /\ [][Next]_vars

TypeOK ==
    /\ sequence \in 0 .. Uint16 - 1
    /\ packet \in Seq([vital : BOOLEAN, sequence : 0 .. Uint16 - 1])
    /\ error \in BOOLEAN /\ pending \in BOOLEAN /\ skipped \in BOOLEAN
    /\ wire \in SeqNumbers

(* The vital chunks of a packet on the wire carry the numbers that follow  *)
(* the last one sent, in the order of the chunks, across the wrap of the   *)
(* number on the wire and of the counter in the session: the receiver,     *)
(* which accepts only the number after its ack (twclient_on_chunk), finds  *)
(* no gap unless a build has failed.                                       *)
SentInSequence ==
    pending /\ ~error /\ ~skipped =>
        \A i \in VitalPlaces :
            OnWire(packet[i].sequence)
              = (wire + Cardinality({j \in VitalPlaces : j <= i})) % MaxSequence

(* A packet never carries two vital chunks with the same number: the one   *)
(* the receiver would drop as known.                                       *)
NumbersDiffer ==
    pending /\ ~error =>
        \A i, j \in VitalPlaces :
            OnWire(packet[i].sequence) = OnWire(packet[j].sequence) => i = j
=============================================================================
