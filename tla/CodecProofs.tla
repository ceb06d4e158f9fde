----------------------------- MODULE CodecProofs -----------------------------
(***************************************************************************)
(* Where the chunks of a decoded packet lie, that nothing is left over,    *)
(* that a packet of this library decodes to what was encoded, and that     *)
(* what was allocated for a handled packet is freed: for every length of   *)
(* the payload and of the size field, and any number of chunks.            *)
(***************************************************************************)
EXTENDS PacketCodec, SequenceTheorems, TLAPS

LEMMA Constants ==
    /\ MaxPayload \in Nat /\ MaxPayload >= 9
    /\ MaxChunks \in Nat /\ MaxMessage \in Nat /\ MaxReason \in Nat
    /\ Room \in Nat /\ PackerSize \in Nat
    /\ SizeLimit \in Nat /\ SizeLimit > 0
BY CodecAssumption

LEMMA Buffer ==
    /\ BufferSize \in Nat /\ BufferSize = MaxPayload + 3
    /\ BufferSize - TokenSize \in Nat /\ BufferSize - TokenSize >= 8
BY Constants DEF BufferSize, PacketHeaderSize, TokenSize

-----------------------------------------------------------------------------
(* Chunks one after the other *)

Chained(s) == \A i \in DOMAIN s : s[i].at = IF i = 1 THEN 0 ELSE End(s[i - 1])

EndOf(s) == IF s = <<>> THEN 0 ELSE End(Last(s))

LEMMA ElementType ==
    ASSUME NEW S, NEW s \in Seq(S), NEW k \in DOMAIN s
    PROVE  s[k] \in S
OBVIOUS

LEMMA Appended ==
    ASSUME NEW S, NEW s \in Seq(S), NEW e \in S
    PROVE  /\ Append(s, e) \in Seq(S) /\ Len(Append(s, e)) = Len(s) + 1
           /\ DOMAIN s = 1 .. Len(s) /\ DOMAIN Append(s, e) = 1 .. Len(s) + 1
           /\ \A i \in 1 .. Len(s) : Append(s, e)[i] = s[i]
           /\ Append(s, e)[Len(s) + 1] = e
           /\ Last(Append(s, e)) = e /\ Append(s, e) # <<>>
           /\ Len(s) \in Nat /\ (s = <<>> <=> Len(s) = 0)
BY DEF Last

LEMMA ChainAppended ==
    ASSUME NEW S, NEW s \in Seq(S), NEW e \in S, Chained(s), e.at = EndOf(s)
    PROVE  Chained(Append(s, e)) /\ EndOf(Append(s, e)) = End(e)
<1> DEFINE t == Append(s, e)
<1>1. /\ Len(s) \in Nat /\ DOMAIN s = 1 .. Len(s) /\ DOMAIN t = 1 .. Len(s) + 1
      /\ \A i \in 1 .. Len(s) : t[i] = s[i]
      /\ t[Len(s) + 1] = e /\ Last(t) = e /\ t # <<>>
      /\ (s = <<>> <=> Len(s) = 0)
    BY Appended
<1> HIDE DEF t
<1>2. ASSUME NEW i \in DOMAIN t
      PROVE  t[i].at = IF i = 1 THEN 0 ELSE End(t[i - 1])
    <2>1. CASE i = Len(s) + 1
        <3>1. CASE Len(s) = 0
            BY <1>1, <2>1, <3>1 DEF EndOf
        <3>2. CASE Len(s) # 0
            <4>1. t[i - 1] = Last(s) /\ t[i] = e /\ i # 1
                BY <1>1, <2>1, <3>2 DEF Last
            <4> QED BY <4>1, <1>1, <3>2 DEF EndOf
        <3> QED BY <3>1, <3>2
    <2>2. CASE i # Len(s) + 1
        <3>1. i \in 1 .. Len(s) /\ (i = 1 \/ i - 1 \in 1 .. Len(s))
            BY <1>1, <1>2, <2>2
        <3>2. t[i] = s[i] /\ (i # 1 => t[i - 1] = s[i - 1])
            BY <3>1, <1>1
        <3> QED BY <3>1, <3>2, <1>1 DEF Chained
    <2> QED BY <2>1, <2>2
<1>3. Chained(t) /\ EndOf(t) = End(e)
    BY <1>1, <1>2 DEF Chained, EndOf
<1> QED BY <1>3 DEF t

-----------------------------------------------------------------------------
(* The inductive invariant *)

OwnChunks == [at : Nat, vital : BOOLEAN, size : 1 .. MaxMessage]

Found == [at : Nat, vital : BOOLEAN, size : 0 .. SizeLimit - 1, snapshot : BOOLEAN]

Wires == [own : BOOLEAN, control : BOOLEAN, compressed : BOOLEAN, num : 0 .. MaxChunks,
          len : Int, chunks : Seq(OwnChunks),
          msg : [kind : ControlKinds \cup {"none"}, reason : Nat]]

Controls == [kind : ControlKinds \cup {"none", "invalid"}, reason : 0 .. BufferSize]

Phases == {"idle", "encoding", "arrived", "chunks", "decoded", "exited", "overrun", "outside"}

Types ==
    /\ phase \in Phases
    /\ wire \in Wires /\ wire.len \in -3 .. IF wire.own THEN Room ELSE BufferSize
    /\ kind \in {"CONNLESS", "CONTROL", "NORMAL"}
    /\ control \in Controls
    /\ chunks \in Seq(Found) /\ buf \in 0 .. BufferSize
    /\ tokenAt \in -1 .. BufferSize - TokenSize
    /\ data \in BOOLEAN
    /\ heap \subseteq {Payload, Array} \cup 1 .. MaxChunks

\* A chunk header has two or three bytes.
LEMMA HeaderLength ==
    ASSUME NEW vital \in BOOLEAN
    PROVE  HeaderSize(vital) \in Nat /\ HeaderSize(vital) >= 2 /\ HeaderSize(vital) <= 3
<1>1. CASE vital = TRUE
    BY <1>1 DEF HeaderSize
<1>2. CASE vital = FALSE
    BY <1>2 DEF HeaderSize
<1> QED BY <1>1, <1>2

\* An encoded chunk ends behind where it starts.
LEMMA ChunkEnd ==
    ASSUME NEW c \in OwnChunks
    PROVE  /\ c.at \in Nat /\ c.size \in Nat /\ c.size <= MaxMessage /\ c.vital \in BOOLEAN
           /\ End(c) \in Nat /\ c.at < End(c)
<1>1. c.at \in Nat /\ c.size \in Nat /\ c.size <= MaxMessage /\ c.vital \in BOOLEAN
    BY Constants DEF OwnChunks
<1>2. /\ HeaderSize(c.vital) \in Nat /\ HeaderSize(c.vital) >= 2
      /\ End(c) = c.at + HeaderSize(c.vital) + c.size
    BY <1>1, HeaderLength DEF End
<1> QED BY <1>1, <1>2

LEMMA NoControlType ==
    /\ NoControl \in Controls /\ -1 \in -1 .. BufferSize - TokenSize
    /\ 0 \in 0 .. BufferSize /\ <<>> \in Seq(Found)
BY Buffer DEF Controls, NoControl

\* The packet on the wire stays, and with it the bounds of its length.
LEMMA NextTypes ==
    ASSUME Types, wire' = wire, phase' \in Phases, kind' \in {"CONNLESS", "CONTROL", "NORMAL"},
           control' \in Controls, chunks' \in Seq(Found), buf' \in 0 .. BufferSize,
           tokenAt' \in -1 .. BufferSize - TokenSize, data' \in BOOLEAN,
           heap' \subseteq {Payload, Array} \cup 1 .. MaxChunks
    PROVE  Types'
BY DEF Types

\* No packet is being decoded, or held decoded.
Waiting == phase \in {"idle", "encoding", "arrived", "overrun"}

\* A packet of this library, as far as it is encoded.
TokenIn == IF phase = "encoding" THEN 0 ELSE TokenSize

NormalFits ==
    /\ wire.num = Len(wire.chunks)
    /\ wire.len = EndOf(wire.chunks) + TokenIn
    /\ EndOf(wire.chunks) \in Nat
    /\ Chained(wire.chunks)
    /\ \A i \in DOMAIN wire.chunks : End(wire.chunks[i]) <= EndOf(wire.chunks)
    /\ \A i, j \in DOMAIN wire.chunks : i < j => wire.chunks[i].at < wire.chunks[j].at

ControlFits ==
    /\ wire.msg.kind \in ControlKinds \ {"CONNECTACCEPT"} /\ wire.msg.reason # 1
    /\ wire.msg.kind # "CLOSE" => wire.msg.reason = 0
    /\ wire.len = ControlSize(wire.msg) + TokenSize

WireFits ==
    /\ phase = "encoding" => wire.own /\ ~wire.control
    /\ wire.own => ~wire.compressed
    /\ wire.own /\ phase # "overrun" => IF wire.control THEN ControlFits ELSE NormalFits

\* Where ddproto_fetch_chunks is in the payload.
Progress ==
    /\ Waiting \/ kind # "NORMAL" => chunks = <<>>
    /\ Len(chunks) <= wire.num
    /\ Chained(chunks)
    /\ \A i \in DOMAIN chunks : End(chunks[i]) <= wire.len
    /\ phase = "chunks" =>
          /\ kind = "NORMAL" /\ ~wire.control /\ err = "NONE" /\ ~data
          /\ Readable
          /\ control = NoControl
          /\ buf = EndOf(chunks) /\ buf <= wire.len
    /\ NormalIsUsedUp

\* What is allocated while a packet is decoded, and when it is not.
Blocks == {i \in DOMAIN chunks : chunks[i].snapshot}

HeapKept ==
    /\ Waiting /\ err = "NONE" => heap = {}
    /\ phase = "chunks" => heap = {Payload, Array} \cup Blocks
    /\ phase = "decoded" /\ err = "NONE" => heap = Held

Inv == Types /\ WireFits /\ Progress /\ HeapKept

LEMMA InvInit == Init => Inv
<1> SUFFICES ASSUME Init PROVE Inv
    OBVIOUS
<1>1. /\ wire \in Wires /\ wire.len = 0 /\ wire.num = 0 /\ ~wire.own /\ Len(<<>>) = 0
      /\ 0 \in -3 .. BufferSize /\ 0 \in 0 .. BufferSize
    BY Constants, Buffer DEF Init, Wires, NoControl
<1>2. Types
    BY <1>1, NoControlType DEF Init, Types, Phases
<1>3. WireFits /\ Progress /\ HeapKept
    BY <1>1, Constants
    DEF Init, WireFits, Progress, HeapKept, Waiting, Chained, NormalIsUsedUp
<1> QED BY <1>2, <1>3 DEF Inv

-----------------------------------------------------------------------------
(* Encoding *)

\* The steps before a packet is decoded touch the packet only.
LEMMA NewWire ==
    ASSUME Inv, Waiting, Waiting', wire' \in Wires, WireFits',
           wire'.len \in -3 .. IF wire'.own THEN Room ELSE BufferSize,
           wire'.num \in Nat, UNCHANGED <<decodeVars, heap>>
    PROVE  Inv'
<1> USE DEF decodeVars
<1>1. Types'
    BY DEF Inv, Types, Waiting, Phases
<1>2. chunks' = <<>> /\ Len(<<>>) = 0
    BY DEF Inv, Progress
<1>3. Progress'
    BY <1>2 DEF Progress, Waiting, Chained, NormalIsUsedUp
<1>4. HeapKept'
    BY DEF Inv, HeapKept, Waiting
<1> QED BY <1>1, <1>3, <1>4 DEF Inv

\* What is written too far is not on the wire.
LEMMA OverrunInv ==
    ASSUME Inv, Waiting, phase' = "overrun", UNCHANGED wire, UNCHANGED <<decodeVars, heap>>
    PROVE  Inv'
<1>1. wire' \in Wires /\ wire'.num \in Nat /\ Waiting'
    BY Constants DEF Inv, Types, Wires, Waiting
<1>2. WireFits'
    BY DEF Inv, WireFits
<1>3. wire'.len \in -3 .. IF wire'.own THEN Room ELSE BufferSize
    BY DEF Inv, Types
<1> QED BY <1>1, <1>2, <1>3, NewWire

LEMMA StartPacketInv == Inv /\ StartPacket => Inv'
<1> SUFFICES ASSUME Inv, StartPacket PROVE Inv'
    OBVIOUS
<1>1. wire' = [own |-> TRUE, control |-> FALSE, compressed |-> FALSE, num |-> 0, len |-> 0,
               chunks |-> <<>>, msg |-> NoControl]
    BY DEF StartPacket, OwnPacket
<1>2. wire' \in Wires /\ wire'.len \in -3 .. Room /\ wire'.own /\ wire'.num \in Nat
    BY <1>1, Constants DEF Wires, NoControl
<1>3. WireFits'
    <2>1. /\ wire'.chunks = <<>> /\ wire'.num = 0 /\ wire'.len = 0 /\ wire'.own /\ ~wire'.control
          /\ ~wire'.compressed
        BY <1>1
    <2>2. phase' = "encoding"
        BY DEF StartPacket
    <2>3. NormalFits'
        BY <2>2, <2>1 DEF NormalFits, TokenIn, EndOf, Chained
    <2> QED BY <2>2, <2>1, <2>3 DEF WireFits
<1> QED BY <1>2, <1>3, NewWire DEF StartPacket, Waiting

LEMMA EncodeChunkInv ==
    ASSUME Inv, NEW vital \in BOOLEAN, NEW size \in 1 .. MaxMessage, EncodeChunk(vital, size)
    PROVE  Inv'
<1> DEFINE e == [at |-> wire.len, vital |-> vital, size |-> size]
           s == wire.chunks
           after == wire.len + HeaderSize(vital) + size
<1>0. after \in Int
    <2>1. wire.len \in Int
        BY DEF Inv, Types, Wires
    <2>2. HeaderSize(vital) \in Int /\ size \in Int
        BY Constants, HeaderLength
    <2> QED BY <2>1, <2>2, SMT
<1> SUFFICES ASSUME after <= Room PROVE Inv'
    <2>1. phase = "encoding" /\ UNCHANGED <<decodeVars, heap>>
        BY DEF EncodeChunk, Write
    <2>3. CASE after <= Room
        BY <2>3
    <2>4. CASE ~(after <= Room)
        <3>1. phase' = "overrun" /\ UNCHANGED wire
            BY <2>4 DEF EncodeChunk, Write
        <3> QED BY <2>1, <3>1, OverrunInv DEF Waiting
    <2> QED BY <2>3, <2>4
<1>1. /\ phase = "encoding" /\ UNCHANGED <<decodeVars, heap>>
      /\ Len(s) < MaxChunks
      /\ wire' = [wire EXCEPT !.num = @ + 1, !.len = after, !.chunks = Append(@, e)]
      /\ phase' = "encoding"
    <2>1. Room \in Int
        BY Constants
    <2> HIDE DEF after
    <2>2. ~(after > Room)
        BY <1>0, <2>1, SMT
    <2> USE DEF after
    <2> QED BY <2>2 DEF EncodeChunk, Write
<1>2. /\ wire \in Wires /\ wire.own /\ ~wire.control /\ s \in Seq(OwnChunks)
      /\ wire.len \in Int /\ wire.num \in Nat
    BY <1>1, Constants DEF Inv, Types, WireFits, Wires
<1>3. NormalFits
    BY <1>1, <1>2 DEF Inv, WireFits
<1>4. wire.len = EndOf(s) /\ wire.len \in Nat
    BY <1>1, <1>2, <1>3 DEF NormalFits, TokenIn
<1>5. e \in OwnChunks /\ e.at = EndOf(s) /\ End(e) = after /\ after \in Nat /\ after > wire.len
    <2>1. e \in OwnChunks /\ e.at = EndOf(s) /\ e.at = wire.len
        BY <1>4, Constants DEF OwnChunks
    <2>2. End(e) = after
        BY DEF End
    <2> QED BY <2>1, <2>2, ChunkEnd
<1>6. /\ wire'.chunks = Append(s, e) /\ wire'.num = wire.num + 1 /\ wire'.len = after
      /\ wire'.own /\ ~wire'.control /\ wire'.msg = wire.msg /\ wire'.compressed = wire.compressed
    BY <1>1, <1>2 DEF Wires
<1> HIDE DEF e
<1>7. /\ Append(s, e) \in Seq(OwnChunks) /\ Len(Append(s, e)) = Len(s) + 1
      /\ DOMAIN s = 1 .. Len(s) /\ DOMAIN Append(s, e) = 1 .. Len(s) + 1
      /\ \A i \in 1 .. Len(s) : Append(s, e)[i] = s[i]
      /\ Append(s, e)[Len(s) + 1] = e /\ Len(s) \in Nat
    BY <1>2, <1>5, Appended
<1>8. Chained(Append(s, e)) /\ EndOf(Append(s, e)) = after
    BY <1>2, <1>3, <1>5, ChainAppended DEF NormalFits
<1>9. ASSUME NEW i \in DOMAIN s
      PROVE  /\ s[i] \in OwnChunks /\ s[i].at \in Nat /\ End(s[i]) \in Nat
             /\ s[i].at < End(s[i]) /\ End(s[i]) <= wire.len
    <2>1. s[i] \in OwnChunks
        BY <1>2, <1>9, ElementType
    <2>2. End(s[i]) <= wire.len
        BY <1>3, <1>4 DEF NormalFits, EndOf
    <2> QED BY <2>1, <2>2, ChunkEnd
<1>10. \A i \in 1 .. Len(s) + 1 : End(Append(s, e)[i]) <= after
    <2> SUFFICES ASSUME NEW i \in 1 .. Len(s) + 1 PROVE End(Append(s, e)[i]) <= after
        OBVIOUS
    <2>1. CASE i = Len(s) + 1
        BY <2>1, <1>5, <1>7
    <2>2. CASE i # Len(s) + 1
        <3>1. i \in DOMAIN s /\ Append(s, e)[i] = s[i]
            BY <2>2, <1>7
        <3>2. End(s[i]) \in Nat /\ End(s[i]) <= wire.len
            BY <3>1, <1>9
        <3> QED BY <3>1, <3>2, <1>4, <1>5
    <2> QED BY <2>1, <2>2
<1>11. \A i, j \in 1 .. Len(s) + 1 : i < j => Append(s, e)[i].at < Append(s, e)[j].at
    <2> SUFFICES ASSUME NEW i \in 1 .. Len(s) + 1, NEW j \in 1 .. Len(s) + 1, i < j
                 PROVE  Append(s, e)[i].at < Append(s, e)[j].at
        OBVIOUS
    <2>1. i \in DOMAIN s /\ Append(s, e)[i] = s[i]
        BY <1>7
    <2>2. CASE j = Len(s) + 1
        BY <2>1, <2>2, <1>4, <1>5, <1>7, <1>9
    <2>3. CASE j # Len(s) + 1
        <3>1. j \in DOMAIN s /\ Append(s, e)[j] = s[j]
            BY <2>3, <1>7
        <3>2. s[i].at < s[j].at
            BY <2>1, <3>1, <1>3 DEF NormalFits
        <3> QED BY <2>1, <3>1, <3>2
    <2> QED BY <2>2, <2>3
<1>12. NormalFits'
    <2>1. wire'.num = Len(wire'.chunks)
        BY <1>3, <1>6, <1>7 DEF NormalFits
    <2>2. TokenIn' = 0
        BY <1>1 DEF TokenIn
    <2> QED BY <2>1, <2>2, <1>1, <1>5, <1>6, <1>7, <1>8, <1>10, <1>11 DEF NormalFits
<1>13. wire' \in Wires
    <2>1. wire.num + 1 \in 0 .. MaxChunks
        BY <1>1, <1>2, <1>3, <1>7, Constants DEF NormalFits
    <2>2. after \in Int
        BY <1>5
    <2> QED BY <2>1, <2>2, <1>1, <1>2, <1>7 DEF Wires
<1>14. WireFits'
    BY <1>2, <1>6, <1>12 DEF WireFits, Inv
<1>15. wire'.len \in -3 .. Room
    BY <1>5, <1>6, Constants
<1> QED BY <1>1, <1>2, <1>6, <1>13, <1>14, <1>15, NewWire DEF Waiting

LEMMA EncodeTokenInv == Inv /\ EncodeToken => Inv'
<1> SUFFICES ASSUME Inv, EncodeToken PROVE Inv'
    OBVIOUS
<1> DEFINE after == wire.len + TokenSize
<1>1. phase = "encoding" /\ UNCHANGED <<decodeVars, heap>>
    BY DEF EncodeToken, Write
<1>2. /\ wire \in Wires /\ wire.own /\ ~wire.control /\ wire.num \in Nat /\ ~wire.compressed
      /\ after \in Int
    BY <1>1, Constants DEF Inv, Types, WireFits, Wires, TokenSize
<1>3. CASE after > Room
    <2>1. phase' = "overrun" /\ UNCHANGED wire
        BY <1>2, <1>3, Constants DEF EncodeToken, Write
    <2> QED BY <2>1, <1>1, OverrunInv DEF Waiting
<1>4. CASE ~(after > Room)
    <2>1. phase' = "arrived" /\ wire' = [wire EXCEPT !.len = @ + TokenSize]
        BY <1>4 DEF EncodeToken, Write
    <2>2. NormalFits /\ wire.len = EndOf(wire.chunks)
        BY <1>1, <1>2 DEF Inv, WireFits, NormalFits, TokenIn, Wires
    <2>3. /\ wire'.chunks = wire.chunks /\ wire'.num = wire.num /\ wire'.own = wire.own
          /\ wire'.control = wire.control /\ wire'.len = after
          /\ wire'.compressed = wire.compressed
        BY <2>1, <1>2 DEF Wires
    <2>4. wire' \in Wires
        BY <2>1, <1>2 DEF Wires
    <2>5. NormalFits'
        BY <2>1, <2>2, <2>3 DEF NormalFits, TokenIn
    <2>6. WireFits'
        BY <2>1, <1>2, <2>3, <2>5 DEF WireFits
    <2>7. wire'.len \in -3 .. Room
        BY <1>4, <2>2, <2>3, Constants DEF NormalFits, TokenSize
    <2> QED BY <1>1, <1>2, <2>1, <2>3, <2>4, <2>6, <2>7, NewWire DEF Waiting
<1> QED BY <1>3, <1>4

LEMMA ControlSizes ==
    ASSUME NEW msg, msg.reason \in Nat
    PROVE  PackedReason(msg) \in Nat /\ ControlSize(msg) \in Nat /\ ControlSize(msg) >= 1
BY Constants DEF PackedReason, ControlSize, TokenSize

LEMMA EncodeControlInv ==
    ASSUME Inv, NEW msg \in [kind : ControlKinds, reason : 0 .. MaxReason], EncodeControl(msg)
    PROVE  Inv'
<1> DEFINE len == ControlSize(msg) + TokenSize
<1>1. /\ phase = "idle" /\ UNCHANGED <<decodeVars, heap>>
      /\ msg.kind # "CONNECTACCEPT" /\ msg.reason # 1
      /\ msg.kind # "CLOSE" => msg.reason = 0
      /\ \/ len <= Room /\ wire' = OwnPacket(TRUE, len, msg) /\ phase' = "arrived"
         \/ phase' = "overrun" /\ UNCHANGED wire
    BY DEF EncodeControl, Write
<1>2. len \in Nat /\ msg.reason \in Nat
    BY ControlSizes, Constants DEF TokenSize
<1>3. CASE phase' = "overrun" /\ UNCHANGED wire
    BY <1>1, <1>3, OverrunInv DEF Waiting
<1>4. CASE len <= Room /\ wire' = OwnPacket(TRUE, len, msg) /\ phase' = "arrived"
    <2> HIDE DEF len
    <2>1. wire' = [own |-> TRUE, control |-> TRUE, compressed |-> FALSE, num |-> 0,
                   len |-> len, chunks |-> <<>>, msg |-> msg]
        BY <1>4 DEF OwnPacket
    <2>2. wire' \in Wires /\ wire'.num \in Nat
        BY <2>1, <1>2, Constants DEF Wires
    <2>3. wire'.own /\ wire'.len = len /\ wire'.control /\ ~wire'.compressed /\ wire'.msg = msg
        BY <2>1
    <2>4. wire'.len \in -3 .. Room
        <3>1. len \in Nat /\ len <= Room /\ Room \in Nat /\ wire'.len = len
            BY <1>2, <1>4, <2>3, Constants
        <3> HIDE <1>4, <2>1
        <3> QED BY <3>1
    <2>5. ControlFits'
        BY <1>1, <2>3 DEF ControlFits, len
    <2>6. WireFits'
        BY <1>4, <2>3, <2>5 DEF WireFits
    <2> QED BY <1>1, <1>4, <2>2, <2>3, <2>4, <2>6, NewWire DEF Waiting
<1> QED BY <1>1, <1>3, <1>4

LEMMA ForeignInv ==
    ASSUME Inv, NEW isControl \in BOOLEAN, NEW compressed \in BOOLEAN,
           NEW num \in 0 .. MaxChunks, NEW len \in -3 .. BufferSize,
           Foreign(isControl, compressed, num, len)
    PROVE  Inv'
<1>1. /\ phase = "idle" /\ phase' = "arrived" /\ UNCHANGED <<decodeVars, heap>>
      /\ wire' = [own |-> FALSE, control |-> isControl, compressed |-> compressed, num |-> num,
                  len |-> len, chunks |-> <<>>, msg |-> NoControl]
    BY DEF Foreign
<1>2. wire' \in Wires /\ wire'.num \in Nat /\ wire'.len \in -3 .. BufferSize /\ ~wire'.own
    BY <1>1, Constants DEF Wires, NoControl
<1>3. WireFits'
    BY <1>1 DEF WireFits
<1> QED BY <1>1, <1>2, <1>3, NewWire DEF Waiting

-----------------------------------------------------------------------------
(* Decoding.  The packet stays what it is. *)

LEMMA WireStays ==
    ASSUME Inv, wire' = wire, phase \notin {"idle", "encoding", "overrun"},
           phase' # "encoding"
    PROVE  WireFits'
<1>1. TokenIn' = TokenIn
    BY DEF TokenIn
<1>2. NormalFits' <=> NormalFits
    BY <1>1 DEF NormalFits
<1>3. ControlFits' <=> ControlFits
    BY DEF ControlFits
<1> QED BY <1>2, <1>3 DEF Inv, WireFits

\* A packet that is returned without chunks.
LEMMA NoChunksFound ==
    ASSUME Inv, chunks' = <<>>, wire' = wire, phase' \in {"decoded", "idle", "exited", "outside"},
           kind' # "NORMAL" \/ phase' # "decoded"
    PROVE  Progress'
<1>1. wire.num >= 0 /\ Len(<<>>) = 0
    BY Constants DEF Inv, Types, Wires
<1> QED BY <1>1 DEF Progress, Chained, NormalIsUsedUp

LEMMA DecodeInvalidInv == Inv /\ DecodeInvalid => Inv'
<1> SUFFICES ASSUME Inv, DecodeInvalid PROVE Inv'
    OBVIOUS
<1>1. /\ phase = "arrived" /\ phase' = "decoded" /\ err' = "INVALID_PACKET" /\ tokenAt' = -1
      /\ kind' = "CONNLESS" /\ control' = NoControl /\ chunks' = <<>> /\ data' = FALSE
      /\ wire' = wire /\ buf' = buf /\ heap' = heap
    BY DEF DecodeInvalid, Return
<1>2. Types'
    <2>1. phase' \in Phases /\ buf' \in 0 .. BufferSize
        BY <1>1, NoControlType DEF Inv, Types, Phases
    <2>2. heap' \subseteq {Payload, Array} \cup 1 .. MaxChunks
        BY <1>1 DEF Inv, Types
    <2> QED BY <1>1, <2>1, <2>2, NoControlType, NextTypes DEF Inv
<1>3. WireFits'
    BY <1>1, WireStays
<1>4. Progress'
    BY <1>1, NoChunksFound
<1>5. HeapKept'
    BY <1>1 DEF HeapKept, Waiting
<1> QED BY <1>2, <1>3, <1>4, <1>5 DEF Inv

LEMMA DecompressFailsInv == Inv /\ DecompressFails => Inv'
<1> SUFFICES ASSUME Inv, DecompressFails PROVE Inv'
    OBVIOUS
<1>1. /\ phase = "arrived" /\ phase' = "decoded" /\ err' = "HUFFMAN" /\ tokenAt' = -1
      /\ kind' = "CONNLESS" /\ control' = NoControl /\ chunks' = <<>> /\ data' = FALSE
      /\ wire' = wire /\ buf' = buf /\ heap' = {Payload}
    BY DEF DecompressFails, Return
<1>2. Types'
    <2>1. phase' \in Phases /\ buf' \in 0 .. BufferSize
        BY <1>1, NoControlType DEF Inv, Types, Phases
    <2>2. heap' \subseteq {Payload, Array} \cup 1 .. MaxChunks
        BY <1>1 DEF Inv, Types
    <2> QED BY <1>1, <2>1, <2>2, NoControlType, NextTypes DEF Inv
<1>3. WireFits'
    BY <1>1, WireStays
<1>4. Progress'
    BY <1>1, NoChunksFound
<1>5. HeapKept'
    BY <1>1 DEF HeapKept, Waiting
<1> QED BY <1>2, <1>3, <1>4, <1>5 DEF Inv

LEMMA ControlAsType ==
    ASSUME Inv, wire.control, phase = "arrived", Readable, NEW m \in ControlAs
    PROVE  /\ m.kind \in ControlKinds \cup {"invalid"} /\ m.reason \in 0 .. BufferSize
           /\ wire.own => /\ m = [kind |-> wire.msg.kind, reason |-> PackedReason(wire.msg)]
                          /\ m.reason \in Nat /\ wire.len \in 0 .. MaxPayload
                          /\ wire.msg.kind \in ControlKinds \ {"CONNECTACCEPT"}
<1>1. CASE wire.own
    <2>1. m = [kind |-> wire.msg.kind, reason |-> PackedReason(wire.msg)]
        BY <1>1 DEF ControlAs
    <2>2. /\ wire.msg.kind \in ControlKinds \ {"CONNECTACCEPT"} /\ wire.msg.reason \in Nat
          /\ wire.msg.kind # "CLOSE" => wire.msg.reason = 0
          /\ wire.len = ControlSize(wire.msg) + TokenSize
          /\ wire.len \in 0 .. MaxPayload
        BY <1>1 DEF Inv, WireFits, ControlFits, Types, Wires, Readable, Longest
    <2>3. PackedReason(wire.msg) \in Nat /\ PackedReason(wire.msg) <= ControlSize(wire.msg)
        BY <2>2, Constants DEF PackedReason, ControlSize, TokenSize
    <2>4. PackedReason(wire.msg) \in 0 .. BufferSize
        BY <2>2, <2>3, ControlSizes, Constants, Buffer DEF TokenSize
    <2> QED BY <2>1, <2>2, <2>4
<1>2. CASE ~wire.own
    BY <1>2, Constants DEF ControlAs
<1> QED BY <1>1, <1>2

LEMMA DecodeControlInv ==
    ASSUME Inv, NEW m \in ControlAs, NEW magic \in BOOLEAN, DecodeControl(m, magic)
    PROVE  Inv'
<1>1. /\ phase = "arrived" /\ wire.control /\ Readable
      /\ heap' = {Payload} /\ kind' = "CONTROL" /\ chunks' = <<>> /\ data' = FALSE
      /\ wire' = wire /\ buf' = buf
    BY DEF DecodeControl
<1>2. m.kind \in ControlKinds \cup {"invalid"} /\ m.reason \in 0 .. BufferSize
    BY <1>1, ControlAsType
<1>3. control' \in Controls /\ control'.reason \in 0 .. BufferSize
    BY <1>2, Constants, Buffer DEF DecodeControl, Controls
<1>4. /\ phase' \in {"decoded", "outside"}
      /\ tokenAt' \in -1 .. BufferSize - TokenSize
    <2>1. CASE phase' = "decoded" /\ tokenAt' \in {0, 1 + TokenSize}
        BY <2>1, Constants, Buffer DEF TokenSize
    <2>2. CASE TokenBehind(1 + control'.reason)
        <3>1. 1 + control'.reason \in Nat /\ tokenAt \in -1 .. BufferSize - TokenSize
            BY <1>3, Constants DEF Inv, Types
        <3> QED BY <2>2, <3>1, Constants, Buffer DEF TokenBehind, Return, TokenSize
    <2> QED BY <2>1, <2>2 DEF DecodeControl, Return
<1>5. Types'
    <2>1. /\ phase' \in Phases /\ buf' \in 0 .. BufferSize
          /\ heap' \subseteq {Payload, Array} \cup 1 .. MaxChunks
        BY <1>1, <1>4 DEF Inv, Types, Phases
    <2> QED BY <1>1, <1>3, <2>1, <1>4, NoControlType, NextTypes DEF Inv
<1>6. WireFits'
    BY <1>1, <1>4, WireStays
<1>7. Progress'
    BY <1>1, <1>4, NoChunksFound
<1>8. HeapKept'
    BY <1>1, <1>4 DEF HeapKept, Waiting, Held
<1> QED BY <1>5, <1>6, <1>7, <1>8 DEF Inv

LEMMA DecodeNormalInv == Inv /\ DecodeNormal => Inv'
<1> SUFFICES ASSUME Inv, DecodeNormal PROVE Inv'
    OBVIOUS
<1>1. /\ phase = "arrived" /\ ~wire.control /\ Readable
      /\ phase' = "chunks" /\ heap' = {Payload, Array}
      /\ kind' = "NORMAL" /\ control' = NoControl /\ chunks' = <<>> /\ data' = FALSE
      /\ buf' = 0 /\ tokenAt' = -1 /\ err' = "NONE" /\ wire' = wire
    BY DEF DecodeNormal
<1>2. 0 \in 0 .. BufferSize /\ Len(<<>>) = 0 /\ wire.num >= 0 /\ wire.len >= 0
    BY <1>1, Constants, Buffer DEF Inv, Types, Wires, Readable
<1>3. Readable'
    BY <1>1 DEF Readable, Longest
<1>4. Types'
    <2>1. phase' \in Phases /\ buf' \in 0 .. BufferSize
        BY <1>1, NoControlType DEF Inv, Types, Phases
    <2>2. heap' \subseteq {Payload, Array} \cup 1 .. MaxChunks
        BY <1>1 DEF Inv, Types
    <2> QED BY <1>1, <2>1, <2>2, NoControlType, NextTypes DEF Inv
<1>5. WireFits'
    BY <1>1, WireStays
<1>6. Progress'
    BY <1>1, <1>2, <1>3 DEF Progress, Waiting, Chained, EndOf, NormalIsUsedUp
<1>7. HeapKept'
    BY <1>1 DEF HeapKept, Waiting, Blocks
<1> QED BY <1>4, <1>5, <1>6, <1>7 DEF Inv

-----------------------------------------------------------------------------
(* ddproto_fetch_chunks *)

\* What a round of the loop starts from.
LEMMA LoopFacts ==
    ASSUME Inv, phase = "chunks"
    PROVE  /\ wire \in Wires /\ wire.num \in 0 .. MaxChunks /\ wire.len \in 0 .. BufferSize
           /\ Readable
           /\ ~wire.control /\ kind = "NORMAL" /\ err = "NONE" /\ ~data /\ control = NoControl
           /\ chunks \in Seq(Found) /\ Len(chunks) \in Nat /\ Len(chunks) <= wire.num
           /\ Chained(chunks) /\ \A i \in DOMAIN chunks : End(chunks[i]) <= wire.len
           /\ buf \in Nat /\ buf = EndOf(chunks) /\ buf <= wire.len
           /\ heap = {Payload, Array} \cup Blocks
           /\ Space = wire.len - buf
<1>1. Readable /\ wire.len \in Int
    BY DEF Inv, Types, Wires, Progress
<1>2. wire.len \in 0 .. BufferSize
    BY <1>1, Constants, Buffer DEF Readable, Longest
<1> QED BY <1>1, <1>2, Constants DEF Inv, Types, Wires, Progress, HeapKept, Space

\* The header at buf has the types of a chunk header.
LEMMA HeaderType ==
    ASSUME Inv, phase = "chunks", NEW h \in HeadersHere
    PROVE  h.vital \in BOOLEAN /\ h.size \in 0 .. SizeLimit - 1
<1>1. CASE OwnHere = {}
    BY <1>1 DEF HeadersHere
<1>2. CASE OwnHere # {}
    <2>1. PICK i \in OwnHere :
              h = [vital |-> wire.chunks[i].vital, size |-> wire.chunks[i].size % SizeLimit]
        BY <1>2 DEF HeadersHere
    <2>2. wire.chunks \in Seq(OwnChunks) /\ i \in DOMAIN wire.chunks
        BY <2>1 DEF OwnHere, Inv, Types, Wires
    <2>3. wire.chunks[i] \in OwnChunks
        BY <2>2, ElementType
    <2>4. wire.chunks[i].vital \in BOOLEAN /\ wire.chunks[i].size \in Nat
        BY <2>3, Constants DEF OwnChunks
    <2> QED BY <2>1, <2>4, Constants
<1> QED BY <1>1, <1>2

\* The loop ends with an error and has found nothing more.
LEMMA FetchFails ==
    ASSUME Inv, phase = "chunks", phase' = "decoded", err' # "NONE",
           tokenAt' \in -1 .. BufferSize - TokenSize,
           UNCHANGED <<wire, kind, control, chunks, buf, data, heap>>
    PROVE  Inv'
<1>1. Types'
    BY DEF Inv, Types, Phases
<1>2. WireFits'
    BY WireStays
<1>3. Progress'
    BY DEF Inv, Progress, Waiting, Chained, NormalIsUsedUp
<1>4. HeapKept'
    BY DEF Inv, HeapKept, Waiting
<1> QED BY <1>1, <1>2, <1>3, <1>4 DEF Inv

LEMMA FetchTooShortInv == Inv /\ FetchTooShort => Inv'
<1> SUFFICES ASSUME Inv, FetchTooShort PROVE Inv'
    OBVIOUS
<1>1. /\ phase = "chunks" /\ phase' = "decoded" /\ err' = "END_OF_BUFFER" /\ tokenAt' = -1
      /\ UNCHANGED <<wire, kind, control, chunks, buf, data, heap>>
    BY DEF FetchTooShort, InLoop, Return
<1> QED BY <1>1, NoControlType, FetchFails

LEMMA FetchCutInv ==
    ASSUME Inv, NEW h, FetchCut(h)
    PROVE  Inv'
<1>1. /\ phase = "chunks" /\ phase' = "decoded" /\ err' = "END_OF_BUFFER" /\ tokenAt' = -1
      /\ UNCHANGED <<wire, kind, control, chunks, buf, data, heap>>
    BY DEF FetchCut, InLoop, Return
<1> QED BY <1>1, NoControlType, FetchFails

\* What on_chunk does to the chunks and the heap.
LEMMA ChunkFound ==
    ASSUME Inv, phase = "chunks", Len(chunks) # wire.num, wire' = wire,
           NEW h \in HeadersHere, NEW snapshot \in BOOLEAN, ~Cut(h), OnChunk(h, snapshot)
    PROVE  /\ chunks' \in Seq(Found) /\ Len(chunks') = Len(chunks) + 1
           /\ Len(chunks') <= wire.num /\ chunks' # <<>>
           /\ Chained(chunks') /\ \A i \in DOMAIN chunks' : End(chunks'[i]) <= wire.len
           /\ EndOf(chunks') = buf + HeaderSize(h.vital) + h.size
           /\ EndOf(chunks') \in Nat /\ EndOf(chunks') <= wire.len
           /\ heap' = {Payload, Array} \cup Blocks'
           /\ Blocks' \subseteq 1 .. MaxChunks
<1> DEFINE e == [at |-> buf, vital |-> h.vital, size |-> h.size, snapshot |-> snapshot]
<1>1. /\ wire.num \in 0 .. MaxChunks /\ wire.len \in Nat
      /\ chunks \in Seq(Found) /\ Len(chunks) \in Nat /\ Len(chunks) <= wire.num
      /\ Chained(chunks) /\ \A i \in DOMAIN chunks : End(chunks[i]) <= wire.len
      /\ buf \in Nat /\ buf = EndOf(chunks) /\ buf <= wire.len
      /\ heap = {Payload, Array} \cup Blocks /\ Space = wire.len - buf
    BY LoopFacts, Constants
<1>2. h.vital \in BOOLEAN /\ h.size \in 0 .. SizeLimit - 1
    BY HeaderType
<1>3. e \in Found /\ e.at = EndOf(chunks) /\ e.snapshot = snapshot
    BY <1>1, <1>2 DEF Found
<1>4. End(e) = buf + HeaderSize(h.vital) + h.size /\ End(e) \in Nat
    <2>1. End(e) = buf + HeaderSize(h.vital) + h.size
        BY DEF End
    <2> QED BY <2>1, <1>1, <1>2, HeaderLength, Constants
<1>5. End(e) <= wire.len
    <2>1. ~(Space - HeaderSize(h.vital) < h.size)
        BY DEF Cut
    <2>2. HeaderSize(h.vital) \in Nat /\ h.size \in Nat
        BY <1>2, HeaderLength, Constants
    <2> HIDE DEF e
    <2> QED BY <2>1, <2>2, <1>1, <1>4
<1>6. /\ chunks' = Append(chunks, e)
      /\ heap' = IF snapshot THEN heap \cup {Len(chunks')} ELSE heap
    BY DEF OnChunk
<1> HIDE DEF e
<1>7. /\ chunks' \in Seq(Found) /\ Len(chunks') = Len(chunks) + 1 /\ chunks' # <<>>
      /\ DOMAIN chunks = 1 .. Len(chunks) /\ DOMAIN chunks' = 1 .. Len(chunks) + 1
      /\ \A i \in 1 .. Len(chunks) : chunks'[i] = chunks[i]
      /\ chunks'[Len(chunks) + 1] = e
    BY <1>1, <1>3, <1>6, Appended
<1>8. Chained(chunks') /\ EndOf(chunks') = End(e)
    BY <1>1, <1>3, <1>6, ChainAppended
<1>9. ASSUME NEW i \in DOMAIN chunks' PROVE End(chunks'[i]) <= wire.len
    <2>1. CASE i = Len(chunks) + 1
        BY <2>1, <1>5, <1>7
    <2>2. CASE i # Len(chunks) + 1
        BY <2>2, <1>1, <1>7
    <2> QED BY <2>1, <2>2
<1>10. Blocks' = Blocks \cup (IF snapshot THEN {Len(chunks) + 1} ELSE {})
    BY <1>1, <1>3, <1>7 DEF Blocks
<1>11. heap' = {Payload, Array} \cup Blocks'
    BY <1>1, <1>6, <1>7, <1>10
<1>12. Len(chunks') <= wire.num /\ Len(chunks') <= MaxChunks
    BY <1>1, <1>7, Constants
<1>13. Blocks' \subseteq 1 .. MaxChunks
    <2>1. Blocks' \subseteq 1 .. Len(chunks) + 1
        BY <1>7 DEF Blocks
    <2> QED BY <2>1, <1>1, <1>7, <1>12, Constants
<1> QED BY <1>4, <1>5, <1>7, <1>8, <1>9, <1>11, <1>12, <1>13

LEMMA FetchMessageInv ==
    ASSUME Inv, NEW h \in HeadersHere, NEW snapshot \in BOOLEAN, FetchMessage(h, snapshot)
    PROVE  Inv'
<1>1. /\ phase = "chunks" /\ Len(chunks) # wire.num /\ ~Cut(h) /\ OnChunk(h, snapshot)
      /\ buf' = buf + HeaderSize(h.vital) + h.size
      /\ UNCHANGED <<phase, wire, kind, control, tokenAt, err, data>>
    BY DEF FetchMessage, InLoop
<1>2. /\ chunks' \in Seq(Found) /\ Len(chunks') = Len(chunks) + 1
      /\ Len(chunks') <= wire.num /\ chunks' # <<>>
      /\ Chained(chunks') /\ \A i \in DOMAIN chunks' : End(chunks'[i]) <= wire.len
      /\ EndOf(chunks') = buf' /\ buf' \in Nat /\ buf' <= wire.len
      /\ heap' = {Payload, Array} \cup Blocks' /\ Blocks' \subseteq 1 .. MaxChunks
    BY <1>1, ChunkFound
<1>3. /\ wire.len \in 0 .. BufferSize /\ ~wire.control /\ kind = "NORMAL" /\ err = "NONE"
      /\ ~data /\ control = NoControl /\ Readable'
    BY <1>1, LoopFacts DEF Readable, Longest
<1>4. buf' \in 0 .. BufferSize
    BY <1>2, <1>3, Constants, Buffer
<1>5. heap' \subseteq {Payload, Array} \cup 1 .. MaxChunks
    BY <1>2
<1>6. Types'
    BY <1>1, <1>2, <1>4, <1>5 DEF Inv, Types
<1>7. WireFits'
    BY <1>1, WireStays
<1>8. Progress'
    BY <1>1, <1>2, <1>3 DEF Progress, Waiting, Chained, EndOf, NormalIsUsedUp
<1>9. HeapKept'
    BY <1>1, <1>2 DEF HeapKept, Waiting
<1> QED BY <1>6, <1>7, <1>8, <1>9 DEF Inv

LEMMA FetchUndecodableInv ==
    ASSUME Inv, NEW h \in HeadersHere, NEW snapshot \in BOOLEAN, FetchUndecodable(h, snapshot)
    PROVE  Inv'
<1>1. /\ phase = "chunks" /\ Len(chunks) # wire.num /\ ~Cut(h) /\ OnChunk(h, snapshot)
      /\ phase' = "decoded" /\ err' = "MESSAGE" /\ tokenAt' = -1
      /\ UNCHANGED <<wire, kind, control, buf, data>>
    BY DEF FetchUndecodable, InLoop, Return
<1>2. /\ chunks' \in Seq(Found) /\ Len(chunks') <= wire.num
      /\ Chained(chunks') /\ \A i \in DOMAIN chunks' : End(chunks'[i]) <= wire.len
      /\ heap' = {Payload, Array} \cup Blocks' /\ Blocks' \subseteq 1 .. MaxChunks
    BY <1>1, ChunkFound
<1>3. heap' \subseteq {Payload, Array} \cup 1 .. MaxChunks
    BY <1>2
<1>4. Types'
    BY NoControlType, <1>1, <1>2, <1>3 DEF Inv, Types, Phases
<1>5. WireFits'
    BY <1>1, WireStays
<1>6. Progress'
    <2>1. kind = "NORMAL"
        BY <1>1, LoopFacts
    <2> QED BY <2>1, <1>1, <1>2 DEF Progress, Waiting, Chained, NormalIsUsedUp
<1>7. HeapKept'
    BY <1>1 DEF HeapKept, Waiting
<1> QED BY <1>4, <1>5, <1>6, <1>7 DEF Inv

LEMMA TakeChunksInv == Inv /\ TakeChunks => Inv'
<1> SUFFICES ASSUME Inv, TakeChunks PROVE Inv'
    OBVIOUS
<1>1. /\ phase = "chunks" /\ phase' = "decoded" /\ data' = TRUE /\ Len(chunks) = wire.num
      /\ UNCHANGED <<wire, kind, control, chunks, buf, heap>>
      /\ tokenAt' = -1 \/ (tokenAt' = buf /\ Space = TokenSize)
      /\ err' = "NONE" => Space = TokenSize /\ tokenAt' = buf
    BY DEF TakeChunks, Return
<1>2. /\ wire.len \in 0 .. BufferSize /\ kind = "NORMAL" /\ control = NoControl
      /\ buf \in Nat /\ buf = EndOf(chunks) /\ buf <= wire.len
      /\ heap = {Payload, Array} \cup Blocks /\ Space = wire.len - buf
    BY <1>1, LoopFacts
<1>3. tokenAt' \in -1 .. BufferSize - TokenSize
    BY <1>1, <1>2, Constants, Buffer DEF TokenSize
<1>4. Types'
    BY <1>1, <1>3 DEF Inv, Types, Phases
<1>5. WireFits'
    BY <1>1, WireStays
<1>6. NormalIsUsedUp'
    BY <1>1, <1>2, Constants DEF NormalIsUsedUp, EndOf, TokenSize
<1>7. Progress'
    BY <1>1, <1>6 DEF Inv, Progress, Waiting, Chained
<1>8. HeapKept'
    <2>1. Held' = {Payload, Array} \cup Blocks
        BY <1>1, <1>2 DEF Held, Blocks
    <2> QED BY <2>1, <1>1, <1>2 DEF HeapKept, Waiting
<1> QED BY <1>4, <1>5, <1>7, <1>8 DEF Inv

-----------------------------------------------------------------------------
(* The packet is given back *)

LEMMA FreeInv == Inv /\ Free => Inv'
<1> SUFFICES ASSUME Inv, Free PROVE Inv'
    OBVIOUS
<1>1. /\ phase = "decoded" /\ err = "NONE" /\ phase' = "idle" /\ data' = FALSE /\ chunks' = <<>>
      /\ heap' = heap \ Held
      /\ UNCHANGED <<wire, kind, control, buf, tokenAt, err>>
    BY DEF Free
<1>2. <<>> \in Seq(Found) /\ heap' = {}
    BY <1>1 DEF Inv, HeapKept
<1>3. Types'
    BY <1>1, <1>2 DEF Inv, Types, Phases
<1>4. WireFits'
    BY <1>1, WireStays
<1>5. Progress'
    BY <1>1, NoChunksFound
<1>6. HeapKept'
    BY <1>1, <1>2 DEF HeapKept, Waiting
<1> QED BY <1>3, <1>4, <1>5, <1>6 DEF Inv

LEMMA IgnoreInv == Inv /\ Ignore => Inv'
<1> SUFFICES ASSUME Inv, Ignore PROVE Inv'
    OBVIOUS
<1>1. /\ phase = "decoded" /\ err # "NONE" /\ kind = "CONNLESS" /\ phase' = "idle"
      /\ UNCHANGED <<wire, kind, control, chunks, buf, tokenAt, err, data, heap>>
    BY DEF Ignore, decodeVars
<1>2. Types'
    BY <1>1 DEF Inv, Types, Phases
<1>3. WireFits'
    BY <1>1, WireStays
<1>4. chunks' = <<>>
    BY <1>1 DEF Inv, Progress
<1>5. Progress'
    BY <1>1, <1>4, NoChunksFound
<1>6. HeapKept'
    BY <1>1 DEF HeapKept, Waiting
<1> QED BY <1>2, <1>3, <1>5, <1>6 DEF Inv

LEMMA ExitInv == Inv /\ Exit => Inv'
<1> SUFFICES ASSUME Inv, Exit PROVE Inv'
    OBVIOUS
<1>1. /\ phase = "decoded" /\ phase' = "exited"
      /\ UNCHANGED <<wire, kind, control, chunks, buf, tokenAt, err, data, heap>>
    BY DEF Exit, decodeVars
<1>2. Types'
    BY <1>1 DEF Inv, Types, Phases
<1>3. WireFits'
    BY <1>1, WireStays
<1>4. Progress'
    BY <1>1 DEF Inv, Progress, Waiting, Chained, NormalIsUsedUp
<1>5. HeapKept'
    BY <1>1 DEF HeapKept, Waiting
<1> QED BY <1>2, <1>3, <1>4, <1>5 DEF Inv

-----------------------------------------------------------------------------
LEMMA DecodeInv == Inv /\ Decode => Inv'
<1> SUFFICES ASSUME Inv, Decode PROVE Inv'
    OBVIOUS
<1>1. CASE DecodeInvalid \/ DecompressFails \/ DecodeNormal
    BY <1>1, DecodeInvalidInv, DecompressFailsInv, DecodeNormalInv
<1>2. ASSUME NEW m \in ControlAs, NEW magic \in BOOLEAN, DecodeControl(m, magic) PROVE Inv'
    BY <1>2, DecodeControlInv
<1>3. CASE FetchTooShort \/ TakeChunks
    BY <1>3, FetchTooShortInv, TakeChunksInv
<1>4. ASSUME NEW h \in HeadersHere, FetchCut(h) PROVE Inv'
    BY <1>4, FetchCutInv
<1>5. ASSUME NEW h \in HeadersHere, NEW snapshot \in BOOLEAN,
             FetchMessage(h, snapshot) \/ FetchUndecodable(h, snapshot)
      PROVE  Inv'
    BY <1>5, FetchMessageInv, FetchUndecodableInv
<1> QED BY <1>1, <1>2, <1>3, <1>4, <1>5 DEF Decode

LEMMA InvStep == Inv /\ [Next]_vars => Inv'
<1> SUFFICES ASSUME Inv, [Next]_vars PROVE Inv'
    OBVIOUS
<1>1. CASE StartPacket \/ EncodeToken
    BY <1>1, StartPacketInv, EncodeTokenInv
<1>2. ASSUME NEW vital \in BOOLEAN, NEW size \in 1 .. MaxMessage, EncodeChunk(vital, size)
      PROVE  Inv'
    BY <1>2, EncodeChunkInv
<1>3. ASSUME NEW msg \in [kind : ControlKinds, reason : 0 .. MaxReason], EncodeControl(msg)
      PROVE  Inv'
    BY <1>3, EncodeControlInv
<1>4. ASSUME NEW isControl \in BOOLEAN, NEW compressed \in BOOLEAN, NEW num \in 0 .. MaxChunks,
             NEW len \in -3 .. BufferSize, Foreign(isControl, compressed, num, len)
      PROVE  Inv'
    BY <1>4, ForeignInv
<1>5. CASE Decode
    BY <1>5, DecodeInv
<1>6. CASE Free \/ Ignore \/ Exit
    BY <1>6, FreeInv, IgnoreInv, ExitInv
<1>7. CASE UNCHANGED vars
    <2>1. UNCHANGED <<phase, wire, kind, control, chunks, buf, tokenAt, err, data, heap>>
        BY <1>7 DEF vars
    <2>2. Types'
        BY <2>1 DEF Inv, Types
    <2>3. WireFits'
        BY <2>1 DEF Inv, WireFits, NormalFits, ControlFits, TokenIn
    <2>4. Progress'
        BY <2>1 DEF Inv, Progress, Waiting, Chained, NormalIsUsedUp, Readable, Longest
    <2>5. HeapKept'
        BY <2>1 DEF Inv, HeapKept, Waiting, Blocks, Held
    <2> QED BY <2>2, <2>3, <2>4, <2>5 DEF Inv
<1> QED BY <1>1, <1>2, <1>3, <1>4, <1>5, <1>6, <1>7 DEF Next, Encode

THEOREM InvHolds == Spec => []Inv
BY InvInit, InvStep, PTL DEF Spec

(* Whatever arrives and whatever is encoded, each variable has its type:   *)
(* the cursor stays in the buffer of the payload, the chunks are no more   *)
(* than the array has room for, and a token that is read lies in that      *)
(* buffer, but of a control packet perhaps behind the payload.  Behind the *)
(* buffer, and behind that of the sender, the model ends.                  *)
THEOREM CodecTypes == Spec => []TypeOK
<1>1. Inv => TypeOK
    BY Constants DEF Inv, Types, Progress, TypeOK, Wires, Controls, Phases
<1> QED BY <1>1, InvHolds, PTL

(* Whatever a packet holds, the chunks ddproto_fetch_chunks hands out lie  *)
(* in the payload, one directly after the other, and are no more than the  *)
(* array has room for.                                                     *)
THEOREM ChunksStayInPayload == Spec => []ChunksInPayload
<1>1. Inv => ChunksInPayload
    BY DEF Inv, Progress, Chained, ChunksInPayload
<1> QED BY <1>1, InvHolds, PTL

(* A normal packet decoded without an error is its chunks and the token,   *)
(* and nothing else.                                                       *)
THEOREM NothingIsLeft == Spec => []NormalIsUsedUp
<1>1. Inv => NormalIsUsedUp
    BY DEF Inv, Progress
<1> QED BY <1>1, InvHolds, PTL

(* ddproto_free_packet frees all that was allocated for a packet that was  *)
(* decoded without an error.                                               *)
THEOREM HandledPacketsAreFreed == Spec => []HandledIsFreed
<1>1. Inv => HandledIsFreed
    BY DEF Inv, HeapKept, Waiting, HandledIsFreed
<1> QED BY <1>1, InvHolds, PTL

-----------------------------------------------------------------------------
(* Packets of this library.  The size of a message must fit its field; the *)
(* code tests it against another limit.                                    *)

Same(c, d) == c.at = d.at /\ c.vital = d.vital /\ c.size = d.size

\* What was found so far is what was encoded.
Matching ==
    phase = "chunks" /\ wire.own =>
        \A i \in DOMAIN chunks : i \in DOMAIN wire.chunks /\ Same(chunks[i], wire.chunks[i])

OwnInv == Inv /\ Matching /\ OwnPacketsDecode

LEMMA OwnFacts ==
    ASSUME Inv, wire.own, ~wire.control, phase \notin {"encoding", "overrun"}
    PROVE  /\ wire.num = Len(wire.chunks) /\ Len(wire.chunks) \in Nat
           /\ wire.len = EndOf(wire.chunks) + TokenSize /\ EndOf(wire.chunks) \in Nat
           /\ DOMAIN wire.chunks = 1 .. Len(wire.chunks) /\ Chained(wire.chunks)
           /\ \A i \in DOMAIN wire.chunks :
                 wire.chunks[i] \in OwnChunks /\ End(wire.chunks[i]) <= EndOf(wire.chunks)
           /\ \A i, j \in DOMAIN wire.chunks : i < j => wire.chunks[i].at < wire.chunks[j].at
<1>1. NormalFits /\ TokenIn = TokenSize
    BY DEF Inv, WireFits, TokenIn
<1>2. wire.chunks \in Seq(OwnChunks)
    BY DEF Inv, Types, Wires
<1>3. \A i \in DOMAIN wire.chunks : wire.chunks[i] \in OwnChunks
    BY <1>2, ElementType
<1>4. Len(wire.chunks) \in Nat /\ DOMAIN wire.chunks = 1 .. Len(wire.chunks)
    BY <1>2
<1> QED BY <1>1, <1>3, <1>4 DEF NormalFits

\* Where the loop is, the next chunk of the sender starts, and no other.
LEMMA OwnNext ==
    ASSUME MaxMessage < SizeLimit, Inv, Matching, InLoop, wire.own
    PROVE  LET k == Len(chunks) + 1
           IN  /\ k \in DOMAIN wire.chunks /\ OwnHere = {k}
               /\ wire.chunks[k] \in OwnChunks /\ wire.chunks[k].at = buf
               /\ End(wire.chunks[k]) + TokenSize <= wire.len
               /\ \A h \in HeadersHere :
                     h.vital = wire.chunks[k].vital /\ h.size = wire.chunks[k].size
<1> DEFINE k == Len(chunks) + 1
           n == Len(chunks)
<1>1. phase = "chunks" /\ Len(chunks) # wire.num
    BY DEF InLoop
<1>2. /\ ~wire.control /\ n \in Nat /\ n <= wire.num /\ buf = EndOf(chunks) /\ wire.num \in Nat
      /\ wire.len \in Nat /\ buf \in Nat /\ chunks \in Seq(Found)
    BY <1>1, LoopFacts, Constants
<1>3. /\ wire.num = Len(wire.chunks) /\ wire.len = EndOf(wire.chunks) + TokenSize
      /\ EndOf(wire.chunks) \in Nat
      /\ DOMAIN wire.chunks = 1 .. Len(wire.chunks) /\ Chained(wire.chunks)
      /\ \A i \in DOMAIN wire.chunks :
            wire.chunks[i] \in OwnChunks /\ End(wire.chunks[i]) <= EndOf(wire.chunks)
      /\ \A i, j \in DOMAIN wire.chunks : i < j => wire.chunks[i].at < wire.chunks[j].at
    BY <1>1, <1>2, OwnFacts
<1>4. k \in DOMAIN wire.chunks /\ k \in Nat /\ (chunks = <<>> <=> n = 0)
    BY <1>1, <1>2, <1>3
<1>5. wire.chunks[k].at = IF k = 1 THEN 0 ELSE End(wire.chunks[k - 1])
    BY <1>3, <1>4 DEF Chained
<1>6. wire.chunks[k].at = buf
    <2>1. CASE n = 0
        BY <2>1, <1>2, <1>4, <1>5 DEF EndOf
    <2>2. CASE n # 0
        <3>1. n \in DOMAIN chunks /\ k - 1 = n /\ k # 1 /\ Last(chunks) = chunks[n]
            BY <2>2, <1>2 DEF Last
        <3>2. Same(chunks[n], wire.chunks[n])
            BY <3>1, <1>1 DEF Matching
        <3>3. End(chunks[n]) = End(wire.chunks[n])
            BY <3>2 DEF Same, End
        <3> QED BY <2>2, <3>1, <3>3, <1>2, <1>4, <1>5 DEF EndOf
    <2> QED BY <2>1, <2>2
<1>7. ASSUME NEW i \in DOMAIN wire.chunks, wire.chunks[i].at = buf PROVE i = k
    <2>1. wire.chunks[i] \in OwnChunks /\ wire.chunks[k] \in OwnChunks
        BY <1>3, <1>4
    <2>2. ~(i < k) /\ ~(k < i)
        BY <2>1, <1>3, <1>4, <1>6, <1>7 DEF OwnChunks
    <2> QED BY <2>2, <1>2, <1>3, <1>4
<1>8. OwnHere = {k}
    BY <1>4, <1>6, <1>7 DEF OwnHere
<1>9. wire.chunks[k] \in OwnChunks /\ End(wire.chunks[k]) <= EndOf(wire.chunks)
    BY <1>3, <1>4
<1>10. End(wire.chunks[k]) + TokenSize <= wire.len
    <2>1. End(wire.chunks[k]) \in Nat
        BY <1>9, ChunkEnd
    <2> QED BY <2>1, <1>3, <1>9 DEF TokenSize
<1>11. wire.chunks[k].size % SizeLimit = wire.chunks[k].size
    <2>1. wire.chunks[k].size \in Nat /\ wire.chunks[k].size < SizeLimit
        BY <1>9, ChunkEnd, Constants
    <2> QED BY <2>1, Constants
<1>12. ASSUME NEW h \in HeadersHere
       PROVE  h.vital = wire.chunks[k].vital /\ h.size = wire.chunks[k].size
    <2>1. PICK i \in OwnHere :
              h = [vital |-> wire.chunks[i].vital, size |-> wire.chunks[i].size % SizeLimit]
        BY <1>8 DEF HeadersHere
    <2>2. i = k
        BY <2>1, <1>8
    <2> QED BY <2>1, <2>2, <1>11
<1> QED BY <1>4, <1>6, <1>8, <1>9, <1>10, <1>12

LEMMA OwnDoesNotFail ==
    ASSUME MaxMessage < SizeLimit, Inv, Matching, InLoop, wire.own
    PROVE  Space >= 4 /\ \A h \in HeadersHere : ~Cut(h) /\ OwnMessage(h)
<1> DEFINE c == wire.chunks[Len(chunks) + 1]
<1>1. /\ OwnHere = {Len(chunks) + 1}
      /\ c \in OwnChunks /\ c.at = buf /\ End(c) + TokenSize <= wire.len
      /\ \A h \in HeadersHere : h.vital = c.vital /\ h.size = c.size
    BY OwnNext
<1> HIDE DEF c
<1>2. /\ c.vital \in BOOLEAN /\ c.size \in Nat /\ buf \in Nat /\ wire.len \in Nat
      /\ Space = wire.len - buf
    BY <1>1, ChunkEnd, LoopFacts, Constants DEF InLoop
<1>3. HeaderSize(c.vital) \in Nat /\ Space >= HeaderSize(c.vital) + c.size + 4
    <2>1. HeaderSize(c.vital) \in Nat
        BY <1>2, HeaderLength
    <2>2. End(c) = buf + HeaderSize(c.vital) + c.size
        BY <1>1 DEF End
    <2> QED BY <2>1, <2>2, <1>1, <1>2 DEF TokenSize
<1>4. Space >= 4
    BY <1>2, <1>3
<1>5. ASSUME NEW h \in HeadersHere PROVE ~Cut(h)
    BY <1>1, <1>2, <1>3 DEF Cut
<1>6. ASSUME NEW h \in HeadersHere PROVE OwnMessage(h)
    BY <1>1 DEF OwnMessage, c
<1> QED BY <1>4, <1>5, <1>6

LEMMA OwnFetched ==
    ASSUME MaxMessage < SizeLimit, OwnInv, NEW h \in HeadersHere, NEW snapshot \in BOOLEAN,
           FetchMessage(h, snapshot)
    PROVE  Matching'
<1> DEFINE n == Len(chunks)
           e == [at |-> buf, vital |-> h.vital, size |-> h.size, snapshot |-> snapshot]
<1>1. /\ InLoop /\ phase = "chunks" /\ phase' = "chunks" /\ wire' = wire
      /\ chunks' = Append(chunks, e)
    BY DEF FetchMessage, InLoop, OnChunk
<1> SUFFICES ASSUME wire.own, NEW i \in DOMAIN chunks'
             PROVE  i \in DOMAIN wire.chunks /\ Same(chunks'[i], wire.chunks[i])
    BY <1>1 DEF Matching
<1>2. /\ n + 1 \in DOMAIN wire.chunks /\ wire.chunks[n + 1].at = buf
      /\ h.vital = wire.chunks[n + 1].vital /\ h.size = wire.chunks[n + 1].size
    BY <1>1, OwnNext DEF OwnInv
<1>3. chunks \in Seq(Found) /\ buf \in Nat
    BY <1>1, LoopFacts DEF OwnInv
<1>4. e \in Found
    BY <1>1, <1>3, HeaderType DEF Found, OwnInv
<1>5. /\ n \in Nat /\ DOMAIN chunks = 1 .. n /\ DOMAIN chunks' = 1 .. n + 1
      /\ \A j \in 1 .. n : chunks'[j] = chunks[j]
      /\ chunks'[n + 1] = e
    BY <1>1, <1>3, <1>4, Appended
<1>6. CASE i = n + 1
    BY <1>2, <1>5, <1>6 DEF Same
<1>7. CASE i # n + 1
    <2>1. i \in DOMAIN chunks /\ chunks'[i] = chunks[i]
        BY <1>5, <1>7
    <2> QED BY <2>1, <1>1 DEF OwnInv, Matching
<1> QED BY <1>6, <1>7

LEMMA OwnTaken ==
    ASSUME OwnInv, TakeChunks
    PROVE  OwnPacketsDecode'
<1>1. /\ phase = "chunks" /\ phase' = "decoded" /\ Len(chunks) = wire.num
      /\ UNCHANGED <<wire, kind, control, chunks, buf, heap>>
    BY DEF TakeChunks, Return
<1> SUFFICES ASSUME wire.own
             PROVE  /\ err' = "NONE" /\ tokenAt' + TokenSize = wire.len /\ ~wire.control
                    /\ kind = "NORMAL" /\ Len(chunks) = Len(wire.chunks)
                    /\ \A i \in DOMAIN chunks : Same(chunks[i], wire.chunks[i])
    <2>1. wire.own => wire.len \in 0 .. MaxPayload
        BY <1>1, LoopFacts DEF OwnInv, Inv, WireFits, Readable, Longest
    <2>2. wire.own => ~(wire.len > MaxPayload)
        BY <2>1, Constants
    <2> QED BY <1>1, <2>2 DEF OwnPacketsDecode, Same
<1>2. /\ ~wire.control /\ kind = "NORMAL" /\ buf = EndOf(chunks) /\ buf \in Nat
      /\ chunks \in Seq(Found) /\ Space = wire.len - buf
    BY <1>1, LoopFacts DEF OwnInv
<1>3. /\ wire.num = Len(wire.chunks) /\ wire.len = EndOf(wire.chunks) + TokenSize
      /\ DOMAIN wire.chunks = 1 .. Len(wire.chunks)
    BY <1>1, <1>2, OwnFacts DEF OwnInv
<1>4. \A i \in DOMAIN chunks : i \in DOMAIN wire.chunks /\ Same(chunks[i], wire.chunks[i])
    BY <1>1 DEF OwnInv, Matching
<1>5. EndOf(wire.chunks) = buf
    <2>1. wire.chunks \in Seq(OwnChunks)
        BY DEF OwnInv, Inv, Types, Wires
    <2>2. CASE chunks = <<>>
        BY <2>1, <2>2, <1>1, <1>2, <1>3 DEF EndOf
    <2>3. CASE chunks # <<>>
        <3>1. Len(chunks) \in DOMAIN chunks /\ wire.chunks # <<>>
            BY <2>1, <2>3, <1>1, <1>2, <1>3
        <3>2. Same(Last(chunks), Last(wire.chunks))
            BY <3>1, <1>1, <1>3, <1>4 DEF Last
        <3> QED BY <2>3, <3>1, <3>2, <1>2 DEF EndOf, Same, End
    <2> QED BY <2>2, <2>3
<1>6. Space = TokenSize
    BY <1>2, <1>3, <1>5 DEF TokenSize
<1>7. err' = "NONE" /\ tokenAt' = buf
    BY <1>6 DEF TakeChunks, Return, TokenSize
<1> QED BY <1>1, <1>2, <1>3, <1>4, <1>5, <1>7

LEMMA OwnControl ==
    ASSUME Inv, NEW m \in ControlAs, NEW magic \in BOOLEAN, DecodeControl(m, magic)
    PROVE  OwnPacketsDecode'
<1>1. /\ phase = "arrived" /\ wire.control /\ wire' = wire /\ Readable
      /\ kind' = "CONTROL"
    BY DEF DecodeControl
<1> SUFFICES ASSUME wire.own
             PROVE  /\ phase' = "decoded" /\ err' = "NONE" /\ tokenAt' + TokenSize = wire.len
                    /\ control' = [kind |-> wire.msg.kind, reason |-> PackedReason(wire.msg)]
                    /\ ~(wire.len > MaxPayload)
    BY <1>1 DEF OwnPacketsDecode
<1>2. /\ m = [kind |-> wire.msg.kind, reason |-> PackedReason(wire.msg)] /\ magic
      /\ m.reason \in Nat /\ wire.len \in 0 .. MaxPayload
    BY <1>1, ControlAsType DEF DecodeControl
<1>3. /\ m.kind \in {"KEEPALIVE", "CONNECT", "ACCEPT", "CLOSE"}
      /\ wire.msg.reason \in Nat /\ wire.msg.reason # 1
      /\ m.kind # "CLOSE" => wire.msg.reason = 0
      /\ wire.len = ControlSize(wire.msg) + TokenSize
    BY <1>1, <1>2 DEF Inv, WireFits, ControlFits, ControlKinds, Types, Wires
<1>4. /\ m.reason # 1
      /\ m.kind # "CLOSE" => m.reason = 0
      /\ wire.len = 1 + (IF m.kind = "CONNECT" THEN 4 ELSE m.reason) + 4
    BY <1>2, <1>3, Constants DEF PackedReason, ControlSize, TokenSize
<1>5. m.kind = "CLOSE" => (ReasonFollows <=> m.reason # 0)
    BY <1>2, <1>4 DEF ReasonFollows, TokenSize
<1>6. control' = m /\ control'.reason = m.reason
    <2>1. control' = [kind |-> m.kind,
                      reason |-> IF m.kind = "CLOSE" /\ ReasonFollows THEN m.reason ELSE 0]
        BY DEF DecodeControl
    <2>2. CASE m.kind = "CLOSE"
        BY <2>1, <2>2, <1>2, <1>5
    <2>3. CASE m.kind # "CLOSE"
        <3>1. m.reason = 0 /\ control' = [kind |-> m.kind, reason |-> 0]
            BY <2>1, <2>3, <1>4
        <3> QED BY <3>1, <1>2
    <2> QED BY <2>2, <2>3
<1>7. CASE m.kind = "CONNECT"
    <2>1. Return("NONE", 1 + TokenSize)
        BY <1>2, <1>7 DEF DecodeControl
    <2> QED BY <2>1, <1>2, <1>4, <1>6, <1>7, Constants DEF Return, TokenSize
<1>8. CASE m.kind # "CONNECT"
    <2>1. TokenBehind(1 + m.reason)
        BY <1>2, <1>3, <1>6, <1>8 DEF DecodeControl
    <2>2. (1 + m.reason) + TokenSize = wire.len
        BY <1>2, <1>4, <1>8 DEF TokenSize
    <2>3. wire.len <= BufferSize /\ wire.len \in Nat /\ BufferSize \in Nat
        BY <1>2, Constants, Buffer
    <2>4. ~((1 + m.reason) + TokenSize > BufferSize)
        BY <2>2, <2>3
    <2>5. Return("NONE", 1 + m.reason)
        BY <2>1, <2>4 DEF TokenBehind
    <2> QED BY <2>2, <2>3, <2>5, <1>2, <1>6, Constants DEF Return
<1> QED BY <1>7, <1>8

LEMMA OwnInit == Init => OwnInv
<1>1. Init => Matching /\ OwnPacketsDecode
    BY DEF Init, Matching, OwnPacketsDecode
<1> QED BY <1>1, InvInit DEF OwnInv

\* A packet of this library that is too long, and no other, is invalid.
LEMMA OwnInvalid == Inv /\ wire.own /\ DecodeInvalid => OwnPacketsDecode'
<1> SUFFICES ASSUME Inv, wire.own, DecodeInvalid PROVE OwnPacketsDecode'
    OBVIOUS
<1>1. /\ phase = "arrived" /\ ~Readable /\ wire' = wire /\ phase' = "decoded"
      /\ err' = "INVALID_PACKET" /\ kind' = "CONNLESS" /\ chunks' = <<>>
    BY DEF DecodeInvalid, Return
<1>2. ~wire.compressed /\ wire.len \in Int
    BY DEF Inv, WireFits, Types, Wires
<1>3. wire.len >= 0
    <2>1. CASE wire.control
        <3>1. ControlFits /\ wire.msg.reason \in Nat
            BY <2>1, <1>1 DEF Inv, WireFits, Types, Wires
        <3> QED BY <3>1, ControlSizes DEF ControlFits, TokenSize
    <2>2. CASE ~wire.control
        BY <2>2, <1>1, OwnFacts DEF TokenSize
    <2> QED BY <2>1, <2>2
<1>4. wire.len > MaxPayload
    BY <1>1, <1>2, <1>3, Constants DEF Readable, Longest
<1> QED BY <1>1, <1>4 DEF OwnPacketsDecode

LEMMA OwnStep ==
    ASSUME MaxMessage < SizeLimit, OwnInv, [Next]_vars
    PROVE  OwnInv'
<1> DEFINE Goal == Matching' /\ OwnPacketsDecode'
<1>1. Inv'
    BY InvStep DEF OwnInv
<1>2. ASSUME phase' \notin {"chunks", "decoded", "outside"} PROVE Goal
    BY <1>2 DEF Matching, OwnPacketsDecode
<1>3. ASSUME phase' = "decoded", ~wire'.own PROVE Goal
    BY <1>3 DEF Matching, OwnPacketsDecode
<1>4. ASSUME StartPacket \/ EncodeToken \/ Free \/ Ignore \/ Exit PROVE Goal
    BY <1>2, <1>4 DEF StartPacket, EncodeToken, Write, Free, Ignore, Exit
<1>5. ASSUME NEW vital \in BOOLEAN, NEW size \in 1 .. MaxMessage, EncodeChunk(vital, size)
      PROVE  Goal
    BY <1>2, <1>5 DEF EncodeChunk, Write
<1>6. ASSUME NEW msg \in [kind : ControlKinds, reason : 0 .. MaxReason], EncodeControl(msg)
      PROVE  Goal
    BY <1>2, <1>6 DEF EncodeControl, Write
<1>7. ASSUME NEW isControl \in BOOLEAN, NEW compressed \in BOOLEAN, NEW num \in 0 .. MaxChunks,
             NEW len \in -3 .. BufferSize, Foreign(isControl, compressed, num, len)
      PROVE  Goal
    BY <1>2, <1>7 DEF Foreign
<1>8. ASSUME DecodeInvalid \/ DecompressFails PROVE Goal
    <2>1. wire' = wire /\ phase' = "decoded"
        BY <1>8 DEF DecodeInvalid, DecompressFails, Return
    <2>2. CASE ~wire.own
        BY <2>1, <2>2, <1>3
    <2>3. CASE wire.own
        <3>1. DecodeInvalid
            BY <1>8, <2>3 DEF DecompressFails, OwnInv, Inv, WireFits
        <3>2. OwnPacketsDecode'
            BY <3>1, <2>3, OwnInvalid DEF OwnInv
        <3> QED BY <2>1, <3>2 DEF Matching
    <2> QED BY <2>2, <2>3
<1>9. ASSUME DecodeNormal PROVE Goal
    BY <1>9 DEF DecodeNormal, Matching, OwnPacketsDecode
<1>10. ASSUME NEW m \in ControlAs, NEW magic \in BOOLEAN, DecodeControl(m, magic) PROVE Goal
    <2>1. phase' # "chunks"
        BY <1>10 DEF DecodeControl, Return, TokenBehind
    <2>2. OwnPacketsDecode'
        BY <1>10, OwnControl DEF OwnInv
    <2> QED BY <2>1, <2>2 DEF Matching
<1>11. ASSUME FetchTooShort PROVE Goal
    <2>1. InLoop /\ Space < 4 /\ wire' = wire /\ phase' = "decoded"
        BY <1>11 DEF FetchTooShort, Return
    <2>2. Space \in Int
        BY <2>1, LoopFacts DEF InLoop, OwnInv
    <2>3. ~wire.own
        BY <2>1, <2>2, OwnDoesNotFail DEF OwnInv
    <2> QED BY <2>1, <2>3, <1>3
<1>12. ASSUME NEW h \in HeadersHere, FetchCut(h) PROVE Goal
    <2>1. InLoop /\ Cut(h) /\ wire' = wire /\ phase' = "decoded"
        BY <1>12 DEF FetchCut, Return
    <2>2. ~wire.own
        BY <2>1, <1>12, OwnDoesNotFail DEF OwnInv
    <2> QED BY <2>1, <2>2, <1>3
<1>13. ASSUME NEW h \in HeadersHere, NEW snapshot \in BOOLEAN, FetchUndecodable(h, snapshot)
       PROVE  Goal
    <2>1. InLoop /\ ~OwnMessage(h) /\ wire' = wire /\ phase' = "decoded"
        BY <1>13 DEF FetchUndecodable, Return
    <2>2. ~wire.own
        BY <2>1, <1>13, OwnDoesNotFail DEF OwnInv
    <2> QED BY <2>1, <2>2, <1>3
<1>14. ASSUME NEW h \in HeadersHere, NEW snapshot \in BOOLEAN, FetchMessage(h, snapshot)
       PROVE  Goal
    <2>1. Matching'
        BY <1>14, OwnFetched
    <2>2. phase' = "chunks"
        BY <1>14 DEF FetchMessage, InLoop
    <2> QED BY <2>1, <2>2 DEF OwnPacketsDecode
<1>15. ASSUME TakeChunks PROVE Goal
    <2>1. phase' = "decoded"
        BY <1>15 DEF TakeChunks, Return
    <2> QED BY <2>1, <1>15, OwnTaken DEF Matching
<1>16. ASSUME UNCHANGED vars PROVE Goal
    BY <1>16 DEF vars, OwnInv, Matching, OwnPacketsDecode
<1>17. Goal
    BY <1>4, <1>5, <1>6, <1>7, <1>8, <1>9, <1>10, <1>11, <1>12, <1>13, <1>14, <1>15, <1>16
    DEF Next, Encode, Decode
<1> QED BY <1>1, <1>17 DEF OwnInv

(* A packet this library encodes, and that fits its caller's buffer, is    *)
(* decoded to the same chunks or the same control message, and the token   *)
(* is found; or it is longer than a packet may be, and refused as a whole. *)
(* The size of a message must fit the field of the chunk header.           *)
THEOREM OwnPacketsAreDecoded ==
    ASSUME MaxMessage < SizeLimit
    PROVE  Spec => []OwnPacketsDecode
<1>1. OwnInv /\ [Next]_vars => OwnInv'
    BY OwnStep
<1>2. OwnInv => OwnPacketsDecode
    BY DEF OwnInv
<1> QED BY <1>1, <1>2, OwnInit, PTL DEF Spec
=============================================================================
