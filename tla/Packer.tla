------------------------------- MODULE Packer -------------------------------
(***************************************************************************)
(* DDProtoPacker and DDProtoUnpacker of src/src/packer.c.  A sender packs  *)
(* integers, strings and raw data into a bounded buffer, as                *)
(* ddproto_encode_message does; a receiver unpacks them, as                *)
(* ddproto_decode_message does, or unpacks anything at all from bytes of a *)
(* foreign sender.  Both look at the error only at the end.  Behind the    *)
(* data lies other memory, and a string that is not there is read from it. *)
(***************************************************************************)
EXTENDS VarInt, SequencesExt

CONSTANTS
    BufferSize,   \* DDPROTO_PACKER_BUFFER_SIZE
    MaxItems,     \* bound: items packed, and items unpacked
    Ints,         \* integers packed
    Strings,      \* strings packed, without their terminator
    Raws,         \* raw data packed
    ForeignData,  \* what a foreign sender sends
    Behind,       \* what may be in memory behind the data, as far as it is known
    Sanitizing    \* DDProtoStringSanitize: sets of the bits below

ASSUME PackerAssumption ==
    /\ BufferSize \in Nat /\ MaxItems \in Nat /\ Ints \subseteq Int32
    /\ Strings \subseteq Seq(Byte \ {0}) /\ Raws \cup ForeignData \cup Behind \subseteq Seq(Byte)
    /\ Sanitizing \subseteq SUBSET {"SANITIZE", "SANITIZE_CC", "SKIP_START_WHITESPACES"}

VARIABLES
    phase,   \* "packing", "unpacking", or "outside": more is read than is known
             \* of the memory
    data,    \* the bytes before packer.current; then those unpacked
    packErr, \* packer.err
    items,   \* history: what was packed, whether or not it went in
    own,     \* data is from a packer that had no error
    behind,  \* the memory from unpacker.buf_end on
    at,      \* unpacker.buf, as an offset
    err,     \* unpacker.err
    got,     \* history: what was unpacked
    read     \* history: the bytes of each item that was there

vars == <<phase, data, packErr, items, own, behind, at, err, got, read>>

Init ==
    /\ phase = "packing" /\ data = <<>> /\ packErr = "NONE" /\ items = <<>>
    /\ own = TRUE /\ behind = <<>> /\ at = 0 /\ err = "NONE" /\ got = <<>> /\ read = <<>>

----------------------------------------------------------------------------
(* DDProtoPacker *)

Remaining == BufferSize - Len(data)

Packing(item) ==
    /\ phase = "packing" /\ Len(items) < MaxItems
    /\ items' = Append(items, item)
    /\ UNCHANGED <<phase, own, behind, at, err, got, read>>

Full == packErr' = "BUFFER_FULL"

\* ddproto_packer_add_int.  When the room ends in the middle, the bytes before
\* the last one of the buffer stay packed.
AddIntBytes(bytes) ==
    \/ Remaining >= Len(bytes) /\ data' = data \o bytes /\ UNCHANGED packErr
    \/ Remaining = 0 /\ Full /\ UNCHANGED data
    \/ /\ Remaining \in 1 .. Len(bytes) - 1
       /\ Full /\ data' = data \o SubSeq(bytes, 1, Remaining - 1)

AddInt(value) == Packing([type |-> "int", value |-> value]) /\ AddIntBytes(EncodeInt(value))

\* A bool is packed as an integer.
AddBool(b) ==
    Packing([type |-> "bool", value |-> b]) /\ AddIntBytes(EncodeInt(IF b THEN 1 ELSE 0))

\* A variant of AddBytes with an error: a call that succeeds clears the error.
AddBytesForgetting(bytes) ==
    \/ Remaining >= Len(bytes) /\ data' = data \o bytes /\ packErr' = "NONE"
    \/ Remaining < Len(bytes) /\ Full /\ UNCHANGED data

\* A variant of AddBytes with an error: no room is kept for the terminator.
AddBytesOneMore(bytes) ==
    \/ Remaining + 1 >= Len(bytes) /\ data' = data \o bytes /\ UNCHANGED packErr
    \/ Remaining + 1 < Len(bytes) /\ Full /\ UNCHANGED data

\* All the bytes or none, in ddproto_packer_add_string and _add_raw.
AddBytes(bytes) ==
    \/ Remaining >= Len(bytes) /\ data' = data \o bytes /\ UNCHANGED packErr
    \/ Remaining < Len(bytes) /\ Full /\ UNCHANGED data

AddString(s) == Packing([type |-> "string", value |-> s]) /\ AddBytes(Append(s, 0))

AddRaw(d) == Packing([type |-> "raw", value |-> d]) /\ AddBytes(d)

----------------------------------------------------------------------------
(* DDProtoUnpacker *)

\* The packed data is unpacked.  Whoever sees an error sends nothing.
Unpack(m) ==
    /\ phase = "packing" /\ packErr = "NONE" /\ phase' = "unpacking"
    /\ behind' = m
    /\ UNCHANGED <<data, packErr, items, own, at, err, got, read>>

UnpackForeign(d, m) ==
    /\ phase = "packing" /\ items = <<>> /\ phase' = "unpacking"
    /\ data' = d /\ own' = FALSE /\ behind' = m
    /\ UNCHANGED <<packErr, items, at, err, got, read>>

\* The receiver of packed data knows the type of the next item.
Unpacking(type) ==
    /\ phase = "unpacking" /\ Len(got) < MaxItems
    /\ own => Len(got) < Len(items) /\ items[Len(got) + 1].type = type
    /\ UNCHANGED <<data, packErr, items, own, behind>>

memory == data \o behind

\* The bytes of m from unpacker.buf on.
Unread(m) == SubSeq(m, at + 1, Len(m))

\* What ddproto_unpacker_remaining_size counts.  Once buf is past buf_end the
\* difference is a size_t of some eighteen digits: all there is in memory.
Left == Unread(IF at > Len(data) THEN memory ELSE data)

\* What a string is looked for in.  Its first byte is read before the end of
\* the data is tested, and that test is for being just there: with nothing
\* left the search goes on in the memory behind.
Text == Unread(IF at < Len(data) THEN data ELSE memory)

\* The next n bytes, those b begins with, are taken, and the value is made
\* from them.
Take(b, n, item, error) ==
    /\ at' = at + n /\ err' = error
    /\ got' = Append(got, item) /\ read' = Append(read, SubSeq(b, 1, n))
    /\ UNCHANGED phase

\* There is no such item: the cursor moves by n, and the value is a substitute.
Fail(n, item, error) ==
    /\ at' = at + n /\ err' = error
    /\ got' = Append(got, item)
    /\ UNCHANGED <<phase, read>>

\* The bytes that are read next are not known.
Outside == phase' = "outside" /\ UNCHANGED <<at, err, got, read>>

\* A variant of BoolError with an error: a good value clears the error.
BoolErrorForgetting(value) == IF value \in {0, 1} THEN "NONE" ELSE "INVALID_BOOL"

\* What ddproto_unpacker_get_bool makes of the error.
BoolError(value) == IF value \in {0, 1} THEN err ELSE "INVALID_BOOL"

\* ddproto_unpacker_get_int, which does not look at the error, and
\* ddproto_unpacker_get_bool around it.  An integer cut off leaves the cursor
\* on its last byte.
ReadInt(type) ==
    LET item(value)  == [type |-> type, value |-> IF type = "bool" THEN value = 1 ELSE value]
        error(value) == IF type = "bool" THEN BoolError(value) ELSE err
        Cut == \A n \in 1 .. 5 : ~HasSize(Left, n)
    IN  \/ at = Len(data) /\ Fail(0, item(0), "EMPTY_BUFFER")
        \/ \E n \in 1 .. 5 :
              HasSize(Left, n) /\ Take(Left, n, item(DecodeInt(Left, n)), error(DecodeInt(Left, n)))
        \/ at < Len(data) /\ Cut /\ Fail(Len(Left) - 1, item(0), "END_OF_BUFFER")
        \/ at > Len(data) /\ Cut /\ Outside

GetInt == Unpacking("int") /\ ReadInt("int")

GetBool == Unpacking("bool") /\ ReadInt("bool")

\* ddproto_str_sanitize_cc and ddproto_str_sanitize.
SanitizeCC(s) == [i \in DOMAIN s |-> IF s[i] < 32 THEN 32 ELSE s[i]]
Sanitize(s) == [i \in DOMAIN s |-> IF s[i] < 32 /\ s[i] \notin {9, 10, 13} THEN 32 ELSE s[i]]

\* ddproto_str_clean_whitespaces: what was written, and whether a space was
\* found since.
CleanWhitespaces(s) ==
    LET w[i \in 0 .. Len(s)] ==
            IF i = 0 THEN [out |-> <<>>, found |-> FALSE]
            ELSE LET before == w[i - 1]
                     spaced == IF before.found THEN Append(before.out, 32) ELSE before.out
                 IN  IF s[i] = 32 THEN [before EXCEPT !.found = before.out # <<>>]
                     ELSE [out |-> Append(spaced, s[i]), found |-> FALSE]
    IN  w[Len(s)].out

Sanitized(s, bits) ==
    LET t == IF "SANITIZE" \in bits THEN Sanitize(s)
             ELSE IF "SANITIZE_CC" \in bits THEN SanitizeCC(s) ELSE s
    IN  IF "SKIP_START_WHITESPACES" \in bits THEN CleanWhitespaces(t) ELSE t

\* The place of the terminator.
Terminator(b, n) == n \in DOMAIN b /\ b[n] = 0 /\ \A i \in 1 .. n - 1 : b[i] # 0

\* ddproto_unpacker_get_string_sanitized.  It cleans the string in place,
\* before the cursor, where this unpacker reads nothing again: data and behind
\* keep the bytes as they came.
GetString(bits) ==
    LET string(s) == [type |-> "string", value |-> s, bits |-> bits]
    IN  /\ Unpacking("string")
        /\ \/ err # "NONE" /\ Fail(0, string(<<>>), err)
           \/ /\ err = "NONE"
              /\ \E n \in DOMAIN Text :
                    /\ Terminator(Text, n)
                    /\ Take(Text, n, string(Sanitized(SubSeq(Text, 1, n - 1), bits)), err)
           \/ /\ err = "NONE" /\ at < Len(data) /\ ~Contains(Text, 0)
              /\ Fail(Len(Text), string(<<>>), "STR_UNEXPECTED_EOF")
           \/ err = "NONE" /\ at >= Len(data) /\ ~Contains(Text, 0) /\ Outside

\* ddproto_unpacker_get_raw, which does not look at the error either.
GetRaw(n) ==
    /\ Unpacking("raw")
    /\ own => n = Len(items[Len(got) + 1].value)
    /\ \/ n <= Len(Left) /\ Take(Left, n, [type |-> "raw", value |-> SubSeq(Left, 1, n)], err)
       \/ n > Len(Left) /\ at <= Len(data) /\ Fail(0, [type |-> "raw", value |-> <<>>], "END_OF_BUFFER")
       \/ n > Len(Left) /\ at > Len(data) /\ Outside

Next ==
    \/ \E value \in Ints : AddInt(value)
    \/ \E b \in BOOLEAN : AddBool(b)
    \/ \E s \in Strings : AddString(s)
    \/ \E d \in Raws : AddRaw(d)
    \/ \E m \in Behind : Unpack(m) \/ \E d \in ForeignData : UnpackForeign(d, m)
    \/ GetInt \/ GetBool
    \/ \E bits \in Sanitizing : GetString(bits)
    \/ \E n \in 1 .. BufferSize : GetRaw(n)

Spec == Init /\ [][Next]_vars

----------------------------------------------------------------------------
TypeOK ==
    /\ phase \in {"packing", "unpacking", "outside"}
    /\ \A i \in DOMAIN data : data[i] \in Byte
    /\ phase = "packing" => Len(data) <= BufferSize
    /\ at \in 0 .. Len(memory)
    /\ \A i \in DOMAIN got : got[i].type = "int" => got[i].value \in Int32

\* The string s without control characters, the ones in spared excepted.
WithoutControls(s, spared) == [i \in DOMAIN s |-> IF s[i] \in (1 .. 31) \ spared THEN 32 ELSE s[i]]

\* The string s without the spaces at its ends, and with one between words:
\* of the places of s those stay that are no space, or the first space after
\* a word that another word follows.
Stays(s) == {i \in DOMAIN s :
                \/ s[i] # 32
                \/ i > 1 /\ s[i - 1] # 32 /\ (\E j \in i + 1 .. Len(s) : s[j] # 32)}
Tidy(s) ==
    LET place(n) == CHOOSE i \in Stays(s) : Cardinality({j \in Stays(s) : j <= i}) = n
    IN  [n \in 1 .. Cardinality(Stays(s)) |-> s[place(n)]]

\* What packer.h says that the bits do to a string.
Reading(s, bits) ==
    LET clean == CASE "SANITIZE" \in bits    -> WithoutControls(s, {9, 10, 13})
                   [] bits \cap {"SANITIZE", "SANITIZE_CC"} = {"SANITIZE_CC"} -> WithoutControls(s, {})
                   [] OTHER -> s
    IN  IF "SKIP_START_WHITESPACES" \in bits THEN Tidy(clean) ELSE clean

(* What was packed without an error is unpacked: the same integers and the *)
(* same raw data, the strings but for what was sanitized, without an error *)
(* and with nothing left; an item that did not fit shows in packer.err for *)
(* good, whatever went in after it (ddproto_packer_add_int,                *)
(* ddproto_unpacker_get_int and the others of their kind).                 *)
ItemsReadBack ==
    own => /\ phase # "outside" /\ err = "NONE"
           /\ \A i \in DOMAIN got :
                 IF got[i].type = "string" THEN got[i].value = Reading(items[i].value, got[i].bits)
                 ELSE got[i] = items[i]
           /\ phase = "unpacking" /\ Len(got) = Len(items) => at = Len(data)

(* While data of any sender is unpacked without an error, what was read is *)
(* the memory from the beginning of the data on, item after item with no   *)
(* gap and no overlap, and every bool is one: an item that was cut off or  *)
(* invalid shows in unpacker.err for good.  So does one that is missing,   *)
(* but for a string: no item of any other type is the first to be read     *)
(* from behind the data, nor any item that only begins in it               *)
(* (ddproto_unpacker_get_int, ddproto_unpacker_get_string and the others). *)
ReadWithoutGap ==
    err = "NONE" =>
        /\ Len(read) = Len(got) /\ FlattenSeq(read) = SubSeq(memory, 1, at)
        /\ \A i \in DOMAIN got :
              got[i].type = "bool" => DecodeInt(read[i], Len(read[i])) \in {0, 1}
        /\ at > Len(data) =>
              \E i \in DOMAIN got : got[i].type = "string" /\ FlattenSeq(SubSeq(read, 1, i - 1)) = data
=============================================================================
