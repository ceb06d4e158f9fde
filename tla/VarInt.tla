------------------------------- MODULE VarInt -------------------------------
(***************************************************************************)
(* The variable-length integers of src/src/packer.c: six bits and the sign *)
(* in the first byte, seven bits in each further one, the highest bit of a *)
(* byte set if another follows.  Shifts and masks are \div, * and %.       *)
(***************************************************************************)
EXTENDS Integers, Sequences

Int32 == {v \in Int : -2147483647 - 1 <= v /\ v <= 2147483647}
Byte == 0 .. 255

\* The place of the bits of the second to the fifth byte: 2^6, 2^13, 2^20
\* and 2^27.
Weight == <<64, 8192, 1048576, 134217728>>

\* ~value for a negative number: the magnitude that is packed.
Magnitude(value) == IF value < 0 THEN -(value + 1) ELSE value

\* The loop of ddproto_packer_add_int goes on to byte i + 1.
Reaches(m, i) == IF m >= Weight[i] THEN 1 ELSE 0

\* How many bytes it fills.
IntSize(m) == 1 + Reaches(m, 1) + Reaches(m, 2) + Reaches(m, 3) + Reaches(m, 4)

\* The bytes of ddproto_packer_add_int.
EncodeInt(value) ==
    LET m    == Magnitude(value)
        n    == IntSize(m)
        sign == IF value < 0 THEN 64 ELSE 0
    IN  [i \in 1 .. n |->
            (IF i < n THEN 128 ELSE 0)
              + (IF i = 1 THEN sign + (m % 64) ELSE (m \div Weight[i - 1]) % 128)]

\* The integer at the beginning of the bytes b has n bytes: the extend bit
\* ends it, and the fifth byte is the last.
HasSize(b, n) ==
    /\ n <= Len(b)
    /\ \A i \in 1 .. n - 1 : b[i] >= 128
    /\ n = 5 \/ b[n] < 128

\* The part of the magnitude in byte i of n.
Part(b, n, i) == IF i > n THEN 0 ELSE (b[i] % (IF i = 5 THEN 16 ELSE 128)) * Weight[i - 1]

\* The value ddproto_unpacker_get_int returns for an integer of n bytes.
DecodeInt(b, n) ==
    LET m == (b[1] % 64) + Part(b, n, 2) + Part(b, n, 3) + Part(b, n, 4) + Part(b, n, 5)
    IN  IF (b[1] \div 64) % 2 = 1 THEN -m - 1 ELSE m
=============================================================================
