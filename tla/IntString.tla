------------------------------ MODULE IntString ------------------------------
(***************************************************************************)
(* Strings packed into integers, src/src/int_string.c: four characters to  *)
(* an integer, each shifted by 128, the last byte always the terminator.   *)
(* Characters and strings are as bytes, without their terminator.          *)
(***************************************************************************)
EXTENDS Integers, Sequences

\* (c + 128) as a byte, and (b - 128) as a char.
Shifted(c) == (c + 128) % 256

\* A 32 bit integer from its bytes, the highest first, and back.
FromBytes(b) ==
    (IF b[1] >= 128 THEN b[1] - 256 ELSE b[1]) * 16777216 + b[2] * 65536 + b[3] * 256 + b[4]

ToBytes(v) == <<(v \div 16777216) % 256, (v \div 65536) % 256, (v \div 256) % 256, v % 256>>

Accepts(s, n) == Len(s) <= 4 * n

\* ddproto_str_to_ints of a string that is accepted.
StrToInts(s, n) ==
    LET char(i) == IF i <= Len(s) THEN s[i] ELSE 0
        byte(i) == IF i = 4 * n THEN 0 ELSE Shifted(char(i))
    IN  [i \in 1 .. n |-> FromBytes([j \in 1 .. 4 |-> byte(4 * (i - 1) + j)])]

\* The bytes of a C string up to its terminator: ddproto_str_length of them.
StrLength(bytes) == CHOOSE n \in 0 .. Len(bytes) - 1 : bytes[n + 1] = 0 /\ \A i \in 1 .. n : bytes[i] # 0

\* ddproto_ints_to_str into an array that has room for all the characters.
IntsToStr(ints) ==
    LET n     == Len(ints)
        bytes == [i \in 1 .. 4 * n |->
                    IF i = 4 * n THEN 0 ELSE Shifted(ToBytes(ints[(i + 3) \div 4])[((i - 1) % 4) + 1])]
    IN  SubSeq(bytes, 1, StrLength(bytes))
=============================================================================
