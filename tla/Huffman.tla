------------------------------ MODULE Huffman ------------------------------
(***************************************************************************)
(* Huffman coding, src/src/huffman.c: the tree of the frequency table, and *)
(* ddproto_huffman_compress and ddproto_huffman_decompress as they fill,   *)
(* look up, walk and flush the bit buffer.  A byte that is compressed and  *)
(* a round of the loop of the decompression are a step each.               *)
(*                                                                         *)
(* Bits are sequences of 0 and 1 with the lowest bit first, so that a      *)
(* shift to the right drops the head and bits |= x << bitcount appends.    *)
(***************************************************************************)
EXTENDS Integers, SequencesExt, FiniteSetsExt

CONSTANTS
    Plains,    \* what is compressed
    Sizes,     \* how many bytes another sender gives to the decompression
    Cuts,      \* how many bytes a compressed input may lack at its end
    Rooms      \* the room there is for the output

VARIABLES
    phase,     \* which call, and whether it has returned
    plain,     \* history: the bytes that were compressed
    input,     \* input
    src,       \* what is between src and srcend
    room,      \* output_len
    output,    \* what is between output and dst
    bits,      \* the bits in the variable bits that are not 0 for certain
    bitcount,  \* bitcount
    err        \* *err, "NONE" if it was not set

vars == <<phase, plain, input, src, room, output, bits, bitcount, err>>

----------------------------------------------------------------------------
(* The tree *)

FREQUENCY_TABLE ==
    <<2^30, 4545, 2657, 431, 1950, 919, 444, 482, 2244, 617, 838, 542, 715, 1814, 304, 240, 754, 212, 647, 186,
      283, 131, 146, 166, 543, 164, 167, 136, 179, 859, 363, 113, 157, 154, 204, 108, 137, 180, 202, 176,
      872, 404, 168, 134, 151, 111, 113, 109, 120, 126, 129, 100, 41, 20, 16, 22, 18, 18, 17, 19,
      16, 37, 13, 21, 362, 166, 99, 78, 95, 88, 81, 70, 83, 284, 91, 187, 77, 68, 52, 68,
      59, 66, 61, 638, 71, 157, 50, 46, 69, 43, 11, 24, 13, 19, 10, 12, 12, 20, 14, 9,
      20, 20, 10, 10, 15, 15, 12, 12, 7, 19, 15, 14, 13, 18, 35, 19, 17, 14, 8, 5,
      15, 17, 9, 15, 14, 18, 8, 10, 2173, 134, 157, 68, 188, 60, 170, 60, 194, 62, 175, 71,
      148, 67, 167, 78, 211, 67, 156, 69, 1674, 90, 174, 53, 147, 89, 181, 51, 174, 63, 163, 80,
      167, 94, 128, 122, 223, 153, 218, 77, 200, 110, 190, 73, 174, 69, 145, 66, 277, 143, 141, 60,
      136, 53, 180, 57, 142, 57, 158, 61, 166, 112, 152, 92, 26, 22, 21, 28, 20, 26, 30, 21,
      32, 27, 20, 17, 23, 21, 30, 22, 22, 21, 27, 25, 17, 27, 23, 18, 39, 26, 15, 21,
      12, 18, 18, 27, 20, 18, 15, 19, 11, 17, 33, 12, 18, 15, 19, 18, 16, 26, 17, 18,
      9, 10, 25, 22, 22, 17, 20, 16, 6, 16, 15, 20, 14, 18, 24, 335, 1>>

EOF == 256
LutBits == 10
FillTo == 24
WordBits == 32

\* bitcount wraps below 0.  In the code that is at 2^32; no call takes so many
\* bits that it would come near to either.
CountWrap == 2^30

Symbols == 0 .. EOF
Bytes == 0 .. 255

\* The nodes left, those of the highest frequency first, and of the same
\* frequency in the order in which they were: bubble_sort_nodes is stable.
Begin ==
    LET symbol == [i \in 1 .. EOF + 1 |-> [node |-> i - 1, frequency |-> FREQUENCY_TABLE[i]]]
        before(a, b) == a.frequency > b.frequency \/ (a.frequency = b.frequency /\ a.node < b.node)
    IN  [left |-> SortSeq(symbol, before), leaves |-> <<>>]

\* A round of construct_tree: the last two are joined, and sorted in.
Join(st) ==
    LET n     == Len(st.left)
        least == st.left[n]
        next  == st.left[n - 1]
        rest  == SubSeq(st.left, 1, n - 2)
        f     == least.frequency + next.frequency
        new   == [node |-> EOF + 1 + Len(st.leaves), frequency |-> f]
    IN  [left   |-> SelectSeq(rest, LAMBDA e : e.frequency >= f) \o <<new>>
                      \o SelectSeq(rest, LAMBDA e : e.frequency < f),
         leaves |-> Append(st.leaves, <<least.node, next.node>>)]

\* leaves of the nodes behind the symbols.
Leaves == FoldLeft(LAMBDA st, i : Join(st), Begin, [i \in 1 .. EOF |-> i]).leaves

StartNode == 2 * EOF
IsSymbol(node) == node <= EOF
Child(node, bit) == Leaves[node - EOF][bit + 1]

\* set_bits_recursive: the bits of a node are those on the way to it.
CodesOf(leaves) ==
    LET node(i) == StartNode + 1 - i
        below(codes, i) ==
            [n \in DOMAIN codes |->
                IF n \in ToSet(leaves[node(i) - EOF])
                THEN Append(codes[node(i)], IF n = leaves[node(i) - EOF][2] THEN 1 ELSE 0)
                ELSE codes[n]]
    IN  FoldLeft(below, [n \in 0 .. StartNode |-> <<>>], [i \in 1 .. EOF |-> i])

Codes == CodesOf(Leaves)

\* The tree: a node is where its bits lead to, no code begins with another, and
\* of the code of the end symbol the bits behind those of the table are not all 0.
ASSUME TreeAssumption ==
    /\ Codes \in [0 .. StartNode -> Seq({0, 1})] /\ Codes[StartNode] = <<>>
    /\ \A node \in 0 .. StartNode - 1 : Len(Codes[node]) \in 1 .. FillTo
    /\ \A node \in EOF + 1 .. StartNode : \A bit \in {0, 1} :
          Child(node, bit) \in 0 .. StartNode /\ Codes[Child(node, bit)] = Append(Codes[node], bit)
    /\ \A s, t \in Symbols : IsPrefix(Codes[s], Codes[t]) => s = t
    /\ \E i \in LutBits + 1 .. Len(Codes[EOF]) : Codes[EOF][i] = 1

ASSUME HuffmanAssumption ==
    /\ \A p \in Plains : p \in Seq(Bytes)
    /\ Sizes \subseteq Nat /\ Cuts \subseteq Nat /\ Rooms \subseteq Nat

Zeros(n) == [i \in 1 .. n |-> 0]

\* The node that n bits lead to, or the symbol that is met on the way.  There
\* are zeros behind the bits of b.
Descend(b, n) ==
    LET bit(i) == IF i <= Len(b) THEN b[i] ELSE 0
        after[i \in 0 .. n] ==
            IF i = 0 THEN StartNode
            ELSE LET node == after[i - 1]
                 IN  IF IsSymbol(node) THEN node ELSE Child(node, bit(i))
    IN  after[n]

\* An entry of decode_luts.
DecodeLut(b) == Descend(b, LutBits)

BitsOf(byte) == [i \in 1 .. 8 |-> (byte \div 2^(i - 1)) % 2]

\* A variant of AsByte with an error: the first bit is the highest.
AsByteHighestFirst(b) ==
    128 * b[1] + 64 * b[2] + 32 * b[3] + 16 * b[4] + 8 * b[5] + 4 * b[6] + 2 * b[7] + b[8]

AsByte(b) ==
    b[1] + 2 * b[2] + 4 * b[3] + 8 * b[4] + 16 * b[5] + 32 * b[6] + 64 * b[7] + 128 * b[8]

----------------------------------------------------------------------------
(* ddproto_huffman_compress *)

Init ==
    /\ phase = "idle" /\ plain = <<>> /\ input = <<>> /\ src = <<>> /\ room = 0 /\ output = <<>>
    /\ bits = <<>> /\ bitcount = 0 /\ err = "NONE"

Call(function, in, out) ==
    /\ phase' = function /\ input' = in /\ src' = in /\ room' = out /\ output' = <<>>
    /\ bits' = <<>> /\ bitcount' = 0

Compress ==
    /\ phase = "idle"
    /\ \E p \in Plains, out \in Rooms : Call("compress", p, out) /\ plain' = p
    /\ UNCHANGED err

Return(function, error) == phase' = function /\ err' = error

WholeBytes(b) == Len(b) \div 8

\* HUFFMAN_MACRO_WRITE with b loaded: the whole bytes, as far as there is room.
Write(b) ==
    LET n == WholeBytes(b)
        bytes == [i \in 1 .. n |-> AsByte(SubSeq(b, 8 * i - 7, 8 * i))]
    IN  /\ output' = SubSeq(output \o bytes, 1, Min({room, Len(output) + n}))
        /\ bits' = SubSeq(b, 8 * n + 1, Len(b)) /\ bitcount' = Len(b) - 8 * n

NoRoom(b) == Len(output) + WholeBytes(b) > room

CompressByte ==
    LET b == bits \o Codes[Head(src)] IN
    /\ phase = "compress" /\ src # <<>>
    /\ Write(b) /\ src' = Tail(src)
    /\ IF NoRoom(b) THEN Return("compressed", "BUFFER_FULL") ELSE UNCHANGED <<phase, err>>
    /\ UNCHANGED <<plain, input, room>>

\* A variant of LastBits with an error: the last byte is written when it has no
\* bits.
LastBitsAlways(b) == b \o Zeros(8 - (Len(b) % 8))

\* The last bits are written in a byte of their own.
LastBits(b) == b \o Zeros((8 - (Len(b) % 8)) % 8)

CompressEnd ==
    LET b == LastBits(bits \o Codes[EOF]) IN
    /\ phase = "compress" /\ src = <<>>
    /\ Write(b)
    /\ Return("compressed", IF NoRoom(b) THEN "BUFFER_FULL" ELSE "NONE")
    /\ UNCHANGED <<plain, input, src, room>>

----------------------------------------------------------------------------
(* ddproto_huffman_decompress *)

\* What was compressed, or the beginning of it.
DecompressOwn ==
    /\ phase = "compressed" /\ err = "NONE"
    /\ \E cut \in Cuts, out \in Rooms :
          cut <= Len(output) /\ Call("decompress", SubSeq(output, 1, Len(output) - cut), out)
    /\ UNCHANGED <<plain, err>>

DecompressForeign ==
    /\ phase = "idle"
    /\ \E n \in Sizes : \E in \in [1 .. n -> Bytes], out \in Rooms : Call("decompress", in, out)
    /\ UNCHANGED <<plain, err>>

\* A variant of ToFill with an error: it stops when the word is full.
ToFillWord(count) == IF count >= WordBits THEN 0 ELSE (WordBits - count + 7) \div 8

\* A variant of ToFill with an error: one byte for each symbol is enough.
ToFillOnce(count) == IF count >= FillTo THEN 0 ELSE 1

\* The bytes that are loaded when there are enough.
ToFill(count) == IF count >= FillTo THEN 0 ELSE (FillTo - count + 7) \div 8

\* A symbol that was looked up needs its bits, a node the bits of the table;
\* then the walk ends where bitcount is 0 after a bit, but not before the first.
TooFewBits(b, count) ==
    LET node == DecodeLut(b)
        used == Len(Codes[Descend(b, WordBits)])
    IN  IF IsSymbol(node) THEN count < used
        ELSE count < LutBits \/ count - LutBits \in 1 .. used - LutBits - 1

ShortError(b, count) ==
    IF IsSymbol(DecodeLut(b)) THEN "NODE_LOOKUP_INSUFFICIENT_BITS"
    ELSE IF count < LutBits THEN "TABLE_LOOKUP_INSUFFICIENT_BITS" ELSE "END_OF_BUFFER"

\* A round of the loop.  The lookup before the fill finds what the one behind
\* it would.  The tables have no NULL.
DecompressRound ==
    LET n      == Min({Len(src), ToFill(bitcount)})
        b      == bits \o FlattenSeq([i \in 1 .. n |-> BitsOf(src[i])])
        count  == bitcount + 8 * n
        symbol == Descend(b, WordBits)
        used   == Len(Codes[symbol])
    IN  /\ phase = "decompress"
        /\ src' = SubSeq(src, n + 1, Len(src)) /\ UNCHANGED <<plain, input, room>>
        /\ IF TooFewBits(b, count)
           THEN /\ bits' = b /\ bitcount' = count /\ UNCHANGED output
                /\ Return("decompressed", ShortError(b, count))
           ELSE /\ bits' = SubSeq(b, used + 1, Len(b)) /\ bitcount' = (count - used) % CountWrap
                /\ \/ /\ symbol = EOF
                      /\ Return("decompressed", "NONE") /\ UNCHANGED output
                   \/ /\ symbol # EOF /\ Len(output) = room
                      /\ Return("decompressed", "BUFFER_FULL") /\ UNCHANGED output
                   \/ /\ symbol # EOF /\ Len(output) < room
                      /\ output' = Append(output, symbol) /\ UNCHANGED <<phase, err>>

Next ==
    \/ Compress \/ CompressByte \/ CompressEnd
    \/ DecompressOwn \/ DecompressForeign \/ DecompressRound

Spec == Init /\ [][Next]_vars

----------------------------------------------------------------------------
TypeOK ==
    /\ phase \in {"idle", "compress", "compressed", "decompress", "decompressed"}
    /\ \A i \in DOMAIN output : output[i] \in Bytes
    /\ Len(output) <= room
    /\ bitcount \in 0 .. CountWrap - 1 /\ Len(bits) <= bitcount
    /\ phase = "compress" => bitcount < 8
    /\ phase = "decompress" => Len(bits) + 8 * Min({Len(src), ToFill(bitcount)}) <= WordBits

Encoded(bytes) == FlattenSeq([i \in DOMAIN bytes |-> Codes[bytes[i]]]) \o Codes[EOF]

(* What is compressed needs exactly the bytes for the codes and the end    *)
(* symbol: with less room BUFFER_FULL is returned, with that much it is    *)
(* not, and nothing is written behind the room                             *)
(* (ddproto_huffman_compress).                                             *)
CompressedSize ==
    phase = "compressed" =>
        LET needed == (Len(Encoded(plain)) + 7) \div 8
        IN  IF needed > room THEN err = "BUFFER_FULL"
            ELSE err = "NONE" /\ Len(output) = needed

(* What was compressed is decompressed to what it was, if there is room    *)
(* for it, and refused as too long if not; what lacks bytes at the end is  *)
(* refused (ddproto_huffman_compress, ddproto_huffman_decompress).         *)
ReadsBack ==
    phase = "decompressed" /\ plain # <<>> =>
        LET needed == (Len(Encoded(plain)) + 7) \div 8
        IN  IF Len(input) = needed
            THEN IF Len(plain) <= room THEN err = "NONE" /\ output = plain
                 ELSE err = "BUFFER_FULL" /\ output = SubSeq(plain, 1, room)
            ELSE err # "NONE"

SymbolOf ==
    LET codes == Codes
    IN  [code \in {codes[s] : s \in Symbols} |-> CHOOSE s \in Symbols : codes[s] = code]

\* The symbols with which b begins, as far as their codes are whole, up to the
\* end symbol.
Parsed(b) ==
    LET from[p \in 0 .. Len(b)] ==
            LET ends == {q \in p + 1 .. Len(b) : SubSeq(b, p + 1, q) \in DOMAIN SymbolOf}
                q    == Min(ends)
                s    == SymbolOf[SubSeq(b, p + 1, q)]
            IN  IF ends = {} THEN <<>> ELSE IF s = EOF THEN <<EOF>> ELSE <<s>> \o from[q]
    IN  from[0]

(* Whatever the bytes, they are decompressed without an error if and only  *)
(* if they begin with the codes of bytes, no more than there is room for,  *)
(* and the end symbol; these bytes are the output.  So an input that ends  *)
(* inside a code, the walk behind its last bit included, is refused        *)
(* (ddproto_huffman_decompress against the tree).                          *)
ExactOrError ==
    phase = "decompressed" =>
        LET symbols == Parsed(FlattenSeq([i \in DOMAIN input |-> BitsOf(input[i])]))
            whole   == symbols # <<>> /\ Last(symbols) = EOF
        IN  IF whole /\ Len(symbols) - 1 <= room
            THEN err = "NONE" /\ output = Front(symbols)
            ELSE err # "NONE"
=============================================================================
