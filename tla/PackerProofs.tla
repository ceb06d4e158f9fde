---------------------------- MODULE PackerProofs ----------------------------
(***************************************************************************)
(* The packer stays within its buffer, what is packed without an error is  *)
(* unpacked, and what was read of any data is all of it up to the cursor,  *)
(* which only a string can move out of it first: for every size of the     *)
(* buffer, whatever is packed or read, and whatever is behind the data.    *)
(***************************************************************************)
EXTENDS Packer, SequenceLemmas, FiniteSetTheorems, FunctionTheorems

LEMMA Constants ==
    /\ BufferSize \in Nat /\ Ints \subseteq Int32
    /\ Strings \subseteq Seq(Byte \ {0}) /\ Raws \subseteq Seq(Byte)
    /\ ForeignData \subseteq Seq(Byte) /\ Behind \subseteq Seq(Byte)
  BY PackerAssumption

-----------------------------------------------------------------------------
(* An integer and its bytes *)

Magnitudes == {m \in Nat : m <= 2147483647}

(* The bits of m from place w on, without those from 128 * w on.           *)
Digit(m, w) == (m \div w) % 128

(* Shifting by six and then by seven bits, and so on.                      *)
LEMMA Shifts ==
    ASSUME NEW m \in Nat
    PROVE  /\ (m \div 64) \div 128 = m \div 8192
           /\ (m \div 8192) \div 128 = m \div 1048576
           /\ (m \div 1048576) \div 128 = m \div 134217728
  BY SMT

LEMMA SplitAt ==
    ASSUME NEW q \in Nat
    PROVE  q = (q \div 128) * 128 + (q % 128) /\ q % 128 \in 0 .. 127 /\ q \div 128 \in Nat
  BY SMT

LEMMA First ==
    ASSUME NEW m \in Nat
    PROVE  m = (m \div 64) * 64 + (m % 64) /\ m % 64 \in 0 .. 63 /\ m \div 64 \in Nat
  BY SMT

(* A magnitude is the sum of its digits at their places; the digits beyond *)
(* its size are 0, and the last has four bits.                             *)
LEMMA Digits ==
    ASSUME NEW m \in Magnitudes
    PROVE  /\ m % 64 \in 0 .. 63
           /\ Digit(m, 64) \in 0 .. 127 /\ Digit(m, 8192) \in 0 .. 127
           /\ Digit(m, 1048576) \in 0 .. 127 /\ Digit(m, 134217728) \in 0 .. 15
           /\ m = (m % 64) + Digit(m, 64) * 64 + Digit(m, 8192) * 8192
                    + Digit(m, 1048576) * 1048576 + Digit(m, 134217728) * 134217728
           /\ m < 64 => Digit(m, 64) = 0
           /\ m < 8192 => Digit(m, 8192) = 0
           /\ m < 1048576 => Digit(m, 1048576) = 0
           /\ m < 134217728 => Digit(m, 134217728) = 0
<1>1. m \in Nat /\ m <= 2147483647
  BY SMT DEF Magnitudes
<1> DEFINE a == m \div 64  b == m \div 8192  c == m \div 1048576  d == m \div 134217728
<1>2. m = a * 64 + (m % 64) /\ m % 64 \in 0 .. 63 /\ a \in Nat
  BY <1>1, First, SMT
<1>3. a \div 128 = b /\ b \div 128 = c /\ c \div 128 = d
  BY <1>1, Shifts, SMT
<1> HIDE DEF a, b, c, d
<1>4. a = b * 128 + (a % 128) /\ a % 128 \in 0 .. 127 /\ b \in Nat
  BY <1>2, <1>3, SplitAt, SMT
<1>5. b = c * 128 + (b % 128) /\ b % 128 \in 0 .. 127 /\ c \in Nat
  BY <1>4, <1>3, SplitAt, SMT
<1>6. c = d * 128 + (c % 128) /\ c % 128 \in 0 .. 127 /\ d \in Nat
  BY <1>5, <1>3, SplitAt, SMT
<1>7. d \in 0 .. 15
  BY <1>1, <1>2, <1>4, <1>5, <1>6, SMT
<1>8. d % 128 = d
  BY <1>7, SMT
<1>9. m = (m % 64) + (a % 128) * 64 + (b % 128) * 8192 + (c % 128) * 1048576 + d * 134217728
  BY <1>1, <1>2, <1>4, <1>5, <1>6, SMT
<1>10. /\ m < 64 => a = 0
       /\ m < 8192 => b = 0
       /\ m < 1048576 => c = 0
       /\ m < 134217728 => d = 0
  BY <1>1, <1>2, <1>4, <1>5, <1>6, SMT
<1>11. 0 % 128 = 0
  BY SMT
<1>12. /\ Digit(m, 64) = a % 128 /\ Digit(m, 8192) = b % 128
       /\ Digit(m, 1048576) = c % 128 /\ Digit(m, 134217728) = d
  BY <1>8, SMT DEF Digit, a, b, c, d
<1> QED
  BY <1>2, <1>4, <1>5, <1>6, <1>7, <1>9, <1>10, <1>11, <1>12, SMT

(* A number of n bytes is below the weight of byte n + 1.                  *)
LEMMA SizeBounds ==
    ASSUME NEW m \in Magnitudes
    PROVE  /\ IntSize(m) \in 1 .. 5
           /\ IntSize(m) < 2 => m < 64
           /\ IntSize(m) < 3 => m < 8192
           /\ IntSize(m) < 4 => m < 1048576
           /\ IntSize(m) < 5 => m < 134217728
<1>1. m \in Nat
  BY SMT DEF Magnitudes
<1>2. Weight[1] = 64 /\ Weight[2] = 8192 /\ Weight[3] = 1048576 /\ Weight[4] = 134217728
  BY SMT DEF Weight
<1> QED
  BY <1>1, <1>2, SMT DEF IntSize, Reaches

(* The magnitude of a value, and back.                                     *)
LEMMA MagnitudeOf ==
    ASSUME NEW v \in Int32
    PROVE  /\ Magnitude(v) \in Magnitudes
           /\ v = IF v < 0 THEN -Magnitude(v) - 1 ELSE Magnitude(v)
  BY SMT DEF Int32, Magnitudes, Magnitude

(* The extend bit and a digit of a byte do not disturb each other.         *)
LEMMA FurtherByte ==
    ASSUME NEW e \in {0, 128}, NEW d \in 0 .. 127
    PROVE  /\ (e + d) % 128 = d /\ (e + d >= 128 <=> e = 128) /\ e + d \in 0 .. 255
           /\ d < 16 => (e + d) % 16 = d
  BY SMT

LEMMA FirstByte ==
    ASSUME NEW e \in {0, 128}, NEW s \in {0, 64}, NEW d \in 0 .. 63
    PROVE  /\ (e + (s + d)) % 64 = d /\ (((e + (s + d)) \div 64) % 2 = 1 <=> s = 64)
           /\ (e + (s + d) >= 128 <=> e = 128) /\ e + (s + d) \in 0 .. 255
  BY SMT

(* The i-th byte that ddproto_packer_add_int writes.                       *)
LEMMA Bytes ==
    ASSUME NEW v \in Int32
    PROVE  LET m == Magnitude(v)
               n == IntSize(m)
               b == EncodeInt(v)
               e(i) == IF i < n THEN 128 ELSE 0
               s == IF v < 0 THEN 64 ELSE 0
           IN  /\ b \in Seq(Int) /\ Len(b) = n
               /\ b[1] = e(1) + (s + (m % 64))
               /\ n >= 2 => b[2] = e(2) + Digit(m, 64)
               /\ n >= 3 => b[3] = e(3) + Digit(m, 8192)
               /\ n >= 4 => b[4] = e(4) + Digit(m, 1048576)
               /\ n >= 5 => b[5] = e(5) + Digit(m, 134217728)
<1> DEFINE m == Magnitude(v)
           n == IntSize(m)
           e(i) == IF i < n THEN 128 ELSE 0
           s == IF v < 0 THEN 64 ELSE 0
           byte(i) == e(i) + (IF i = 1 THEN s + (m % 64) ELSE (m \div Weight[i - 1]) % 128)
           b == EncodeInt(v)
<1>1. m \in Nat /\ m \in Magnitudes
  BY MagnitudeOf, SMT DEF Magnitudes
<1>2. n \in 1 .. 5
  BY <1>1, SizeBounds, SMT
<1>3. Weight[1] = 64 /\ Weight[2] = 8192 /\ Weight[3] = 1048576 /\ Weight[4] = 134217728
  BY SMT DEF Weight
<1>4. b = [i \in 1 .. n |-> byte(i)]
  BY SMT DEF EncodeInt
<1> HIDE DEF m, n, b
<1>5. /\ byte(1) = e(1) + (s + (m % 64))
      /\ byte(2) = e(2) + Digit(m, 64) /\ byte(3) = e(3) + Digit(m, 8192)
      /\ byte(4) = e(4) + Digit(m, 1048576) /\ byte(5) = e(5) + Digit(m, 134217728)
  BY <1>3, SMT DEF Digit
<1>6. /\ m % 64 \in 0 .. 63
      /\ Digit(m, 64) \in 0 .. 127 /\ Digit(m, 8192) \in 0 .. 127
      /\ Digit(m, 1048576) \in 0 .. 127 /\ Digit(m, 134217728) \in 0 .. 15
  BY <1>1, Digits, SMT
<1>7. byte(1) \in Int /\ byte(2) \in Int /\ byte(3) \in Int /\ byte(4) \in Int /\ byte(5) \in Int
  <2>1. e(1) \in Int /\ e(2) \in Int /\ e(3) \in Int /\ e(4) \in Int /\ e(5) \in Int /\ s \in Int
    BY SMT
  <2> HIDE DEF e, s, byte
  <2> QED
    BY <1>5, <1>6, <2>1, SMT
<1> HIDE DEF byte
<1>8. b \in Seq(Int) /\ Len(b) = n
  BY <1>2, <1>4, <1>7, SMT
<1>9. \A i \in 1 .. n : b[i] = byte(i)
  BY <1>4, SMT
<1>10. /\ b[1] = byte(1)
       /\ n >= 2 => b[2] = byte(2)
       /\ n >= 3 => b[3] = byte(3)
       /\ n >= 4 => b[4] = byte(4)
       /\ n >= 5 => b[5] = byte(5)
  BY <1>2, <1>9, SMT
<1>11. /\ b[1] = e(1) + (s + (m % 64))
       /\ n >= 2 => b[2] = e(2) + Digit(m, 64)
       /\ n >= 3 => b[3] = e(3) + Digit(m, 8192)
       /\ n >= 4 => b[4] = e(4) + Digit(m, 1048576)
       /\ n >= 5 => b[5] = e(5) + Digit(m, 134217728)
  <2> HIDE DEF e, s
  <2> QED
    BY <1>5, <1>10
<1> QED
  BY <1>8, <1>11 DEF m, n, b

(* An integer that ddproto_packer_add_int packed into a buffer, whatever   *)
(* comes after it, is found by ddproto_unpacker_get_int with the length it *)
(* was packed in and no other, and read back, for all 2^32 of them.        *)
THEOREM IntReadsBack ==
    ASSUME NEW v \in Int32, NEW rest \in Seq(Int)
    PROVE  LET n     == Len(EncodeInt(v))
               whole == EncodeInt(v) \o rest
           IN  /\ n \in 1 .. 5
               /\ \A k \in 1 .. 5 : HasSize(whole, k) <=> k = n
               /\ DecodeInt(whole, n) = v
<1> DEFINE m == Magnitude(v)
           n == IntSize(m)
           b == EncodeInt(v)
           e1 == IF 1 < n THEN 128 ELSE 0
           e2 == IF 2 < n THEN 128 ELSE 0
           e3 == IF 3 < n THEN 128 ELSE 0
           e4 == IF 4 < n THEN 128 ELSE 0
           e5 == IF 5 < n THEN 128 ELSE 0
           s == IF v < 0 THEN 64 ELSE 0
           w == b \o rest
           d1 == m % 64
           d2 == Digit(m, 64)
           d3 == Digit(m, 8192)
           d4 == Digit(m, 1048576)
           d5 == Digit(m, 134217728)
<1>1. m \in Magnitudes /\ m \in Nat /\ v \in Int
      /\ v = IF v < 0 THEN -m - 1 ELSE m
  BY MagnitudeOf, SMT DEF Magnitudes, Int32
<1>2. /\ n \in 1 .. 5
      /\ n < 2 => d2 = 0
      /\ n < 3 => d3 = 0
      /\ n < 4 => d4 = 0
      /\ n < 5 => d5 = 0
  BY <1>1, SizeBounds, Digits, SMT
<1>3. /\ d1 \in 0 .. 63 /\ d2 \in 0 .. 127 /\ d3 \in 0 .. 127 /\ d4 \in 0 .. 127 /\ d5 \in 0 .. 15
  BY <1>1, Digits, SMT
<1>4. m = d1 + d2 * 64 + d3 * 8192 + d4 * 1048576 + d5 * 134217728
  BY <1>1, Digits, SMT
<1>5. /\ b \in Seq(Int) /\ Len(b) = n
      /\ b[1] = e1 + (s + d1)
      /\ n >= 2 => b[2] = e2 + d2
      /\ n >= 3 => b[3] = e3 + d3
      /\ n >= 4 => b[4] = e4 + d4
      /\ n >= 5 => b[5] = e5 + d5
  BY Bytes, SMT
<1> HIDE DEF m, b, d1, d2, d3, d4, d5
<1>6. /\ w \in Seq(Int) /\ Len(w) >= n
      /\ \A i \in 1 .. n : w[i] = b[i]
  BY <1>2, <1>5, ConcatProperties, SMT
<1> HIDE DEF n, w, e1, e2, e3, e4, e5, s
<1>7. /\ w[1] = b[1]
      /\ n >= 2 => w[2] = b[2]
      /\ n >= 3 => w[3] = b[3]
      /\ n >= 4 => w[4] = b[4]
      /\ n >= 5 => w[5] = b[5]
  <2>1. /\ 1 \in 1 .. n
        /\ n >= 2 => 2 \in 1 .. n
        /\ n >= 3 => 3 \in 1 .. n
        /\ n >= 4 => 4 \in 1 .. n
        /\ n >= 5 => 5 \in 1 .. n
    BY <1>2, SMT
  <2> QED
    BY <1>6, <2>1, Zenon
<1> USE DEF e1, e2, e3, e4, e5, s
<1>8. /\ e1 \in {0, 128} /\ e2 \in {0, 128} /\ e3 \in {0, 128} /\ e4 \in {0, 128}
      /\ e5 \in {0, 128} /\ s \in {0, 64}
      /\ e1 = 128 <=> 1 < n
      /\ e2 = 128 <=> 2 < n
      /\ e3 = 128 <=> 3 < n
      /\ e4 = 128 <=> 4 < n
      /\ e5 = 128 <=> 5 < n
      /\ s = 64 <=> v < 0
  BY <1>1, <1>2, SMT
<1> HIDE DEF e1, e2, e3, e4, e5, s
<1>9. w[1] % 64 = d1 /\ ((w[1] \div 64) % 2 = 1 <=> v < 0) /\ (w[1] >= 128 <=> 1 < n)
  <2>1. w[1] = e1 + (s + d1)
    BY <1>5, <1>7
  <2>2. /\ (e1 + (s + d1)) % 64 = d1 /\ (((e1 + (s + d1)) \div 64) % 2 = 1 <=> s = 64)
        /\ (e1 + (s + d1) >= 128 <=> e1 = 128)
    <3>1. e1 \in {0, 128} /\ s \in {0, 64} /\ d1 \in 0 .. 63
      BY <1>3, <1>8
    <3> QED
      BY <3>1, FirstByte
  <2> QED
    BY <1>2, <1>8, <2>1, <2>2, SMT
<1>10. n >= 2 => w[2] % 128 = d2 /\ (w[2] >= 128 <=> 2 < n)
  <2>1. n >= 2 => w[2] = e2 + d2
    BY <1>5, <1>7
  <2>2. (e2 + d2) % 128 = d2 /\ (e2 + d2 >= 128 <=> e2 = 128)
    <3>1. e2 \in {0, 128} /\ d2 \in 0 .. 127
      BY <1>3, <1>8
    <3> QED
      BY <3>1, FurtherByte
  <2> QED
    BY <1>2, <1>8, <2>1, <2>2, SMT
<1>11. n >= 3 => w[3] % 128 = d3 /\ (w[3] >= 128 <=> 3 < n)
  <2>1. n >= 3 => w[3] = e3 + d3
    BY <1>5, <1>7
  <2>2. (e3 + d3) % 128 = d3 /\ (e3 + d3 >= 128 <=> e3 = 128)
    <3>1. e3 \in {0, 128} /\ d3 \in 0 .. 127
      BY <1>3, <1>8
    <3> QED
      BY <3>1, FurtherByte
  <2> QED
    BY <1>2, <1>8, <2>1, <2>2, SMT
<1>12. n >= 4 => w[4] % 128 = d4 /\ (w[4] >= 128 <=> 4 < n)
  <2>1. n >= 4 => w[4] = e4 + d4
    BY <1>5, <1>7
  <2>2. (e4 + d4) % 128 = d4 /\ (e4 + d4 >= 128 <=> e4 = 128)
    <3>1. e4 \in {0, 128} /\ d4 \in 0 .. 127
      BY <1>3, <1>8
    <3> QED
      BY <3>1, FurtherByte
  <2> QED
    BY <1>2, <1>8, <2>1, <2>2, SMT
<1>13. n >= 5 => w[5] % 16 = d5
  <2>1. n >= 5 => w[5] = e5 + d5
    BY <1>5, <1>7
  <2>2. d5 \in 0 .. 127 /\ d5 < 16
    BY <1>3, SMT
  <2>3. (e5 + d5) % 16 = d5
    <3>1. e5 \in {0, 128}
      BY <1>8
    <3> QED
      BY <2>2, <3>1, FurtherByte
  <2> QED
    BY <2>1, <2>3
<1>14. \A k \in 1 .. 5 : HasSize(w, k) <=> k = n
  <2>1. \A i \in 1 .. n : i < 5 => (w[i] >= 128 <=> i < n) /\ w[i] \in Int
    <3>1. \A i \in 1 .. n : i \in 1 .. Len(w) /\ w[i] \in Int
      BY <1>2, <1>6, SMT
    <3>2. ASSUME NEW i \in 1 .. n, i < 5 PROVE w[i] >= 128 <=> i < n
      <4>1. i = 1 \/ i = 2 \/ i = 3 \/ i = 4
        BY <1>2, <3>2, SMT
      <4> QED
        BY <1>2, <1>9, <1>10, <1>11, <1>12, <4>1, <3>2, SMT
    <3> QED
      BY <3>1, <3>2
  <2>2. ASSUME NEW k \in 1 .. 5, HasSize(w, k) PROVE k = n
    <3>1. CASE k < n
      BY <1>2, <2>1, <2>2, <3>1, SMT DEF HasSize
    <3>2. CASE k > n
      BY <1>2, <2>1, <2>2, <3>2, SMT DEF HasSize
    <3> QED
      BY <1>2, <3>1, <3>2, SMT
  <2>3. HasSize(w, n)
    BY <1>2, <1>6, <2>1, SMT DEF HasSize
  <2> QED
    BY <2>2, <2>3
<1>15. /\ Part(w, n, 2) = d2 * 64 /\ Part(w, n, 3) = d3 * 8192
       /\ Part(w, n, 4) = d4 * 1048576 /\ Part(w, n, 5) = d5 * 134217728
  <2>1. Weight[1] = 64 /\ Weight[2] = 8192 /\ Weight[3] = 1048576 /\ Weight[4] = 134217728
    BY SMT DEF Weight
  <2>2. Part(w, n, 2) = d2 * 64
    <3>1. CASE n >= 2
      <4>1. ~(2 > n)
        BY <1>2, <3>1, SMT
      <4>2. Part(w, n, 2) = (w[2] % 128) * Weight[1]
        BY <4>1, SMT DEF Part
      <4> QED
        BY <3>1, <1>10, <2>1, <4>2, SMT
    <3>2. CASE n < 2
      BY <1>2, <3>2, SMT DEF Part
    <3> QED
      BY <1>2, <3>1, <3>2, SMT
  <2>3. Part(w, n, 3) = d3 * 8192
    <3>1. CASE n >= 3
      <4>1. ~(3 > n)
        BY <1>2, <3>1, SMT
      <4>2. Part(w, n, 3) = (w[3] % 128) * Weight[2]
        BY <4>1, SMT DEF Part
      <4> QED
        BY <3>1, <1>11, <2>1, <4>2, SMT
    <3>2. CASE n < 3
      BY <1>2, <3>2, SMT DEF Part
    <3> QED
      BY <1>2, <3>1, <3>2, SMT
  <2>4. Part(w, n, 4) = d4 * 1048576
    <3>1. CASE n >= 4
      <4>1. ~(4 > n)
        BY <1>2, <3>1, SMT
      <4>2. Part(w, n, 4) = (w[4] % 128) * Weight[3]
        BY <4>1, SMT DEF Part
      <4> QED
        BY <3>1, <1>12, <2>1, <4>2, SMT
    <3>2. CASE n < 4
      BY <1>2, <3>2, SMT DEF Part
    <3> QED
      BY <1>2, <3>1, <3>2, SMT
  <2>5. Part(w, n, 5) = d5 * 134217728
    <3>1. CASE n >= 5
      <4>1. ~(5 > n)
        BY <1>2, <3>1, SMT
      <4>2. Part(w, n, 5) = (w[5] % 16) * Weight[4]
        BY <4>1, SMT DEF Part
      <4> QED
        BY <3>1, <1>13, <2>1, <4>2, SMT
    <3>2. CASE n < 5
      BY <1>2, <3>2, SMT DEF Part
    <3> QED
      BY <1>2, <3>1, <3>2, SMT
  <2> QED
    BY <2>2, <2>3, <2>4, <2>5, SMT
<1>16. DecodeInt(w, n) = v
  <2> DEFINE k == (w[1] % 64) + Part(w, n, 2) + Part(w, n, 3) + Part(w, n, 4) + Part(w, n, 5)
  <2>1. k = m
    BY <1>3, <1>4, <1>9, <1>15, SMT
  <2>2. DecodeInt(w, n) = IF (w[1] \div 64) % 2 = 1 THEN -k - 1 ELSE k
    BY SMT DEF DecodeInt
  <2> HIDE DEF k
  <2> QED
    BY <1>1, <1>9, <2>1, <2>2, SMT
<1> QED
  BY <1>2, <1>5, <1>14, <1>16, SMT DEF w, b, n

\* An integer is packed in one to five bytes.
LEMMA EncodedBytes ==
    ASSUME NEW v \in Int32
    PROVE  EncodeInt(v) \in Seq(Byte) /\ Len(EncodeInt(v)) \in 1 .. 5
<1> DEFINE m == Magnitude(v)
           n == IntSize(m)
           b == EncodeInt(v)
           e(i) == IF i < n THEN 128 ELSE 0
           s == IF v < 0 THEN 64 ELSE 0
<1>1. m \in Magnitudes
  BY MagnitudeOf, SMT
<1>2. n \in 1 .. 5
  BY <1>1, SizeBounds, SMT
<1>3. /\ b \in Seq(Int) /\ Len(b) = n
      /\ b[1] = e(1) + (s + (m % 64))
      /\ n >= 2 => b[2] = e(2) + Digit(m, 64)
      /\ n >= 3 => b[3] = e(3) + Digit(m, 8192)
      /\ n >= 4 => b[4] = e(4) + Digit(m, 1048576)
      /\ n >= 5 => b[5] = e(5) + Digit(m, 134217728)
  BY Bytes
<1>4. /\ m % 64 \in 0 .. 63
      /\ Digit(m, 64) \in 0 .. 127 /\ Digit(m, 8192) \in 0 .. 127
      /\ Digit(m, 1048576) \in 0 .. 127 /\ Digit(m, 134217728) \in 0 .. 15
  BY <1>1, Digits, SMT
<1>5. /\ e(1) \in {0, 128} /\ e(2) \in {0, 128} /\ e(3) \in {0, 128}
      /\ e(4) \in {0, 128} /\ e(5) \in {0, 128} /\ s \in {0, 64}
  BY SMT
<1> HIDE DEF m, n, b, e, s
<1>6. b[1] \in 0 .. 255
  <2>1. e(1) + (s + (m % 64)) \in 0 .. 255
    BY <1>4, <1>5, FirstByte
  <2> QED
    BY <1>3, <2>1
<1>7. /\ n >= 2 => b[2] \in 0 .. 255
      /\ n >= 3 => b[3] \in 0 .. 255
      /\ n >= 4 => b[4] \in 0 .. 255
      /\ n >= 5 => b[5] \in 0 .. 255
  <2>1. /\ e(2) + Digit(m, 64) \in 0 .. 255 /\ e(3) + Digit(m, 8192) \in 0 .. 255
        /\ e(4) + Digit(m, 1048576) \in 0 .. 255
    BY <1>4, <1>5, SMT
  <2>2. e(5) + Digit(m, 134217728) \in 0 .. 255
    BY <1>4, <1>5, SMT
  <2> QED
    BY <1>2, <1>3, <2>1, <2>2, SMT
<1>8. \A i \in 1 .. n : b[i] \in Byte
  BY <1>2, <1>6, <1>7, SMT DEF Byte
<1>9. b \in Seq(Byte)
  BY <1>2, <1>3, <1>8, SMT
<1> QED
  BY <1>2, <1>3, <1>9 DEF b

\* The largest values of the parts of a magnitude, in a first to a fifth byte.
Largest == <<63, 8128, 1040384, 133169152, 2013265920>>

Upto(p, limit) == p \in Int /\ 0 <= p /\ p <= limit

\* The bits of a byte in their places.
LEMMA PlacedBits ==
    ASSUME NEW x \in 0 .. 255
    PROVE  /\ Upto(x % 64, Largest[1]) /\ Upto((x % 128) * Weight[1], Largest[2])
           /\ Upto((x % 128) * Weight[2], Largest[3]) /\ Upto((x % 128) * Weight[3], Largest[4])
           /\ Upto((x % 16) * Weight[4], Largest[5])
<1>1. /\ 0 <= x % 64 /\ x % 64 <= 63 /\ x % 64 \in Int
      /\ 0 <= x % 128 /\ x % 128 <= 127 /\ x % 128 \in Int
      /\ 0 <= x % 16 /\ x % 16 <= 15 /\ x % 16 \in Int
  BY SMT
<1> QED
  BY <1>1, SMT DEF Upto, Weight, Largest

LEMMA Sums ==
    ASSUME NEW p, NEW q, NEW r, NEW t, NEW u, Upto(p, Largest[1]), Upto(q, Largest[2]),
           Upto(r, Largest[3]), Upto(t, Largest[4]), Upto(u, Largest[5])
    PROVE  p + q + r + t + u \in Int32 /\ -(p + q + r + t + u) - 1 \in Int32
  BY SMT DEF Upto, Largest, Int32

\* What is unpacked from up to five bytes has 32 bits.
LEMMA DecodedInt ==
    ASSUME NEW b \in Seq(Byte), NEW n \in 1 .. 5, HasSize(b, n)
    PROVE  DecodeInt(b, n) \in Int32
<1>1. Len(b) \in Nat /\ n <= Len(b)
  BY SMT DEF HasSize
<1>2. \A i \in 1 .. 5 : i <= n => b[i] \in 0 .. 255
  <2>1. \A i \in 1 .. 5 : i <= n => b[i] \in Byte
    BY <1>1, SMT
  <2> QED
    BY <2>1 DEF Byte
<1>4. Upto(Part(b, n, 2), Largest[2])
  <2>1. CASE 2 > n
    BY <2>1, SMT DEF Part, Upto, Largest
  <2>2. CASE ~(2 > n)
    <3>1. b[2] \in 0 .. 255
      BY <1>2, <2>2, SMT
    <3>2. Part(b, n, 2) = (b[2] % 128) * Weight[1]
      BY <2>2, SMT DEF Part
    <3> QED
      BY <3>1, <3>2, PlacedBits
  <2> QED
    BY <2>1, <2>2
<1>5. Upto(Part(b, n, 3), Largest[3])
  <2>1. CASE 3 > n
    BY <2>1, SMT DEF Part, Upto, Largest
  <2>2. CASE ~(3 > n)
    <3>1. b[3] \in 0 .. 255
      BY <1>2, <2>2, SMT
    <3>2. Part(b, n, 3) = (b[3] % 128) * Weight[2]
      BY <2>2, SMT DEF Part
    <3> QED
      BY <3>1, <3>2, PlacedBits
  <2> QED
    BY <2>1, <2>2
<1>6. Upto(Part(b, n, 4), Largest[4])
  <2>1. CASE 4 > n
    BY <2>1, SMT DEF Part, Upto, Largest
  <2>2. CASE ~(4 > n)
    <3>1. b[4] \in 0 .. 255
      BY <1>2, <2>2, SMT
    <3>2. Part(b, n, 4) = (b[4] % 128) * Weight[3]
      BY <2>2, SMT DEF Part
    <3> QED
      BY <3>1, <3>2, PlacedBits
  <2> QED
    BY <2>1, <2>2
<1>7. Upto(Part(b, n, 5), Largest[5])
  <2>1. CASE 5 > n
    BY <2>1, SMT DEF Part, Upto, Largest
  <2>2. CASE ~(5 > n)
    <3>1. b[5] \in 0 .. 255
      BY <1>2, <2>2, SMT
    <3>2. Part(b, n, 5) = (b[5] % 16) * Weight[4]
      BY <2>2, SMT DEF Part
    <3> QED
      BY <3>1, <3>2, PlacedBits
  <2> QED
    BY <2>1, <2>2
<1>8. Upto(b[1] % 64, Largest[1])
  <2>1. b[1] \in 0 .. 255
    BY <1>2, SMT
  <2> QED
    BY <2>1, PlacedBits
<1> QED
  BY <1>4, <1>5, <1>6, <1>7, <1>8, Sums DEF DecodeInt

-----------------------------------------------------------------------------
(* The invariant *)

IsSequence(s) == \E S : s \in Seq(S)

IntsInRange == \A i \in DOMAIN got : got[i].type = "int" => got[i].value \in Int32

Inv ==
    /\ phase \in {"packing", "unpacking", "outside"}
    /\ data \in Seq(Byte) /\ behind \in Seq(Byte)
    /\ phase = "packing" => Len(data) <= BufferSize /\ at = 0
    /\ at \in Nat /\ at <= Len(memory)
    /\ IsSequence(got)
    /\ IntsInRange

LEMMA Appended ==
    ASSUME NEW s, IsSequence(s), NEW x
    PROVE  /\ IsSequence(Append(s, x))
           /\ \A i \in DOMAIN Append(s, x) :
                 \/ Append(s, x)[i] = x
                 \/ i \in DOMAIN s /\ Append(s, x)[i] = s[i]
<1>1. PICK S : s \in Seq(S)
  BY DEF IsSequence
<1>2. s \in Seq(S \cup {x})
  BY <1>1, SMT
<1>3. Append(s, x) \in Seq(S \cup {x})
  BY <1>2, SMT
<1>4. \A i \in DOMAIN Append(s, x) : Append(s, x)[i] = x \/ (i \in DOMAIN s /\ Append(s, x)[i] = s[i])
  BY <1>2, SMT
<1> QED
  BY <1>3, <1>4 DEF IsSequence

\* The memory is the data, and what is behind it.
LEMMA MemoryOf ==
    ASSUME data \in Seq(Byte), behind \in Seq(Byte)
    PROVE  /\ memory \in Seq(Byte) /\ Len(memory) \in Nat /\ Len(data) \in Nat
           /\ Len(data) <= Len(memory)
           /\ \A i \in 1 .. Len(data) : memory[i] = data[i]
<1>1. Len(data) \in Nat /\ Len(behind) \in Nat
  BY LenProperties
<1>2. /\ memory \in Seq(Byte) /\ Len(memory) = Len(data) + Len(behind)
      /\ \A i \in 1 .. Len(data) + Len(behind) :
            memory[i] = IF i <= Len(data) THEN data[i] ELSE behind[i - Len(data)]
  BY ConcatProperties DEF memory
<1>3. \A i \in 1 .. Len(data) : i \in 1 .. Len(data) + Len(behind) /\ i <= Len(data)
  BY <1>1, SMT
<1>4. \A i \in 1 .. Len(data) : memory[i] = data[i]
  BY <1>2, <1>3, Zenon
<1>5. Len(data) + Len(behind) \in Nat /\ Len(data) <= Len(data) + Len(behind)
  BY <1>1, SMT
<1> QED
  BY <1>1, <1>2, <1>4, <1>5, Zenon

\* The bytes b are in memory where the cursor is.
IsNext(b) ==
    /\ b \in Seq(Byte) /\ Len(b) \in Nat /\ at + Len(b) <= Len(memory)
    /\ \A i \in 1 .. Len(b) : b[i] = memory[at + i]

LEMMA UnreadOf ==
    ASSUME Inv, NEW m, m = data \/ m = memory, at <= Len(m)
    PROVE  IsNext(Unread(m)) /\ at + Len(Unread(m)) = Len(m)
<1>1. at \in Nat /\ data \in Seq(Byte) /\ behind \in Seq(Byte)
  BY DEF Inv
<1>2. m \in Seq(Byte) /\ Len(m) \in Nat /\ Len(m) <= Len(memory) /\ Len(memory) \in Nat
  BY <1>1, MemoryOf, SMT
<1>3. \A i \in 1 .. Len(m) : m[i] = memory[i]
  BY <1>1, MemoryOf
<1> DEFINE u == SubSeq(m, at + 1, Len(m))
<1>4. \A i \in at + 1 .. Len(m) : m[i] \in Byte
  <2>1. \A i \in at + 1 .. Len(m) : i \in 1 .. Len(m)
    BY <1>1, <1>2, SMT
  <2> QED
    BY <1>2, <2>1, ElementOfSeq
<1>5. /\ u \in Seq(Byte) /\ Len(u) = IF at + 1 <= Len(m) THEN Len(m) - (at + 1) + 1 ELSE 0
      /\ \A i \in 1 .. Len(m) - (at + 1) + 1 : u[i] = m[(at + 1) + i - 1]
  <2>1. at + 1 \in Int /\ Len(m) \in Int
    BY <1>1, <1>2, SMT
  <2> QED
    BY <2>1, <1>4, SubSeqProperties
<1> HIDE DEF u
<1>6. Len(u) \in Nat /\ at + Len(u) = Len(m) /\ at + Len(u) <= Len(memory)
  BY <1>1, <1>2, <1>5, SMT
<1>7. \A i \in 1 .. Len(u) : /\ i \in 1 .. Len(m) - (at + 1) + 1 /\ (at + 1) + i - 1 = at + i
                            /\ at + i \in 1 .. Len(m)
  BY <1>1, <1>2, <1>6, SMT
<1>8. \A i \in 1 .. Len(u) : u[i] = memory[at + i]
  BY <1>3, <1>5, <1>7
<1> QED
  BY <1>5, <1>6, <1>8 DEF u, Unread, IsNext

LEMMA LeftOf ==
    ASSUME Inv
    PROVE  /\ IsNext(Left) /\ Left \in Seq(Byte) /\ Len(Left) \in Nat /\ Len(data) \in Nat
           /\ at <= Len(data) => at + Len(Left) = Len(data)
<1>1. at \in Nat /\ at <= Len(memory) /\ Len(data) \in Nat
  BY LenProperties DEF Inv
<1>2. CASE at <= Len(data)
  <2>1. ~(at > Len(data))
    BY <1>1, <1>2, SMT
  <2>2. Left = Unread(data)
    BY <2>1, Zenon DEF Left
  <2> QED
    BY <1>1, <1>2, <2>2, UnreadOf DEF IsNext
<1>3. CASE ~(at <= Len(data))
  <2>1. at > Len(data)
    BY <1>1, <1>3, SMT
  <2>2. Left = Unread(memory)
    BY <2>1, Zenon DEF Left
  <2> QED
    BY <1>1, <1>3, <2>2, UnreadOf DEF IsNext
<1> QED
  BY <1>2, <1>3

LEMMA TextOf ==
    ASSUME Inv
    PROVE  /\ IsNext(Text) /\ Text \in Seq(Byte) /\ Len(Text) \in Nat
           /\ at < Len(data) => at + Len(Text) = Len(data)
<1>1. at \in Nat /\ at <= Len(memory) /\ Len(data) \in Nat
  BY LenProperties DEF Inv
<1>2. CASE at < Len(data)
  <2>1. at <= Len(data) /\ Text = Unread(data)
    BY <1>1, <1>2, SMT DEF Text
  <2> QED
    BY <2>1, UnreadOf DEF IsNext
<1>3. CASE ~(at < Len(data))
  <2>1. Text = Unread(memory)
    BY <1>3 DEF Text
  <2> QED
    BY <1>1, <1>3, <2>1, UnreadOf DEF IsNext
<1> QED
  BY <1>2, <1>3

\* Nothing happens that could be seen.
LEMMA OutsideKeeps ==
    ASSUME Inv, Outside, UNCHANGED <<data, behind>>
    PROVE  Inv'
<1>1. phase' = "outside" /\ UNCHANGED <<data, behind, at, got>> /\ memory' = memory
  BY DEF Outside, memory
<1>2. "outside" # "packing"
  BY SMT
<1> QED
  BY <1>1, <1>2 DEF Inv, IsSequence, IntsInRange

\* Bytes go into the buffer only as far as there is room.
LEMMA PackKeeps ==
    ASSUME Inv, NEW bytes \in Seq(Byte), NEW item, Packing(item),
           AddIntBytes(bytes) \/ AddBytes(bytes)
    PROVE  Inv'
<1>1. /\ phase = "packing" /\ UNCHANGED <<phase, behind, at, got>>
      /\ data \in Seq(Byte) /\ behind \in Seq(Byte) /\ Len(data) <= BufferSize /\ at = 0
  BY DEF Packing, Inv
<1>2. BufferSize \in Nat /\ Len(data) \in Nat /\ Len(bytes) \in Nat
  BY <1>1, Constants, LenProperties
<1>3. PICK n \in 0 .. Len(bytes) :
         data' = data \o SubSeq(bytes, 1, n) /\ Len(data) + n <= BufferSize
  <2>1. CASE data' = data \o bytes /\ Remaining >= Len(bytes)
    BY <2>1, <1>2, SMT DEF Remaining
  <2>2. CASE UNCHANGED data
    <3>1. SubSeq(bytes, 1, 0) = <<>> /\ data \o <<>> = data
      BY <1>1, SubSeqEmpty, ConcatEmptySeq, SMT
    <3> QED
      BY <2>2, <3>1, <1>1, <1>2, SMT
  <2>3. CASE Remaining \in 1 .. Len(bytes) - 1 /\ data' = data \o SubSeq(bytes, 1, Remaining - 1)
    <3>1. Remaining - 1 \in 0 .. Len(bytes) /\ Len(data) + (Remaining - 1) <= BufferSize
      BY <2>3, <1>2, SMT DEF Remaining
    <3> QED
      BY <2>3, <3>1
  <2> QED
    BY <2>1, <2>2, <2>3 DEF AddIntBytes, AddBytes
<1>4. SubSeq(bytes, 1, n) \in Seq(Byte) /\ Len(SubSeq(bytes, 1, n)) = n
  BY <1>2, SubSeqProperties, SMT
<1>5. data' \in Seq(Byte) /\ Len(data') = Len(data) + n
  BY <1>1, <1>3, <1>4, ConcatProperties
<1>6. Len(memory') \in Nat /\ behind' \in Seq(Byte)
  <2>1. behind' \in Seq(Byte)
    BY <1>1
  <2>2. memory' \in Seq(Byte)
    BY <2>1, <1>5, ConcatProperties DEF memory
  <2> QED
    BY <2>1, <2>2, LenProperties
<1> QED
  BY <1>1, <1>2, <1>3, <1>5, <1>6, SMT DEF Inv, IsSequence, IntsInRange

\* The cursor moves within the memory, and an item is added.
LEMMA UnpackKeeps ==
    ASSUME Inv, phase = "unpacking", NEW n \in Nat, at + n <= Len(memory), at' = at + n,
           UNCHANGED <<phase, data, behind>>,
           NEW item, got' = Append(got, item), item.type = "int" => item.value \in Int32
    PROVE  Inv'
<1>1. at \in Nat /\ memory' = memory
  BY DEF Inv, memory
<1>2. at' \in Nat /\ at' <= Len(memory')
  <2>1. at + n \in Nat
    BY <1>1, SMT
  <2> QED
    BY <1>1, <2>1, Zenon
<1>3. IsSequence(got')
  BY Appended DEF Inv
<1>4. IntsInRange'
  BY Appended DEF Inv, IntsInRange
<1> QED
  BY <1>2, <1>3, <1>4, SMT DEF Inv

LEMMA IntKeeps ==
    ASSUME Inv, NEW type \in {"int", "bool"}, Unpacking(type), ReadInt(type)
    PROVE  Inv'
<1> DEFINE item(value) == [type |-> type, value |-> IF type = "bool" THEN value = 1 ELSE value]
<1>1. phase = "unpacking" /\ UNCHANGED <<data, behind>>
  BY DEF Unpacking
<1>2. ASSUME NEW value \in Int32 PROVE item(value).type = "int" => item(value).value \in Int32
  OBVIOUS
<1>3. 0 \in Int32
  BY SMT DEF Int32
<1>4. /\ at \in Nat /\ Len(Left) \in Nat /\ at + Len(Left) <= Len(memory) /\ Len(memory) \in Nat
      /\ Left \in Seq(Byte) /\ Len(data) \in Nat
      /\ at <= Len(data) => at + Len(Left) = Len(data)
  BY LeftOf, MemoryOf DEF IsNext, Inv
<1>5. ASSUME NEW n \in Nat, n <= Len(Left), NEW value \in Int32,
             at' = at + n, got' = Append(got, item(value)), UNCHANGED phase
      PROVE  Inv'
  <2>1. at + n <= Len(memory)
    BY <1>4, <1>5, SMT
  <2> HIDE DEF item
  <2> QED
    BY <1>1, <1>2, <1>5, <2>1, UnpackKeeps
<1> HIDE DEF item
<1>6. CASE Fail(0, item(0), "EMPTY_BUFFER")
  <2>1. 0 \in Nat /\ 0 <= Len(Left)
    BY <1>4, SMT
  <2> QED
    BY <1>3, <1>5, <1>6, <2>1, Zenon DEF Fail
<1>7. ASSUME NEW n \in 1 .. 5, HasSize(Left, n), NEW error, Take(Left, n, item(DecodeInt(Left, n)), error)
      PROVE  Inv'
  <2>1. DecodeInt(Left, n) \in Int32
    BY <1>4, <1>7, DecodedInt
  <2>2. n <= Len(Left)
    BY <1>7 DEF HasSize
  <2>3. n \in Nat
    BY SMT
  <2> QED
    BY <1>5, <1>7, <2>1, <2>2, <2>3 DEF Take
<1>8. CASE at < Len(data) /\ Fail(Len(Left) - 1, item(0), "END_OF_BUFFER")
  <2>1. Len(Left) - 1 \in Nat /\ Len(Left) - 1 <= Len(Left)
    BY <1>4, <1>8, SMT
  <2> QED
    BY <1>3, <1>5, <1>8, <2>1 DEF Fail
<1>9. CASE Outside
  BY <1>1, <1>9, OutsideKeeps
<1> QED
  BY <1>6, <1>7, <1>8, <1>9 DEF ReadInt, item

LEMMA StringKeeps ==
    ASSUME Inv, NEW bits \in Sanitizing, GetString(bits)
    PROVE  Inv'
<1> DEFINE string(s) == [type |-> "string", value |-> s, bits |-> bits]
<1>1. phase = "unpacking" /\ UNCHANGED <<data, behind>>
  BY DEF GetString, Unpacking
<1>2. /\ at \in Nat /\ Len(Text) \in Nat /\ at + Len(Text) <= Len(memory) /\ Len(memory) \in Nat
      /\ Text \in Seq(Byte)
  BY TextOf, MemoryOf DEF IsNext, Inv
<1>3. CASE Outside
  BY <1>1, <1>3, OutsideKeeps
<1>4. ASSUME NEW n \in Nat, n <= Len(Text), NEW s,
             at' = at + n, got' = Append(got, string(s)), UNCHANGED phase
      PROVE  Inv'
  <2>1. string(s).type # "int"
    BY SMT
  <2>2. at + n <= Len(memory)
    BY <1>2, <1>4, SMT
  <2> HIDE DEF string
  <2> QED
    BY <1>1, <1>4, <2>1, <2>2, UnpackKeeps
<1> HIDE DEF string
<1>5. ASSUME NEW n \in DOMAIN Text PROVE n \in Nat /\ n <= Len(Text)
  BY <1>2, LenProperties, SMT
<1>6. CASE Fail(0, string(<<>>), err)
  <2>1. 0 \in Nat /\ 0 <= Len(Text)
    BY <1>2, SMT
  <2> QED
    BY <1>4, <1>6, <2>1, Zenon DEF Fail
<1>7. ASSUME NEW n \in DOMAIN Text, NEW s, Take(Text, n, string(s), err) PROVE Inv'
  BY <1>4, <1>5, <1>7 DEF Take
<1>8. CASE Fail(Len(Text), string(<<>>), "STR_UNEXPECTED_EOF")
  <2>1. Len(Text) <= Len(Text)
    BY <1>2, SMT
  <2> QED
    BY <1>2, <1>4, <1>8, <2>1 DEF Fail
<1> QED
  BY <1>3, <1>6, <1>7, <1>8 DEF GetString, string

LEMMA RawKeeps ==
    ASSUME Inv, NEW n \in 1 .. BufferSize, GetRaw(n)
    PROVE  Inv'
<1> DEFINE raw(d) == [type |-> "raw", value |-> d]
<1>1. phase = "unpacking" /\ UNCHANGED <<data, behind>>
  BY DEF GetRaw, Unpacking
<1>2. n \in Nat /\ 0 \in Nat /\ Len(Left) \in Nat /\ 0 <= Len(Left)
  BY Constants, LeftOf, SMT
<1>3. /\ at \in Nat /\ at + Len(Left) <= Len(memory) /\ Len(memory) \in Nat
  BY LeftOf, MemoryOf DEF IsNext, Inv
<1>4. ASSUME NEW k \in Nat, NEW d, k <= Len(Left), at' = at + k, got' = Append(got, raw(d)), UNCHANGED phase
      PROVE  Inv'
  <2>1. raw(d).type # "int"
    BY SMT
  <2>2. at + k <= Len(memory)
    BY <1>2, <1>3, <1>4, SMT
  <2> HIDE DEF raw
  <2> QED
    BY <1>1, <1>4, <2>1, <2>2, UnpackKeeps
<1> HIDE DEF raw
<1>5. CASE n <= Len(Left) /\ Take(Left, n, raw(SubSeq(Left, 1, n)), err)
  BY <1>2, <1>4, <1>5 DEF Take
<1>6. CASE Fail(0, raw(<<>>), "END_OF_BUFFER")
  BY <1>2, <1>4, <1>6 DEF Fail
<1>7. CASE Outside
  BY <1>1, <1>7, OutsideKeeps
<1> QED
  BY <1>5, <1>6, <1>7 DEF GetRaw, raw

LEMMA InitKeeps == Init => Inv
<1> SUFFICES ASSUME Init PROVE Inv
  OBVIOUS
<1>1. data = <<>> /\ behind = <<>> /\ got = <<>> /\ at = 0 /\ phase = "packing"
  BY DEF Init
<1>2. BufferSize \in Nat
  BY Constants
<1>3. <<>> \in Seq(Byte) /\ Len(<<>>) = 0 /\ DOMAIN <<>> = {}
  BY SMT
<1>4. Len(memory) \in Nat
  BY <1>1, <1>3, MemoryOf
<1> QED
  BY <1>1, <1>2, <1>3, <1>4, SMT DEF Inv, IsSequence, IntsInRange

LEMMA NextKeeps == Inv /\ [Next]_vars => Inv'
<1> SUFFICES ASSUME Inv, [Next]_vars PROVE Inv'
  OBVIOUS
<1>1. ASSUME NEW value \in Ints, AddInt(value) PROVE Inv'
  BY <1>1, Constants, EncodedBytes, PackKeeps DEF AddInt
<1>2. ASSUME NEW b \in BOOLEAN, AddBool(b) PROVE Inv'
  <2>1. (IF b THEN 1 ELSE 0) \in Int32
    BY SMT DEF Int32
  <2> QED
    BY <1>2, <2>1, EncodedBytes, PackKeeps DEF AddBool
<1>3. ASSUME NEW s \in Strings, AddString(s) PROVE Inv'
  <2>1. s \in Seq(Byte \ {0})
    BY Constants
  <2>2. s \in Seq(Byte) /\ 0 \in Byte
    BY <2>1, SMT DEF Byte
  <2>3. Append(s, 0) \in Seq(Byte)
    BY <2>2, AppendProperties
  <2> QED
    BY <1>3, <2>3, PackKeeps DEF AddString
<1>4. ASSUME NEW d \in Raws, AddRaw(d) PROVE Inv'
  BY <1>4, Constants, PackKeeps DEF AddRaw
<1>5. ASSUME phase = "packing", phase' = "unpacking", data' \in Seq(Byte), behind' \in Behind,
             UNCHANGED <<at, got>>
      PROVE  Inv'
  <2>1. behind' \in Seq(Byte) /\ at' = 0 /\ IsSequence(got') /\ IntsInRange'
    BY <1>5, Constants DEF Inv, IsSequence, IntsInRange
  <2>2. memory' \in Seq(Byte)
    BY <1>5, <2>1, ConcatProperties DEF memory
  <2>3. Len(memory') \in Nat
    BY <2>2, LenProperties
  <2>4. at' \in Nat /\ at' <= Len(memory') /\ phase' # "packing"
    BY <1>5, <2>1, <2>3, SMT
  <2> QED
    BY <1>5, <2>1, <2>4 DEF Inv
<1>6. ASSUME NEW m \in Behind, Unpack(m) \/ \E d \in ForeignData : UnpackForeign(d, m) PROVE Inv'
  <2>1. data' \in Seq(Byte)
    BY <1>6, Constants DEF Unpack, UnpackForeign, Inv
  <2> QED
    BY <1>5, <1>6, <2>1 DEF Unpack, UnpackForeign
<1>7. CASE GetInt
  BY <1>7, IntKeeps DEF GetInt
<1>8. CASE GetBool
  BY <1>8, IntKeeps DEF GetBool
<1>9. CASE UNCHANGED vars
  <2>1. memory' = memory
    BY <1>9 DEF vars, memory
  <2> QED
    BY <1>9, <2>1 DEF vars, Inv, IsSequence, IntsInRange
<1> QED
  BY <1>1, <1>2, <1>3, <1>4, <1>6, <1>7, <1>8, <1>9, StringKeeps, RawKeeps DEF Next

(* The packer never holds more than its buffer, an integer has 32 bits     *)
(* whatever bytes it is read from, and as long as what is read is known,   *)
(* the cursor is in the data or the memory behind it: nothing keeps it in  *)
(* the data (ddproto_packer_add_int, ddproto_unpacker_get_int, and the     *)
(* others).                                                                *)
THEOREM PackerTypes == Spec => []TypeOK
<1>1. Inv => TypeOK
  <2> SUFFICES ASSUME Inv PROVE TypeOK
    OBVIOUS
  <2>1. at \in Nat /\ at <= Len(memory) /\ Len(memory) \in Nat
    BY MemoryOf DEF Inv
  <2>2. at \in 0 .. Len(memory)
    BY <2>1, SMT
  <2>3. \A i \in DOMAIN data : data[i] \in Byte
    BY LenProperties, SMT DEF Inv
  <2> QED
    BY <2>2, <2>3 DEF Inv, TypeOK, IntsInRange
<1> QED
  BY <1>1, InitKeeps, NextKeeps, PTL DEF Spec

-----------------------------------------------------------------------------
(* Spaces *)

\* What ddproto_str_clean_whitespaces does with a character.
Cleaned(before, c) ==
    LET spaced == IF before.found THEN Append(before.out, 32) ELSE before.out
    IN  IF c = 32 THEN [before EXCEPT !.found = before.out # <<>>]
        ELSE [out |-> Append(spaced, c), found |-> FALSE]

\* w is its state after each of the first n characters of s.
Cleans(w, s, n) ==
    w = [i \in 0 .. n |-> IF i = 0 THEN [out |-> <<>>, found |-> FALSE] ELSE Cleaned(w[i - 1], s[i])]

LEMMA CleansExists ==
    ASSUME NEW s, NEW n \in Nat
    PROVE  \E w : Cleans(w, s, n)
<1> DEFINE start == [out |-> <<>>, found |-> FALSE]
           H == {k \in Nat : \E w : Cleans(w, s, k)}
<1>1. 0 \in H
  <2> DEFINE w == [i \in 0 .. 0 |-> start]
  <2>1. \A i \in 0 .. 0 : i = 0
    BY SMT
  <2>2. w = [i \in 0 .. 0 |-> IF i = 0 THEN start ELSE Cleaned(w[i - 1], s[i])]
    BY <2>1, Zenon
  <2>3. Cleans(w, s, 0)
    BY <2>2 DEF Cleans
  <2> QED
    BY <2>3
<1>2. ASSUME NEW k \in Nat, k \in H PROVE k + 1 \in H
  <2>1. PICK w : Cleans(w, s, k)
    BY <1>2
  <2> DEFINE h == [i \in 0 .. k + 1 |-> IF i = k + 1 THEN Cleaned(w[k], s[i]) ELSE w[i]]
  <2>2. ASSUME NEW i \in 0 .. k + 1
        PROVE  h[i] = IF i = 0 THEN start ELSE Cleaned(h[i - 1], s[i])
    <3>1. CASE i = k + 1
      <4>1. i # 0 /\ k \in 0 .. k + 1 /\ k # k + 1 /\ i - 1 = k
        BY <3>1, SMT
      <4>2. h[i - 1] = w[k] /\ h[i] = Cleaned(w[k], s[i])
        BY <3>1, <4>1
      <4> QED
        BY <4>1, <4>2
    <3>2. CASE i # k + 1
      <4>1. i \in 0 .. k /\ h[i] = w[i]
        BY <3>2, SMT
      <4>2. w[i] = IF i = 0 THEN start ELSE Cleaned(w[i - 1], s[i])
        BY <2>1, <4>1 DEF Cleans
      <4>3. i # 0 => h[i - 1] = w[i - 1]
        <5>1. i # 0 => i - 1 \in 0 .. k + 1 /\ i - 1 # k + 1
          BY <4>1, SMT
        <5> QED
          BY <5>1
      <4> QED
        BY <4>1, <4>2, <4>3
    <3> QED
      BY <3>1, <3>2
  <2>3. Cleans(h, s, k + 1)
    <3>1. h = [i \in 0 .. k + 1 |-> h[i]]
      OBVIOUS
    <3> HIDE DEF h
    <3> QED
      BY <2>2, <3>1 DEF Cleans
  <2> QED
    BY <2>3
<1> HIDE DEF H
<1>3. n \in H
  BY <1>1, <1>2, Induction
<1> QED
  BY <1>3 DEF H

LEMMA CleanLast ==
    ASSUME NEW s, Len(s) \in Nat
    PROVE  \E w : Cleans(w, s, Len(s)) /\ CleanWhitespaces(s) = w[Len(s)].out
<1>1. \E w : Cleans(w, s, Len(s))
  BY CleansExists
<1>2. CleanWhitespaces(s) = (CHOOSE w : Cleans(w, s, Len(s)))[Len(s)].out
  BY DEF CleanWhitespaces, Cleans, Cleaned
<1> QED
  BY <1>1, <1>2

\* p is the numbers of K from the smallest on.
Enumerates(p, m, K) ==
    /\ p \in [1 .. m -> K]
    /\ \A k \in K : \E i \in 1 .. m : p[i] = k
    /\ \A i, j \in 1 .. m : i < j => p[i] < p[j]

\* out is what s has in the places K.
Picked(out, s, K) ==
    /\ out \in Seq(Byte)
    /\ \E p : Enumerates(p, Len(out), K) /\ \A i \in 1 .. Len(out) : out[i] = s[p[i]]

LEMMA PickMore ==
    ASSUME NEW out, NEW s, NEW K \in SUBSET Nat, Picked(out, s, K),
           NEW n \in Nat, s[n] \in Byte, \A k \in K : k < n
    PROVE  Picked(Append(out, s[n]), s, K \cup {n})
<1> DEFINE m == Len(out)
           t == Append(out, s[n])
           L == K \cup {n}
<1>1. PICK p : Enumerates(p, m, K) /\ \A i \in 1 .. m : out[i] = s[p[i]]
  BY DEF Picked
<1>2. out \in Seq(Byte) /\ m \in Nat
  BY LenProperties DEF Picked
<1>3. t \in Seq(Byte) /\ Len(t) = m + 1 /\ (\A i \in 1 .. m : t[i] = out[i]) /\ t[m + 1] = s[n]
  BY <1>2, AppendProperties
<1> DEFINE q == [i \in 1 .. m + 1 |-> IF i = m + 1 THEN n ELSE p[i]]
<1> HIDE DEF m, t
<1>4. /\ \A i \in 1 .. m : i \in 1 .. m + 1 /\ i # m + 1 /\ p[i] \in K /\ p[i] \in Nat /\ p[i] < n
      /\ \A i \in 1 .. m + 1 : i = m + 1 \/ i \in 1 .. m
      /\ m + 1 \in 1 .. m + 1
  <2>1. \A i \in 1 .. m : p[i] \in K
    BY <1>1 DEF Enumerates
  <2>2. \A i \in 1 .. m : i \in 1 .. m + 1 /\ i # m + 1
    BY <1>2, SMT
  <2>3. m + 1 \in 1 .. m + 1 /\ \A i \in 1 .. m + 1 : i = m + 1 \/ i \in 1 .. m
    BY <1>2, SMT
  <2> QED
    BY <2>1, <2>2, <2>3
<1>5. (\A i \in 1 .. m : q[i] = p[i]) /\ q[m + 1] = n
  BY <1>4
<1>6. q \in [1 .. m + 1 -> L]
  BY <1>4
<1> HIDE DEF q
<1>7. \A k \in L : \E i \in 1 .. m + 1 : q[i] = k
  BY <1>1, <1>4, <1>5 DEF Enumerates
<1>8. ASSUME NEW i \in 1 .. m + 1, NEW j \in 1 .. m + 1, i < j PROVE q[i] < q[j]
  <2>1. i \in 1 .. m
    BY <1>2, <1>8, SMT
  <2> QED
    BY <1>1, <1>4, <1>5, <1>8, <2>1 DEF Enumerates
<1>9. Enumerates(q, m + 1, L)
  BY <1>6, <1>7, <1>8 DEF Enumerates
<1>10. \A i \in 1 .. m + 1 : t[i] = s[q[i]]
  BY <1>1, <1>3, <1>4, <1>5
<1> QED
  BY <1>3, <1>9, <1>10 DEF Picked, t

\* The places among the first n that stay if nothing comes after them.
Kept(s, n) == {i \in 1 .. n : \/ s[i] # 32
                              \/ i > 1 /\ s[i - 1] # 32 /\ (\E j \in i + 1 .. n : s[j] # 32)}

CleanedUpTo(c, s, n) ==
    /\ \E out, found : found \in BOOLEAN /\ c = [out |-> out, found |-> found]
    /\ Picked(c.out, s, Kept(s, n))
    /\ c.found <=> n > 0 /\ Kept(s, n) # {} /\ s[n] = 32

LEMMA CleanedIs ==
    ASSUME NEW s, NEW n, NEW out, NEW found \in BOOLEAN, Picked(out, s, Kept(s, n)),
           found <=> n > 0 /\ Kept(s, n) # {} /\ s[n] = 32
    PROVE  CleanedUpTo([out |-> out, found |-> found], s, n)
<1> DEFINE c == [out |-> out, found |-> found]
<1>1. c.out = out
  OBVIOUS
<1>2. c.found = found
  BY Zenon
<1>3. \E o, f : f \in BOOLEAN /\ c = [out |-> o, found |-> f]
  BY Zenon
<1> HIDE DEF c
<1> QED
  BY <1>1, <1>2, <1>3, Zenon DEF CleanedUpTo, c

LEMMA CleanNothing == ASSUME NEW s PROVE CleanedUpTo([out |-> <<>>, found |-> FALSE], s, 0)
<1>1. Kept(s, 0) = {}
  BY SMT DEF Kept
<1>2. <<>> \in Seq(Byte) /\ Len(<<>>) = 0 /\ 1 .. 0 = {}
  BY SMT
<1> DEFINE p == [i \in {} |-> 0]
<1>3. Enumerates(p, 0, {})
  BY <1>2 DEF Enumerates
<1>4. Picked(<<>>, s, {})
  BY <1>2, <1>3 DEF Picked
<1>5. ~(0 > 0)
  BY SMT
<1> QED
  BY <1>1, <1>4, <1>5, CleanedIs, Zenon

\* A space is no part of what stays yet.
LEMMA CleanSpace ==
    ASSUME NEW s, NEW n \in Nat, NEW c, CleanedUpTo(c, s, n), s[n + 1] = 32
    PROVE  CleanedUpTo(Cleaned(c, s[n + 1]), s, n + 1)
<1>1. Kept(s, n + 1) = Kept(s, n)
  <2>1. ASSUME NEW i \in 1 .. n + 1 PROVE i \in Kept(s, n + 1) <=> i \in Kept(s, n)
    <3>1. CASE i = n + 1
      <4>1. i + 1 .. n + 1 = {} /\ i \notin 1 .. n
        BY <3>1, SMT
      <4> QED
        BY <3>1, <4>1 DEF Kept
    <3>2. CASE i # n + 1
      <4>1. i \in 1 .. n /\ \A j : j \in i + 1 .. n + 1 <=> j \in i + 1 .. n \/ j = n + 1
        BY <3>2, SMT
      <4> QED
        BY <4>1 DEF Kept
    <3> QED
      BY <3>1, <3>2
  <2>2. Kept(s, n) \subseteq 1 .. n + 1 /\ Kept(s, n + 1) \subseteq 1 .. n + 1
    BY SMT DEF Kept
  <2> QED
    BY <2>1, <2>2
<1>2. PICK out, found : found \in BOOLEAN /\ c = [out |-> out, found |-> found]
  BY DEF CleanedUpTo
<1>3. Cleaned(c, s[n + 1]) = [out |-> out, found |-> out # <<>>]
  BY <1>2, Zenon DEF Cleaned
<1>4. Picked(out, s, Kept(s, n))
  BY <1>2 DEF CleanedUpTo
<1>5. out # <<>> <=> Kept(s, n) # {}
  <2>1. PICK p : Enumerates(p, Len(out), Kept(s, n))
    BY <1>4 DEF Picked
  <2>2. out \in Seq(Byte)
    BY <1>4 DEF Picked
  <2>3. out # <<>> => 1 \in 1 .. Len(out)
    BY <2>2, EmptySeq, SMT
  <2>4. out = <<>> => 1 .. Len(out) = {}
    BY SMT
  <2> QED
    BY <2>1, <2>3, <2>4 DEF Enumerates
<1>6. n + 1 > 0 /\ (out # <<>>) \in BOOLEAN
  BY SMT
<1> QED
  BY <1>1, <1>3, <1>4, <1>5, <1>6, CleanedIs, Zenon

\* The last place that stays holds no space, and what comes after it does.
LEMMA LastKept ==
    ASSUME NEW s, NEW n \in Nat, NEW out, Picked(out, s, Kept(s, n)), Kept(s, n) # {}
    PROVE  \E e \in Kept(s, n) :
              /\ s[e] # 32 /\ e \in 1 .. n
              /\ \A k \in Kept(s, n) : k <= e
              /\ \A i \in e + 1 .. n : s[i] = 32
<1>1. PICK p : Enumerates(p, Len(out), Kept(s, n))
  BY DEF Picked
<1> DEFINE m == Len(out)
<1>2. m \in Nat /\ m # 0
  <2>1. m \in Nat
    BY LenProperties DEF Picked
  <2>2. m = 0 => 1 .. m = {}
    BY SMT
  <2> QED
    BY <1>1, <2>1, <2>2 DEF Enumerates
<1> HIDE DEF m
<1>3. p[m] \in Kept(s, n) /\ m \in 1 .. m
  BY <1>1, <1>2, SMT DEF Enumerates, m
<1>4. \A k \in Kept(s, n) : k <= p[m]
  <2>1. ASSUME NEW k \in Kept(s, n) PROVE k <= p[m]
    <3>1. PICK i \in 1 .. m : p[i] = k
      BY <1>1 DEF Enumerates, m
    <3>2. i < m \/ i = m
      BY <1>2, SMT
    <3>3. k \in Nat /\ p[m] \in Nat
      BY <1>3, SMT DEF Kept
    <3>4. i < m => p[i] < p[m]
      BY <1>1, <1>3 DEF Enumerates, m
    <3> QED
      BY <3>1, <3>2, <3>3, <3>4, SMT
  <2> QED
    BY <2>1
<1>5. p[m] \in 1 .. n
  BY <1>3 DEF Kept
<1>6. \A i \in p[m] + 1 .. n : s[i] = 32
  <2>1. ASSUME NEW i \in p[m] + 1 .. n PROVE s[i] = 32
    <3>1. i \in 1 .. n /\ ~(i <= p[m])
      BY <1>5, SMT
    <3> QED
      BY <1>4, <3>1 DEF Kept
  <2> QED
    BY <2>1
<1>7. s[p[m]] # 32
  BY <1>3, <1>6 DEF Kept
<1> QED
  BY <1>3, <1>4, <1>5, <1>6, <1>7

\* Another character is put behind the last word, or begins the next.
LEMMA CleanOther ==
    ASSUME NEW s, NEW n \in Nat, NEW c, CleanedUpTo(c, s, n), s[n + 1] # 32, s[n + 1] \in Byte
    PROVE  CleanedUpTo(Cleaned(c, s[n + 1]), s, n + 1)
<1>1. PICK out, found : found \in BOOLEAN /\ c = [out |-> out, found |-> found]
  BY DEF CleanedUpTo
<1>2. Picked(out, s, Kept(s, n)) /\ (found <=> n > 0 /\ Kept(s, n) # {} /\ s[n] = 32)
  BY <1>1 DEF CleanedUpTo
<1>3. Kept(s, n) \in SUBSET Nat /\ \A k \in Kept(s, n) : k < n + 1
  BY SMT DEF Kept
<1>4. \A i, j : j \in i + 1 .. n => j \in i + 1 .. n + 1
  BY SMT
<1>5. Kept(s, n) \cup {n + 1} \subseteq Kept(s, n + 1)
  <2>1. n + 1 \in 1 .. n + 1 /\ \A i \in 1 .. n : i \in 1 .. n + 1
    BY SMT
  <2> QED
    BY <2>1, <1>4 DEF Kept
<1>6. CASE found
  <2>1. PICK e \in Kept(s, n) :
           /\ s[e] # 32 /\ e \in 1 .. n
           /\ \A k \in Kept(s, n) : k <= e
           /\ \A i \in e + 1 .. n : s[i] = 32
    BY <1>2, <1>6, LastKept
  <2>2. e # n
    BY <1>2, <1>6, <2>1
  <2>3. /\ e \in Nat /\ e + 1 \in Nat /\ e + 1 \in e + 1 .. n /\ e + 1 \in 1 .. n + 1 /\ e + 1 > 1
        /\ n + 1 \in (e + 1) + 1 .. n + 1 /\ (e + 1) - 1 = e
    BY <2>1, <2>2, SMT
  <2>4. s[e + 1] = 32 /\ s[e + 1] \in Byte
    BY <2>1, <2>3, SMT DEF Byte
  <2> DEFINE K == Kept(s, n) \cup {e + 1}
  <2>5. Picked(Append(out, 32), s, K)
    <3>1. \A k \in Kept(s, n) : k < e + 1
      BY <2>1, <1>3, SMT
    <3> QED
      BY <1>2, <1>3, <2>3, <2>4, <3>1, PickMore
  <2>6. Picked(Append(Append(out, 32), s[n + 1]), s, K \cup {n + 1})
    <3>1. K \in SUBSET Nat /\ n + 1 \in Nat /\ \A k \in K : k < n + 1
      BY <1>3, <2>1, <2>2, <2>3, SMT
    <3> HIDE DEF K
    <3> QED
      BY <2>5, <3>1, PickMore
  <2>7. K \cup {n + 1} = Kept(s, n + 1)
    <3>1. e + 1 \in Kept(s, n + 1)
      BY <2>1, <2>3 DEF Kept
    <3>2. ASSUME NEW i \in Kept(s, n + 1), i # n + 1, i # e + 1 PROVE i \in Kept(s, n)
      <4>1. i \in 1 .. n /\ i \in 1 .. n + 1
        BY <3>2, SMT DEF Kept
      <4>2. CASE s[i] # 32
        BY <4>1, <4>2 DEF Kept
      <4>3. CASE s[i] = 32
        <5>1. i > 1 /\ s[i - 1] # 32
          BY <3>2, <4>3 DEF Kept
        <5>2. ~(i >= e + 2)
          <6>1. i >= e + 2 => i - 1 \in e + 1 .. n
            BY <2>3, <4>1, SMT
          <6> QED
            BY <2>1, <5>1, <6>1
        <5>3. e \in i + 1 .. n
          <6>1. i # e
            BY <2>1, <4>3
          <6> QED
            BY <2>1, <2>3, <3>2, <4>1, <5>2, <6>1, SMT
        <5> QED
          BY <2>1, <4>1, <5>1, <5>3 DEF Kept
      <4> QED
        BY <4>2, <4>3
    <3> QED
      BY <1>5, <3>1, <3>2
  <2>8. Cleaned(c, s[n + 1]) = [out |-> Append(Append(out, 32), s[n + 1]), found |-> FALSE]
    BY <1>1, <1>6, Zenon DEF Cleaned
  <2> QED
    BY <2>6, <2>7, <2>8, CleanedIs, Zenon
<1>7. CASE ~found
  <2>1. Picked(Append(out, s[n + 1]), s, Kept(s, n) \cup {n + 1})
    BY <1>2, <1>3, PickMore
  <2>2. Kept(s, n) \cup {n + 1} = Kept(s, n + 1)
    <3>1. ASSUME NEW i \in Kept(s, n + 1), i # n + 1 PROVE i \in Kept(s, n)
      <4>1. i \in 1 .. n /\ i \in Nat /\ n > 0 /\ n \in 1 .. n
        BY <3>1, SMT DEF Kept
      <4>2. CASE s[i] # 32
        BY <4>1, <4>2 DEF Kept
      <4>3. CASE s[i] = 32
        <5>1. i > 1 /\ s[i - 1] # 32
          BY <3>1, <4>3 DEF Kept
        <5>2. i - 1 \in Kept(s, n)
          <6>1. i - 1 \in 1 .. n
            BY <4>1, <5>1, SMT
          <6> QED
            BY <5>1, <6>1 DEF Kept
        <5>3. s[n] # 32
          BY <1>2, <1>7, <4>1, <5>2
        <5>4. n \in i + 1 .. n
          <6>1. i # n
            BY <4>3, <5>3
          <6> QED
            BY <4>1, <6>1, SMT
        <5> QED
          BY <4>1, <5>1, <5>3, <5>4 DEF Kept
      <4> QED
        BY <4>2, <4>3
    <3> QED
      BY <1>5, <3>1
  <2>3. Cleaned(c, s[n + 1]) = [out |-> Append(out, s[n + 1]), found |-> FALSE]
    BY <1>1, <1>7, Zenon DEF Cleaned
  <2> QED
    BY <2>1, <2>2, <2>3, CleanedIs, Zenon
<1> QED
  BY <1>1, <1>6, <1>7

\* The loop, over all of s.
LEMMA CleanAll ==
    ASSUME NEW s \in Seq(Byte)
    PROVE  Picked(CleanWhitespaces(s), s, Stays(s))
<1>1. Len(s) \in Nat /\ DOMAIN s = 1 .. Len(s) /\ \A i \in 1 .. Len(s) : s[i] \in Byte
  BY LenProperties
<1>2. PICK w : Cleans(w, s, Len(s)) /\ CleanWhitespaces(s) = w[Len(s)].out
  BY <1>1, CleanLast
<1> DEFINE H == {n \in Nat : n <= Len(s) => CleanedUpTo(w[n], s, n)}
<1>3. 0 \in H
  <2>1. 0 \in 0 .. Len(s)
    BY <1>1, SMT
  <2>2. w[0] = [out |-> <<>>, found |-> FALSE]
    BY <1>2, <2>1 DEF Cleans
  <2> QED
    BY <2>2, CleanNothing
<1>4. ASSUME NEW n \in Nat, n \in H PROVE n + 1 \in H
  <2> SUFFICES ASSUME n + 1 <= Len(s) PROVE CleanedUpTo(w[n + 1], s, n + 1)
    OBVIOUS
  <2>1. n + 1 \in 0 .. Len(s) /\ n + 1 # 0 /\ (n + 1) - 1 = n /\ n + 1 \in 1 .. Len(s) /\ n <= Len(s)
    BY <1>1, SMT
  <2>2. w[n + 1] = Cleaned(w[n], s[n + 1])
    BY <1>2, <2>1 DEF Cleans
  <2>3. CleanedUpTo(w[n], s, n) /\ s[n + 1] \in Byte
    BY <1>1, <1>4, <2>1
  <2> QED
    BY <2>2, <2>3, CleanSpace, CleanOther
<1> HIDE DEF H
<1>5. Len(s) \in H
  BY <1>1, <1>3, <1>4, Induction
<1>6. CleanedUpTo(w[Len(s)], s, Len(s))
  BY <1>1, <1>5, SMT DEF H
<1>7. Kept(s, Len(s)) = Stays(s)
  BY <1>1 DEF Kept, Stays
<1> QED
  BY <1>2, <1>6, <1>7 DEF CleanedUpTo

\* The i-th of some numbers has i of them up to it.
LEMMA Ranks ==
    ASSUME NEW K \in SUBSET Nat, NEW m \in Nat, NEW p, Enumerates(p, m, K)
    PROVE  /\ Cardinality(K) = m
           /\ \A i \in 1 .. m : Cardinality({j \in K : j <= p[i]}) = i
<1>1. ASSUME NEW i \in 0 .. m, NEW L, L = {p[j] : j \in 1 .. i} PROVE Cardinality(L) = i
  <2> DEFINE q == [j \in 1 .. i |-> p[j]]
  <2>1. i \in Nat /\ \A j \in 1 .. i : j \in 1 .. m /\ j \in Nat
    BY SMT
  <2>2. q \in [1 .. i -> L] /\ \A k \in L : \E j \in 1 .. i : q[j] = k
    BY <1>1
  <2>3. ASSUME NEW a \in 1 .. i, NEW b \in 1 .. i, q[a] = q[b] PROVE a = b
    <3>1. p[a] = p[b] /\ p[a] \in Nat
      BY <2>1, <2>3 DEF Enumerates
    <3>2. ~(a < b) /\ ~(b < a)
      BY <2>1, <3>1, SMT DEF Enumerates
    <3> QED
      BY <2>1, <3>2, SMT
  <2> HIDE DEF q
  <2>4. q \in Bijection(1 .. i, L)
    BY <2>2, <2>3, Fun_IsBij, Zenon
  <2> QED
    BY <2>1, <2>4, FS_CountingElements DEF ExistsBijection
<1>2. K = {p[j] : j \in 1 .. m}
  BY DEF Enumerates
<1>3. ASSUME NEW i \in 1 .. m PROVE {j \in K : j <= p[i]} = {p[j] : j \in 1 .. i}
  <2>1. \A j \in 1 .. i : j \in 1 .. m /\ (j < i \/ j = i)
    BY SMT
  <2>2. \A j \in 1 .. m : p[j] \in Nat /\ p[j] \in K
    BY DEF Enumerates
  <2>3. ASSUME NEW j \in 1 .. i PROVE p[j] \in K /\ p[j] <= p[i]
    <3>1. j < i => p[j] < p[i]
      BY <2>1 DEF Enumerates
    <3> QED
      BY <2>1, <2>2, <3>1, SMT
  <2>4. ASSUME NEW k \in K, k <= p[i] PROVE \E j \in 1 .. i : p[j] = k
    <3>1. PICK j \in 1 .. m : p[j] = k
      BY DEF Enumerates
    <3>2. ~(i < j)
      <4>1. i < j => p[i] < p[j]
        BY DEF Enumerates
      <4> QED
        BY <2>2, <2>4, <3>1, <4>1, SMT
    <3>3. j \in 1 .. i
      BY <3>2, SMT
    <3> QED
      BY <3>1, <3>3
  <2> QED
    BY <2>3, <2>4
<1>4. \A i \in 1 .. m : i \in 0 .. m
  BY SMT
<1>5. m \in 0 .. m
  BY SMT
<1> QED
  BY <1>1, <1>2, <1>3, <1>4, <1>5

\* ddproto_str_clean_whitespaces leaves the words of the string, a space apart.
LEMMA CleanIsTidy ==
    ASSUME NEW s \in Seq(Byte)
    PROVE  CleanWhitespaces(s) = Tidy(s)
<1> DEFINE out == CleanWhitespaces(s)
           K == Stays(s)
           m == Len(out)
           place(n) == CHOOSE i \in K : Cardinality({j \in K : j <= i}) = n
<1>1. Picked(out, s, K)
  BY CleanAll
<1>2. K \in SUBSET Nat
  <2>1. DOMAIN s \subseteq Nat
    BY LenProperties, SMT
  <2> QED
    BY <2>1 DEF Stays
<1> HIDE DEF out, K
<1>3. out \in Seq(Byte) /\ m \in Nat /\ out = [n \in 1 .. m |-> out[n]]
  <2>1. out \in Seq(Byte)
    BY <1>1 DEF Picked
  <2>2. m \in Nat /\ out \in [1 .. m -> Byte]
    BY <2>1, LenProperties
  <2> QED
    BY <2>1, <2>2
<1>4. PICK p : Enumerates(p, m, K) /\ \A i \in 1 .. m : out[i] = s[p[i]]
  BY <1>1 DEF Picked
<1>5. Cardinality(K) = m /\ \A i \in 1 .. m : Cardinality({j \in K : j <= p[i]}) = i
  BY <1>2, <1>3, <1>4, Ranks
<1>6. ASSUME NEW n \in 1 .. m PROVE place(n) = p[n]
  <2>1. p[n] \in K /\ Cardinality({j \in K : j <= p[n]}) = n
    BY <1>4, <1>5 DEF Enumerates
  <2>2. ASSUME NEW i \in K, Cardinality({j \in K : j <= i}) = n PROVE i = p[n]
    <3>1. PICK a \in 1 .. m : p[a] = i
      BY <1>4 DEF Enumerates
    <3>2. a = n
      BY <1>5, <2>2, <3>1
    <3> QED
      BY <3>1, <3>2
  <2> QED
    BY <2>1, <2>2
<1>7. Tidy(s) = [n \in 1 .. m |-> s[place(n)]]
  BY <1>5 DEF Tidy, K
<1> HIDE DEF place, m
<1>8. out = [n \in 1 .. m |-> s[place(n)]]
  BY <1>3, <1>4, <1>6
<1> QED
  BY <1>7, <1>8 DEF out

-----------------------------------------------------------------------------
(* What was read *)

\* The cursor left the data when a string was read with nothing left.
Strayed ==
    at > Len(data) =>
        \E i \in DOMAIN got : got[i].type = "string" /\ FlattenSeq(SubSeq(read, 1, i - 1)) = data

ReadInv ==
    /\ phase = "packing" => read = <<>> /\ got = <<>> /\ err = "NONE"
    /\ err = "NONE" =>
        /\ read \in Seq(Seq(Byte)) /\ Len(read) = Len(got)
        /\ FlattenSeq(read) = SubSeq(memory, 1, at)
        /\ \A i \in DOMAIN got :
              got[i].type = "bool" => DecodeInt(read[i], Len(read[i])) \in {0, 1}
        /\ Strayed

\* Nothing has been read, whatever data there is.
LEMMA NothingRead ==
    ASSUME read' = <<>>, got' = <<>>, at' = 0, data' \in Seq(Byte)
    PROVE  ReadInv' <=> (phase' = "packing" => err' = "NONE")
<1>1. SubSeq(memory', 1, 0) = <<>>
  BY SubSeqEmpty, SMT
<1>2. <<>> \in Seq(Seq(Byte)) /\ DOMAIN <<>> = {} /\ Len(<<>>) = 0
  BY SMT
<1>3. Strayed'
  <2>1. Len(data') \in Nat
    BY LenProperties
  <2>2. ~(at' > Len(data'))
    BY <2>1, SMT
  <2> QED
    BY <2>2 DEF Strayed
<1> QED
  BY <1>1, <1>2, <1>3, FlattenEmpty DEF ReadInv

\* What is appended, or put behind, does not change what was there.
LEMMA SubSeqOfAppend ==
    ASSUME NEW S, NEW q \in Seq(S), NEW x \in S, NEW k \in 0 .. Len(q)
    PROVE  SubSeq(Append(q, x), 1, k) = SubSeq(q, 1, k)
<1> DEFINE t == Append(q, x)
<1>1. Len(q) \in Nat /\ Len(t) = Len(q) + 1 /\ \A i \in 1 .. Len(q) : t[i] = q[i] /\ q[i] \in S
  BY AppendProperties, LenProperties, ElementOfSeq
<1> HIDE DEF t
<1>2. k \in Int /\ 1 \in Int /\ \A i \in 1 .. k : i \in 1 .. Len(q)
  BY <1>1, SMT
<1>3. \A i \in 1 .. k : t[i] \in S /\ q[i] \in S /\ t[i] = q[i]
  BY <1>1, <1>2
<1>4. /\ SubSeq(t, 1, k) \in Seq(S) /\ Len(SubSeq(t, 1, k)) = IF 1 <= k THEN k - 1 + 1 ELSE 0
      /\ \A i \in 1 .. k - 1 + 1 : SubSeq(t, 1, k)[i] = t[1 + i - 1]
  BY <1>2, <1>3, SubSeqProperties
<1>5. /\ SubSeq(q, 1, k) \in Seq(S) /\ Len(SubSeq(q, 1, k)) = IF 1 <= k THEN k - 1 + 1 ELSE 0
      /\ \A i \in 1 .. k - 1 + 1 : SubSeq(q, 1, k)[i] = q[1 + i - 1]
  BY <1>2, <1>3, SubSeqProperties
<1>6. \A i \in 1 .. Len(SubSeq(t, 1, k)) : i \in 1 .. k - 1 + 1 /\ 1 + i - 1 \in 1 .. k
  BY <1>2, <1>4, SMT
<1>7. \A i \in 1 .. Len(SubSeq(t, 1, k)) : SubSeq(t, 1, k)[i] = SubSeq(q, 1, k)[i]
  BY <1>3, <1>4, <1>5, <1>6
<1>8. SubSeq(t, 1, k) = SubSeq(q, 1, k)
  BY <1>4, <1>5, <1>7, SeqEqual
<1> QED
  BY <1>8 DEF t

LEMMA PrefixOfConcat ==
    ASSUME NEW q \in Seq(Byte), NEW u \in Seq(Byte)
    PROVE  SubSeq(q \o u, 1, Len(q)) = q
<1> DEFINE t == q \o u
           c == SubSeq(t, 1, Len(q))
<1>1. Len(q) \in Nat /\ Len(u) \in Nat
  BY LenProperties
<1>2. /\ t \in Seq(Byte) /\ Len(t) = Len(q) + Len(u)
      /\ \A i \in 1 .. Len(q) + Len(u) : t[i] = IF i <= Len(q) THEN q[i] ELSE u[i - Len(q)]
  BY ConcatProperties
<1> HIDE DEF t
<1>3. \A i \in 1 .. Len(q) : i \in 1 .. Len(q) + Len(u) /\ i <= Len(q)
  BY <1>1, SMT
<1>4. \A i \in 1 .. Len(q) : t[i] = q[i] /\ t[i] \in Byte
  BY <1>2, <1>3, ElementOfSeq
<1>5. /\ c \in Seq(Byte) /\ Len(c) = IF 1 <= Len(q) THEN Len(q) - 1 + 1 ELSE 0
      /\ \A i \in 1 .. Len(q) - 1 + 1 : c[i] = t[1 + i - 1]
  <2>1. 1 \in Int /\ Len(q) \in Int
    BY <1>1, SMT
  <2> QED
    BY <2>1, <1>4, SubSeqProperties
<1> HIDE DEF c
<1>6. Len(c) = Len(q) /\ \A i \in 1 .. Len(q) : i \in 1 .. Len(q) - 1 + 1 /\ 1 + i - 1 = i
  BY <1>1, <1>5, SMT
<1>7. \A i \in 1 .. Len(q) : c[i] = q[i]
  BY <1>4, <1>5, <1>6
<1>8. c = q
  BY <1>5, <1>6, <1>7, SeqEqual
<1> QED
  BY <1>8 DEF c, t

\* The bytes of an item that is there are added.
LEMMA TakeReads ==
    ASSUME Inv, ReadInv, phase = "unpacking", UNCHANGED <<data, behind>>,
           NEW b, IsNext(b), NEW n \in Nat, n <= Len(b), NEW item, NEW error,
           Take(b, n, item, error),
           at <= Len(data) => at + n <= Len(data) \/ (at = Len(data) /\ item.type = "string"),
           error = "NONE" =>
               err = "NONE" /\ (item.type = "bool" => DecodeInt(SubSeq(b, 1, n), n) \in {0, 1})
    PROVE  ReadInv'
<1>1. /\ phase' = "unpacking" /\ at' = at + n /\ err' = error /\ got' = Append(got, item)
      /\ read' = Append(read, SubSeq(b, 1, n)) /\ memory' = memory /\ data' = data
  BY DEF Take, memory
<1> SUFFICES ASSUME error = "NONE"
             PROVE  /\ read' \in Seq(Seq(Byte)) /\ Len(read') = Len(got')
                    /\ FlattenSeq(read') = SubSeq(memory, 1, at')
                    /\ \A i \in DOMAIN got' :
                          got'[i].type = "bool" => DecodeInt(read'[i], Len(read'[i])) \in {0, 1}
                    /\ Strayed'
  BY <1>1 DEF ReadInv
<1>2. /\ read \in Seq(Seq(Byte)) /\ Len(read) = Len(got)
      /\ FlattenSeq(read) = SubSeq(memory, 1, at)
      /\ \A i \in DOMAIN got :
            got[i].type = "bool" => DecodeInt(read[i], Len(read[i])) \in {0, 1}
      /\ Strayed
  BY DEF ReadInv
<1>3. /\ memory \in Seq(Byte) /\ Len(memory) \in Nat /\ at \in Nat /\ at + n <= Len(memory)
      /\ b \in Seq(Byte) /\ Len(b) \in Nat /\ \A i \in 1 .. Len(b) : b[i] = memory[at + i]
      /\ data \in Seq(Byte) /\ behind \in Seq(Byte) /\ Len(data) \in Nat
  <2>1. /\ memory \in Seq(Byte) /\ Len(memory) \in Nat /\ at \in Nat
        /\ data \in Seq(Byte) /\ behind \in Seq(Byte) /\ Len(data) \in Nat
    BY MemoryOf DEF Inv
  <2>2. /\ b \in Seq(Byte) /\ Len(b) \in Nat /\ \A i \in 1 .. Len(b) : b[i] = memory[at + i]
        /\ at + Len(b) <= Len(memory)
    BY DEF IsNext
  <2>3. at + n <= Len(memory)
    BY <2>1, <2>2, SMT
  <2> QED
    BY <2>1, <2>2, <2>3
<1> DEFINE part == SubSeq(b, 1, n)
<1>4. part \in Seq(Byte) /\ Len(part) = n /\ part = SubSeq(memory, at + 1, at + n)
  <2>1. \A i \in 1 .. n : b[i] \in Byte /\ b[i] = memory[at + i]
    <3>1. \A i \in 1 .. n : i \in 1 .. Len(b)
      BY <1>3, SMT
    <3> QED
      BY <1>3, <3>1, ElementOfSeq
  <2>2. part \in Seq(Byte) /\ Len(part) = n /\ \A i \in 1 .. n : part[i] = b[i]
    <3>1. part \in Seq(Byte) /\ Len(part) = IF 1 <= n THEN n - 1 + 1 ELSE 0
      BY <2>1, SubSeqProperties, SMT
    <3>2. \A i \in 1 .. n - 1 + 1 : part[i] = b[1 + i - 1]
      BY <2>1, SubSeqProperties, SMT
    <3>3. \A i \in 1 .. n : i \in 1 .. n - 1 + 1 /\ 1 + i - 1 = i
      BY SMT
    <3> QED
      BY <3>1, <3>2, <3>3, SMT
  <2> DEFINE cut == SubSeq(memory, at + 1, at + n)
  <2>3. cut \in Seq(Byte) /\ Len(cut) = n /\ \A i \in 1 .. n : cut[i] = memory[at + i]
    <3>1. \A i \in at + 1 .. at + n : memory[i] \in Byte
      BY <1>3, SMT
    <3>2. cut \in Seq(Byte) /\ Len(cut) = IF at + 1 <= at + n THEN (at + n) - (at + 1) + 1 ELSE 0
      BY <1>3, <3>1, SubSeqProperties, SMT
    <3>3. \A i \in 1 .. (at + n) - (at + 1) + 1 : cut[i] = memory[(at + 1) + i - 1]
      BY <1>3, <3>1, SubSeqProperties, SMT
    <3>4. \A i \in 1 .. n : i \in 1 .. (at + n) - (at + 1) + 1 /\ (at + 1) + i - 1 = at + i
      BY <1>3, SMT
    <3> QED
      BY <1>3, <3>2, <3>3, <3>4, SMT
  <2> HIDE DEF part, cut
  <2>4. Len(part) = Len(cut) /\ \A i \in 1 .. Len(part) : part[i] = cut[i]
    BY <2>1, <2>2, <2>3, Zenon
  <2>5. part = cut
    BY <2>2, <2>3, <2>4, SeqEqual
  <2> QED
    BY <2>2, <2>5 DEF cut
<1> HIDE DEF part
<1>5. read' = Append(read, part) /\ read' \in Seq(Seq(Byte)) /\ Len(read') = Len(read) + 1
      /\ (\A i \in 1 .. Len(read) : read'[i] = read[i]) /\ read'[Len(read) + 1] = part
  <2>1. read' = Append(read, part)
    BY <1>1 DEF part
  <2> DEFINE t == Append(read, part)
  <2>2. /\ t \in Seq(Seq(Byte)) /\ Len(t) = Len(read) + 1
        /\ (\A i \in 1 .. Len(read) : t[i] = read[i]) /\ t[Len(read) + 1] = part
    <3> DEFINE S == Seq(Byte)
    <3>1. read \in Seq(S) /\ part \in S
      BY <1>2, <1>4
    <3> HIDE DEF S
    <3>2. /\ Append(read, part) \in Seq(S) /\ Len(Append(read, part)) = Len(read) + 1
          /\ (\A i \in 1 .. Len(read) : Append(read, part)[i] = read[i])
          /\ Append(read, part)[Len(read) + 1] = part
      BY <3>1, AppendProperties
    <3> QED
      BY <3>2, Zenon DEF S
  <2> HIDE DEF t
  <2>3. read' = t
    BY <2>1 DEF t
  <2> QED
    BY <2>1, <2>2, <2>3
<1>6. FlattenSeq(read') = SubSeq(memory, 1, at')
  <2>1. FlattenSeq(read') = SubSeq(memory, 1, at) \o SubSeq(memory, at + 1, at + n)
    <3>1. FlattenSeq(Append(read, part)) = FlattenSeq(read) \o part
      BY <1>2, <1>4, FlattenAppend
    <3>2. read' = Append(read, part)
      BY <1>5
    <3> QED
      BY <1>2, <1>4, <3>1, <3>2, Zenon
  <2>2. 1 \in 1 .. Len(memory) + 1 /\ at \in 1 - 1 .. Len(memory) /\ at + n \in at .. Len(memory)
    BY <1>3, SMT
  <2> QED
    BY <1>1, <1>3, <2>1, <2>2, ConcatAdjacentSubSeq
<1>7. PICK S : got \in Seq(S)
  BY DEF Inv, IsSequence
<1>8. /\ Len(got) \in Nat /\ DOMAIN got = 1 .. Len(got)
      /\ Len(got') = Len(got) + 1 /\ DOMAIN got' = 1 .. Len(got) + 1
      /\ (\A i \in 1 .. Len(got) : got'[i] = got[i]) /\ got'[Len(got) + 1] = item
  <2>1. got \in Seq(S \cup {item}) /\ item \in S \cup {item}
    BY <1>7, SeqMonotonic, Zenon
  <2>2. got' \in Seq(S \cup {item}) /\ Len(got') = Len(got) + 1
        /\ (\A i \in 1 .. Len(got) : got'[i] = got[i]) /\ got'[Len(got) + 1] = item
    BY <1>1, <2>1, AppendProperties
  <2> QED
    BY <2>1, <2>2, LenProperties
<1>9. ASSUME NEW i \in DOMAIN got', got'[i].type = "bool"
      PROVE  DecodeInt(read'[i], Len(read'[i])) \in {0, 1}
  <2>1. i = Len(got) + 1 \/ i \in 1 .. Len(got)
    BY <1>8, SMT
  <2>2. CASE i = Len(got) + 1
    BY <1>2, <1>4, <1>5, <1>8, <1>9, <2>2 DEF part
  <2>3. CASE i \in 1 .. Len(got)
    BY <1>2, <1>5, <1>8, <1>9, <2>3
  <2> QED
    BY <2>1, <2>2, <2>3
<1>10. ASSUME at' > Len(data)
       PROVE  \E i \in DOMAIN got' : got'[i].type = "string" /\ FlattenSeq(SubSeq(read', 1, i - 1)) = data
  <2>1. CASE at > Len(data)
    <3>1. PICK i \in DOMAIN got : got[i].type = "string" /\ FlattenSeq(SubSeq(read, 1, i - 1)) = data
      BY <1>2, <2>1 DEF Strayed
    <3>2. i \in 1 .. Len(got) /\ i \in DOMAIN got' /\ got'[i] = got[i] /\ i - 1 \in 0 .. Len(read)
      BY <1>2, <1>8, <3>1, SMT
    <3>3. SubSeq(read', 1, i - 1) = SubSeq(read, 1, i - 1)
      BY <1>2, <1>4, <1>5, <3>2, SubSeqOfAppend
    <3> QED
      BY <3>1, <3>2, <3>3
  <2>2. CASE ~(at > Len(data))
    <3>1. at = Len(data) /\ item.type = "string"
      BY <1>1, <1>3, <1>10, <2>2, SMT
    <3>2. Len(got) + 1 \in DOMAIN got' /\ got'[Len(got) + 1].type = "string"
      BY <1>8, <3>1, SMT
    <3>3. (Len(got) + 1) - 1 = Len(read) /\ Len(read) \in 0 .. Len(read)
      BY <1>2, <1>8, SMT
    <3>4. SubSeq(read', 1, Len(read)) = read
      <4>1. SubSeq(read', 1, Len(read)) = SubSeq(read, 1, Len(read))
        BY <1>2, <1>4, <1>5, <3>3, SubSeqOfAppend
      <4> QED
        BY <1>2, <4>1, SubSeqFull
    <3>5. FlattenSeq(read) = data
      <4>1. SubSeq(memory, 1, Len(data)) = data
        BY <1>3, PrefixOfConcat DEF memory
      <4> QED
        BY <1>2, <3>1, <4>1
    <3> QED
      BY <3>2, <3>3, <3>4, <3>5
  <2> QED
    BY <2>1, <2>2
<1>11. Strayed'
  BY <1>1, <1>10 DEF Strayed
<1> QED
  BY <1>2, <1>5, <1>6, <1>8, <1>9, <1>11

\* A missing item leaves an error.
LEMMA FailReads ==
    ASSUME phase = "unpacking", NEW n, NEW item, NEW error, Fail(n, item, error), error # "NONE"
    PROVE  ReadInv'
  BY DEF Fail, ReadInv

LEMMA OutsideReads ==
    ASSUME ReadInv, Outside, UNCHANGED <<data, behind>>
    PROVE  ReadInv'
<1>1. /\ phase' = "outside" /\ UNCHANGED <<data, at, err, got, read>> /\ memory' = memory
      /\ "outside" # "packing"
  BY SMT DEF Outside, memory
<1>2. Strayed' = Strayed
  BY <1>1 DEF Strayed
<1> QED
  BY <1>1, <1>2 DEF ReadInv

\* An integer is read from its own bytes.
LEMMA OwnBytes ==
    ASSUME NEW b \in Seq(Byte), NEW n \in 1 .. 5, n <= Len(b)
    PROVE  DecodeInt(SubSeq(b, 1, n), n) = DecodeInt(b, n)
<1> DEFINE c == SubSeq(b, 1, n)
<1>1. \A i \in 1 .. n : c[i] = b[i]
  <2>1. \A i \in 1 .. n : b[i] \in Byte
    BY LenProperties, SMT
  <2>2. \A i \in 1 .. n - 1 + 1 : c[i] = b[1 + i - 1]
    BY <2>1, SubSeqProperties, SMT
  <2>3. \A i \in 1 .. n : i \in 1 .. n - 1 + 1 /\ 1 + i - 1 = i
    BY SMT
  <2> QED
    BY <2>2, <2>3, Zenon
<1> HIDE DEF c
<1>2. \A i \in 2 .. 5 : Part(c, n, i) = Part(b, n, i)
  <2>1. ASSUME NEW i \in 2 .. 5 PROVE Part(c, n, i) = Part(b, n, i)
    <3>1. ~(i > n) => i \in 1 .. n
      BY SMT
    <3> QED
      BY <1>1, <3>1 DEF Part
  <2> QED
    BY <2>1
<1>3. c[1] = b[1] /\ Part(c, n, 2) = Part(b, n, 2) /\ Part(c, n, 3) = Part(b, n, 3)
      /\ Part(c, n, 4) = Part(b, n, 4) /\ Part(c, n, 5) = Part(b, n, 5)
  <2>1. 1 \in 1 .. n /\ 2 \in 2 .. 5 /\ 3 \in 2 .. 5 /\ 4 \in 2 .. 5 /\ 5 \in 2 .. 5
    BY SMT
  <2> QED
    BY <1>1, <1>2, <2>1, Zenon
<1> QED
  BY <1>3, Zenon DEF DecodeInt, c

LEMMA IntReads ==
    ASSUME Inv, ReadInv, NEW type \in {"int", "bool"}, Unpacking(type), ReadInt(type)
    PROVE  ReadInv'
<1> DEFINE item(value)  == [type |-> type, value |-> IF type = "bool" THEN value = 1 ELSE value]
           error(value) == IF type = "bool" THEN BoolError(value) ELSE err
<1>1. phase = "unpacking" /\ UNCHANGED <<data, behind>>
  BY DEF Unpacking
<1>2. \A value : item(value).type = type
  OBVIOUS
<1>3. ASSUME NEW value, error(value) = "NONE"
      PROVE  err = "NONE" /\ (type = "bool" => value \in {0, 1})
  BY <1>3 DEF BoolError
<1> HIDE DEF item, error
<1>4. CASE Fail(0, item(0), "EMPTY_BUFFER")
  <2>1. "EMPTY_BUFFER" # "NONE"
    BY SMT
  <2> QED
    BY <1>1, <1>4, <2>1, FailReads
<1>5. CASE Fail(Len(Left) - 1, item(0), "END_OF_BUFFER")
  <2>1. "END_OF_BUFFER" # "NONE"
    BY SMT
  <2> QED
    BY <1>1, <1>5, <2>1, FailReads
<1>6. ASSUME NEW n \in 1 .. 5, HasSize(Left, n),
             Take(Left, n, item(DecodeInt(Left, n)), error(DecodeInt(Left, n)))
      PROVE  ReadInv'
  <2>1. n \in Nat /\ n <= Len(Left) /\ Left \in Seq(Byte) /\ IsNext(Left)
    BY <1>6, LeftOf, SMT DEF HasSize
  <2>2. DecodeInt(SubSeq(Left, 1, n), n) = DecodeInt(Left, n)
    BY <2>1, OwnBytes
  <2> QED
    <3>1. at <= Len(data) => at + n <= Len(data)
      BY <2>1, LeftOf, SMT DEF Inv
    <3>2. error(DecodeInt(Left, n)) = "NONE" =>
             /\ err = "NONE"
             /\ item(DecodeInt(Left, n)).type = "bool" => DecodeInt(SubSeq(Left, 1, n), n) \in {0, 1}
      BY <1>2, <1>3, <2>2
    <3> QED
      BY <1>1, <1>6, <2>1, <3>1, <3>2, TakeReads
<1>7. CASE Outside
  BY <1>1, <1>7, OutsideReads
<1> QED
  BY <1>4, <1>5, <1>6, <1>7 DEF ReadInt, item, error

LEMMA StringReads ==
    ASSUME Inv, ReadInv, NEW bits, GetString(bits)
    PROVE  ReadInv'
<1> DEFINE string(s) == [type |-> "string", value |-> s, bits |-> bits]
<1>1. phase = "unpacking" /\ UNCHANGED <<data, behind>>
  BY DEF GetString, Unpacking
<1>2. \A s : string(s).type # "bool" /\ string(s).type = "string"
  BY SMT
<1> HIDE DEF string
<1>3. CASE err # "NONE" /\ Fail(0, string(<<>>), err)
  BY <1>1, <1>3, FailReads
<1>4. CASE Outside
  BY <1>1, <1>4, OutsideReads
<1>5. ASSUME err = "NONE", NEW n \in DOMAIN Text, NEW s, Take(Text, n, string(s), err) PROVE ReadInv'
  <2>1. /\ IsNext(Text) /\ Text \in Seq(Byte) /\ Len(Text) \in Nat /\ at \in Nat /\ Len(data) \in Nat
        /\ at < Len(data) => at + Len(Text) = Len(data)
    BY TextOf, LenProperties DEF Inv
  <2>2. n \in Nat /\ n <= Len(Text)
    BY <1>5, <2>1, LenProperties, SMT
  <2>3. at <= Len(data) => at + n <= Len(data) \/ at = Len(data)
    BY <2>1, <2>2, SMT
  <2> QED
    BY <1>1, <1>2, <1>5, <2>1, <2>2, <2>3, TakeReads
<1>6. CASE Fail(Len(Text), string(<<>>), "STR_UNEXPECTED_EOF")
  <2>1. "STR_UNEXPECTED_EOF" # "NONE"
    BY SMT
  <2> QED
    BY <1>1, <1>6, <2>1, FailReads
<1> QED
  BY <1>3, <1>4, <1>5, <1>6 DEF GetString, string

LEMMA RawReads ==
    ASSUME Inv, ReadInv, NEW n \in 1 .. BufferSize, GetRaw(n)
    PROVE  ReadInv'
<1> DEFINE raw(d) == [type |-> "raw", value |-> d]
<1>1. phase = "unpacking" /\ UNCHANGED <<data, behind>> /\ n \in Nat
  BY Constants, SMT DEF GetRaw, Unpacking
<1>2. \A d : raw(d).type # "bool"
  BY SMT
<1> HIDE DEF raw
<1>3. CASE n <= Len(Left) /\ Take(Left, n, raw(SubSeq(Left, 1, n)), err)
  <2>1. IsNext(Left)
    BY LeftOf
  <2>2. at <= Len(data) => at + n <= Len(data)
    BY <1>1, <1>3, LeftOf, SMT DEF Inv
  <2> QED
    BY <1>1, <1>2, <1>3, <2>1, <2>2, TakeReads
<1>4. CASE Fail(0, raw(<<>>), "END_OF_BUFFER")
  <2>1. "END_OF_BUFFER" # "NONE"
    BY SMT
  <2> QED
    BY <1>1, <1>4, <2>1, FailReads
<1>5. CASE Outside
  BY <1>1, <1>5, OutsideReads
<1> QED
  BY <1>3, <1>4, <1>5 DEF GetRaw, raw

LEMMA NextReads == Inv /\ ReadInv /\ [Next]_vars => ReadInv'
<1> SUFFICES ASSUME Inv, ReadInv, [Next]_vars PROVE ReadInv'
  OBVIOUS
<1>1. data' \in Seq(Byte)
  BY NextKeeps DEF Inv
<1>2. ASSUME NEW item, Packing(item) PROVE ReadInv'
  <2>1. phase = "packing" /\ UNCHANGED <<phase, at, err, got, read>> /\ at = 0
    BY <1>2 DEF Packing, Inv
  <2> QED
    BY <1>1, <2>1, NothingRead DEF ReadInv
<1>3. ASSUME NEW m, Unpack(m) \/ \E d \in ForeignData : UnpackForeign(d, m) PROVE ReadInv'
  <2>1. phase = "packing" /\ phase' = "unpacking" /\ UNCHANGED <<at, err, got, read>> /\ at = 0
    BY <1>3 DEF Unpack, UnpackForeign, Inv
  <2> QED
    BY <1>1, <2>1, NothingRead, SMT DEF ReadInv
<1>4. CASE UNCHANGED vars
  <2>1. memory' = memory /\ Strayed' = Strayed
    BY <1>4 DEF vars, memory, Strayed
  <2> QED
    BY <1>4, <2>1 DEF vars, ReadInv
<1> QED
  BY <1>2, <1>3, <1>4, IntReads, StringReads, RawReads
     DEF Next, AddInt, AddBool, AddString, AddRaw, GetInt, GetBool

(* Whatever bytes came, whatever is read from them and whatever is behind  *)
(* them, what was read without an error is the memory from the beginning   *)
(* of the data on, with no gap and no overlap, and only a string that is   *)
(* read with nothing left takes the cursor out of the data                 *)
(* (ddproto_unpacker_get_int and the others, which go on after an error    *)
(* and must not lose it; ddproto_unpacker_get_string_sanitized).           *)
THEOREM NoGaps == Spec => []ReadWithoutGap
<1>1. Init => Inv /\ ReadInv
  <2> SUFFICES ASSUME Init PROVE ReadInv
    BY InitKeeps
  <2>1. SubSeq(memory, 1, 0) = <<>>
    BY SubSeqEmpty, SMT
  <2>2. <<>> \in Seq(Seq(Byte)) /\ DOMAIN <<>> = {} /\ Len(<<>>) = 0
    BY SMT
  <2>3. Strayed
    BY <2>2, SMT DEF Init, Strayed
  <2> QED
    BY <2>1, <2>2, <2>3, FlattenEmpty DEF Init, ReadInv
<1>2. Inv /\ ReadInv /\ [Next]_vars => Inv' /\ ReadInv'
  BY NextKeeps, NextReads
<1>3. ReadInv => ReadWithoutGap
  BY DEF ReadInv, Strayed, ReadWithoutGap
<1> QED
  BY <1>1, <1>2, <1>3, PTL DEF Spec

-----------------------------------------------------------------------------
(* What was packed *)

Items ==
    [type : {"int"}, value : Int32] \cup [type : {"bool"}, value : BOOLEAN]
      \cup [type : {"string"}, value : Seq(Byte \ {0})] \cup [type : {"raw"}, value : Seq(Byte)]

\* The bytes of an item.
ItemBytes(item) ==
    IF item.type = "int" THEN EncodeInt(item.value)
    ELSE IF item.type = "bool" THEN EncodeInt(IF item.value THEN 1 ELSE 0)
    ELSE IF item.type = "string" THEN Append(item.value, 0) ELSE item.value

\* The bytes of the items s make up d: those of item i end at ends[i].
Laid(ends, s, d) ==
    /\ ends \in [0 .. Len(s) -> 0 .. Len(d)] /\ ends[0] = 0 /\ ends[Len(s)] = Len(d)
    /\ \A i \in 1 .. Len(s) :
          /\ ends[i] = ends[i - 1] + Len(ItemBytes(s[i]))
          /\ \A j \in 1 .. Len(ItemBytes(s[i])) : d[ends[i - 1] + j] = ItemBytes(s[i])[j]

IsRead(value, item) ==
    IF value.type = "string" THEN value.value = Reading(item.value, value.bits) ELSE value = item

OwnInv ==
    own => /\ phase # "outside" /\ err = "NONE" /\ items \in Seq(Items)
           /\ phase = "packing" => got = <<>>
           /\ packErr # "NONE" => phase = "packing"
           /\ Len(got) <= Len(items) /\ \A i \in DOMAIN got : IsRead(got[i], items[i])
           /\ packErr = "NONE" => \E ends : Laid(ends, items, data) /\ at = ends[Len(got)]

LEMMA BytesOfItem ==
    ASSUME NEW item \in Items
    PROVE  ItemBytes(item) \in Seq(Byte)
<1>1. CASE item \in [type : {"int"}, value : Int32]
  <2>1. item.type = "int" /\ item.value \in Int32
    BY <1>1
  <2> QED
    BY <2>1, EncodedBytes, Zenon DEF ItemBytes
<1>2. CASE item \in [type : {"bool"}, value : BOOLEAN]
  <2>1. item.type = "bool" /\ item.type # "int"
    BY <1>2, SMT
  <2>2. (IF item.value THEN 1 ELSE 0) \in Int32
    BY SMT DEF Int32
  <2> QED
    BY <2>1, <2>2, EncodedBytes, Zenon DEF ItemBytes
<1>3. CASE item \in [type : {"string"}, value : Seq(Byte \ {0})]
  <2>1. item.type = "string" /\ item.type # "int" /\ item.type # "bool" /\ item.value \in Seq(Byte \ {0})
    BY <1>3, SMT
  <2>2. item.value \in Seq(Byte) /\ 0 \in Byte
    <3>1. Byte \ {0} \subseteq Byte /\ 0 \in Byte
      BY SMT DEF Byte
    <3> QED
      BY <2>1, <3>1, SeqMonotonic, Zenon
  <2> QED
    BY <2>1, <2>2, AppendProperties, Zenon DEF ItemBytes
<1>4. CASE item \in [type : {"raw"}, value : Seq(Byte)]
  <2>1. item.type # "string" /\ item.type # "int" /\ item.type # "bool" /\ item.value \in Seq(Byte)
    BY <1>4, SMT
  <2> QED
    BY <2>1, Zenon DEF ItemBytes
<1> QED
  BY <1>1, <1>2, <1>3, <1>4 DEF Items

LEMMA LaidMore ==
    ASSUME NEW s \in Seq(Items), NEW d \in Seq(Byte), NEW ends, Laid(ends, s, d), NEW item \in Items
    PROVE  \E e : Laid(e, Append(s, item), d \o ItemBytes(item)) /\ e[0] = 0
<1> DEFINE n == Len(s)
           b == ItemBytes(item)
           t == Append(s, item)
           c == d \o b
           e == [i \in 0 .. n + 1 |-> IF i = n + 1 THEN Len(c) ELSE ends[i]]
<1>1. n \in Nat /\ Len(d) \in Nat /\ b \in Seq(Byte) /\ Len(b) \in Nat
  BY BytesOfItem, LenProperties
<1>2. Len(t) = n + 1 /\ (\A i \in 1 .. n : t[i] = s[i]) /\ t[n + 1] = item
  BY AppendProperties
<1>3. /\ Len(c) = Len(d) + Len(b)
      /\ \A i \in 1 .. Len(d) : c[i] = d[i]
      /\ \A j \in 1 .. Len(b) : c[Len(d) + j] = b[j]
  <2>1. Len(c) = Len(d) + Len(b)
        /\ \A i \in 1 .. Len(d) + Len(b) : c[i] = IF i <= Len(d) THEN d[i] ELSE b[i - Len(d)]
    BY <1>1, ConcatProperties
  <2>2. \A i \in 1 .. Len(d) : i \in 1 .. Len(d) + Len(b) /\ i <= Len(d)
    BY <1>1, SMT
  <2>3. \A j \in 1 .. Len(b) :
           Len(d) + j \in 1 .. Len(d) + Len(b) /\ ~(Len(d) + j <= Len(d)) /\ (Len(d) + j) - Len(d) = j
    BY <1>1, SMT
  <2> QED
    BY <2>1, <2>2, <2>3, Zenon
<1>4. /\ ends \in [0 .. n -> 0 .. Len(d)] /\ ends[0] = 0 /\ ends[n] = Len(d)
      /\ \A i \in 1 .. n : /\ ends[i] = ends[i - 1] + Len(ItemBytes(s[i]))
                           /\ \A j \in 1 .. Len(ItemBytes(s[i])) : d[ends[i - 1] + j] = ItemBytes(s[i])[j]
  BY DEF Laid
<1> HIDE DEF b, t, c
<1>5. /\ \A i \in 0 .. n : e[i] = ends[i]
      /\ e[n + 1] = Len(c)
  <2>1. \A i \in 0 .. n : i \in 0 .. n + 1 /\ i # n + 1
    BY <1>1, SMT DEF n
  <2>2. n + 1 \in 0 .. n + 1
    BY <1>1, SMT
  <2> QED
    BY <2>1, <2>2
<1>6. e \in [0 .. n + 1 -> 0 .. Len(c)]
  <2>1. \A i \in 0 .. n + 1 : i # n + 1 => i \in 0 .. n
    BY <1>1, SMT
  <2>2. \A x \in 0 .. Len(d) : x \in 0 .. Len(c)
    BY <1>1, <1>3, SMT
  <2>3. Len(c) \in 0 .. Len(c)
    BY <1>1, <1>3, SMT
  <2> QED
    BY <1>4, <2>1, <2>2, <2>3
<1> HIDE DEF e, n
<1>7. ASSUME NEW i \in 1 .. n + 1
      PROVE  /\ e[i] = e[i - 1] + Len(ItemBytes(t[i]))
             /\ \A j \in 1 .. Len(ItemBytes(t[i])) : c[e[i - 1] + j] = ItemBytes(t[i])[j]
  <2>1. CASE i = n + 1
    <3>1. i - 1 = n /\ n \in 0 .. n
      BY <1>1, <2>1, SMT
    <3>2. e[i - 1] = Len(d) /\ t[i] = item
      BY <1>2, <1>4, <1>5, <2>1, <3>1
    <3> QED
      BY <1>3, <1>5, <2>1, <3>2 DEF b
  <2>2. CASE i # n + 1
    <3>1. i \in 1 .. n /\ i \in 0 .. n /\ i - 1 \in 0 .. n
      BY <1>1, <2>2, SMT
    <3>2. t[i] = s[i] /\ e[i] = ends[i] /\ e[i - 1] = ends[i - 1]
      BY <1>2, <1>5, <3>1
    <3>3. ASSUME NEW j \in 1 .. Len(ItemBytes(s[i])) PROVE c[ends[i - 1] + j] = ItemBytes(s[i])[j]
      <4>1. ends[i] \in 0 .. Len(d) /\ ends[i - 1] \in 0 .. Len(d)
        BY <1>4, <3>1
      <4>2. Len(ItemBytes(s[i])) \in Nat
        <5>1. s[i] \in Items
          BY <3>1, ElementOfSeq DEF n
        <5> QED
          BY <5>1, BytesOfItem, LenProperties
      <4>3. ends[i - 1] + j \in 1 .. Len(d)
        <5>1. ends[i] = ends[i - 1] + Len(ItemBytes(s[i]))
          BY <1>4, <3>1
        <5> QED
          BY <1>1, <4>1, <4>2, <5>1, SMT
      <4> QED
        BY <1>3, <1>4, <3>1, <4>3
    <3> QED
      BY <1>4, <3>1, <3>2, <3>3
  <2> QED
    BY <2>1, <2>2
<1>8. 0 \in 0 .. n
  BY <1>1, SMT
<1>9. Laid(e, t, c) /\ e[0] = 0
  BY <1>2, <1>4, <1>5, <1>6, <1>7, <1>8 DEF Laid
<1> QED
  BY <1>9 DEF b, t, c

\* The sequence s begins with b.
Begins(s, b) == \E rest \in Seq(Byte) : s = b \o rest

\* What is left begins with the bytes of the next item.
LEMMA NextItem ==
    ASSUME NEW s \in Seq(Items), NEW d \in Seq(Byte), NEW ends, Laid(ends, s, d),
           NEW k \in Nat, k < Len(s), NEW b, b = ItemBytes(s[k + 1])
    PROVE  /\ s[k + 1] \in Items /\ b \in Seq(Byte) /\ ends[k + 1] = ends[k] + Len(b)
           /\ Begins(SubSeq(d, ends[k] + 1, Len(d)), b)
<1> DEFINE left == SubSeq(d, ends[k] + 1, Len(d))
           rest == SubSeq(d, ends[k + 1] + 1, Len(d))
<1>1. Len(s) \in Nat /\ Len(d) \in Nat
  BY LenProperties
<1>2. k + 1 \in 1 .. Len(s) /\ k + 1 \in 0 .. Len(s) /\ k \in 0 .. Len(s) /\ (k + 1) - 1 = k
  BY <1>1, SMT
<1>3. s[k + 1] \in Items
  BY <1>2, ElementOfSeq
<1>4. b \in Seq(Byte) /\ Len(b) \in Nat
  BY <1>3, BytesOfItem, LenProperties
<1>5. ends[k] \in 0 .. Len(d) /\ ends[k + 1] \in 0 .. Len(d) /\ ends[k + 1] = ends[k] + Len(b)
      /\ \A j \in 1 .. Len(b) : d[ends[k] + j] = b[j]
  BY <1>2 DEF Laid
<1>6. SubSeq(d, ends[k] + 1, ends[k + 1]) \o rest = left
  <2>1. /\ ends[k] + 1 \in 1 .. Len(d) + 1 /\ ends[k + 1] \in (ends[k] + 1) - 1 .. Len(d)
        /\ Len(d) \in ends[k + 1] .. Len(d)
    BY <1>1, <1>4, <1>5, SMT
  <2> QED
    BY <2>1, ConcatAdjacentSubSeq
<1>7. SubSeq(d, ends[k] + 1, ends[k + 1]) = b
  <2> DEFINE cut == SubSeq(d, ends[k] + 1, ends[k + 1])
  <2>1. \A i \in ends[k] + 1 .. ends[k + 1] : d[i] \in Byte
    BY <1>1, <1>5, SMT
  <2>2. /\ cut \in Seq(Byte)
        /\ Len(cut) = IF ends[k] + 1 <= ends[k + 1] THEN ends[k + 1] - (ends[k] + 1) + 1 ELSE 0
        /\ \A i \in 1 .. ends[k + 1] - (ends[k] + 1) + 1 : cut[i] = d[(ends[k] + 1) + i - 1]
    <3> DEFINE u == ends[k] + 1  w == ends[k + 1]
    <3>1. u \in Int /\ w \in Int /\ \A i \in u .. w : d[i] \in Byte
      BY <1>5, <2>1, SMT
    <3> HIDE DEF u, w
    <3>2. /\ SubSeq(d, u, w) \in Seq(Byte)
          /\ Len(SubSeq(d, u, w)) = IF u <= w THEN w - u + 1 ELSE 0
          /\ \A i \in 1 .. w - u + 1 : SubSeq(d, u, w)[i] = d[u + i - 1]
      BY <3>1, SubSeqProperties
    <3> QED
      BY <3>2 DEF u, w
  <2>3. Len(cut) = Len(b)
    BY <1>4, <1>5, <2>2, SMT
  <2>4. \A i \in 1 .. Len(b) : i \in 1 .. ends[k + 1] - (ends[k] + 1) + 1 /\ (ends[k] + 1) + i - 1 = ends[k] + i
    BY <1>4, <1>5, SMT
  <2> HIDE DEF cut
  <2>5. \A i \in 1 .. Len(b) : cut[i] = b[i]
    BY <1>5, <2>2, <2>4
  <2>6. cut = b
    BY <1>4, <2>2, <2>3, <2>5, SeqEqual
  <2> QED
    BY <2>6 DEF cut
<1>8. rest \in Seq(Byte)
  <2>1. \A i \in ends[k + 1] + 1 .. Len(d) : d[i] \in Byte
    BY <1>1, <1>5, SMT
  <2>2. ends[k + 1] + 1 \in Int
    BY <1>5, SMT
  <2> QED
    BY <1>1, <2>1, <2>2, SubSeqProperties
<1> QED
  BY <1>3, <1>4, <1>5, <1>6, <1>7, <1>8 DEF Begins

\* An item goes behind the others, or the packer keeps an error.
LEMMA PackLays ==
    ASSUME Inv, OwnInv, NEW item \in Items, Packing(item),
           AddIntBytes(ItemBytes(item)) \/ AddBytes(ItemBytes(item))
    PROVE  OwnInv'
<1> SUFFICES ASSUME own PROVE OwnInv'
  BY DEF Packing, OwnInv
<1>1. /\ phase = "packing" /\ err = "NONE" /\ items \in Seq(Items) /\ got = <<>>
      /\ items' = Append(items, item) /\ UNCHANGED <<phase, own, at, err, got, read>>
      /\ data \in Seq(Byte)
  BY DEF Packing, OwnInv, Inv
<1>2. items' \in Seq(Items) /\ Len(items') = Len(items) + 1 /\ Len(items) \in Nat
  BY <1>1, AppendProperties, LenProperties
<1>3. Len(got') <= Len(items') /\ DOMAIN got' = {}
  BY <1>1, <1>2, SMT
<1>4. packErr' = "NONE" => packErr = "NONE" /\ data' = data \o ItemBytes(item)
  <2>1. "BUFFER_FULL" # "NONE"
    BY SMT
  <2> QED
    BY <2>1, Zenon DEF AddIntBytes, AddBytes, Full
<1>5. ASSUME packErr' = "NONE" PROVE \E ends : Laid(ends, items', data') /\ at' = ends[Len(got')]
  <2>1. PICK ends : Laid(ends, items, data) /\ at = ends[Len(got)]
    BY <1>4, <1>5 DEF OwnInv
  <2>2. PICK e : Laid(e, Append(items, item), data \o ItemBytes(item)) /\ e[0] = 0
    BY <1>1, <2>1, LaidMore
  <2>3. Len(got) = 0 /\ ends[0] = 0
    BY <1>1, <2>1 DEF Laid
  <2> QED
    BY <1>1, <1>4, <1>5, <2>1, <2>2, <2>3
<1> QED
  BY <1>1, <1>2, <1>3, <1>5, Zenon DEF OwnInv

-----------------------------------------------------------------------------
(* What is unpacked *)

\* The next item is taken with its own bytes.
LEMMA TakeItem ==
    ASSUME Inv, OwnInv, own, phase = "unpacking", UNCHANGED <<data, packErr, items, own>>,
           Len(got) < Len(items), NEW item,
           NEW b, Take(b, Len(ItemBytes(items[Len(got) + 1])), item, err),
           IsRead(item, items[Len(got) + 1])
    PROVE  OwnInv'
<1>1. /\ phase' = "unpacking" /\ err' = "NONE" /\ got' = Append(got, item)
      /\ at' = at + Len(ItemBytes(items[Len(got) + 1])) /\ items \in Seq(Items)
      /\ \A i \in DOMAIN got : IsRead(got[i], items[i])
  BY DEF Take, OwnInv
<1>2. PICK ends : Laid(ends, items, data) /\ at = ends[Len(got)]
  BY DEF OwnInv
<1>3. PICK S : got \in Seq(S)
  BY DEF Inv, IsSequence
<1>4. /\ Len(got) \in Nat /\ DOMAIN got = 1 .. Len(got)
      /\ Len(got') = Len(got) + 1 /\ DOMAIN got' = 1 .. Len(got) + 1
      /\ (\A i \in 1 .. Len(got) : got'[i] = got[i]) /\ got'[Len(got) + 1] = item
  <2>1. got \in Seq(S \cup {item}) /\ item \in S \cup {item}
    BY <1>3, SeqMonotonic, Zenon
  <2>2. got' \in Seq(S \cup {item}) /\ Len(got') = Len(got) + 1
        /\ (\A i \in 1 .. Len(got) : got'[i] = got[i]) /\ got'[Len(got) + 1] = item
    BY <1>1, <2>1, AppendProperties
  <2> QED
    BY <2>1, <2>2, LenProperties
<1>5. Len(got') <= Len(items')
  BY <1>1, <1>4, LenProperties, SMT
<1>6. \A i \in DOMAIN got' : IsRead(got'[i], items'[i])
  <2>1. \A i \in 1 .. Len(got) + 1 : i = Len(got) + 1 \/ i \in 1 .. Len(got)
    BY <1>4, SMT
  <2> QED
    BY <1>1, <1>4, <2>1
<1>7. at' = ends[Len(got')]
  <2>1. ends[Len(got) + 1] = ends[Len(got)] + Len(ItemBytes(items[Len(got) + 1]))
    BY <1>1, <1>2, <1>4, NextItem DEF Inv
  <2> QED
    BY <1>1, <1>2, <1>4, <2>1
<1>8. packErr = "NONE" /\ phase' # "packing" /\ phase' # "outside"
  BY <1>1, SMT DEF OwnInv
<1> QED
  BY <1>1, <1>2, <1>5, <1>6, <1>7, <1>8 DEF OwnInv

\* What is left, when packed data is unpacked.
LEMMA LeftIs ==
    ASSUME Inv, OwnInv, own, phase = "unpacking", Len(got) < Len(items)
    PROVE  LET b == ItemBytes(items[Len(got) + 1]) IN
           /\ items[Len(got) + 1] \in Items /\ b \in Seq(Byte)
           /\ \E rest \in Seq(Byte) : Left = b \o rest
           /\ at \in Nat /\ at + Len(Left) = Len(data) /\ (at < Len(data) => Text = Left)
<1>1. PICK ends : Laid(ends, items, data) /\ at = ends[Len(got)]
  BY SMT DEF OwnInv
<1>2. items \in Seq(Items) /\ data \in Seq(Byte) /\ Len(got) \in Nat /\ at \in Nat
  BY LenProperties DEF OwnInv, Inv, IsSequence
<1> DEFINE k == Len(got)
           b == ItemBytes(items[k + 1])
<1>3. k \in Nat /\ k < Len(items) /\ k \in 0 .. Len(items)
  BY <1>2, LenProperties, SMT
<1>4. b = ItemBytes(items[k + 1]) /\ at = ends[k]
  BY <1>1
<1> HIDE DEF k, b
<1>5. Laid(ends, items, data)
  BY <1>1
<1>6. at <= Len(data) /\ ~(at > Len(data))
  <2>1. at \in 0 .. Len(data) /\ Len(data) \in Nat
    BY <1>2, <1>3, <1>4, <1>5, LenProperties DEF Laid
  <2> QED
    BY <2>1, SMT
<1>7. Left = SubSeq(data, ends[k] + 1, Len(data)) /\ (at < Len(data) => Text = Left)
  BY <1>4, <1>6 DEF Left, Text, Unread
<1>8. items[k + 1] \in Items /\ b \in Seq(Byte) /\ Begins(SubSeq(data, ends[k] + 1, Len(data)), b)
  BY <1>2, <1>3, <1>4, <1>5, NextItem
<1>9. at + Len(Left) = Len(data)
  BY <1>6, LeftOf
<1> QED
  BY <1>2, <1>7, <1>8, <1>9 DEF k, b, Begins

LEMMA IntItem ==
    ASSUME Inv, OwnInv, NEW type \in {"int", "bool"}, Unpacking(type), ReadInt(type)
    PROVE  OwnInv'
<1> SUFFICES ASSUME own PROVE OwnInv'
  BY DEF Unpacking, OwnInv
<1> DEFINE next == items[Len(got) + 1]
           v == IF type = "int" THEN next.value ELSE IF next.value THEN 1 ELSE 0
           item(value)  == [type |-> type, value |-> IF type = "bool" THEN value = 1 ELSE value]
           error(value) == IF type = "bool" THEN BoolError(value) ELSE err
<1>1. /\ phase = "unpacking" /\ UNCHANGED <<data, packErr, items, own>> /\ err = "NONE"
      /\ Len(got) < Len(items) /\ next.type = type
  BY DEF Unpacking, OwnInv
<1>2. next \in Items
  BY <1>1, LeftIs
<1>3. PICK rest \in Seq(Byte) : Left = ItemBytes(next) \o rest
  BY <1>1, LeftIs
<1>4. /\ v \in Int32 /\ next = item(v) /\ ItemBytes(next) = EncodeInt(v)
      /\ type = "bool" => v \in {0, 1}
  <2>1. CASE type = "int"
    <3>1. next \in [type : {"int"}, value : Int32]
      BY <1>1, <1>2, <2>1 DEF Items
    <3>2. next = [type |-> "int", value |-> next.value] /\ next.value \in Int32 /\ type # "bool"
      BY <2>1, <3>1
    <3> QED
      BY <1>1, <2>1, <3>2 DEF ItemBytes
  <2>2. CASE type = "bool"
    <3>1. next \in [type : {"bool"}, value : BOOLEAN] /\ type # "int"
      BY <1>1, <1>2, <2>2 DEF Items
    <3>2. next = [type |-> "bool", value |-> next.value] /\ next.value \in BOOLEAN
      BY <3>1
    <3>3. v = IF next.value THEN 1 ELSE 0
      BY <3>1
    <3>4. v \in {0, 1} /\ (v = 1 <=> next.value)
      BY <3>3, SMT
    <3>5. v \in Int32
      BY <3>4, SMT DEF Int32
    <3>6. ItemBytes(next) = EncodeInt(v)
      BY <1>1, <2>2, <3>1, <3>3, Zenon DEF ItemBytes
    <3>7. (v = 1) = next.value
      BY <3>2, <3>4
    <3> HIDE DEF v, next
    <3>8. next = item(v)
      BY <2>2, <3>2, <3>7, Zenon
    <3> QED
      BY <2>2, <3>4, <3>5, <3>6, <3>8 DEF v, next
  <2> QED
    BY <2>1, <2>2
<1> HIDE DEF v, next
<1> DEFINE n == Len(EncodeInt(v))
<1>5. n \in 1 .. 5 /\ (\A k \in 1 .. 5 : HasSize(Left, k) <=> k = n) /\ DecodeInt(Left, n) = v
  <2>1. rest \in Seq(Int)
    <3>1. Byte \subseteq Int
      BY SMT DEF Byte
    <3> QED
      BY <3>1, SeqMonotonic
  <2> QED
    BY <1>3, <1>4, <2>1, IntReadsBack
<1>6. at # Len(data)
  <2>1. n \in 1 .. 5 /\ HasSize(Left, n)
    BY <1>5
  <2> HIDE DEF n
  <2>2. n <= Len(Left) /\ Len(Left) \in Nat
    BY <2>1, LeftOf DEF HasSize
  <2>3. at \in Nat /\ at + Len(Left) = Len(data)
    BY <1>1, LeftIs
  <2> QED
    BY <2>1, <2>2, <2>3, SMT
<1>7. error(v) = err
  BY <1>4 DEF BoolError
<1> HIDE DEF item, error, n
<1>8. Take(Left, n, item(v), err)
  BY <1>5, <1>6, <1>7 DEF ReadInt, item, error
<1>9. IsRead(item(v), next)
  <2>1. item(v).type # "string"
    BY <1>4, SMT DEF item
  <2> QED
    BY <1>4, <2>1 DEF IsRead
<1> QED
  BY <1>1, <1>4, <1>8, <1>9, TakeItem DEF next, n

\* What ddproto_str_sanitize and _cc leave is a string.
LEMMA SanitizedIs ==
    ASSUME NEW s \in Seq(Byte \ {0}), NEW bits \in Sanitizing
    PROVE  Sanitized(s, bits) = Reading(s, bits)
<1>1. /\ DOMAIN s = 1 .. Len(s) /\ Len(s) \in Nat
      /\ \A i \in DOMAIN s : s[i] \in 1 .. 255
  <2>1. DOMAIN s = 1 .. Len(s) /\ Len(s) \in Nat /\ \A i \in 1 .. Len(s) : s[i] \in Byte \ {0}
    BY LenProperties
  <2>2. \A x \in Byte \ {0} : x \in 1 .. 255
    BY SMT DEF Byte
  <2> QED
    BY <2>1, <2>2
<1>2. Sanitize(s) = WithoutControls(s, {9, 10, 13})
  <2>1. \A x \in 1 .. 255 : x < 32 /\ x \notin {9, 10, 13} <=> x \in (1 .. 31) \ {9, 10, 13}
    BY SMT
  <2> QED
    BY <1>1, <2>1, Zenon DEF Sanitize, WithoutControls
<1>3. SanitizeCC(s) = WithoutControls(s, {})
  <2>1. \A x \in 1 .. 255 : x < 32 <=> x \in (1 .. 31) \ {}
    BY SMT
  <2> QED
    BY <1>1, <2>1, Zenon DEF SanitizeCC, WithoutControls
<1>4. ASSUME NEW spared PROVE WithoutControls(s, spared) \in Seq(Byte)
  <2> DEFINE t == WithoutControls(s, spared)
  <2>1. t = [i \in 1 .. Len(s) |-> IF s[i] \in (1 .. 31) \ spared THEN 32 ELSE s[i]]
    BY <1>1 DEF WithoutControls
  <2>2. \A i \in 1 .. Len(s) : (IF s[i] \in (1 .. 31) \ spared THEN 32 ELSE s[i]) \in Byte
    <3>1. 32 \in Byte /\ \A x \in 1 .. 255 : x \in Byte
      BY SMT DEF Byte
    <3> QED
      BY <1>1, <3>1, Zenon
  <2> HIDE DEF t
  <2>3. t \in [1 .. Len(s) -> Byte]
    BY <2>1, <2>2
  <2>4. t \in Seq(Byte)
    BY <1>1, <2>3, SeqDef
  <2> QED
    BY <2>4 DEF t
<1>5. s \in Seq(Byte)
  <2>1. Byte \ {0} \subseteq Byte
    OBVIOUS
  <2> QED
    BY <2>1, SeqMonotonic
<1> DEFINE t == IF "SANITIZE" \in bits THEN Sanitize(s)
                ELSE IF "SANITIZE_CC" \in bits THEN SanitizeCC(s) ELSE s
           clean == CASE "SANITIZE" \in bits    -> WithoutControls(s, {9, 10, 13})
                      [] bits \cap {"SANITIZE", "SANITIZE_CC"} = {"SANITIZE_CC"} -> WithoutControls(s, {})
                      [] OTHER -> s
<1>6. t = clean
  <2>1. "SANITIZE" # "SANITIZE_CC"
    BY SMT
  <2>2. CASE "SANITIZE" \in bits
    BY <1>2, <2>1, <2>2
  <2>3. CASE "SANITIZE" \notin bits /\ "SANITIZE_CC" \in bits
    <3>1. bits \cap {"SANITIZE", "SANITIZE_CC"} = {"SANITIZE_CC"}
      BY <2>3
    <3> QED
      BY <1>3, <2>3, <3>1
  <2>4. CASE "SANITIZE" \notin bits /\ "SANITIZE_CC" \notin bits
    <3>1. bits \cap {"SANITIZE", "SANITIZE_CC"} # {"SANITIZE_CC"}
      BY <2>4
    <3> QED
      BY <2>4, <3>1
  <2> QED
    BY <2>2, <2>3, <2>4
<1>7. t \in Seq(Byte)
  BY <1>2, <1>3, <1>4, <1>5
<1>8. Sanitized(s, bits) = IF "SKIP_START_WHITESPACES" \in bits THEN CleanWhitespaces(t) ELSE t
  BY Zenon DEF Sanitized
<1>9. Reading(s, bits) = IF "SKIP_START_WHITESPACES" \in bits THEN Tidy(clean) ELSE clean
  BY Zenon DEF Reading
<1> HIDE DEF t, clean
<1> QED
  BY <1>6, <1>7, <1>8, <1>9, CleanIsTidy

LEMMA StringItem ==
    ASSUME Inv, OwnInv, NEW bits \in Sanitizing, GetString(bits)
    PROVE  OwnInv'
<1> SUFFICES ASSUME own PROVE OwnInv'
  BY DEF GetString, Unpacking, OwnInv
<1> DEFINE next == items[Len(got) + 1]
           s == next.value
           string(x) == [type |-> "string", value |-> x, bits |-> bits]
<1>1. /\ phase = "unpacking" /\ UNCHANGED <<data, packErr, items, own>> /\ err = "NONE"
      /\ Len(got) < Len(items) /\ next.type = "string"
  BY DEF GetString, Unpacking, OwnInv
<1>2. next \in [type : {"string"}, value : Seq(Byte \ {0})]
  <2>1. next \in Items
    BY <1>1, LeftIs
  <2> QED
    BY <1>1, <2>1 DEF Items
<1>3. PICK rest \in Seq(Byte) : Left = ItemBytes(next) \o rest
  BY <1>1, LeftIs
<1>4. /\ s \in Seq(Byte \ {0}) /\ ItemBytes(next) = Append(s, 0)
      /\ Len(s) \in Nat /\ \A i \in 1 .. Len(s) : s[i] \in Byte /\ s[i] # 0
  <2>1. s \in Seq(Byte \ {0}) /\ next.type # "int" /\ next.type # "bool"
    BY <1>1, <1>2, SMT
  <2> QED
    BY <1>1, <2>1, LenProperties DEF ItemBytes
<1> HIDE DEF next, s
<1>5. s \in Seq(Byte) /\ 0 \in Byte
  <2>1. Byte \ {0} \subseteq Byte /\ 0 \in Byte
    BY SMT DEF Byte
  <2> QED
    BY <1>4, <2>1, SeqMonotonic
<1> DEFINE n == Len(s) + 1
<1>6. Left \in Seq(Byte) /\ n <= Len(Left) /\ Left[n] = 0 /\ \A i \in 1 .. Len(s) : Left[i] = s[i]
  <2> DEFINE b == Append(s, 0)
  <2>1. b \in Seq(Byte) /\ Len(b) = n /\ b[n] = 0 /\ \A i \in 1 .. Len(s) : b[i] = s[i]
    BY <1>5, AppendProperties
  <2> HIDE DEF b
  <2>2. Left = b \o rest
    BY <1>3, <1>4 DEF b
  <2>3. /\ Left \in Seq(Byte) /\ Len(Left) = Len(b) + Len(rest) /\ Len(rest) \in Nat
        /\ \A i \in 1 .. Len(b) + Len(rest) : Left[i] = IF i <= Len(b) THEN b[i] ELSE rest[i - Len(b)]
    BY <2>1, <2>2, ConcatProperties, LenProperties
  <2>4. \A i \in 1 .. n : i \in 1 .. Len(b) + Len(rest) /\ i <= Len(b)
    BY <1>4, <2>1, <2>3, SMT
  <2>5. n \in 1 .. n /\ \A i \in 1 .. Len(s) : i \in 1 .. n
    BY <1>4, SMT
  <2> QED
    BY <1>4, <2>1, <2>3, <2>4, <2>5, SMT
<1>7. DOMAIN Left = 1 .. Len(Left) /\ Len(Left) \in Nat /\ n \in Nat
  BY <1>4, <1>6, LenProperties, SMT
<1>8. Text = Left /\ Contains(Left, 0)
  <2>1. n \in 1 .. Len(Left)
    BY <1>4, <1>6, <1>7, SMT
  <2>2. Contains(Left, 0)
    BY <1>6, <2>1, SMT DEF Contains
  <2>3. at \in Nat /\ at + Len(Left) = Len(data) /\ (at < Len(data) => Text = Left)
    BY <1>1, LeftIs
  <2>4. at < Len(data)
    BY <1>7, <2>1, <2>3, SMT
  <2> QED
    BY <2>2, <2>3, <2>4
<1>9. ASSUME NEW k \in DOMAIN Left, Terminator(Left, k) PROVE k = n
  <2>1. k \in Nat /\ k >= 1
    BY <1>7, SMT
  <2>2. ~(k < n)
    <3>1. k < n => k \in 1 .. Len(s)
      BY <1>4, <2>1, SMT
    <3> QED
      BY <1>4, <1>6, <1>9, <3>1 DEF Terminator
  <2>3. ~(n < k)
    <3>1. n < k => n \in 1 .. k - 1
      BY <1>4, <2>1, SMT
    <3> QED
      BY <1>6, <1>9, <3>1 DEF Terminator
  <2> QED
    BY <1>7, <2>1, <2>2, <2>3, SMT
<1>10. SubSeq(Left, 1, n - 1) = s
  <2> DEFINE cut == SubSeq(Left, 1, n - 1)
  <2>1. n - 1 = Len(s) /\ n - 1 \in Int /\ \A i \in 1 .. n - 1 : Left[i] \in Byte
    BY <1>4, <1>6, SMT
  <2>2. cut \in Seq(Byte) /\ Len(cut) = Len(s)
    BY <1>4, <2>1, SubSeqProperties, SMT
  <2>3. \A i \in 1 .. (n - 1) - 1 + 1 : cut[i] = Left[1 + i - 1]
    BY <2>1, SubSeqProperties, SMT
  <2>4. \A i \in 1 .. Len(s) : i \in 1 .. (n - 1) - 1 + 1 /\ 1 + i - 1 = i
    BY <1>4, SMT
  <2> HIDE DEF cut
  <2>5. cut = s
    BY <1>5, <1>6, <2>2, <2>3, <2>4, SeqEqual
  <2> QED
    BY <2>5 DEF cut
<1>11. Len(ItemBytes(next)) = n
  BY <1>4, <1>5, AppendProperties
<1> HIDE DEF n, string
<1>12. Take(Left, n, string(Sanitized(s, bits)), err)
  BY <1>1, <1>8, <1>9, <1>10 DEF GetString, string
<1>13. IsRead(string(Sanitized(s, bits)), next)
  <2>1. Sanitized(s, bits) = Reading(s, bits)
    BY <1>4, SanitizedIs
  <2> QED
    BY <2>1 DEF IsRead, string, s
<1> QED
  BY <1>1, <1>11, <1>12, <1>13, TakeItem DEF next

LEMMA RawItem ==
    ASSUME Inv, OwnInv, NEW n \in 1 .. BufferSize, GetRaw(n)
    PROVE  OwnInv'
<1> SUFFICES ASSUME own PROVE OwnInv'
  BY DEF GetRaw, Unpacking, OwnInv
<1> DEFINE next == items[Len(got) + 1]
           raw(d) == [type |-> "raw", value |-> d]
<1>1. /\ phase = "unpacking" /\ UNCHANGED <<data, packErr, items, own>> /\ err = "NONE"
      /\ Len(got) < Len(items) /\ next.type = "raw" /\ n = Len(next.value)
  BY DEF GetRaw, Unpacking, OwnInv
<1>2. next \in [type : {"raw"}, value : Seq(Byte)]
  <2>1. next \in Items
    BY <1>1, LeftIs
  <2> QED
    BY <1>1, <2>1 DEF Items
<1>3. PICK rest \in Seq(Byte) : Left = ItemBytes(next) \o rest
  BY <1>1, LeftIs
<1>4. next.value \in Seq(Byte) /\ ItemBytes(next) = next.value /\ next = raw(next.value)
  <2>1. next.type # "int" /\ next.type # "bool" /\ next.type # "string"
    BY <1>1, SMT
  <2> QED
    BY <1>2, <2>1 DEF ItemBytes
<1> HIDE DEF next
<1> DEFINE b == next.value
<1>5. Left = b \o rest /\ Len(b) = n /\ n \in Nat /\ Len(rest) \in Nat /\ b \in Seq(Byte)
  BY <1>1, <1>3, <1>4, LenProperties
<1> HIDE DEF b
<1>6. Left \in Seq(Byte) /\ n <= Len(Left) /\ \A i \in 1 .. n : Left[i] = b[i]
  <2>1. /\ Left \in Seq(Byte) /\ Len(Left) = n + Len(rest)
        /\ \A i \in 1 .. n + Len(rest) : Left[i] = IF i <= n THEN b[i] ELSE rest[i - n]
    BY <1>5, ConcatProperties
  <2>2. \A i \in 1 .. n : i \in 1 .. n + Len(rest) /\ i <= n
    BY <1>5, SMT
  <2> QED
    BY <1>5, <2>1, <2>2, SMT
<1>7. SubSeq(Left, 1, n) = b
  <2> DEFINE cut == SubSeq(Left, 1, n)
  <2>1. \A i \in 1 .. n : Left[i] \in Byte
    BY <1>5, <1>6
  <2>2. cut \in Seq(Byte) /\ Len(cut) = n
    BY <1>5, <2>1, SubSeqProperties, SMT
  <2>3. \A i \in 1 .. n - 1 + 1 : cut[i] = Left[1 + i - 1]
    BY <1>5, <2>1, SubSeqProperties, SMT
  <2>4. \A i \in 1 .. n : i \in 1 .. n - 1 + 1 /\ 1 + i - 1 = i
    BY <1>5, SMT
  <2> HIDE DEF cut
  <2>5. cut = b
    BY <1>5, <1>6, <2>2, <2>3, <2>4, SeqEqual
  <2> QED
    BY <2>5 DEF cut
<1> HIDE DEF raw
<1>8. Take(Left, n, raw(b), err)
  <2>1. ~(n > Len(Left))
    BY <1>5, <1>6, LenProperties, SMT
  <2> QED
    BY <1>7, <2>1 DEF GetRaw, raw
<1>9. IsRead(raw(b), next)
  BY <1>1, <1>4 DEF IsRead, b
<1>10. n = Len(ItemBytes(next))
  BY <1>4, <1>5 DEF b
<1> QED
  BY <1>1, <1>8, <1>9, <1>10, TakeItem DEF next

LEMMA NextReadsBack == Inv /\ OwnInv /\ [Next]_vars => OwnInv'
<1> SUFFICES ASSUME Inv, OwnInv, [Next]_vars PROVE OwnInv'
  OBVIOUS
<1>1. ASSUME NEW value \in Ints, AddInt(value) PROVE OwnInv'
  <2> DEFINE item == [type |-> "int", value |-> value]
  <2>1. item \in Items
    BY Constants DEF Items
  <2>2. ItemBytes(item) = EncodeInt(value)
    BY DEF ItemBytes
  <2> QED
    BY <1>1, <2>1, <2>2, PackLays DEF AddInt
<1>2. ASSUME NEW b \in BOOLEAN, AddBool(b) PROVE OwnInv'
  <2> DEFINE item == [type |-> "bool", value |-> b]
  <2>1. item \in Items
    BY DEF Items
  <2>2. ItemBytes(item) = EncodeInt(IF b THEN 1 ELSE 0)
    <3>1. item.type = "bool" /\ item.type # "int"
      BY SMT
    <3>2. item.value = b
      BY Zenon
    <3> HIDE DEF item
    <3> QED
      BY <3>1, <3>2, Zenon DEF ItemBytes
  <2> QED
    BY <1>2, <2>1, <2>2, PackLays DEF AddBool
<1>3. ASSUME NEW s \in Strings, AddString(s) PROVE OwnInv'
  <2> DEFINE item == [type |-> "string", value |-> s]
  <2>1. item \in Items
    BY Constants DEF Items
  <2>2. ItemBytes(item) = Append(s, 0)
    BY DEF ItemBytes
  <2> QED
    BY <1>3, <2>1, <2>2, PackLays DEF AddString
<1>4. ASSUME NEW d \in Raws, AddRaw(d) PROVE OwnInv'
  <2> DEFINE item == [type |-> "raw", value |-> d]
  <2>1. item \in Items
    BY Constants DEF Items
  <2>2. ItemBytes(item) = d
    BY DEF ItemBytes
  <2> QED
    BY <1>4, <2>1, <2>2, PackLays DEF AddRaw
<1>5. ASSUME NEW m, Unpack(m) PROVE OwnInv'
  <2>1. phase' = "unpacking" /\ UNCHANGED <<data, packErr, items, own, at, err, got, read>> /\ packErr = "NONE"
    BY <1>5 DEF Unpack
  <2>2. phase' # "packing" /\ phase' # "outside"
    BY <2>1, SMT
  <2> QED
    BY <2>1, <2>2 DEF OwnInv
<1>6. ASSUME NEW d, NEW m, UnpackForeign(d, m) PROVE OwnInv'
  BY <1>6 DEF UnpackForeign, OwnInv
<1>7. CASE UNCHANGED vars
  BY <1>7 DEF vars, OwnInv
<1> QED
  BY <1>1, <1>2, <1>3, <1>4, <1>5, <1>6, <1>7, IntItem, StringItem, RawItem DEF Next, GetInt, GetBool

(* What was packed without an error is unpacked, for every size of the     *)
(* buffer, all integers, strings and raw data, and however the strings are *)
(* sanitized (ddproto_packer_add_int, ddproto_unpacker_get_int and the     *)
(* others of their kind).                                                  *)
THEOREM PackedItemsReadBack == Spec => []ItemsReadBack
<1>1. Init => Inv /\ OwnInv
  <2> SUFFICES ASSUME Init PROVE OwnInv
    BY InitKeeps
  <2> DEFINE ends == [i \in 0 .. 0 |-> 0]
  <2>1. 0 \in 0 .. 0 /\ ends \in [0 .. 0 -> 0 .. 0] /\ 1 .. 0 = {}
    BY SMT
  <2>2. ends[0] = 0
    BY <2>1
  <2>3. Len(<<>>) = 0 /\ <<>> \in Seq(Items) /\ DOMAIN <<>> = {} /\ 0 <= 0
    BY SMT
  <2> HIDE DEF ends
  <2>4. Laid(ends, <<>>, <<>>)
    BY <2>1, <2>2, <2>3 DEF Laid
  <2>5. "packing" # "outside"
    BY SMT
  <2> QED
    BY <2>2, <2>3, <2>4, <2>5, SMT DEF Init, OwnInv
<1>2. Inv /\ OwnInv /\ [Next]_vars => Inv' /\ OwnInv'
  BY NextKeeps, NextReadsBack
<1>3. OwnInv => ItemsReadBack
  <2> SUFFICES ASSUME OwnInv, own PROVE ItemsReadBack
    BY DEF ItemsReadBack
  <2>1. ASSUME phase = "unpacking", Len(got) = Len(items) PROVE at = Len(data)
    <3>1. packErr = "NONE"
      BY <2>1, SMT DEF OwnInv
    <3> QED
      BY <2>1, <3>1 DEF OwnInv, Laid
  <2> QED
    BY <2>1 DEF OwnInv, IsRead, ItemsReadBack
<1> QED
  BY <1>1, <1>2, <1>3, PTL DEF Spec
=============================================================================
