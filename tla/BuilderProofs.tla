---------------------------- MODULE BuilderProofs ----------------------------
(***************************************************************************)
(* The numbers ddproto_build_packet gives to vital messages reach the wire *)
(* one after the other, for every size of the counter and of the number on *)
(* the wire, and every length of a packet.                                 *)
(***************************************************************************)
EXTENDS PacketBuilder, FiniteSetTheorems, WellFoundedInduction, TLAPS

LEMMA Constants ==
    /\ MaxSequence \in Nat /\ MaxSequence > 0
    /\ Uint16 \in Nat /\ Uint16 > 0
    /\ MaxMessages \in Nat /\ MaxMessages < MaxSequence
BY MaxSequenceAssumption, BuilderAssumption

\* The quotient and the rest of a division, and that there are no others.
LEMMA DivMod ==
    ASSUME NEW a \in Nat, NEW m \in Nat, m > 0
    PROVE  a \div m \in Nat /\ a % m \in 0 .. m - 1 /\ a = m * (a \div m) + (a % m)
OBVIOUS

LEMMA ModUnique ==
    ASSUME NEW m \in Nat, m > 0, NEW q \in Nat, NEW r \in 0 .. m - 1
    PROVE  (m * q + r) % m = r
OBVIOUS

\* A multiple of m more or less leaves the rest as it is.
LEMMA ModOfMultiple ==
    ASSUME NEW m \in Nat, m > 0, NEW q \in Nat, NEW a \in Nat
    PROVE  (m * q + a) % m = a % m
<1> DEFINE k == a \div m
           r == a % m
<1>1. k \in Nat /\ r \in 0 .. m - 1 /\ a = m * k + r
    BY DivMod
<1> HIDE DEF k, r
<1>2. m * q + a = m * (q + k) + r /\ q + k \in Nat
    BY <1>1, SMT
<1>3. (m * (q + k) + r) % m = r
    BY <1>1, <1>2, ModUnique
<1> QED BY <1>2, <1>3 DEF r

\* What OnWire takes from the counter is the same before and after the counter
\* wraps: 2^10 divides 2^16.
LEMMA WireOfWrapped ==
    ASSUME NEW a \in Nat
    PROVE  OnWire(a % Uint16) = a % MaxSequence
<1> DEFINE q == a \div Uint16
           r == a % Uint16
           k == Uint16 \div MaxSequence
<1>1. q \in Nat /\ r \in Nat /\ a = Uint16 * q + r
    BY DivMod, Constants
<1>2. k \in Nat /\ Uint16 = MaxSequence * k
    BY DivMod, Constants, BuilderAssumption
<1> HIDE DEF q, r, k
<1>3. PICK p \in Nat : a = MaxSequence * p + r
    <2>1. a = MaxSequence * (k * q) + r /\ k * q \in Nat
        BY <1>1, <1>2, Constants, SMT
    <2> QED BY <2>1
<1>4. (MaxSequence * p + r) % MaxSequence = r % MaxSequence
    BY <1>1, Constants, ModOfMultiple
<1> QED BY <1>3, <1>4 DEF r, OnWire

\* Counting on from a number or from what is on the wire of it is the same.
LEMMA CountOnWire ==
    ASSUME NEW a \in Nat, NEW c \in Nat
    PROVE  (a + c) % MaxSequence = ((a % MaxSequence) + c) % MaxSequence
<1> DEFINE q == a \div MaxSequence
           r == a % MaxSequence
<1>1. q \in Nat /\ r \in Nat /\ a = MaxSequence * q + r
    BY DivMod, Constants
<1> HIDE DEF q, r
<1>2. (MaxSequence * q + (r + c)) % MaxSequence = (r + c) % MaxSequence
    <2>1. r + c \in Nat
        BY <1>1
    <2> QED BY <2>1, <1>1, Constants, ModOfMultiple
<1>3. MaxSequence * q + (r + c) = a + c
    BY <1>1, Constants, SMT
<1> QED BY <1>2, <1>3 DEF r

\* Two counts that are less than MaxSequence apart differ on the wire.
LEMMA CloseCountsDiffer ==
    ASSUME NEW a \in Nat, NEW c \in Nat, NEW d \in Nat,
           c < d, d - c < MaxSequence
    PROVE  (a + c) % MaxSequence # (a + d) % MaxSequence
<1> DEFINE q == (a + c) \div MaxSequence
           r == (a + c) % MaxSequence
           e == d - c
<1>1. q \in Nat /\ r \in 0 .. MaxSequence - 1 /\ a + c = MaxSequence * q + r
    BY DivMod, Constants
<1>2. e \in Nat /\ e > 0 /\ e < MaxSequence /\ a + d = (a + c) + e
    BY SMT
<1> HIDE DEF q, r, e
<1>3. (MaxSequence * q + (r + e)) % MaxSequence = (r + e) % MaxSequence
    <2>1. r + e \in Nat
        BY <1>1, <1>2
    <2> QED BY <2>1, <1>1, Constants, ModOfMultiple
<1>4. (a + d) % MaxSequence = (r + e) % MaxSequence
    <2>1. MaxSequence * q + (r + e) = a + d
        BY <1>1, <1>2, Constants, SMT
    <2> QED BY <2>1, <1>3
<1>5. CASE r + e < MaxSequence
    <2>1. (MaxSequence * 0 + (r + e)) % MaxSequence = r + e
        BY <1>1, <1>2, <1>5, Constants, ModUnique
    <2>2. (a + d) % MaxSequence = r + e
        BY <2>1, <1>1, <1>2, <1>4, Constants, SMT
    <2> QED BY <2>2, <1>1, <1>2 DEF r
<1>6. CASE r + e >= MaxSequence
    <2> DEFINE s == r + e - MaxSequence
    <2>1. s \in 0 .. MaxSequence - 1 /\ s < r /\ MaxSequence * 1 + s = r + e
        BY <1>1, <1>2, <1>6, Constants, SMT
    <2>2. (MaxSequence * 1 + s) % MaxSequence = s
        BY <2>1, Constants, ModUnique
    <2>3. (a + d) % MaxSequence = s
        BY <2>1, <2>2, <1>4
    <2> QED BY <2>1, <2>3 DEF r
<1> QED BY <1>1, <1>2, <1>5, <1>6, Constants, SMT

\* A set of places in a packet has a last and a first one.
LEMMA LastPlace ==
    ASSUME NEW n \in Nat, NEW S \in SUBSET (1 .. n), S # {}
    PROVE  Max(S) \in S /\ \A y \in S : Max(S) >= y
<1> DEFINE Above(x) == {y \in S : y > x}
           T == {Above(x) : x \in S}
<1>1. IsFiniteSet(S) /\ S \subseteq Int
    <2>1. IsFiniteSet(1 .. n)
        BY FS_Interval
    <2>2. S \subseteq Int
        OBVIOUS
    <2> QED BY <2>1, <2>2, FS_Subset
<1>2. IsWellFoundedOn(StrictSubsetOrdering(S), FiniteSubsetsOf(S))
    BY FS_StrictSubsetOrderingWellFounded
<1>3. T \subseteq FiniteSubsetsOf(S) /\ T # {}
    <2>1. FiniteSubsetsOf(S) = SUBSET S
        BY <1>1, FS_FiniteSubsetsOfFinite
    <2>2. T \subseteq SUBSET S
        OBVIOUS
    <2>3. T # {}
        OBVIOUS
    <2> QED BY <2>1, <2>2, <2>3
<1>4. PICK U \in T : \A V \in T : ~ (<<V, U>> \in StrictSubsetOrdering(S))
    BY <1>2, <1>3, WFMin
<1>5. PICK x \in S : U = Above(x)
    BY <1>4
<1>6. \A y \in S : x >= y
    <2> SUFFICES ASSUME NEW y \in S, y > x PROVE FALSE
        OBVIOUS
    <2>1. Above(y) \subseteq Above(x) /\ y \in Above(x) /\ y \notin Above(y)
        <3>1. x \in Int /\ y \in Int /\ \A z \in S : z \in Int
            BY <1>1
        <3>2. \A z \in S : z > y => z > x
            BY <3>1
        <3>3. ~ (y > y)
            BY <3>1
        <3> QED BY <3>2, <3>3
    <2>2. <<Above(y), Above(x)>> \in StrictSubsetOrdering(S)
        BY <2>1 DEF StrictSubsetOrdering
    <2> QED BY <2>2, <1>4, <1>5
<1> QED BY <1>6 DEF Max

LEMMA FirstPlace ==
    ASSUME NEW n \in Nat, NEW S \in SUBSET (1 .. n), S # {}
    PROVE  Min(S) \in S
<1> DEFINE M == {n + 1 - x : x \in S}
<1>1. M \in SUBSET (1 .. n)
    <2>1. \A x \in 1 .. n : n + 1 - x \in 1 .. n
        OBVIOUS
    <2> QED BY <2>1
<1> S # {} /\ M # {}
    OBVIOUS
<1>2. Max(M) \in M /\ \A y \in M : Max(M) >= y
    BY <1>1, LastPlace
<1>3. PICK x \in S : Max(M) = n + 1 - x
    BY <1>2
<1>4. \A y \in S : x =< y
    <2> SUFFICES ASSUME NEW y \in S PROVE x =< y
        OBVIOUS
    <2>1. n + 1 - x >= n + 1 - y
        BY <1>2, <1>3
    <2>2. x \in Int /\ y \in Int
        OBVIOUS
    <2> QED BY <2>1, <2>2
<1> QED BY <1>4 DEF Min

-----------------------------------------------------------------------------
(* The inductive invariant: the chunks of a packet that waits count on     *)
(* from a number, its base, which is the one the receiver saw last.        *)

Counted(i) == Cardinality({j \in VitalPlaces : j <= i})

NumberedFrom(base) ==
    /\ sequence = (base + Cardinality(VitalPlaces)) % Uint16
    /\ \A i \in VitalPlaces : packet[i].sequence = (base + Counted(i)) % Uint16

PacketNumbered ==
    /\ Len(packet) <= MaxMessages
    /\ pending /\ ~error =>
          \E base \in 0 .. Uint16 - 1 :
              (~skipped => base % MaxSequence = wire) /\ NumberedFrom(base)
    /\ ~pending /\ ~skipped => sequence % MaxSequence = wire

Inv == TypeOK /\ PacketNumbered

Chunk == [vital : BOOLEAN, sequence : 0 .. Uint16 - 1]

LEMMA ElementType ==
    ASSUME NEW S, NEW s \in Seq(S), NEW k \in DOMAIN s
    PROVE  s[k] \in S
OBVIOUS

LEMMA Wrapped ==
    ASSUME NEW a \in Nat
    PROVE  a % Uint16 \in 0 .. Uint16 - 1 /\ a % MaxSequence \in SeqNumbers
BY Constants, DivMod DEF SeqNumbers

LEMMA Counts ==
    ASSUME NEW n \in Nat, NEW S \in SUBSET (1 .. n)
    PROVE  IsFiniteSet(S) /\ Cardinality(S) \in Nat /\ Cardinality(S) <= n
<1>1. IsFiniteSet(1 .. n) /\ Cardinality(1 .. n) <= n
    BY FS_Interval
<1>2. IsFiniteSet(S) /\ Cardinality(S) <= Cardinality(1 .. n)
    BY <1>1, FS_Subset
<1>3. Cardinality(S) \in Nat /\ Cardinality(1 .. n) \in Nat
    BY <1>1, <1>2, FS_CardinalityType
<1> QED BY <1>1, <1>2, <1>3

LEMMA LastIsPlace ==
    ASSUME NEW n \in Nat, n > 0, NEW messages \in [1 .. n -> Messages]
    PROVE  /\ Last(messages) \in 1 .. n
           /\ (\A i \in 1 .. n : messages[i].encodes) => Last(messages) = n
<1> DEFINE failing == {i \in DOMAIN messages : ~messages[i].encodes}
<1>1. failing \in SUBSET (1 .. n) /\ Len(messages) = n
    OBVIOUS
<1>2. failing # {} => Min(failing) \in 1 .. n
    BY <1>1, FirstPlace
<1> QED BY <1>1, <1>2 DEF Last

\* What Build leaves behind, in parts that are easier to use.
LEMMA Built ==
    ASSUME TypeOK, NEW n \in 1 .. MaxMessages, NEW messages \in [1 .. n -> Messages],
           NEW garbage \in BOOLEAN, Build(messages, garbage)
    PROVE  /\ packet' \in Seq(Chunk) /\ Len(packet') <= MaxMessages
           /\ sequence' \in 0 .. Uint16 - 1 /\ error' \in BOOLEAN
           /\ ~error' => \A base : base = sequence => NumberedFrom(base)'
<1> DEFINE last == Last(messages)
           vitals(i) == {j \in 1 .. i : VitalBit(messages[j], garbage)}
<1>1. n \in Nat /\ n > 0 /\ n <= MaxMessages /\ DOMAIN messages = 1 .. n
    BY Constants
<1>2. last \in 1 .. n /\ (~error' => last = n)
    BY <1>1, LastIsPlace DEF Build
<1>3. \A i \in 1 .. n : vitals(i) \in SUBSET (1 .. i)
    OBVIOUS
<1>4. \A i \in 1 .. n : Cardinality(vitals(i)) \in Nat
    BY <1>3, <1>1, Counts
<1>5. sequence \in Nat
    BY DEF TypeOK
<1>6. \A i \in 1 .. n : CountedUpTo(messages, garbage, i) \in 0 .. Uint16 - 1
    <2> SUFFICES ASSUME NEW i \in 1 .. n
                 PROVE  CountedUpTo(messages, garbage, i) \in 0 .. Uint16 - 1
        OBVIOUS
    <2>1. sequence + Cardinality(vitals(i)) \in Nat
        BY <1>4, <1>5
    <2> QED BY <2>1, Wrapped DEF CountedUpTo
<1>7. \A i \in 1 .. n : VitalBit(messages[i], garbage) \in BOOLEAN
    BY DEF VitalBit, Messages
<1>8. packet' = [i \in 1 .. last |-> [vital    |-> VitalBit(messages[i], garbage),
                                      sequence |-> CountedUpTo(messages, garbage, i)]]
    BY DEF Build
<1>9. packet' \in [1 .. last -> Chunk]
    BY <1>2, <1>6, <1>7, <1>8 DEF Chunk
<1>10. packet' \in Seq(Chunk) /\ Len(packet') = last /\ DOMAIN packet' = 1 .. last
    BY <1>2, <1>9
<1>11. sequence' = CountedUpTo(messages, garbage, last)
    BY DEF Build
<1>12. ASSUME ~error', NEW base, base = sequence PROVE NumberedFrom(base)'
    <2>1. VitalPlaces' = vitals(n)
        BY <1>2, <1>8, <1>10, <1>12 DEF VitalPlaces
    <2>2. \A i \in 1 .. n : {j \in VitalPlaces' : j <= i} = vitals(i)
        BY <2>1
    <2>3. \A i \in VitalPlaces' : i \in 1 .. n
        BY <2>1
    <2>4. \A i \in VitalPlaces' :
             packet'[i].sequence = (base + Counted(i)') % Uint16
        BY <2>2, <2>3, <1>2, <1>8, <1>12 DEF Counted, CountedUpTo
    <2>5. sequence' = (base + Cardinality(VitalPlaces')) % Uint16
        BY <2>1, <1>2, <1>11, <1>12 DEF CountedUpTo
    <2> QED BY <2>4, <2>5 DEF NumberedFrom
<1>13. error' \in BOOLEAN
    BY DEF Build
<1>14. Len(packet') <= MaxMessages /\ sequence' \in 0 .. Uint16 - 1
    BY <1>1, <1>2, <1>6, <1>10, <1>11, Constants
<1>15. ~error' => \A base : base = sequence => NumberedFrom(base)'
    BY <1>12
<1> QED BY <1>10, <1>13, <1>14, <1>15

LEMMA InvInit == Init => Inv
<1> SUFFICES ASSUME Init PROVE Inv
    OBVIOUS
<1>1. packet = <<>> /\ <<>> \in Seq(Chunk) /\ Len(<<>>) = 0
    BY DEF Init
<1>2. 0 % MaxSequence = 0 /\ 0 \in SeqNumbers /\ 0 \in 0 .. Uint16 - 1
    BY Constants DEF SeqNumbers
<1>3. TypeOK
    BY <1>1, <1>2 DEF Init, TypeOK, Chunk
<1>4. PacketNumbered
    BY <1>1, <1>2, Constants DEF Init, PacketNumbered
<1> QED BY <1>3, <1>4 DEF Inv

LEMMA BuildInv ==
    ASSUME Inv, NEW n \in 1 .. MaxMessages, NEW messages \in [1 .. n -> Messages],
           NEW garbage \in BOOLEAN, Build(messages, garbage)
    PROVE  Inv'
<1> USE DEF Inv
<1>1. /\ packet' \in Seq(Chunk) /\ Len(packet') <= MaxMessages
      /\ sequence' \in 0 .. Uint16 - 1 /\ error' \in BOOLEAN
      /\ ~error' => \A base : base = sequence => NumberedFrom(base)'
    BY Built
<1>2. pending' /\ ~pending /\ wire' = wire /\ skipped' = skipped
    BY DEF Build
<1>3. TypeOK'
    BY <1>1, <1>2 DEF TypeOK, Chunk
<1>4. (~skipped => sequence % MaxSequence = wire) /\ sequence \in 0 .. Uint16 - 1
    BY <1>2 DEF PacketNumbered, TypeOK
<1>5. ~error' => \E base \in 0 .. Uint16 - 1 :
                    (~skipped' => base % MaxSequence = wire') /\ NumberedFrom(base)'
    BY <1>1, <1>2, <1>4
<1>6. PacketNumbered'
    BY <1>1, <1>2, <1>5 DEF PacketNumbered
<1> QED BY <1>3, <1>6

\* The number of the last vital chunk is that of the session.
LEMMA SendInv == Inv /\ Send => Inv'
<1> SUFFICES ASSUME Inv, Send PROVE Inv'
    OBVIOUS
<1> USE DEF Inv
<1>1. pending /\ ~error /\ ~pending' /\ packet' = <<>> /\ sequence' = sequence
    BY DEF Send
<1>2. PICK base \in 0 .. Uint16 - 1 :
            (~skipped => base % MaxSequence = wire) /\ NumberedFrom(base)
    BY <1>1 DEF PacketNumbered
<1>3. VitalPlaces \in SUBSET (1 .. Len(packet)) /\ Len(packet) \in Nat
    BY DEF VitalPlaces, TypeOK
<1>4. Cardinality(VitalPlaces) \in Nat /\ base + Cardinality(VitalPlaces) \in Nat
    BY <1>3, Counts
<1>5. sequence % MaxSequence = (base + Cardinality(VitalPlaces)) % MaxSequence
    BY <1>2, <1>4, WireOfWrapped DEF NumberedFrom, OnWire
<1>6. ~skipped' => wire' = sequence % MaxSequence
    <2>1. CASE VitalPlaces = {}
        <3>1. Cardinality(VitalPlaces) = 0
            BY <2>1, FS_EmptySet
        <3>2. wire' = wire /\ skipped' = skipped
            BY <2>1 DEF Send, TypeOK
        <3> QED BY <3>1, <3>2, <1>2, <1>5
    <2>2. CASE VitalPlaces # {}
        <3> DEFINE last == Max(VitalPlaces)
        <3>1. last \in VitalPlaces /\ \A j \in VitalPlaces : last >= j
            BY <2>2, <1>3, LastPlace
        <3>2. {j \in VitalPlaces : j <= last} = VitalPlaces
            BY <3>1, <1>3
        <3>3. packet[last].sequence = sequence
            BY <3>1, <3>2, <1>2 DEF NumberedFrom, Counted
        <3>4. wire' = OnWire(packet[last].sequence)
            BY <2>2 DEF Send
        <3> QED BY <3>3, <3>4 DEF OnWire
    <2> QED BY <2>1, <2>2
<1>7. wire' \in SeqNumbers
    <2>1. CASE VitalPlaces = {}
        BY <2>1 DEF Send, TypeOK
    <2>2. CASE VitalPlaces # {}
        <3>1. Max(VitalPlaces) \in DOMAIN packet
            BY <2>2, <1>3, LastPlace, Zenon DEF VitalPlaces
        <3>2. packet[Max(VitalPlaces)] \in [vital : BOOLEAN, sequence : 0 .. Uint16 - 1]
            <4>1. packet \in Seq([vital : BOOLEAN, sequence : 0 .. Uint16 - 1])
                BY DEF TypeOK
            <4> QED BY <4>1, <3>1, ElementType
        <3>3. packet[Max(VitalPlaces)].sequence \in Nat
            BY <3>2, Constants
        <3> QED BY <2>2, <3>3, Wrapped DEF Send, OnWire
    <2> QED BY <2>1, <2>2
<1>8. skipped' \in BOOLEAN /\ pending' \in BOOLEAN /\ error' \in BOOLEAN
    BY DEF Send, TypeOK
<1>9. packet' \in Seq(Chunk) /\ Len(packet') = 0
    BY <1>1
<1>10. TypeOK'
    BY <1>1, <1>7, <1>8, <1>9 DEF TypeOK, Chunk
<1>11. PacketNumbered'
    BY <1>1, <1>6, <1>9, Constants DEF PacketNumbered
<1> QED BY <1>10, <1>11

LEMMA SendFailsInv == Inv /\ SendFails => Inv'
<1> SUFFICES ASSUME Inv, SendFails PROVE Inv'
    OBVIOUS
<1>1. packet' = <<>> /\ packet' \in Seq(Chunk) /\ Len(packet') = 0
    BY DEF SendFails
<1>2. TypeOK'
    BY <1>1 DEF SendFails, Inv, TypeOK, Chunk
<1>3. PacketNumbered'
    BY <1>1, Constants DEF SendFails, PacketNumbered
<1> QED BY <1>2, <1>3 DEF Inv

LEMMA InvStep == Inv /\ [Next]_vars => Inv'
<1> SUFFICES ASSUME Inv, [Next]_vars PROVE Inv'
    OBVIOUS
<1>1. ASSUME NEW n \in 1 .. MaxMessages, NEW messages \in [1 .. n -> Messages],
             NEW garbage \in BOOLEAN, Build(messages, garbage)
      PROVE  Inv'
    BY <1>1, BuildInv
<1>2. CASE Send
    BY <1>2, SendInv
<1>3. CASE SendFails
    BY <1>3, SendFailsInv
<1>4. CASE UNCHANGED vars
    BY <1>4 DEF vars, Inv, TypeOK, PacketNumbered, NumberedFrom, Counted, VitalPlaces
<1> QED BY <1>1, <1>2, <1>3, <1>4 DEF Next

THEOREM InvHolds == Spec => []Inv
BY InvInit, InvStep, PTL DEF Spec

(* The counter of the session and the numbers in a packet stay in their    *)
(* types, whatever is built and whatever fails.                            *)
THEOREM BuilderTypes == Spec => []TypeOK
<1>1. Inv => TypeOK
    BY DEF Inv
<1> QED BY <1>1, InvHolds, PTL

\* What the invariant says of a packet that can be sent.
LEMMA Ready ==
    ASSUME Inv, pending, ~error
    PROVE  \E base \in Nat :
              /\ ~skipped => base % MaxSequence = wire
              /\ \A i \in VitalPlaces :
                    /\ Counted(i) \in Nat /\ Counted(i) <= MaxMessages
                    /\ OnWire(packet[i].sequence) = (base + Counted(i)) % MaxSequence
<1>1. PICK base \in 0 .. Uint16 - 1 :
            (~skipped => base % MaxSequence = wire) /\ NumberedFrom(base)
    BY DEF Inv, PacketNumbered
<1>2. Len(packet) \in Nat /\ Len(packet) <= MaxMessages
    BY DEF Inv, PacketNumbered, TypeOK
<1>3. base \in Nat
    BY <1>1
<1>4. ASSUME NEW i \in VitalPlaces
      PROVE  /\ Counted(i) \in Nat /\ Counted(i) <= MaxMessages
             /\ OnWire(packet[i].sequence) = (base + Counted(i)) % MaxSequence
    <2>1. {j \in VitalPlaces : j <= i} \in SUBSET (1 .. Len(packet))
        BY DEF VitalPlaces, Inv, TypeOK
    <2>2. Counted(i) \in Nat /\ Counted(i) <= MaxMessages
        BY <2>1, <1>2, Counts, Constants DEF Counted
    <2>3. base + Counted(i) \in Nat
        BY <2>2, <1>3
    <2> QED BY <2>2, <2>3, <1>1, WireOfWrapped DEF NumberedFrom
<1> QED BY <1>1, <1>3, <1>4

(* The vital chunks of a packet that is sent carry the numbers that follow *)
(* the last one on the wire, unless a build has failed in between: the     *)
(* receiver finds no gap the network has not made.                         *)
THEOREM NumbersFollow == Spec => []SentInSequence
<1>1. Inv => SentInSequence
    <2> SUFFICES ASSUME Inv, pending, ~error, ~skipped, NEW i \in VitalPlaces
                 PROVE  OnWire(packet[i].sequence) = (wire + Counted(i)) % MaxSequence
        BY DEF SentInSequence, Counted
    <2>1. PICK base \in Nat :
              /\ base % MaxSequence = wire
              /\ Counted(i) \in Nat
              /\ OnWire(packet[i].sequence) = (base + Counted(i)) % MaxSequence
        BY Ready
    <2> QED BY <2>1, CountOnWire
<1> QED BY <1>1, InvHolds, PTL

(* No two vital chunks of a packet that is sent carry the same number, so  *)
(* the receiver drops none of them as known.                               *)
THEOREM NumbersStayApart == Spec => []NumbersDiffer
<1>1. ASSUME Inv, pending, ~error, NEW i \in VitalPlaces, NEW j \in VitalPlaces, i < j
      PROVE  OnWire(packet[i].sequence) # OnWire(packet[j].sequence)
    <2>1. PICK base \in Nat : \A k \in VitalPlaces :
              /\ Counted(k) \in Nat /\ Counted(k) <= MaxMessages
              /\ OnWire(packet[k].sequence) = (base + Counted(k)) % MaxSequence
        BY <1>1, Ready
    <2> DEFINE upTo(k) == {m \in VitalPlaces : m <= k}
    <2>2. VitalPlaces \in SUBSET (1 .. Len(packet)) /\ Len(packet) \in Nat
        BY <1>1 DEF VitalPlaces, Inv, TypeOK
    <2>3. \A k \in VitalPlaces : k \in Int
        BY <2>2
    <2>4. upTo(i) \in SUBSET upTo(j) /\ j \in upTo(j) /\ j \notin upTo(i)
        BY <2>3, <1>1
    <2>5. IsFiniteSet(upTo(j)) /\ upTo(i) # upTo(j)
        BY <2>2, <2>4, Counts
    <2>6. Counted(i) < Counted(j)
        BY <2>1, <2>4, <2>5, FS_Subset DEF Counted
    <2>7. Counted(j) - Counted(i) < MaxSequence
        BY <2>1, Constants
    <2> QED BY <2>1, <2>6, <2>7, CloseCountsDiffer
<1>2. Inv => NumbersDiffer
    <2> SUFFICES ASSUME Inv, pending, ~error, NEW i \in VitalPlaces, NEW j \in VitalPlaces,
                        OnWire(packet[i].sequence) = OnWire(packet[j].sequence)
                 PROVE  i = j
        BY DEF NumbersDiffer
    <2>1. i \in Int /\ j \in Int
        BY DEF VitalPlaces, Inv, TypeOK
    <2> QED BY <1>1, <2>1
<1> QED BY <1>2, InvHolds, PTL
=============================================================================
