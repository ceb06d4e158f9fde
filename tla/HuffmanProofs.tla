--------------------------- MODULE HuffmanProofs ---------------------------
(***************************************************************************)
(* Proofs about Huffman: its types, the size of what is compressed, that   *)
(* any bytes are decompressed to what the tree reads in them or refused,   *)
(* and that what was compressed is read back.  Of the tree they use what   *)
(* TreeAssumption says, which TLC computes from the frequency table.       *)
(***************************************************************************)
EXTENDS Huffman, SequenceLemmas

-----------------------------------------------------------------------------
(* The tree *)

Bit == {0, 1}
Nodes == 0 .. StartNode

LEMMA NodeNumbers ==
    /\ EOF = 256 /\ StartNode = 512 /\ LutBits = 10 /\ FillTo = 24 /\ WordBits = 32
    /\ Symbols = 0 .. 256 /\ Nodes = 0 .. 512 /\ Bytes = 0 .. 255
    /\ \A n : IsSymbol(n) <=> n <= 256
  BY SMT DEF EOF, StartNode, LutBits, FillTo, WordBits, Symbols, Nodes, Bytes, IsSymbol

LEMMA CodeTyped ==
    ASSUME NEW n \in Nodes
    PROVE  /\ Codes[n] \in Seq(Bit) /\ Len(Codes[n]) \in 0 .. 24
           /\ \A i \in 1 .. Len(Codes[n]) : Codes[n][i] \in Bit
<1>1. Codes \in [0 .. StartNode -> Seq({0, 1})] /\ Codes[StartNode] = <<>>
  BY TreeAssumption
<1>2. \A m \in 0 .. StartNode - 1 : Len(Codes[m]) \in 1 .. FillTo
  BY TreeAssumption
<1>3. Codes[n] \in Seq(Bit)
  BY <1>1 DEF Nodes, Bit
<1>4. Len(Codes[n]) \in 0 .. 24
  <2>1. CASE n = StartNode
    <3>1. Len(<<>>) = 0
      BY EmptySeq
    <3> QED
      BY <1>1, <2>1, <3>1, SMT
  <2>2. CASE n # StartNode
    <3>1. n \in 0 .. StartNode - 1
      BY <2>2, NodeNumbers, SMT
    <3>2. Len(Codes[n]) \in 1 .. 24
      BY <1>2, <3>1, NodeNumbers
    <3> QED
      BY <3>2, SMT
  <2> QED
    BY <2>1, <2>2
<1>5. \A i \in 1 .. Len(Codes[n]) : Codes[n][i] \in Bit
  BY <1>3, ElementOfSeq
<1> QED
  BY <1>3, <1>4, <1>5

LEMMA SymbolTyped ==
    ASSUME NEW s \in Symbols
    PROVE  s \in Nodes /\ Len(Codes[s]) \in 1 .. 24
<1>1. s \in Nodes /\ s \in 0 .. StartNode - 1
  BY NodeNumbers, SMT
<1>2. Len(Codes[s]) \in 1 .. FillTo
  BY <1>1, TreeAssumption
<1> QED
  BY <1>1, <1>2, NodeNumbers

LEMMA ChildTyped ==
    ASSUME NEW n \in Nodes, ~ IsSymbol(n), NEW x \in Bit
    PROVE  Child(n, x) \in Nodes /\ Codes[Child(n, x)] = Append(Codes[n], x)
<1>1. n \in EOF + 1 .. StartNode
  BY NodeNumbers, SMT
<1>2. \A m \in EOF + 1 .. StartNode : \A y \in {0, 1} :
          Child(m, y) \in 0 .. StartNode /\ Codes[Child(m, y)] = Append(Codes[m], y)
  BY TreeAssumption
<1> QED
  BY <1>1, <1>2 DEF Nodes, Bit

\* Where the codes of two symbols agree as far as the shorter goes, they are one.
LEMMA PrefixFree ==
    ASSUME NEW s \in Symbols, NEW t \in Symbols,
           \A i \in 1 .. Len(Codes[s]) : i <= Len(Codes[t]) => Codes[s][i] = Codes[t][i]
    PROVE  s = t
<1>1. ASSUME NEW x \in Symbols, NEW y \in Symbols, Len(Codes[x]) <= Len(Codes[y]),
             \A i \in 1 .. Len(Codes[x]) : Codes[x][i] = Codes[y][i]
      PROVE  x = y
  <2> DEFINE cx == Codes[x]
             cy == Codes[y]
  <2>1. cx \in Seq(Bit) /\ cy \in Seq(Bit) /\ Len(cx) <= Len(cy) /\ Len(cx) \in Nat /\ Len(cy) \in Nat
    BY <1>1, CodeTyped, SymbolTyped, LenProperties
  <2>2. \A i \in 1 .. Len(cx) : cx[i] = cy[i]
    BY <1>1
  <2> HIDE DEF cx, cy
  <2>3. SubSeq(cx, 1, Len(cx)) = SubSeq(cy, 1, Len(cx))
    BY <2>1, <2>2, SMT
  <2>4. IsPrefix(cx, cy)
    BY <2>1, <2>3 DEF IsPrefix
  <2>5. \A a, b \in Symbols : IsPrefix(Codes[a], Codes[b]) => a = b
    BY TreeAssumption
  <2> QED
    BY <2>4, <2>5 DEF cx, cy
<1>2. Len(Codes[s]) \in 1 .. 24 /\ Len(Codes[t]) \in 1 .. 24
  BY SymbolTyped
<1>3. CASE Len(Codes[s]) <= Len(Codes[t])
  BY <1>1, <1>2, <1>3, SMT
<1>4. CASE Len(Codes[t]) <= Len(Codes[s])
  <2>1. \A i \in 1 .. Len(Codes[t]) : Codes[t][i] = Codes[s][i]
    BY <1>2, <1>4, SMT
  <2> QED
    BY <1>1, <1>4, <2>1
<1> QED
  BY <1>2, <1>3, <1>4, SMT

-----------------------------------------------------------------------------
(* The walk down the tree *)

\* Bit i of b, and the zeros behind them.
BitAt(b, i) == IF i <= Len(b) THEN b[i] ELSE 0

\* The node behind one, with a bit.
Under(node, x) == IF IsSymbol(node) THEN node ELSE Child(node, x)

\* The nodes on the way that n bits lead.
Walks(g, b, n) == g = [i \in 0 .. n |-> IF i = 0 THEN StartNode ELSE Under(g[i - 1], BitAt(b, i))]

LEMMA WalksExists ==
    ASSUME NEW b, NEW n \in Nat
    PROVE  \E g : Walks(g, b, n)
<1> DEFINE H == {k \in Nat : \E g : Walks(g, b, k)}
<1>1. 0 \in H
  <2> DEFINE g == [i \in 0 .. 0 |-> StartNode]
  <2>1. \A i \in 0 .. 0 : i = 0
    BY SMT
  <2>2. Walks(g, b, 0)
    BY <2>1 DEF Walks
  <2> QED
    BY <2>2
<1>2. ASSUME NEW k \in Nat, k \in H PROVE k + 1 \in H
  <2>1. PICK g : Walks(g, b, k)
    BY <1>2
  <2> DEFINE h == [i \in 0 .. k + 1 |-> IF i = k + 1 THEN Under(g[k], BitAt(b, k + 1)) ELSE g[i]]
             F(f, i) == IF i = 0 THEN StartNode ELSE Under(f[i - 1], BitAt(b, i))
  <2>2. ASSUME NEW i \in 0 .. k + 1 PROVE h[i] = F(h, i)
    <3>1. CASE i = k + 1
      <4>1. i # 0 /\ i - 1 = k /\ k \in 0 .. k + 1 /\ k # k + 1
        BY <3>1, SMT
      <4>2. h[k] = g[k] /\ h[i] = Under(g[k], BitAt(b, k + 1))
        BY <3>1, <4>1
      <4> HIDE DEF h
      <4> QED
        BY <3>1, <4>1, <4>2
    <3>2. CASE i # k + 1
      <4>1. i \in 0 .. k
        BY <3>2, SMT
      <4>2. h[i] = g[i] /\ g[i] = F(g, i)
        BY <2>1, <3>2, <4>1 DEF Walks
      <4>3. CASE i = 0
        BY <4>2, <4>3
      <4>4. CASE i # 0
        <5>1. i - 1 \in 0 .. k + 1 /\ i - 1 # k + 1
          BY <4>1, <4>4, SMT
        <5>2. h[i - 1] = g[i - 1]
          BY <5>1
        <5> HIDE DEF h
        <5> QED
          BY <4>2, <4>4, <5>2
      <4> QED
        BY <4>3, <4>4
    <3> QED
      BY <3>1, <3>2
  <2>3. Walks(h, b, k + 1)
    <3>1. h = [i \in 0 .. k + 1 |-> h[i]]
      OBVIOUS
    <3> HIDE DEF h
    <3> QED
      BY <2>2, <3>1 DEF Walks
  <2> QED
    BY <2>3
<1> HIDE DEF H
<1>3. n \in H
  BY <1>1, <1>2, Induction
<1> QED
  BY <1>3 DEF H

LEMMA WalksAgree ==
    ASSUME NEW b, NEW n \in Nat, NEW m \in Nat, NEW g, NEW h, Walks(g, b, n), Walks(h, b, m)
    PROVE  \A i \in Nat : i <= n /\ i <= m => g[i] = h[i]
<1> DEFINE H == {k \in Nat : k <= n /\ k <= m => g[k] = h[k]}
<1>1. 0 \in H
  <2>1. 0 \in 0 .. n /\ 0 \in 0 .. m
    BY SMT
  <2>2. g[0] = StartNode /\ h[0] = StartNode
    BY <2>1 DEF Walks
  <2> QED
    BY <2>2
<1>2. ASSUME NEW k \in Nat, k \in H PROVE k + 1 \in H
  <2> SUFFICES ASSUME k + 1 <= n, k + 1 <= m PROVE g[k + 1] = h[k + 1]
    OBVIOUS
  <2>1. k + 1 \in 0 .. n /\ k + 1 \in 0 .. m /\ (k + 1) - 1 = k /\ k + 1 # 0 /\ k <= n /\ k <= m
    BY SMT
  <2>2. g[k] = h[k]
    BY <1>2, <2>1
  <2>3. g[k + 1] = Under(g[k], BitAt(b, k + 1)) /\ h[k + 1] = Under(h[k], BitAt(b, k + 1))
    BY <2>1 DEF Walks
  <2> QED
    BY <2>2, <2>3
<1> HIDE DEF H
<1>3. \A k \in Nat : k \in H
  BY <1>1, <1>2, Induction
<1> QED
  BY <1>3 DEF H

LEMMA DescendIs ==
    ASSUME NEW b, NEW n \in Nat
    PROVE  \E g : Walks(g, b, n) /\ Descend(b, n) = g[n]
<1>1. \E g : Walks(g, b, n)
  BY WalksExists
<1>2. Descend(b, n) = (CHOOSE g : Walks(g, b, n))[n]
  BY DEF Descend, Walks, Under, BitAt
<1> QED
  BY <1>1, <1>2

\* One bit more.
LEMMA DescendStep ==
    ASSUME NEW b, NEW n \in Nat
    PROVE  /\ Descend(b, 0) = StartNode
           /\ Descend(b, n + 1) = Under(Descend(b, n), BitAt(b, n + 1))
<1>1. Descend(b, 0) = StartNode
  <2>1. PICK g : Walks(g, b, 0) /\ Descend(b, 0) = g[0]
    BY DescendIs
  <2>2. 0 \in 0 .. 0
    BY SMT
  <2>3. g[0] = StartNode
    BY <2>1, <2>2 DEF Walks
  <2> QED
    BY <2>1, <2>3
<1>2. Descend(b, n + 1) = Under(Descend(b, n), BitAt(b, n + 1))
  <2>1. PICK g : Walks(g, b, n) /\ Descend(b, n) = g[n]
    BY DescendIs
  <2>2. n + 1 \in Nat
    BY SMT
  <2>3. PICK h : Walks(h, b, n + 1) /\ Descend(b, n + 1) = h[n + 1]
    BY <2>2, DescendIs
  <2>4. n + 1 \in 0 .. n + 1 /\ n + 1 # 0 /\ (n + 1) - 1 = n /\ n <= n /\ n <= n + 1
    BY SMT
  <2>5. g[n] = h[n]
    BY <2>1, <2>2, <2>3, <2>4, WalksAgree
  <2>6. h[n + 1] = Under(h[n], BitAt(b, n + 1))
    BY <2>3, <2>4 DEF Walks
  <2> QED
    BY <2>1, <2>3, <2>5, <2>6
<1> QED
  BY <1>1, <1>2

\* The bits of a node are those that led to it.
LEMMA WalkAgrees ==
    ASSUME NEW b \in Seq(Bit)
    PROVE  \A n \in Nat :
              LET d == Descend(b, n)
              IN  /\ d \in Nodes
                  /\ Len(Codes[d]) <= n /\ (~ IsSymbol(d) => Len(Codes[d]) = n)
                  /\ \A i \in 1 .. Len(Codes[d]) : Codes[d][i] = BitAt(b, i)
<1> DEFINE P(n) ==
              LET d == Descend(b, n)
              IN  /\ d \in Nodes
                  /\ Len(Codes[d]) <= n /\ (~ IsSymbol(d) => Len(Codes[d]) = n)
                  /\ \A i \in 1 .. Len(Codes[d]) : Codes[d][i] = BitAt(b, i)
           H == {n \in Nat : P(n)}
<1>0. \A i \in Nat \ {0} : BitAt(b, i) \in Bit
  <2>1. Len(b) \in Nat /\ \A i \in 1 .. Len(b) : b[i] \in Bit
    BY LenProperties, ElementOfSeq
  <2> QED
    BY <2>1, SMT DEF BitAt, Bit
<1>1. 0 \in H
  <2>1. Descend(b, 0) = StartNode
    BY DescendStep
  <2>2. StartNode \in Nodes /\ ~ IsSymbol(StartNode)
    BY NodeNumbers, SMT
  <2>3. Codes[StartNode] = <<>> /\ Len(<<>>) = 0
    BY TreeAssumption, EmptySeq
  <2>4. \A i \in 1 .. 0 : FALSE
    BY SMT
  <2>5. 0 <= 0
    BY SMT
  <2> QED
    BY <2>1, <2>2, <2>3, <2>4, <2>5
<1>2. ASSUME NEW n \in Nat, n \in H PROVE n + 1 \in H
  <2> DEFINE d == Descend(b, n)
             e == Descend(b, n + 1)
             x == BitAt(b, n + 1)
  <2>1. e = Under(d, x)
    BY DescendStep
  <2>2. /\ d \in Nodes /\ Len(Codes[d]) <= n /\ (~ IsSymbol(d) => Len(Codes[d]) = n)
        /\ \A i \in 1 .. Len(Codes[d]) : Codes[d][i] = BitAt(b, i)
    BY <1>2
  <2>3. x \in Bit
    BY <1>0, SMT
  <2>p. SUFFICES /\ e \in Nodes
                 /\ Len(Codes[e]) <= n + 1 /\ (~ IsSymbol(e) => Len(Codes[e]) = n + 1)
                 /\ \A i \in 1 .. Len(Codes[e]) : Codes[e][i] = BitAt(b, i)
    OBVIOUS
  <2> HIDE DEF d, e, H
  <2>4. CASE IsSymbol(d)
    <3>1. e = d
      BY <2>1, <2>4 DEF Under
    <3>2. Len(Codes[d]) \in 0 .. 24
      BY <2>2, CodeTyped
    <3>3. Len(Codes[d]) <= n + 1
      BY <2>2, <3>2, SMT
    <3> QED
      BY <2>2, <2>4, <3>1, <3>3
  <2>5. CASE ~ IsSymbol(d)
    <3> DEFINE c == Codes[d]
    <3>1. e \in Nodes /\ Codes[e] = Append(c, x)
      <4>1. e = Child(d, x)
        BY <2>1, <2>5 DEF Under
      <4> HIDE DEF x
      <4> QED
        BY <2>2, <2>3, <2>5, <4>1, ChildTyped
    <3>2. c \in Seq(Bit) /\ Len(c) = n
      BY <2>2, <2>5, CodeTyped
    <3>3. \A i \in 1 .. n : c[i] = BitAt(b, i)
      BY <2>2, <3>2
    <3> HIDE DEF c, x
    <3>4. /\ Len(Append(c, x)) = n + 1 /\ Append(c, x)[n + 1] = x
          /\ \A i \in 1 .. n : Append(c, x)[i] = c[i]
      BY <2>3, <3>2, AppendProperties
    <3>5. x = BitAt(b, n + 1)
      BY DEF x
    <3>6. \A i \in 1 .. n + 1 : i = n + 1 \/ i \in 1 .. n
      BY SMT
    <3>7. \A i \in 1 .. n + 1 : Append(c, x)[i] = BitAt(b, i)
      BY <3>3, <3>4, <3>5, <3>6
    <3>8. n + 1 <= n + 1
      BY SMT
    <3> QED
      BY <3>1, <3>4, <3>7, <3>8
  <2> QED
    BY <2>4, <2>5
<1> HIDE DEF H, P
<1>3. \A n \in Nat : n \in H
  BY <1>1, <1>2, Induction
<1>4. \A n \in Nat : P(n)
  BY <1>3 DEF H
<1> QED
  BY <1>4 DEF P

\* A symbol that is met stays, and one that is not yet met has more bits.
LEMMA WalkOn ==
    ASSUME NEW b \in Seq(Bit), NEW m \in Nat
    PROVE  \A k \in Nat :
              /\ IsSymbol(Descend(b, m)) => Descend(b, m + k) = Descend(b, m)
              /\ ~ IsSymbol(Descend(b, m)) => Len(Codes[Descend(b, m + k)]) >= m + (IF k = 0 THEN 0 ELSE 1)
<1> DEFINE P(k) ==
              /\ IsSymbol(Descend(b, m)) => Descend(b, m + k) = Descend(b, m)
              /\ ~ IsSymbol(Descend(b, m)) => Len(Codes[Descend(b, m + k)]) >= m + (IF k = 0 THEN 0 ELSE 1)
           H == {k \in Nat : P(k)}
<1>1. 0 \in H
  <2>1. m + 0 = m
    BY SMT
  <2>2. ~ IsSymbol(Descend(b, m)) => Len(Codes[Descend(b, m)]) = m
    BY WalkAgrees
  <2>3. m >= m + (IF 0 = 0 THEN 0 ELSE 1)
    BY SMT
  <2> QED
    BY <2>1, <2>2, <2>3
<1>2. ASSUME NEW k \in Nat, k \in H PROVE k + 1 \in H
  <2> DEFINE n == m + k
             d == Descend(b, n)
             e == Descend(b, n + 1)
  <2>1. n \in Nat /\ n + 1 \in Nat /\ m + (k + 1) = n + 1
    BY SMT
  <2> HIDE DEF n
  <2>2. e = Under(d, BitAt(b, n + 1))
    BY <2>1, DescendStep
  <2>3. /\ Len(Codes[d]) <= n /\ (~ IsSymbol(d) => Len(Codes[d]) = n) /\ d \in Nodes
        /\ Len(Codes[e]) <= n + 1 /\ (~ IsSymbol(e) => Len(Codes[e]) = n + 1) /\ e \in Nodes
    BY <2>1, WalkAgrees
  <2>4. P(k)
    BY <1>2
  <2>5. IsSymbol(Descend(b, m)) => e = Descend(b, m)
    <3>1. IsSymbol(Descend(b, m)) => d = Descend(b, m)
      BY <2>4 DEF n
    <3> HIDE DEF d, e
    <3> QED
      BY <2>2, <3>1 DEF Under
  <2>6. ~ IsSymbol(Descend(b, m)) => Len(Codes[e]) >= m + 1
    <3> SUFFICES ASSUME ~ IsSymbol(Descend(b, m)) PROVE Len(Codes[e]) >= m + 1
      OBVIOUS
    <3>1. CASE IsSymbol(d)
      <4>1. e = d
        BY <2>2, <3>1 DEF Under
      <4>2. k # 0
        BY <3>1, SMT DEF n
      <4> QED
        BY <2>4, <4>1, <4>2 DEF n
    <3>2. CASE ~ IsSymbol(d)
      <4>1. e \in Nodes /\ Codes[e] = Append(Codes[d], BitAt(b, n + 1))
        <5>1. BitAt(b, n + 1) \in Bit
          <6>1. Len(b) \in Nat /\ \A i \in 1 .. Len(b) : b[i] \in Bit
            BY LenProperties, ElementOfSeq
          <6> QED
            BY <2>1, <6>1, SMT DEF BitAt, Bit
        <5> QED
          BY <2>2, <2>3, <3>2, <5>1, ChildTyped DEF Under
      <4> DEFINE c == Codes[d]
      <4>2. c \in Seq(Bit) /\ Len(c) = n
        BY <2>3, <3>2, CodeTyped
      <4>3. BitAt(b, n + 1) \in Bit
        <5>1. Len(b) \in Nat /\ \A i \in 1 .. Len(b) : b[i] \in Bit
          BY LenProperties, ElementOfSeq
        <5> QED
          BY <2>1, <5>1, SMT DEF BitAt, Bit
      <4> DEFINE x == BitAt(b, n + 1)
      <4> HIDE DEF c, d, e, x
      <4>4. Len(Append(c, x)) = n + 1
        <5>1. x \in Bit
          BY <4>3 DEF x
        <5> QED
          BY <4>2, <5>1, AppendProperties
      <4>5. n + 1 >= m + 1
        BY SMT DEF n
      <4> QED
        BY <4>1, <4>4, <4>5 DEF c, x
    <3> QED
      BY <3>1, <3>2
  <2>7. m + (IF k + 1 = 0 THEN 0 ELSE 1) = m + 1
    BY SMT
  <2>8. P(k + 1)
    BY <2>1, <2>5, <2>6, <2>7
  <2> QED
    BY <2>8
<1> HIDE DEF H, P
<1>3. \A k \in Nat : k \in H
  BY <1>1, <1>2, Induction
<1>4. \A k \in Nat : P(k)
  BY <1>3 DEF H
<1> QED
  BY <1>4 DEF P

\* The walk through the bits that fit into the word meets the one symbol whose
\* code they begin with, with zeros behind them; the table finds it if its code
\* is not longer than that.
LEMMA WalkMeets ==
    ASSUME NEW b \in Seq(Bit)
    PROVE  LET s == Descend(b, WordBits)
           IN  /\ s \in Symbols
               /\ \A i \in 1 .. Len(Codes[s]) : Codes[s][i] = BitAt(b, i)
               /\ \A t \in Symbols : (\A i \in 1 .. Len(Codes[t]) : Codes[t][i] = BitAt(b, i)) => t = s
               /\ IsSymbol(DecodeLut(b)) <=> Len(Codes[s]) <= 10
<1> DEFINE s == Descend(b, 32)
<1>1. /\ s \in Nodes /\ Len(Codes[s]) <= 32 /\ (~ IsSymbol(s) => Len(Codes[s]) = 32)
      /\ \A i \in 1 .. Len(Codes[s]) : Codes[s][i] = BitAt(b, i)
  BY WalkAgrees
<1>2. Len(Codes[s]) \in 0 .. 24
  BY <1>1, CodeTyped
<1> HIDE DEF s
<1>3. s \in Symbols
  <2>1. IsSymbol(s)
    <3>1. \A x \in 0 .. 24 : x # 32
      BY SMT
    <3> QED
      BY <1>1, <1>2, <3>1
  <2>2. s \in 0 .. 512 /\ s <= 256 /\ Symbols = 0 .. 256
    BY <1>1, <2>1, NodeNumbers
  <2> QED
    BY <2>2, SMT
<1>4. ASSUME NEW t \in Symbols, \A i \in 1 .. Len(Codes[t]) : Codes[t][i] = BitAt(b, i) PROVE t = s
  <2>1. Len(Codes[t]) \in 1 .. 24
    BY SymbolTyped
  <2>2. \A i \in 1 .. Len(Codes[t]) : i <= Len(Codes[s]) => i \in 1 .. Len(Codes[s])
    BY <1>2, <2>1, SMT
  <2>3. \A i \in 1 .. Len(Codes[t]) : i <= Len(Codes[s]) => Codes[t][i] = Codes[s][i]
    BY <1>1, <1>4, <2>2
  <2> QED
    BY <1>3, <2>3, PrefixFree
<1>5. IsSymbol(DecodeLut(b)) <=> Len(Codes[s]) <= 10
  <2>1. DecodeLut(b) = Descend(b, 10)
    BY NodeNumbers DEF DecodeLut
  <2>2. /\ Len(Codes[Descend(b, 10)]) <= 10
        /\ IsSymbol(Descend(b, 10)) => Descend(b, 10 + 22) = Descend(b, 10)
        /\ ~ IsSymbol(Descend(b, 10)) => Len(Codes[Descend(b, 10 + 22)]) >= 10 + (IF 22 = 0 THEN 0 ELSE 1)
    <3>1. 10 \in Nat /\ 22 \in Nat
      BY SMT
    <3> QED
      BY <3>1, WalkAgrees, WalkOn
  <2>3. 10 + 22 = 32 /\ 10 + (IF 22 = 0 THEN 0 ELSE 1) = 11
    BY SMT
  <2>4. CASE IsSymbol(Descend(b, 10))
    BY <2>1, <2>2, <2>3, <2>4 DEF s
  <2>5. CASE ~ IsSymbol(Descend(b, 10))
    <3>1. Len(Codes[s]) >= 11
      BY <2>2, <2>3, <2>5 DEF s
    <3>2. ~ (Len(Codes[s]) <= 10)
      BY <1>2, <3>1, SMT
    <3> QED
      BY <2>1, <2>5, <3>2
  <2> QED
    BY <2>4, <2>5
<1>6. s = Descend(b, WordBits)
  BY NodeNumbers DEF s
<1> QED
  BY <1>1, <1>3, <1>4, <1>5, <1>6

-----------------------------------------------------------------------------
(* Sequences one after the other *)

\* What the first k of them are is the beginning of what all of them are.
LEMMA FirstPrefix ==
    ASSUME NEW S, NEW N \in Nat, NEW s \in [1 .. N -> Seq(S)]
    PROVE  \A k \in 0 .. N : \A m \in k .. N :
              /\ FirstOf(s, k) \in Seq(S) /\ Len(FirstOf(s, k)) \in Nat
              /\ FirstOf(s, m) \in Seq(S) /\ Len(FirstOf(s, m)) \in Nat
              /\ Len(FirstOf(s, k)) <= Len(FirstOf(s, m))
              /\ \A i \in 1 .. Len(FirstOf(s, k)) : FirstOf(s, k)[i] = FirstOf(s, m)[i]
<1>0. \A i \in 1 .. N : s[i] \in Seq(S)
  OBVIOUS
<1>1. ASSUME NEW n \in Nat, n + 1 \in 0 .. N
      PROVE  FirstOf(s, n + 1) = FirstOf(s, n) \o s[n + 1] /\ s[n + 1] \in Seq(S)
  <2>1. \A i \in 1 .. n + 1 : i \in 1 .. N
    BY <1>1, SMT
  <2>2. n + 1 \in 1 .. n + 1
    BY SMT
  <2> QED
    BY <1>0, <2>1, <2>2, FirstGrows
<1> DEFINE H == {k \in Nat : k \in 0 .. N => FirstOf(s, k) \in Seq(S)}
<1>2. 0 \in H
  <2>1. [i \in 1 .. 0 |-> s[i]] = <<>> /\ <<>> \in Seq(S)
    BY SMT
  <2> QED
    BY <2>1, FlattenEmpty DEF FirstOf
<1>3. ASSUME NEW n \in Nat, n \in H PROVE n + 1 \in H
  <2> SUFFICES ASSUME n + 1 \in 0 .. N PROVE FirstOf(s, n + 1) \in Seq(S)
    OBVIOUS
  <2>1. n \in 0 .. N
    BY SMT
  <2> QED
    BY <1>1, <1>3, <2>1, ConcatProperties
<1> HIDE DEF H
<1>4. \A k \in Nat : k \in H
  BY <1>2, <1>3, Induction
<1>5. \A k \in 0 .. N : FirstOf(s, k) \in Seq(S) /\ Len(FirstOf(s, k)) \in Nat
  <2>1. \A k \in 0 .. N : FirstOf(s, k) \in Seq(S)
    BY <1>4, SMT DEF H
  <2> QED
    BY <2>1, LenProperties
<1> SUFFICES ASSUME NEW k \in 0 .. N
             PROVE  \A m \in k .. N :
                       /\ Len(FirstOf(s, k)) <= Len(FirstOf(s, m))
                       /\ \A i \in 1 .. Len(FirstOf(s, k)) : FirstOf(s, k)[i] = FirstOf(s, m)[i]
  <2>1. \A k \in 0 .. N : \A m \in k .. N : m \in 0 .. N
    BY SMT
  <2> QED
    BY <1>5, <2>1
<1> DEFINE f == FirstOf(s, k)
           P(m) == Len(f) <= Len(FirstOf(s, m)) /\ \A i \in 1 .. Len(f) : f[i] = FirstOf(s, m)[i]
           G == {j \in Nat : k + j <= N => P(k + j)}
<1>6. 0 \in G
  <2>1. k + 0 = k
    BY SMT
  <2>2. Len(f) <= Len(f)
    BY <1>5, SMT
  <2> QED
    BY <2>1, <2>2
<1>7. ASSUME NEW j \in Nat, j \in G PROVE j + 1 \in G
  <2> SUFFICES ASSUME k + (j + 1) <= N PROVE P(k + (j + 1))
    OBVIOUS
  <2> DEFINE n == k + j
             x == FirstOf(s, n)
             y == s[n + 1]
  <2>1. n \in Nat /\ k + (j + 1) = n + 1 /\ n + 1 \in 0 .. N /\ n \in 0 .. N /\ k + j <= N
    BY SMT
  <2>2. P(n)
    BY <1>7, <2>1
  <2> HIDE DEF n
  <2>3. FirstOf(s, n + 1) = x \o y /\ x \in Seq(S) /\ y \in Seq(S)
    BY <1>1, <1>5, <2>1
  <2>4. f \in Seq(S) /\ Len(f) \in Nat
    BY <1>5
  <2>5. Len(f) <= Len(x) /\ \A i \in 1 .. Len(f) : f[i] = x[i]
    BY <2>2
  <2> HIDE DEF f, x, y
  <2>6. /\ Len(x \o y) = Len(x) + Len(y)
        /\ \A i \in 1 .. Len(x) + Len(y) : (x \o y)[i] = IF i <= Len(x) THEN x[i] ELSE y[i - Len(x)]
    BY <2>3, ConcatProperties
  <2>7. Len(x) \in Nat /\ Len(y) \in Nat
    BY <2>3, LenProperties
  <2>8. Len(f) <= Len(x \o y) /\ \A i \in 1 .. Len(f) : f[i] = (x \o y)[i]
    <3>1. \A i \in 1 .. Len(f) : i \in 1 .. Len(x) + Len(y) /\ i <= Len(x)
      BY <2>4, <2>5, <2>7, SMT
    <3>2. Len(f) <= Len(x) + Len(y)
      BY <2>4, <2>5, <2>7, SMT
    <3> QED
      BY <2>5, <2>6, <3>1, <3>2
  <2> QED
    BY <2>1, <2>3, <2>8 DEF f
<1> HIDE DEF G, P
<1>8. \A j \in Nat : j \in G
  BY <1>6, <1>7, Induction
<1>9. \A m \in k .. N : P(m)
  <2> TAKE m \in k .. N
  <2>1. m - k \in Nat /\ k + (m - k) = m /\ m <= N
    BY SMT
  <2>2. m - k \in G
    BY <1>8, <2>1
  <2> DEFINE j == m - k
  <2>3. j \in G /\ k + j = m
    BY <2>1, <2>2
  <2> HIDE DEF j
  <2> QED
    BY <2>1, <2>3 DEF G
<1> QED
  BY <1>9 DEF P, f

\* The k-th of N lies behind those before it.
PartLies(s, N, k) ==
    /\ Len(FirstOf(s, k)) = Len(FirstOf(s, k - 1)) + Len(s[k])
    /\ Len(FirstOf(s, k)) <= Len(FirstOf(s, N))
    /\ \A j \in 1 .. Len(s[k]) : FirstOf(s, N)[Len(FirstOf(s, k - 1)) + j] = s[k][j]

LEMMA PartAt ==
    ASSUME NEW S, NEW N \in Nat, NEW s \in [1 .. N -> Seq(S)], NEW k \in 1 .. N
    PROVE  PartLies(s, N, k)
<1> DEFINE n == k - 1
           x == FirstOf(s, n)
           y == s[k]
           z == FirstOf(s, N)
<1>1. n \in Nat /\ k = n + 1 /\ n \in 0 .. N /\ k \in 0 .. N /\ N \in k .. N /\ n \in n .. N
      /\ \A i \in 1 .. n + 1 : i \in 1 .. N
  BY SMT
<1> HIDE DEF n
<1>2. FirstOf(s, k) = x \o y /\ y \in Seq(S)
  BY <1>1, FirstGrows
<1>3. x \in Seq(S) /\ Len(x) \in Nat /\ Len(y) \in Nat
  BY <1>1, <1>2, FirstPrefix, LenProperties
<1>4. /\ Len(FirstOf(s, k)) <= Len(z) /\ Len(z) \in Nat
      /\ \A i \in 1 .. Len(FirstOf(s, k)) : FirstOf(s, k)[i] = z[i]
  <2>1. \A m \in k .. N :
          /\ FirstOf(s, k) \in Seq(S) /\ Len(FirstOf(s, m)) \in Nat /\ Len(FirstOf(s, k)) <= Len(FirstOf(s, m))
          /\ \A i \in 1 .. Len(FirstOf(s, k)) : FirstOf(s, k)[i] = FirstOf(s, m)[i]
    BY <1>1, FirstPrefix
  <2> QED
    BY <1>1, <2>1
<1> HIDE DEF x, y, z
<1>5. /\ Len(x \o y) = Len(x) + Len(y)
      /\ \A i \in 1 .. Len(x) + Len(y) : (x \o y)[i] = IF i <= Len(x) THEN x[i] ELSE y[i - Len(x)]
  BY <1>2, <1>3, ConcatProperties
<1>6. \A j \in 1 .. Len(y) : z[Len(x) + j] = y[j]
  <2> TAKE j \in 1 .. Len(y)
  <2>1. Len(x) + j \in 1 .. Len(x) + Len(y) /\ ~ (Len(x) + j <= Len(x)) /\ (Len(x) + j) - Len(x) = j
    BY <1>3, SMT
  <2>2. (x \o y)[Len(x) + j] = y[j]
    BY <1>5, <2>1
  <2>3. FirstOf(s, k)[Len(x) + j] = z[Len(x) + j]
    BY <1>2, <1>4, <1>5, <2>1
  <2> QED
    BY <1>2, <2>2, <2>3
<1> QED
  BY <1>2, <1>4, <1>5, <1>6 DEF x, y, z, n, PartLies

-----------------------------------------------------------------------------
(* The bits of bytes *)

LEMMA FunctionIsSeq ==
    ASSUME NEW S, NEW n \in Nat, NEW f \in [1 .. n -> S]
    PROVE  f \in Seq(S) /\ Len(f) = n
  BY SMT

LEMMA BitsOfByte ==
    ASSUME NEW x \in Bytes
    PROVE  /\ BitsOf(x) \in Seq(Bit) /\ Len(BitsOf(x)) = 8
           /\ BitsOf(x)[1] = x % 2 /\ BitsOf(x)[2] = (x \div 2) % 2
           /\ BitsOf(x)[3] = (x \div 4) % 2 /\ BitsOf(x)[4] = (x \div 8) % 2
           /\ BitsOf(x)[5] = (x \div 16) % 2 /\ BitsOf(x)[6] = (x \div 32) % 2
           /\ BitsOf(x)[7] = (x \div 64) % 2 /\ BitsOf(x)[8] = (x \div 128) % 2
<1> DEFINE b == BitsOf(x)
<1>1. b = [i \in 1 .. 8 |-> (x \div 2^(i - 1)) % 2]
  BY DEF BitsOf
<1>2. 2^0 = 1 /\ 2^1 = 2 /\ 2^2 = 4 /\ 2^3 = 8 /\ 2^4 = 16 /\ 2^5 = 32 /\ 2^6 = 64 /\ 2^7 = 128
  BY SMT
<1>3. x \in Nat
  BY SMT DEF Bytes
<1>4. /\ b[1] = (x \div 2^0) % 2 /\ b[2] = (x \div 2^1) % 2 /\ b[3] = (x \div 2^2) % 2 /\ b[4] = (x \div 2^3) % 2
      /\ b[5] = (x \div 2^4) % 2 /\ b[6] = (x \div 2^5) % 2 /\ b[7] = (x \div 2^6) % 2 /\ b[8] = (x \div 2^7) % 2
  <2>1. /\ 1 - 1 = 0 /\ 2 - 1 = 1 /\ 3 - 1 = 2 /\ 4 - 1 = 3 /\ 5 - 1 = 4 /\ 6 - 1 = 5 /\ 7 - 1 = 6 /\ 8 - 1 = 7
        /\ 1 \in 1 .. 8 /\ 2 \in 1 .. 8 /\ 3 \in 1 .. 8 /\ 4 \in 1 .. 8
        /\ 5 \in 1 .. 8 /\ 6 \in 1 .. 8 /\ 7 \in 1 .. 8 /\ 8 \in 1 .. 8
    BY SMT
  <2> QED
    BY <1>1, <2>1
<1>5. x \div 1 = x
  BY <1>3, SMT
<1>6. /\ b[1] = x % 2 /\ b[2] = (x \div 2) % 2 /\ b[3] = (x \div 4) % 2 /\ b[4] = (x \div 8) % 2
      /\ b[5] = (x \div 16) % 2 /\ b[6] = (x \div 32) % 2 /\ b[7] = (x \div 64) % 2 /\ b[8] = (x \div 128) % 2
  BY <1>2, <1>4, <1>5
<1>7. b \in Seq(Bit) /\ Len(b) = 8
  <2>1. \A i \in 1 .. 8 : b[i] \in Bit
    <3>1. \A y \in Nat : y % 2 \in {0, 1}
      BY SMT
    <3>2. /\ x \div 2 \in Nat /\ x \div 4 \in Nat /\ x \div 8 \in Nat /\ x \div 16 \in Nat
          /\ x \div 32 \in Nat /\ x \div 64 \in Nat /\ x \div 128 \in Nat
      BY <1>3, SMT
    <3>3. /\ b[1] \in Bit /\ b[2] \in Bit /\ b[3] \in Bit /\ b[4] \in Bit
          /\ b[5] \in Bit /\ b[6] \in Bit /\ b[7] \in Bit /\ b[8] \in Bit
      BY <1>3, <1>6, <3>1, <3>2 DEF Bit
    <3>4. \A i \in 1 .. 8 : i = 1 \/ i = 2 \/ i = 3 \/ i = 4 \/ i = 5 \/ i = 6 \/ i = 7 \/ i = 8
      BY SMT
    <3> QED
      BY <3>3, <3>4
  <2>2. b \in [1 .. 8 -> Bit]
    BY <1>1, <2>1
  <2>3. 8 \in Nat
    BY SMT
  <2> HIDE DEF b
  <2> QED
    BY <2>2, <2>3, FunctionIsSeq
<1> QED
  BY <1>6, <1>7

Weighed(c1, c2, c3, c4, c5, c6, c7, c8) == c1 + 2 * c2 + 4 * c3 + 8 * c4 + 16 * c5 + 32 * c6 + 64 * c7 + 128 * c8

HasBits(x, c1, c2, c3, c4, c5, c6, c7, c8) ==
    /\ x \in 0 .. 255
    /\ x % 2 = c1 /\ (x \div 2) % 2 = c2 /\ (x \div 4) % 2 = c3 /\ (x \div 8) % 2 = c4
    /\ (x \div 16) % 2 = c5 /\ (x \div 32) % 2 = c6 /\ (x \div 64) % 2 = c7 /\ (x \div 128) % 2 = c8

LEMMA WeighedBits ==
    ASSUME NEW c1 \in Bit, NEW c2 \in Bit, NEW c3 \in Bit, NEW c4 \in Bit,
           NEW c5 \in Bit, NEW c6 \in Bit, NEW c7 \in Bit, NEW c8 \in Bit
    PROVE  HasBits(Weighed(c1, c2, c3, c4, c5, c6, c7, c8), c1, c2, c3, c4, c5, c6, c7, c8)
<1> USE DEF Weighed, Bit
<1> DEFINE x == Weighed(c1, c2, c3, c4, c5, c6, c7, c8)
<1>1. x \in 0 .. 255
  BY SMT
<1>2. x % 2 = c1 /\ (x \div 2) % 2 = c2
  BY SMT
<1>3. (x \div 4) % 2 = c3 /\ (x \div 8) % 2 = c4
  BY SMT
<1>4. (x \div 16) % 2 = c5 /\ (x \div 32) % 2 = c6
  BY SMT
<1>5. (x \div 64) % 2 = c7 /\ (x \div 128) % 2 = c8
  BY SMT
<1> QED
  BY <1>1, <1>2, <1>3, <1>4, <1>5 DEF HasBits

\* Eight bits make a byte, which has these bits.
LEMMA ByteOfBits ==
    ASSUME NEW b \in Seq(Bit), Len(b) = 8
    PROVE  AsByte(b) \in Bytes /\ \A j \in 1 .. 8 : BitsOf(AsByte(b))[j] = b[j]
<1>1. \A i \in 1 .. 8 : b[i] \in Bit
  BY ElementOfSeq
<1>2. /\ b[1] \in Bit /\ b[2] \in Bit /\ b[3] \in Bit /\ b[4] \in Bit
      /\ b[5] \in Bit /\ b[6] \in Bit /\ b[7] \in Bit /\ b[8] \in Bit
  BY <1>1, SMT
<1> DEFINE x == AsByte(b)
<1>4. x = Weighed(b[1], b[2], b[3], b[4], b[5], b[6], b[7], b[8])
  BY DEF AsByte, Weighed
<1> HIDE DEF x
<1>5. /\ x \in Bytes
      /\ x % 2 = b[1] /\ (x \div 2) % 2 = b[2] /\ (x \div 4) % 2 = b[3] /\ (x \div 8) % 2 = b[4]
      /\ (x \div 16) % 2 = b[5] /\ (x \div 32) % 2 = b[6] /\ (x \div 64) % 2 = b[7] /\ (x \div 128) % 2 = b[8]
  <2>1. HasBits(Weighed(b[1], b[2], b[3], b[4], b[5], b[6], b[7], b[8]),
                b[1], b[2], b[3], b[4], b[5], b[6], b[7], b[8])
    BY <1>2, WeighedBits
  <2> QED
    BY <1>4, <2>1 DEF HasBits, Bytes
<1>6. \A i \in 1 .. 8 : i = 1 \/ i = 2 \/ i = 3 \/ i = 4 \/ i = 5 \/ i = 6 \/ i = 7 \/ i = 8
  BY SMT
<1>7. \A j \in 1 .. 8 : BitsOf(x)[j] = b[j]
  BY <1>5, <1>6, BitsOfByte
<1> QED
  BY <1>5, <1>7 DEF x

\* The bits of the first n bytes of s, one byte behind the other.
BitsUpTo(s, n) == FlattenSeq([i \in 1 .. n |-> BitsOf(s[i])])

LEMMA EightEach ==
    ASSUME NEW s, NEW n \in Nat, \A i \in 1 .. n : s[i] \in Bytes
    PROVE  /\ BitsUpTo(s, n) \in Seq(Bit) /\ Len(BitsUpTo(s, n)) = 8 * n
           /\ \A m \in 1 .. n, j \in 1 .. 8 : BitsUpTo(s, n)[8 * (m - 1) + j] = BitsOf(s[m])[j]
<1> DEFINE f == [i \in 1 .. n |-> BitsOf(s[i])]
<1>1. \A i \in 1 .. n : f[i] = BitsOf(s[i]) /\ f[i] \in Seq(Bit) /\ Len(f[i]) = 8
  BY BitsOfByte
<1>2. BitsUpTo(s, n) = FirstOf(f, n)
  <2>1. f = [i \in 1 .. n |-> f[i]]
    OBVIOUS
  <2>2. BitsUpTo(s, n) = FlattenSeq(f)
    BY DEF BitsUpTo
  <2> HIDE DEF f
  <2> QED
    BY <2>1, <2>2 DEF FirstOf
<1>9. f \in [1 .. n -> Seq(Bit)]
  BY <1>1
<1> HIDE DEF f
<1> DEFINE H == {k \in Nat : k <= n => Len(FirstOf(f, k)) = 8 * k}
<1>3. 0 \in H
  <2>1. [i \in 1 .. 0 |-> f[i]] = <<>> /\ Len(<<>>) = 0
    BY SMT
  <2> QED
    BY <2>1, FlattenEmpty, SMT DEF FirstOf
<1>4. ASSUME NEW k \in Nat, k \in H PROVE k + 1 \in H
  <2> SUFFICES ASSUME k + 1 <= n PROVE Len(FirstOf(f, k + 1)) = 8 * (k + 1)
    OBVIOUS
  <2> DEFINE m == k + 1
  <2>1. m \in 1 .. n /\ m - 1 = k /\ k <= n
    BY SMT
  <2> HIDE DEF m
  <2>2. Len(FirstOf(f, m)) = Len(FirstOf(f, m - 1)) + Len(f[m])
    <3>1. PartLies(f, n, m)
      BY <1>9, <2>1, PartAt
    <3> QED
      BY <3>1 DEF PartLies
  <2>3. Len(FirstOf(f, m)) = 8 * k + 8
    BY <1>1, <1>4, <2>1, <2>2
  <2> QED
    BY <2>3, SMT DEF m
<1> HIDE DEF H
<1>5. \A k \in Nat : k \in H
  BY <1>3, <1>4, Induction
<1>6. \A k \in 0 .. n : Len(FirstOf(f, k)) = 8 * k
  BY <1>5, SMT DEF H
<1>7. FirstOf(f, n) \in Seq(Bit) /\ Len(FirstOf(f, n)) = 8 * n
  <2>1. n \in 0 .. n /\ n \in n .. n
    BY SMT
  <2> QED
    BY <1>9, <1>6, <2>1, FirstPrefix
<1>8. ASSUME NEW m \in 1 .. n, NEW j \in 1 .. 8 PROVE FirstOf(f, n)[8 * (m - 1) + j] = BitsOf(s[m])[j]
  <2>1. m - 1 \in 0 .. n
    BY SMT
  <2>2. FirstOf(f, n)[Len(FirstOf(f, m - 1)) + j] = f[m][j]
    <3>1. PartLies(f, n, m)
      BY <1>9, PartAt
    <3> QED
      BY <1>1, <3>1 DEF PartLies
  <2>3. Len(FirstOf(f, m - 1)) = 8 * (m - 1)
    BY <1>6, <2>1
  <2> QED
    BY <1>1, <2>2, <2>3
<1> QED
  BY <1>2, <1>7, <1>8

-----------------------------------------------------------------------------
(* The symbols with which a stream begins *)

ParseAt(g, b, p) ==
    LET ends == {q \in p + 1 .. Len(b) : SubSeq(b, p + 1, q) \in DOMAIN SymbolOf}
        q    == Min(ends)
        s    == SymbolOf[SubSeq(b, p + 1, q)]
    IN  IF ends = {} THEN <<>> ELSE IF s = EOF THEN <<EOF>> ELSE <<s>> \o g[q]

\* The symbols from each place on.
From(b) == CHOOSE g : g = [p \in 0 .. Len(b) |-> ParseAt(g, b, p)]

\* Only what is behind a place matters to the symbols from there.
LEMMA ParseLocal ==
    ASSUME NEW b, Len(b) \in Nat, NEW p \in Nat, NEW g, NEW h, \A q \in p + 1 .. Len(b) : g[q] = h[q]
    PROVE  ParseAt(g, b, p) = ParseAt(h, b, p)
<1> DEFINE ends == {q \in p + 1 .. Len(b) : SubSeq(b, p + 1, q) \in DOMAIN SymbolOf}
<1>1. CASE ends = {}
  BY <1>1 DEF ParseAt
<1>2. CASE ends # {}
  <2>1. ends \subseteq Nat /\ ends \subseteq p + 1 .. Len(b)
    BY SMT
  <2> HIDE DEF ends
  <2>2. Min(ends) \in ends
    <3>1. \E n \in ends : \A m \in ends : n <= m
      BY <1>2, <2>1, Least
    <3> QED
      BY <3>1 DEF Min
  <2>3. g[Min(ends)] = h[Min(ends)]
    BY <2>1, <2>2
  <2> QED
    BY <2>3 DEF ParseAt, ends
<1> QED
  BY <1>1, <1>2

LEMMA FromIs ==
    ASSUME NEW b \in Seq(Bit)
    PROVE  /\ Parsed(b) = From(b)[0]
           /\ \A p \in 0 .. Len(b) : From(b)[p] = ParseAt(From(b), b, p)
<1> DEFINE L == Len(b)
           P(g, k) == \A p \in L - k .. L : g[p] = ParseAt(g, b, p)
           H == {k \in Nat : k <= L => \E g : P(g, k)}
<1>0. L \in Nat
  BY LenProperties
<1> HIDE DEF L
<1>1. 0 \in H
  <2> DEFINE g == [p \in L .. L |-> ParseAt(b, b, p)]
  <2>1. ASSUME NEW p \in L - 0 .. L PROVE g[p] = ParseAt(g, b, p)
    <3>1. p = L /\ p \in L .. L /\ p \in Nat /\ \A q \in p + 1 .. L : FALSE
      BY <1>0, SMT
    <3>2. g[p] = ParseAt(b, b, p)
      BY <3>1
    <3> HIDE DEF g
    <3> QED
      BY <1>0, <3>1, <3>2, ParseLocal DEF L
  <2>2. P(g, 0)
    BY <2>1
  <2> HIDE DEF g
  <2> QED
    BY <2>2
<1>2. ASSUME NEW k \in Nat, k \in H PROVE k + 1 \in H
  <2> SUFFICES ASSUME k + 1 <= L PROVE \E g : P(g, k + 1)
    OBVIOUS
  <2>1. k <= L
    BY <1>0, SMT
  <2>2. PICK g : P(g, k)
    BY <1>2, <2>1
  <2> DEFINE n == L - (k + 1)
             h == [p \in n .. L |-> IF p = n THEN ParseAt(g, b, p) ELSE g[p]]
  <2>3. n \in Nat /\ L - k = n + 1
    BY <1>0, SMT
  <2> HIDE DEF n
  <2>4. ASSUME NEW p \in n .. L PROVE h[p] = ParseAt(h, b, p)
    <3>1. p \in Nat /\ \A q \in p + 1 .. L : q \in n .. L /\ q # n
      BY <1>0, <2>3, SMT
    <3>2. \A q \in p + 1 .. L : h[q] = g[q]
      BY <3>1
    <3>3. h[p] = ParseAt(g, b, p)
      <4>1. CASE p = n
        BY <4>1
      <4>2. CASE p # n
        <5>1. p \in L - k .. L
          BY <1>0, <2>3, <4>2, SMT
        <5>2. h[p] = g[p] /\ g[p] = ParseAt(g, b, p)
          BY <2>2, <4>2, <5>1
        <5> QED
          BY <5>2
      <4> QED
        BY <4>1, <4>2
    <3> HIDE DEF h
    <3>4. ParseAt(h, b, p) = ParseAt(g, b, p)
      BY <1>0, <3>1, <3>2, ParseLocal DEF L
    <3> QED
      BY <3>3, <3>4
  <2>5. P(h, k + 1)
    BY <2>4 DEF n
  <2> QED
    BY <2>5
<1> HIDE DEF H
<1>3. L \in H
  BY <1>0, <1>1, <1>2, Induction
<1>4. \E g : \A p \in 0 .. L : g[p] = ParseAt(g, b, p)
  <2>1. L <= L /\ L - L = 0
    BY <1>0, SMT
  <2> QED
    BY <1>3, <2>1 DEF H
<1>5. \E g : g = [p \in 0 .. L |-> ParseAt(g, b, p)]
  <2>1. PICK g : \A p \in 0 .. L : g[p] = ParseAt(g, b, p)
    BY <1>4
  <2> DEFINE h == [p \in 0 .. L |-> g[p]]
  <2>2. ASSUME NEW p \in 0 .. L PROVE h[p] = ParseAt(h, b, p)
    <3>1. p \in Nat /\ \A q \in p + 1 .. L : q \in 0 .. L
      BY <1>0, SMT
    <3>2. \A q \in p + 1 .. L : h[q] = g[q]
      BY <3>1
    <3>3. h[p] = ParseAt(g, b, p)
      BY <2>1
    <3> HIDE DEF h
    <3>4. ParseAt(h, b, p) = ParseAt(g, b, p)
      BY <1>0, <3>1, <3>2, ParseLocal DEF L
    <3> QED
      BY <3>3, <3>4
  <2>3. h = [p \in 0 .. L |-> h[p]]
    OBVIOUS
  <2> HIDE DEF h
  <2>4. h = [p \in 0 .. L |-> ParseAt(h, b, p)]
    BY <2>2, <2>3
  <2> QED
    BY <2>4
<1>6. From(b) = [p \in 0 .. L |-> ParseAt(From(b), b, p)]
  BY <1>5 DEF From, L
<1>7. Parsed(b) = From(b)[0]
  BY DEF Parsed, From, ParseAt
<1>8. \A p \in 0 .. L : From(b)[p] = ParseAt(From(b), b, p)
  <2> DEFINE F == From(b)
  <2> HIDE DEF F
  <2>1. F = [p \in 0 .. L |-> ParseAt(F, b, p)]
    BY <1>6 DEF F
  <2>2. \A p \in 0 .. L : F[p] = ParseAt(F, b, p)
    BY <2>1
  <2> QED
    BY <2>2 DEF F
<1> QED
  BY <1>7, <1>8 DEF L

\* The code of s is in b behind the first p bits.
WholeAt(b, p, s) ==
    /\ p + Len(Codes[s]) <= Len(b)
    /\ \A i \in 1 .. Len(Codes[s]) : b[p + i] = Codes[s][i]

LEMMA OneWhole ==
    ASSUME NEW b, NEW p, NEW s \in Symbols, NEW t \in Symbols, WholeAt(b, p, s), WholeAt(b, p, t)
    PROVE  s = t
<1>1. Len(Codes[s]) \in 1 .. 24 /\ Len(Codes[t]) \in 1 .. 24
  BY SymbolTyped
<1>2. \A i \in 1 .. Len(Codes[s]) : i <= Len(Codes[t]) => i \in 1 .. Len(Codes[t])
  BY <1>1, SMT
<1>3. \A i \in 1 .. Len(Codes[s]) : i <= Len(Codes[t]) => Codes[s][i] = Codes[t][i]
  BY <1>2 DEF WholeAt
<1> QED
  BY <1>3, PrefixFree

LEMMA SymbolsDomain ==
    /\ DOMAIN SymbolOf = {Codes[s] : s \in Symbols}
    /\ \A s \in Symbols : SymbolOf[Codes[s]] = s
<1>1. SymbolOf = [code \in {Codes[s] : s \in Symbols} |-> CHOOSE s \in Symbols : Codes[s] = code]
  BY DEF SymbolOf
<1>2. ASSUME NEW s \in Symbols PROVE SymbolOf[Codes[s]] = s
  <2>1. SymbolOf[Codes[s]] = CHOOSE t \in Symbols : Codes[t] = Codes[s]
    BY <1>1
  <2>2. ASSUME NEW t \in Symbols, Codes[t] = Codes[s] PROVE t = s
    BY <2>2, PrefixFree
  <2>3. \E t \in Symbols : Codes[t] = Codes[s]
    OBVIOUS
  <2> DEFINE c == CHOOSE t \in Symbols : Codes[t] = Codes[s]
  <2>4. c \in Symbols /\ Codes[c] = Codes[s]
    BY <2>3
  <2> HIDE DEF c
  <2>5. c = s
    BY <2>2, <2>4
  <2> QED
    BY <2>1, <2>5 DEF c
<1> QED
  BY <1>1, <1>2

LEMMA CodesEnd ==
    ASSUME NEW b \in Seq(Bit), NEW p \in 0 .. Len(b), NEW q \in p + 1 .. Len(b), NEW s \in Symbols
    PROVE  SubSeq(b, p + 1, q) = Codes[s] <=> WholeAt(b, p, s) /\ q = p + Len(Codes[s])
<1> DEFINE c == Codes[s]
           d == SubSeq(b, p + 1, q)
<1>1. c \in Seq(Bit) /\ Len(c) \in 1 .. 24
  BY CodeTyped, SymbolTyped
<1>2. Len(b) \in Nat /\ \A i \in 1 .. Len(b) : b[i] \in Bit
  BY LenProperties, ElementOfSeq
<1>3. p \in Nat /\ q \in Nat /\ p < q /\ q <= Len(b) /\ p + 1 \in Int /\ q \in Int /\ \A i \in p + 1 .. q : i \in 1 .. Len(b)
  BY <1>2, SMT
<1>4. d \in Seq(Bit) /\ Len(d) = q - p /\ \A i \in 1 .. q - p : d[i] = b[p + i]
  <2>1. \A i \in p + 1 .. q : b[i] \in Bit
    BY <1>2, <1>3
  <2> DEFINE m == p + 1
  <2>2. /\ m \in Int /\ m <= q /\ q - m + 1 = q - p
        /\ \A i \in 1 .. q - p : m + i - 1 = p + i
    BY <1>3, SMT
  <2>3. \A i \in m .. q : b[i] \in Bit
    BY <2>1
  <2> HIDE DEF m
  <2>4. /\ SubSeq(b, m, q) \in Seq(Bit) /\ Len(SubSeq(b, m, q)) = IF m <= q THEN q - m + 1 ELSE 0
        /\ \A i \in 1 .. q - m + 1 : SubSeq(b, m, q)[i] = b[m + i - 1]
    BY <1>3, <2>2, <2>3, SubSeqProperties
  <2>5. \A i \in 1 .. q - p : SubSeq(b, m, q)[i] = b[p + i]
    BY <2>2, <2>4
  <2>6. SubSeq(b, m, q) \in Seq(Bit) /\ Len(SubSeq(b, m, q)) = q - p
    BY <2>2, <2>4
  <2> QED
    BY <2>5, <2>6 DEF m
<1> HIDE DEF c, d
<1>5. ASSUME d = c PROVE p + Len(c) <= Len(b) /\ (\A i \in 1 .. Len(c) : b[p + i] = c[i]) /\ q = p + Len(c)
  <2>1. Len(c) = q - p
    BY <1>4, <1>5
  <2>2. p + Len(c) <= Len(b) /\ q = p + Len(c)
    BY <1>3, <2>1, SMT
  <2> QED
    BY <1>4, <1>5, <2>1, <2>2
<1>6. ASSUME \A i \in 1 .. Len(c) : b[p + i] = c[i], q = p + Len(c) PROVE d = c
  <2>1. Len(c) = q - p
    BY <1>1, <1>3, <1>6, SMT
  <2>2. Len(d) = Len(c) /\ \A i \in 1 .. Len(d) : d[i] = c[i]
    BY <1>4, <1>6, <2>1
  <2> QED
    BY <1>1, <1>4, <2>2, SeqEqual
<1>7. WholeAt(b, p, s) <=> p + Len(c) <= Len(b) /\ \A i \in 1 .. Len(c) : b[p + i] = c[i]
  BY DEF WholeAt, c
<1>8. d = c <=> WholeAt(b, p, s) /\ q = p + Len(c)
  BY <1>5, <1>6, <1>7
<1> QED
  BY <1>8 DEF c, d

\* Where a code is whole its symbol comes next.
LEMMA ParseHit ==
    ASSUME NEW b \in Seq(Bit), NEW p \in 0 .. Len(b), NEW s \in Symbols, WholeAt(b, p, s)
    PROVE  From(b)[p] = IF s = EOF THEN <<EOF>> ELSE <<s>> \o From(b)[p + Len(Codes[s])]
<1> DEFINE ends == {q \in p + 1 .. Len(b) : SubSeq(b, p + 1, q) \in DOMAIN SymbolOf}
           e == p + Len(Codes[s])
<1>1. e \in p + 1 .. Len(b) /\ e \in Nat
  <2>1. Len(Codes[s]) \in 1 .. 24 /\ Len(b) \in Nat /\ p + Len(Codes[s]) <= Len(b)
    BY SymbolTyped, LenProperties DEF WholeAt
  <2> DEFINE l == Len(Codes[s])
             n == Len(b)
  <2>2. l \in 1 .. 24 /\ n \in Nat /\ p + l <= n /\ p \in 0 .. n
    BY <2>1
  <2> HIDE DEF l, n
  <2>3. p + l \in p + 1 .. n /\ p + l \in Nat
    BY <2>2, SMT
  <2> QED
    BY <2>3 DEF l, n
<1>2. SubSeq(b, p + 1, e) = Codes[s]
  BY <1>1, CodesEnd
<1>3. e \in ends
  BY <1>1, <1>2, SymbolsDomain
<1>4. ASSUME NEW q \in ends PROVE q = e
  <2>1. PICK t \in Symbols : SubSeq(b, p + 1, q) = Codes[t]
    BY <1>4, SymbolsDomain
  <2>2. q \in p + 1 .. Len(b)
    BY <1>4
  <2>3. WholeAt(b, p, t) /\ q = p + Len(Codes[t])
    BY <2>1, <2>2, CodesEnd
  <2>4. s = t
    BY <2>3, OneWhole
  <2> QED
    BY <2>3, <2>4
<1>5. From(b)[p] = ParseAt(From(b), b, p)
  BY FromIs
<1> DEFINE q == Min(ends)
<1>6. ParseAt(From(b), b, p)
        = IF ends = {} THEN <<>>
          ELSE IF SymbolOf[SubSeq(b, p + 1, q)] = EOF THEN <<EOF>>
               ELSE <<SymbolOf[SubSeq(b, p + 1, q)]>> \o From(b)[q]
  BY DEF ParseAt
<1> HIDE DEF ends, e, q
<1>7. q = e
  <2>1. \A x \in ends : e <= x
    BY <1>1, <1>4, SMT
  <2>2. \E x \in ends : \A y \in ends : x <= y
    BY <1>3, <2>1
  <2>3. Min(ends) \in ends
    BY <2>2 DEF Min
  <2> QED
    BY <1>4, <2>3 DEF q
<1>8. SymbolOf[SubSeq(b, p + 1, q)] = s
  BY <1>2, <1>7, SymbolsDomain
<1>9. From(b)[p] = IF s = EOF THEN <<EOF>> ELSE <<s>> \o From(b)[e]
  BY <1>3, <1>5, <1>6, <1>7, <1>8
<1> QED
  BY <1>9 DEF e

\* Where no code is whole there are no more symbols.
LEMMA ParseMiss ==
    ASSUME NEW b \in Seq(Bit), NEW p \in 0 .. Len(b), \A s \in Symbols : ~ WholeAt(b, p, s)
    PROVE  From(b)[p] = <<>>
<1> DEFINE ends == {q \in p + 1 .. Len(b) : SubSeq(b, p + 1, q) \in DOMAIN SymbolOf}
<1>1. ASSUME NEW q \in ends PROVE FALSE
  <2>1. PICK t \in Symbols : SubSeq(b, p + 1, q) = Codes[t]
    BY <1>1, SymbolsDomain
  <2>2. q \in p + 1 .. Len(b)
    BY <1>1
  <2> QED
    BY <2>1, <2>2, CodesEnd
<1>2. ends = {}
  BY <1>1
<1>3. From(b)[p] = ParseAt(From(b), b, p)
  BY FromIs
<1> QED
  BY <1>2, <1>3 DEF ParseAt

-----------------------------------------------------------------------------
(* A round of the decompression *)

LEMMA SymbolCases ==
    ASSUME NEW s \in Symbols
    PROVE  (s # EOF => s \in Bytes) /\ (s \in Bytes => s # EOF)
  BY NodeNumbers, SMT

LEMMA FromTyped ==
    ASSUME NEW b \in Seq(Bit)
    PROVE  \A p \in 0 .. Len(b) : From(b)[p] \in Seq(Symbols)
<1> DEFINE L == Len(b)
           H == {k \in Nat : \A p \in 0 .. L : p + k >= L => From(b)[p] \in Seq(Symbols)}
<1>0. L \in Nat
  BY LenProperties
<1>1. ASSUME NEW p \in 0 .. Len(b),
             \A q \in 0 .. Len(b) : q > p => From(b)[q] \in Seq(Symbols)
      PROVE  From(b)[p] \in Seq(Symbols)
  <2>1. CASE \E s \in Symbols : WholeAt(b, p, s)
    <3>1. PICK s \in Symbols : WholeAt(b, p, s)
      BY <2>1
    <3>2. From(b)[p] = IF s = EOF THEN <<EOF>> ELSE <<s>> \o From(b)[p + Len(Codes[s])]
      BY <3>1, ParseHit
    <3> DEFINE q == p + Len(Codes[s])
    <3>3. q \in 0 .. Len(b) /\ q > p
      <4> DEFINE l == Len(Codes[s])
      <4>1. l \in 1 .. 24 /\ p + l <= Len(b)
        BY <3>1, SymbolTyped DEF WholeAt
      <4> HIDE DEF l
      <4>2. p + l \in 0 .. L /\ p + l > p
        BY <1>0, <4>1, SMT
      <4> QED
        BY <4>2 DEF l
    <3>4. From(b)[q] \in Seq(Symbols)
      BY <1>1, <3>3
    <3>5. EOF \in Symbols
      BY NodeNumbers, SMT
    <3>6. <<EOF>> \in Seq(Symbols) /\ <<s>> \in Seq(Symbols)
      BY <3>5, SMT
    <3> HIDE DEF q
    <3>7. <<s>> \o From(b)[q] \in Seq(Symbols)
      BY <3>4, <3>6, ConcatProperties
    <3> QED
      BY <3>2, <3>6, <3>7 DEF q
  <2>2. CASE \A s \in Symbols : ~ WholeAt(b, p, s)
    <3>1. From(b)[p] = <<>>
      BY <2>2, ParseMiss
    <3> QED
      BY <3>1, EmptySeq
  <2> QED
    BY <2>1, <2>2
<1> HIDE DEF L
<1>2. 0 \in H
  <2>1. ASSUME NEW p \in 0 .. L, p + 0 >= L PROVE From(b)[p] \in Seq(Symbols)
    <3>1. \A q \in 0 .. L : ~ (q > p)
      BY <1>0, <2>1, SMT
    <3> QED
      BY <1>1, <3>1 DEF L
  <2> QED
    BY <2>1
<1>3. ASSUME NEW k \in Nat, k \in H PROVE k + 1 \in H
  <2>1. ASSUME NEW p \in 0 .. L, p + (k + 1) >= L PROVE From(b)[p] \in Seq(Symbols)
    <3>1. \A q \in 0 .. L : q > p => q + k >= L
      BY <1>0, <2>1, SMT
    <3>2. \A q \in 0 .. L : q > p => From(b)[q] \in Seq(Symbols)
      BY <1>3, <3>1
    <3> QED
      BY <1>1, <3>2 DEF L
  <2> QED
    BY <2>1
<1>4. L \in H
  <2> HIDE DEF H
  <2> QED
    BY <1>0, <1>2, <1>3, Induction
<1>5. \A p \in 0 .. L : p + L >= L
  BY <1>0, SMT
<1> QED
  BY <1>4, <1>5 DEF L

Stream(in) == BitsUpTo(in, Len(in))

Whole(in) == Parsed(Stream(in)) # <<>> /\ Last(Parsed(Stream(in))) = EOF

\* s is what is left of in.
Suffix(s, in) == Len(s) <= Len(in) /\ \A i \in 1 .. Len(s) : s[i] = in[Len(in) - Len(s) + i]

\* How many bits of in were taken, when b are loaded and s is left.
Place(in, s, b) == 8 * (Len(in) - Len(s)) - Len(b)

\* What is loaded comes at its place in the stream, and what is written and the
\* symbols from there are the symbols of the stream.
OnTrack(in, s, b, out) ==
    /\ Suffix(s, in) /\ Place(in, s, b) \in Nat
    /\ \A j \in 1 .. Len(b) : b[j] = Stream(in)[Place(in, s, b) + j]
    /\ Parsed(Stream(in)) = out \o From(Stream(in))[Place(in, s, b)]

LEMMA StreamTyped ==
    ASSUME NEW in \in Seq(Bytes)
    PROVE  Stream(in) \in Seq(Bit) /\ Len(in) \in Nat /\ Len(Stream(in)) = 8 * Len(in)
<1>1. Len(in) \in Nat /\ \A i \in 1 .. Len(in) : in[i] \in Bytes
  BY LenProperties, ElementOfSeq
<1> QED
  BY <1>1, EightEach DEF Stream

LEMMA StartsOnTrack ==
    ASSUME NEW in \in Seq(Bytes)
    PROVE  OnTrack(in, in, <<>>, <<>>)
<1>1. Len(in) \in Nat /\ Stream(in) \in Seq(Bit) /\ Len(Stream(in)) \in Nat /\ Len(<<>>) = 0
  BY StreamTyped, LenProperties, EmptySeq
<1>2. Place(in, in, <<>>) = 0
  <2>1. \A k \in Nat : 8 * (k - k) - 0 = 0
    BY SMT
  <2> QED
    BY <1>1, <2>1 DEF Place
<1>3. Suffix(in, in)
  <2>1. Len(in) <= Len(in) /\ \A i \in 1 .. Len(in) : Len(in) - Len(in) + i = i
    BY <1>1, SMT
  <2> QED
    BY <2>1 DEF Suffix
<1>4. 0 \in 0 .. Len(Stream(in)) /\ 0 \in Nat /\ \A j \in 1 .. 0 : FALSE
  BY <1>1, SMT
<1>5. Parsed(Stream(in)) = From(Stream(in))[0] /\ From(Stream(in))[0] \in Seq(Symbols)
  BY <1>1, <1>4, FromIs, FromTyped
<1>6. Parsed(Stream(in)) = <<>> \o From(Stream(in))[0]
  BY <1>5, ConcatEmptySeq
<1> QED
  BY <1>1, <1>2, <1>3, <1>4, <1>6 DEF OnTrack

LEMMA AppendThen ==
    ASSUME NEW S, NEW s \in Seq(S), NEW x \in S, NEW t \in Seq(S)
    PROVE  s \o (<<x>> \o t) = Append(s, x) \o t
<1> DEFINE y == <<x>>
<1>1. y \in Seq(S)
  BY SMT
<1>2. Append(s, x) = s \o y
  BY AppendIsConcat
<1> HIDE DEF y
<1>3. s \o (y \o t) = (s \o y) \o t
  BY <1>1, ConcatAssociative, SMT
<1> QED
  BY <1>2, <1>3 DEF y

\* What is left of s without the first n.
IsRest(r, s, n, S) ==
    r \in Seq(S) /\ Len(r) = Len(s) - n /\ \A i \in 1 .. Len(s) - n : r[i] = s[n + i]

LEMMA RestIs ==
    ASSUME NEW S, NEW s \in Seq(S), NEW n \in 0 .. Len(s)
    PROVE  IsRest(SubSeq(s, n + 1, Len(s)), s, n, S)
<1> DEFINE m == n + 1
           l == Len(s)
<1>1. l \in Nat /\ (\A i \in 1 .. l : s[i] \in S) /\ n \in 0 .. l /\ m = n + 1
  BY LenProperties, ElementOfSeq
<1> HIDE DEF m, l
<1>2. /\ m \in Int /\ l \in Int /\ (\A i \in m .. l : i \in 1 .. l) /\ l - m + 1 = l - n
      /\ (IF m <= l THEN l - m + 1 ELSE 0) = l - n /\ \A i \in 1 .. l - n : m + i - 1 = n + i
  BY <1>1, SMT
<1>3. \A i \in m .. l : s[i] \in S
  BY <1>1, <1>2
<1>4. /\ SubSeq(s, m, l) \in Seq(S) /\ Len(SubSeq(s, m, l)) = IF m <= l THEN l - m + 1 ELSE 0
      /\ \A i \in 1 .. l - m + 1 : SubSeq(s, m, l)[i] = s[m + i - 1]
  BY <1>2, <1>3, SubSeqProperties
<1>5. SubSeq(s, m, l) \in Seq(S) /\ Len(SubSeq(s, m, l)) = l - n /\ \A i \in 1 .. l - n : SubSeq(s, m, l)[i] = s[n + i]
  BY <1>2, <1>4
<1> QED
  BY <1>5 DEF IsRest, m, l

\* Whole bytes are loaded.
LEMMA LoadedOnTrack ==
    ASSUME NEW in \in Seq(Bytes), NEW s \in Seq(Bytes), NEW b \in Seq(Bit), NEW out, NEW n \in 0 .. Len(s),
           OnTrack(in, s, b, out)
    PROVE  /\ SubSeq(s, n + 1, Len(s)) \in Seq(Bytes) /\ Len(SubSeq(s, n + 1, Len(s))) = Len(s) - n
           /\ b \o BitsUpTo(s, n) \in Seq(Bit) /\ Len(b \o BitsUpTo(s, n)) = Len(b) + 8 * n
           /\ OnTrack(in, SubSeq(s, n + 1, Len(s)), b \o BitsUpTo(s, n), out)
<1> DEFINE r == SubSeq(s, n + 1, Len(s))
           x == BitsUpTo(s, n)
           c == b \o x
           K == Len(in) - Len(s)
           p == Place(in, s, b)
           S == Stream(in)
<1>1. Len(in) \in Nat /\ Len(s) \in Nat /\ Len(b) \in Nat /\ (\A i \in 1 .. Len(s) : s[i] \in Bytes)
      /\ (\A i \in 1 .. Len(in) : in[i] \in Bytes)
  BY LenProperties, ElementOfSeq
<1>2. n \in Nat /\ n <= Len(s) /\ \A i \in 1 .. n : i \in 1 .. Len(s)
  BY <1>1, SMT
<1>3. /\ Len(s) <= Len(in) /\ (\A i \in 1 .. Len(s) : s[i] = in[K + i])
      /\ p \in Nat /\ (\A j \in 1 .. Len(b) : b[j] = S[p + j])
      /\ p = 8 * K - Len(b) /\ K \in Nat
  <2>1. /\ Len(s) <= Len(in) /\ (\A i \in 1 .. Len(s) : s[i] = in[K + i])
        /\ p \in Nat /\ (\A j \in 1 .. Len(b) : b[j] = S[p + j])
        /\ p = 8 * K - Len(b)
    BY DEF OnTrack, Suffix, Place
  <2>2. K \in Nat
    BY <1>1, <2>1, SMT
  <2> QED
    BY <2>1, <2>2
<1>4. r \in Seq(Bytes) /\ Len(r) = Len(s) - n /\ \A i \in 1 .. Len(s) - n : r[i] = s[n + i]
  <2>1. IsRest(r, s, n, Bytes)
    BY RestIs
  <2> QED
    BY <2>1 DEF IsRest
<1>5. /\ x \in Seq(Bit) /\ Len(x) = 8 * n
      /\ \A m \in 1 .. n, j \in 1 .. 8 : x[8 * (m - 1) + j] = BitsOf(s[m])[j]
  BY <1>1, <1>2, EightEach
<1>6. /\ c \in Seq(Bit) /\ Len(c) = Len(b) + 8 * n
      /\ \A i \in 1 .. Len(b) + 8 * n : c[i] = IF i <= Len(b) THEN b[i] ELSE x[i - Len(b)]
  <2> HIDE DEF x
  <2>1. /\ b \o x \in Seq(Bit) /\ Len(b \o x) = Len(b) + Len(x)
        /\ \A i \in 1 .. Len(b) + Len(x) : (b \o x)[i] = IF i <= Len(b) THEN b[i] ELSE x[i - Len(b)]
    BY <1>5, ConcatProperties
  <2> QED
    BY <1>5, <2>1
<1>7. \A m \in 1 .. Len(in), j \in 1 .. 8 : S[8 * (m - 1) + j] = BitsOf(in[m])[j]
  BY <1>1, EightEach DEF Stream
<1> DEFINE q == Place(in, r, c)
<1>8. q = p
  <2>1. q = 8 * (Len(in) - Len(r)) - Len(c)
    BY DEF Place
  <2> HIDE DEF r, c, x, p, S, K, q
  <2>2. q = 8 * (Len(in) - (Len(s) - n)) - (Len(b) + 8 * n)
    BY <1>4, <1>6, <2>1
  <2>3. 8 * (Len(in) - (Len(s) - n)) - (Len(b) + 8 * n) = 8 * (Len(in) - Len(s)) - Len(b)
    BY <1>1, <1>2, SMT
  <2> QED
    BY <1>3, <2>2, <2>3 DEF K
<1>9. Suffix(r, in)
  <2>1. /\ Len(r) <= Len(in) /\ Len(in) - Len(r) = K + n
        /\ \A i \in 1 .. Len(r) : i \in 1 .. Len(s) - n /\ n + i \in 1 .. Len(s) /\ K + (n + i) = (K + n) + i
    <3> DEFINE a == Len(s)
               d == Len(in)
               e == Len(r)
    <3>1. a \in Nat /\ d \in Nat /\ e = a - n /\ a <= d /\ K = d - a
      BY <1>1, <1>3, <1>4
    <3> HIDE DEF a, d, e, K
    <3>2. /\ e <= d /\ d - e = K + n
          /\ \A i \in 1 .. e : i \in 1 .. a - n /\ n + i \in 1 .. a /\ K + (n + i) = (K + n) + i
      BY <1>2, <3>1, SMT
    <3> QED
      BY <3>2 DEF a, d, e
  <2>2. \A i \in 1 .. Len(r) : r[i] = in[Len(in) - Len(r) + i]
    <3> TAKE i \in 1 .. Len(r)
    <3>1. r[i] = s[n + i]
      BY <1>4, <2>1
    <3>2. s[n + i] = in[K + (n + i)]
      BY <1>3, <2>1
    <3> HIDE DEF r, K
    <3> QED
      BY <2>1, <3>1, <3>2
  <2> QED
    BY <2>1, <2>2 DEF Suffix
<1>10. \A i \in 1 .. Len(c) : c[i] = S[q + i]
  <2> TAKE i \in 1 .. Len(c)
  <2>0. i \in 1 .. Len(b) + 8 * n
    BY <1>6
  <2>1. CASE i <= Len(b)
    <3>1. i \in 1 .. Len(b)
      BY <1>1, <2>0, <2>1, SMT
    <3>2. c[i] = b[i]
      BY <1>6, <2>0, <2>1
    <3> HIDE DEF c, p, q, S
    <3> QED
      BY <1>3, <1>8, <3>1, <3>2
  <2>2. CASE ~ (i <= Len(b))
    <3> DEFINE a == i - Len(b)
               m == (a - 1) \div 8 + 1
               j == ((a - 1) % 8) + 1
               l == Len(b)
    <3>1. l \in Nat /\ i \in 1 .. l + 8 * n /\ ~ (i <= l) /\ a = i - l
      BY <1>1, <2>0, <2>2
    <3> HIDE DEF l, a
    <3>2. a \in 1 .. 8 * n
      BY <1>2, <3>1, SMT
    <3>3. m \in 1 .. n /\ j \in 1 .. 8 /\ a = 8 * (m - 1) + j
      BY <1>2, <3>2, SMT
    <3> HIDE DEF m, j
    <3>4. c[i] = x[a]
      BY <1>6, <2>0, <2>2 DEF a
    <3>5. x[a] = BitsOf(s[m])[j]
      BY <1>5, <3>3
    <3>6. s[m] = in[K + m]
      BY <1>2, <1>3, <3>3
    <3>7. K + m \in 1 .. Len(in) /\ 8 * ((K + m) - 1) + j = p + i
      <4> DEFINE d == Len(in)
                 e == Len(s)
      <4>1. d \in Nat /\ e \in Nat /\ n <= e /\ K = d - e /\ e <= d /\ p = 8 * K - l
        BY <1>1, <1>2, <1>3 DEF l
      <4> HIDE DEF d, e, K, p
      <4>2. K + m \in 1 .. d /\ 8 * ((K + m) - 1) + j = p + i
        BY <1>2, <3>1, <3>3, <4>1, SMT
      <4> QED
        BY <4>2 DEF d
    <3>8. S[p + i] = BitsOf(in[K + m])[j]
      <4> DEFINE k == K + m
      <4>1. k \in 1 .. Len(in) /\ 8 * (k - 1) + j = p + i
        BY <3>7
      <4> HIDE DEF k, p, S
      <4>2. S[8 * (k - 1) + j] = BitsOf(in[k])[j]
        BY <1>7, <3>3, <4>1
      <4> QED
        BY <4>1, <4>2 DEF k
    <3> HIDE DEF c, p, q, S, x, K
    <3> QED
      BY <1>8, <3>4, <3>5, <3>6, <3>8
  <2> QED
    BY <2>1, <2>2
<1>11. q \in Nat /\ Parsed(S) = out \o From(S)[q]
  <2>1. p \in Nat /\ Parsed(S) = out \o From(S)[p]
    BY DEF OnTrack
  <2> HIDE DEF p, q, S
  <2> QED
    BY <1>8, <2>1
<1>12. OnTrack(in, r, c, out)
  BY <1>9, <1>10, <1>11 DEF OnTrack
<1> QED
  BY <1>4, <1>6, <1>12

Fits(d, e, l, p, u) == p + l = 8 * (d - e) /\ p + l <= 8 * d /\ p \in 0 .. 8 * d /\ p + u \in 0 .. 8 * d

LEMMA PlaceFits ==
    ASSUME NEW d \in Nat, NEW e \in Nat, NEW l \in Nat, NEW p \in Nat, NEW u \in 1 .. 24,
           e <= d, p = 8 * (d - e) - l, u <= l
    PROVE  Fits(d, e, l, p, u)
<1>1. p + l = 8 * (d - e)
  BY SMT
<1>2. p + l <= 8 * d
  BY <1>1, SMT
<1>3. p \in 0 .. 8 * d /\ p + u \in 0 .. 8 * d
  BY <1>1, <1>2, SMT
<1> QED
  BY <1>1, <1>2, <1>3 DEF Fits

\* A code that is all among the bits b is taken off.
Takes(in, s, b, out, symbol, used) ==
    /\ SubSeq(b, used + 1, Len(b)) \in Seq(Bit) /\ Len(SubSeq(b, used + 1, Len(b))) = Len(b) - used
    /\ symbol \in Symbols /\ used \in 1 .. 24
    /\ symbol = EOF => Parsed(Stream(in)) = Append(out, EOF)
    /\ symbol # EOF =>
          /\ Append(out, symbol) \in Seq(Bytes) /\ Len(Append(out, symbol)) = Len(out) + 1
          /\ OnTrack(in, s, SubSeq(b, used + 1, Len(b)), Append(out, symbol))
          /\ Whole(in) => /\ Len(Parsed(Stream(in))) >= Len(out) + 2
                          /\ \A i \in 1 .. Len(out) : Parsed(Stream(in))[i] = out[i]

LEMMA TakenOnTrack ==
    ASSUME NEW in \in Seq(Bytes), NEW s \in Seq(Bytes), NEW b \in Seq(Bit), NEW out \in Seq(Bytes),
           OnTrack(in, s, b, out), NEW symbol, symbol = Descend(b, WordBits),
           NEW used, used = Len(Codes[symbol]), used <= Len(b)
    PROVE  Takes(in, s, b, out, symbol, used)
<1> DEFINE S == Stream(in)
           p == Place(in, s, b)
           r == SubSeq(b, used + 1, Len(b))
           f == From(S)[p]
           g == From(S)[p + used]
<1>1. Len(in) \in Nat /\ Len(s) \in Nat /\ Len(b) \in Nat /\ S \in Seq(Bit) /\ Len(S) = 8 * Len(in)
      /\ (\A i \in 1 .. Len(b) : b[i] \in Bit) /\ Len(out) \in Nat
  BY StreamTyped, LenProperties, ElementOfSeq
<1>2. /\ symbol \in Symbols
      /\ \A i \in 1 .. used : Codes[symbol][i] = BitAt(b, i)
  BY WalkMeets
<1>3. used \in 1 .. 24
  BY <1>2, SymbolTyped
<1>4. Suffix(s, in) /\ p \in Nat /\ (\A j \in 1 .. Len(b) : b[j] = S[p + j]) /\ Parsed(S) = out \o f
  BY DEF OnTrack
<1>5. p + Len(b) = 8 * (Len(in) - Len(s)) /\ p + Len(b) <= Len(S) /\ p \in 0 .. Len(S) /\ p + used \in 0 .. Len(S)
  <2> DEFINE d == Len(in)
             e == Len(s)
             l == Len(b)
             L == Len(S)
  <2>1. /\ p = 8 * (d - e) - l /\ d \in Nat /\ e \in Nat /\ e <= d /\ l \in Nat /\ L = 8 * d /\ p \in Nat
        /\ used \in 1 .. 24 /\ used <= l
    BY <1>1, <1>3, <1>4 DEF Place, Suffix
  <2> HIDE DEF d, e, l, L, p
  <2>2. p + l = 8 * (d - e) /\ p + l <= L /\ p \in 0 .. L /\ p + used \in 0 .. L
    <3>1. Fits(d, e, l, p, used)
      BY <2>1, PlaceFits
    <3> QED
      BY <2>1, <3>1 DEF Fits
  <2> QED
    BY <2>2 DEF d, e, l, L
<1>6. WholeAt(S, p, symbol)
  <2>1. p + used <= Len(S)
    <3> DEFINE l == Len(b)
               L == Len(S)
    <3>1. l \in Nat /\ L \in Nat /\ p \in Nat /\ p + l <= L /\ used <= l /\ used \in 1 .. 24
      BY <1>1, <1>3, <1>4, <1>5, LenProperties
    <3> HIDE DEF l, L, p
    <3>2. p + used <= L
      BY <3>1, SMT
    <3> QED
      BY <3>2 DEF L
  <2>2. \A i \in 1 .. used : S[p + i] = Codes[symbol][i]
    <3> TAKE i \in 1 .. used
    <3>1. i \in 1 .. Len(b) /\ i <= Len(b)
      BY <1>1, <1>3, SMT
    <3> HIDE DEF S, p
    <3> QED
      BY <1>2, <1>4, <3>1 DEF BitAt
  <2> QED
    BY <2>1, <2>2 DEF WholeAt
<1>7. f = IF symbol = EOF THEN <<EOF>> ELSE <<symbol>> \o g
  <2> HIDE DEF S, p
  <2> QED
    BY <1>1, <1>2, <1>5, <1>6, ParseHit DEF S, p
<1>8. r \in Seq(Bit) /\ Len(r) = Len(b) - used /\ \A i \in 1 .. Len(b) - used : r[i] = b[used + i]
  <2>1. used \in 0 .. Len(b)
    <3> DEFINE l == Len(b)
    <3>1. l \in Nat /\ used \in 1 .. 24 /\ used <= l
      BY <1>1, <1>3
    <3> HIDE DEF l
    <3>2. used \in 0 .. l
      BY <3>1, SMT
    <3> QED
      BY <3>2 DEF l
  <2>2. IsRest(r, b, used, Bit)
    BY <2>1, RestIs
  <2> QED
    BY <2>2 DEF IsRest
<1>9. out \in Seq(Symbols) /\ EOF \in Symbols /\ Bytes \subseteq Symbols
  <2>1. Bytes \subseteq Symbols /\ EOF \in Symbols
    BY NodeNumbers, SMT
  <2> QED
    BY <2>1, SeqMonotonic
<1>10. ASSUME symbol = EOF PROVE Parsed(S) = Append(out, EOF)
  <2>1. Parsed(S) = out \o <<EOF>>
    BY <1>4, <1>7, <1>10
  <2> QED
    BY <1>9, <2>1, AppendIsConcat
<1>11. ASSUME symbol # EOF
       PROVE  /\ Append(out, symbol) \in Seq(Bytes) /\ Len(Append(out, symbol)) = Len(out) + 1
              /\ OnTrack(in, s, r, Append(out, symbol))
              /\ Whole(in) => /\ Len(Parsed(S)) >= Len(out) + 2
                              /\ \A i \in 1 .. Len(out) : Parsed(S)[i] = out[i]
  <2>1. symbol \in Bytes
    BY <1>2, <1>11, SymbolCases
  <2>2. Append(out, symbol) \in Seq(Bytes) /\ Len(Append(out, symbol)) = Len(out) + 1
    BY <2>1, AppendProperties
  <2>3. g \in Seq(Symbols)
    <3> HIDE DEF S, p
    <3> QED
      BY <1>1, <1>5, FromTyped DEF S, p
  <2>4. Place(in, s, r) = p + used
    <3> DEFINE d == Len(in) - Len(s)
               l == Len(b)
    <3>1. Place(in, s, r) = 8 * d - (l - used) /\ p = 8 * d - l /\ l \in Nat
      BY <1>1, <1>8 DEF Place
    <3>2. d \in Int /\ used \in Nat
      BY <1>1, <1>3, SMT
    <3> HIDE DEF d, l, p, r
    <3> QED
      BY <3>1, <3>2, SMT
  <2>5. Parsed(S) = Append(out, symbol) \o g
    <3>1. Parsed(S) = out \o (<<symbol>> \o g)
      BY <1>4, <1>7, <1>11
    <3> HIDE DEF S, g
    <3> QED
      BY <1>2, <1>9, <2>3, <3>1, AppendThen
  <2>6. \A j \in 1 .. Len(r) : r[j] = S[(p + used) + j]
    <3> TAKE j \in 1 .. Len(r)
    <3>1. j \in 1 .. Len(b) - used
      BY <1>8
    <3>2. used + j \in 1 .. Len(b) /\ p + (used + j) = (p + used) + j
      <4>1. used \in Nat /\ p \in Nat /\ Len(b) \in Nat
        BY <1>1, <1>3, <1>4, SMT
      <4> HIDE DEF p
      <4> QED
        BY <3>1, <4>1, SMT
    <3> HIDE DEF S, p, r
    <3> QED
      BY <1>4, <1>8, <3>1, <3>2
  <2>7. OnTrack(in, s, r, Append(out, symbol))
    <3>1. p + used \in Nat
      BY <1>3, <1>4, SMT
    <3>2. Suffix(s, in)
      BY <1>4
    <3> HIDE DEF p, r
    <3> QED
      BY <2>4, <2>5, <2>6, <3>1, <3>2 DEF OnTrack
  <2>8. ASSUME Whole(in)
        PROVE  Len(Parsed(S)) >= Len(out) + 2 /\ \A i \in 1 .. Len(out) : Parsed(S)[i] = out[i]
    <3> DEFINE a == Append(out, symbol)
               y == Parsed(S)
    <3>1. a \in Seq(Symbols) /\ Len(a) = Len(out) + 1 /\ a[Len(out) + 1] = symbol
          /\ \A i \in 1 .. Len(out) : a[i] = out[i]
      BY <1>2, <1>9, AppendProperties
    <3>2. y = a \o g /\ Last(y) = EOF
      BY <2>5, <2>8 DEF Whole
    <3> HIDE DEF a, g, y, S
    <3>3. /\ y \in Seq(Symbols) /\ Len(y) = Len(a) + Len(g) /\ Len(g) \in Nat
          /\ \A i \in 1 .. Len(a) + Len(g) : y[i] = IF i <= Len(a) THEN a[i] ELSE g[i - Len(a)]
      BY <2>3, <3>1, <3>2, ConcatProperties, LenProperties
    <3>4. Len(g) # 0
      <4> SUFFICES ASSUME Len(g) = 0 PROVE FALSE
        OBVIOUS
      <4>1. Len(y) = Len(out) + 1
        BY <1>1, <3>1, <3>3, SMT
      <4>2. Len(out) + 1 \in 1 .. Len(a) + Len(g) /\ Len(out) + 1 <= Len(a)
        BY <1>1, <3>1, SMT
      <4>3. y[Len(out) + 1] = a[Len(out) + 1]
        BY <3>3, <4>2
      <4>4. Last(y) = symbol
        BY <3>1, <4>1, <4>3 DEF Last
      <4> QED
        BY <1>11, <3>2, <4>4
    <3>5. Len(y) >= Len(out) + 2
      BY <1>1, <3>1, <3>3, <3>4, SMT
    <3>6. \A i \in 1 .. Len(out) : y[i] = out[i]
      <4> TAKE i \in 1 .. Len(out)
      <4>1. i \in 1 .. Len(a) + Len(g) /\ i <= Len(a)
        BY <1>1, <3>1, <3>3, SMT
      <4> QED
        BY <3>1, <3>3, <4>1
    <3> QED
      BY <3>5, <3>6 DEF y
  <2> QED
    BY <2>2, <2>7, <2>8
<1> QED
  BY <1>2, <1>3, <1>8, <1>10, <1>11 DEF Takes

\* Bits that are less than the code they begin with end the stream inside of it.
LEMMA MissedCode ==
    ASSUME NEW in \in Seq(Bytes), NEW s \in Seq(Bytes), NEW b \in Seq(Bit), NEW out \in Seq(Bytes),
           OnTrack(in, s, b, out), Len(s) = 0, Len(b) < Len(Codes[Descend(b, WordBits)])
    PROVE  ~ Whole(in)
<1> DEFINE S == Stream(in)
           p == Place(in, s, b)
           d == Descend(b, WordBits)
<1>1. Len(in) \in Nat /\ Len(b) \in Nat /\ S \in Seq(Bit) /\ Len(S) = 8 * Len(in)
  BY StreamTyped, LenProperties
<1>2. p \in Nat /\ (\A j \in 1 .. Len(b) : b[j] = S[p + j]) /\ Parsed(S) = out \o From(S)[p]
  BY DEF OnTrack
<1>3. p + Len(b) = Len(S)
  <2> DEFINE l == Len(b)
             k == Len(in)
  <2>1. p = 8 * (k - 0) - l /\ k \in Nat /\ l \in Nat /\ Len(S) = 8 * k
    BY <1>1 DEF Place
  <2> HIDE DEF l, k, p
  <2>2. p + l = 8 * k
    BY <2>1, SMT
  <2> QED
    BY <1>1, <2>2 DEF l, k
<1>4. ASSUME NEW t \in Symbols, WholeAt(S, p, t) PROVE FALSE
  <2> DEFINE u == Len(Codes[t])
             l == Len(b)
             L == Len(S)
  <2>1. u \in 1 .. 24 /\ l \in Nat /\ p \in Nat /\ p + l = L /\ p + u <= L
        /\ \A i \in 1 .. u : S[p + i] = Codes[t][i]
    BY <1>1, <1>2, <1>3, <1>4, SymbolTyped DEF WholeAt
  <2>2. u <= l
    <3> HIDE DEF u, l, L, p
    <3> QED
      BY <2>1, SMT
  <2>3. \A i \in 1 .. u : Codes[t][i] = BitAt(b, i)
    <3> TAKE i \in 1 .. u
    <3>1. i \in 1 .. Len(b) /\ i <= Len(b)
      <4>1. i \in 1 .. l /\ i <= l
        <5> HIDE DEF u, l
        <5> QED
          BY <2>1, <2>2, SMT
      <4> QED
        BY <4>1
    <3> HIDE DEF S, p
    <3> QED
      BY <1>2, <2>1, <3>1 DEF BitAt
  <2>4. t = d
    BY <2>3, WalkMeets
  <2>5. l < u
    BY <2>4
  <2> HIDE DEF u, l
  <2> QED
    BY <2>1, <2>2, <2>5, SMT
<1>5. p \in 0 .. Len(S)
  <2>1. \A x, y, z : x \in Nat /\ y \in Nat /\ x + y = z => x \in 0 .. z
    BY SMT
  <2> HIDE DEF p, S
  <2> QED
    BY <1>1, <1>2, <1>3, <2>1
<1>6. From(S)[p] = <<>>
  <2> HIDE DEF p, S
  <2> QED
    BY <1>1, <1>4, <1>5, ParseMiss
<1>7. Parsed(S) = out
  <2>1. out \o <<>> = out
    BY ConcatEmptySeq
  <2> QED
    BY <1>2, <1>6, <2>1
<1>8. ASSUME out # <<>> PROVE Last(out) # EOF
  <2>1. Len(out) \in Nat \ {0}
    BY <1>8, EmptySeq
  <2>2. Len(out) \in 1 .. Len(out)
    BY <2>1, SMT
  <2>3. out[Len(out)] \in Bytes
    BY <2>2, ElementOfSeq
  <2>4. \A x \in Bytes : x # EOF
    BY NodeNumbers, SMT
  <2> QED
    BY <2>3, <2>4 DEF Last
<1> QED
  BY <1>7, <1>8 DEF Whole

-----------------------------------------------------------------------------
(* What the codes of bytes and the end symbol are read as *)

\* The code of each byte of p, and then that of the end symbol.
CodeList(p) == [i \in 1 .. Len(p) + 1 |-> IF i <= Len(p) THEN Codes[p[i]] ELSE Codes[EOF]]

\* The codes of the first k.
FirstCodes(p, k) == FirstOf(CodeList(p), k)

LEMMA CodeListTyped ==
    ASSUME NEW p \in Seq(Bytes)
    PROVE  /\ Len(p) \in Nat /\ Len(p) + 1 \in Nat
           /\ CodeList(p) \in [1 .. Len(p) + 1 -> Seq(Bit)]
           /\ \A i \in 1 .. Len(p) : p[i] \in Bytes /\ p[i] \in Symbols /\ p[i] # EOF /\ CodeList(p)[i] = Codes[p[i]]
           /\ CodeList(p)[Len(p) + 1] = Codes[EOF] /\ EOF \in Symbols
<1>1. Len(p) \in Nat /\ \A i \in 1 .. Len(p) : p[i] \in Bytes
  BY LenProperties, ElementOfSeq
<1>2. EOF \in Symbols /\ \A x \in Bytes : x \in Symbols /\ x # EOF
  BY NodeNumbers, SMT
<1>3. \A x \in Symbols : Codes[x] \in Seq(Bit)
  BY SymbolTyped, CodeTyped
<1> DEFINE n == Len(p)
<1>4. n + 1 \in Nat /\ n + 1 \in 1 .. n + 1 /\ ~ (n + 1 <= n)
      /\ (\A i \in 1 .. n : i \in 1 .. n + 1 /\ i <= n) /\ \A i \in 1 .. n + 1 : i <= n => i \in 1 .. n
  BY <1>1, SMT
<1>5. \A i \in 1 .. n + 1 : CodeList(p)[i] = IF i <= n THEN Codes[p[i]] ELSE Codes[EOF]
  BY DEF CodeList
<1>6. \A i \in 1 .. n + 1 : CodeList(p)[i] \in Seq(Bit)
  BY <1>1, <1>2, <1>3, <1>4, <1>5
<1>7. CodeList(p) = [i \in 1 .. n + 1 |-> CodeList(p)[i]]
  BY DEF CodeList
<1>8. CodeList(p) \in [1 .. n + 1 -> Seq(Bit)]
  <2> DEFINE c == CodeList(p)
  <2> HIDE DEF c, n
  <2>1. c = [i \in 1 .. n + 1 |-> c[i]] /\ \A i \in 1 .. n + 1 : c[i] \in Seq(Bit)
    BY <1>6, <1>7 DEF c
  <2>2. c \in [1 .. n + 1 -> Seq(Bit)]
    BY <2>1
  <2> QED
    BY <2>2 DEF c
<1> QED
  BY <1>1, <1>2, <1>4, <1>5, <1>8

LEMMA EncodedIs ==
    ASSUME NEW p \in Seq(Bytes)
    PROVE  /\ Encoded(p) = FirstCodes(p, Len(p) + 1)
           /\ Encoded(p) = FirstCodes(p, Len(p)) \o Codes[EOF]
           /\ Encoded(p) \in Seq(Bit) /\ Len(Encoded(p)) \in Nat
<1> DEFINE n == Len(p)
           c == CodeList(p)
<1>1. n \in Nat /\ c \in [1 .. n + 1 -> Seq(Bit)] /\ (\A i \in 1 .. n : c[i] = Codes[p[i]]) /\ c[n + 1] = Codes[EOF]
      /\ DOMAIN p = 1 .. n
  BY CodeListTyped, LenProperties
<1> HIDE DEF n, c
<1>2. [i \in DOMAIN p |-> Codes[p[i]]] = [i \in 1 .. n |-> c[i]]
  BY <1>1
<1>3. Encoded(p) = FirstOf(c, n) \o Codes[EOF]
  BY <1>2 DEF Encoded, FirstOf
<1>4. FirstOf(c, n + 1) = FirstOf(c, n) \o c[n + 1]
  <2>1. \A i \in 1 .. n + 1 : c[i] \in Seq(Bit)
    BY <1>1
  <2> QED
    BY <1>1, <2>1, FirstGrows
<1>5. Encoded(p) = FirstOf(c, n + 1)
  BY <1>1, <1>3, <1>4
<1>6. FirstOf(c, n + 1) \in Seq(Bit)
  <2> DEFINE m == n + 1
  <2>1. m \in Nat /\ m \in 0 .. m /\ m \in m .. m /\ c \in [1 .. m -> Seq(Bit)]
    BY <1>1, SMT
  <2> HIDE DEF m
  <2>2. FirstOf(c, m) \in Seq(Bit)
    BY <2>1, FirstPrefix
  <2> QED
    BY <2>2 DEF m
<1>7. Encoded(p) \in Seq(Bit) /\ Len(Encoded(p)) \in Nat
  BY <1>5, <1>6, LenProperties
<1> QED
  BY <1>3, <1>5, <1>7 DEF FirstCodes, n, c

\* The next code.
LEMMA NextCode ==
    ASSUME NEW p \in Seq(Bytes), NEW k \in 0 .. Len(p), NEW u \in Symbols,
           u = IF k < Len(p) THEN p[k + 1] ELSE EOF
    PROVE  /\ FirstCodes(p, 0) = <<>>
           /\ FirstCodes(p, k + 1) = FirstCodes(p, k) \o Codes[u]
           /\ FirstCodes(p, k) \in Seq(Bit) /\ Len(FirstCodes(p, k)) \in Nat
           /\ Len(FirstCodes(p, k + 1)) = Len(FirstCodes(p, k)) + Len(Codes[u])
           /\ Len(FirstCodes(p, k + 1)) <= Len(Encoded(p))
           /\ \A i \in 1 .. Len(Codes[u]) : Encoded(p)[Len(FirstCodes(p, k)) + i] = Codes[u][i]
<1> DEFINE n == Len(p)
           m == n + 1
           c == CodeList(p)
           j == k + 1
<1>1. n \in Nat /\ m \in Nat /\ c \in [1 .. m -> Seq(Bit)]
  BY CodeListTyped
<1>2. j \in 1 .. m /\ j \in Nat /\ k \in 0 .. m /\ k \in Nat /\ k \in k .. m /\ j - 1 = k
  BY <1>1, SMT
<1>3. c[j] = Codes[u]
  <2>1. CASE k < n
    <3>1. j \in 1 .. n
      BY <1>1, <2>1, SMT
    <3> QED
      BY <2>1, <3>1, CodeListTyped
  <2>2. CASE ~ (k < n)
    <3>1. j = n + 1
      BY <1>1, <2>2, SMT
    <3> QED
      BY <2>2, <3>1, CodeListTyped
  <2> QED
    BY <2>1, <2>2
<1>a. Encoded(p) = FirstOf(c, m)
  BY EncodedIs DEF FirstCodes
<1> HIDE DEF c, m
<1>4. FirstOf(c, 0) = <<>> /\ FirstOf(c, k + 1) = FirstOf(c, k) \o c[k + 1]
  <2>1. \A i \in 1 .. k + 1 : c[i] \in Seq(Bit)
    <3>1. \A i \in 1 .. k + 1 : i \in 1 .. m
      BY <1>1, <1>2, SMT
    <3> QED
      BY <1>1, <3>1
  <2> QED
    BY <1>2, <2>1, FirstGrows
<1>5. FirstOf(c, k) \in Seq(Bit) /\ Len(FirstOf(c, k)) \in Nat
  BY <1>1, <1>2, FirstPrefix
<1> HIDE DEF j
<1>6. PartLies(c, m, j)
  BY <1>1, <1>2, PartAt
<1>7. /\ Len(FirstOf(c, j)) = Len(FirstOf(c, k)) + Len(Codes[u])
      /\ Len(FirstOf(c, j)) <= Len(FirstOf(c, m))
      /\ \A i \in 1 .. Len(Codes[u]) : FirstOf(c, m)[Len(FirstOf(c, k)) + i] = Codes[u][i]
  BY <1>2, <1>3, <1>6 DEF PartLies
<1> QED
  BY <1>3, <1>4, <1>5, <1>7, <1>a DEF FirstCodes, c, j

\* The bits of b are those of the codes, and zeros behind them.
Carries(b, p) == \A i \in 1 .. Len(b) : b[i] = BitAt(Encoded(p), i)

NextOf(p, k) == IF k < Len(p) THEN p[k + 1] ELSE EOF

LEMMA NextTyped ==
    ASSUME NEW p \in Seq(Bytes), NEW k \in 0 .. Len(p)
    PROVE  /\ NextOf(p, k) \in Symbols /\ Len(Codes[NextOf(p, k)]) \in 1 .. 24
           /\ NextOf(p, k) = EOF <=> k = Len(p)
<1>1. Len(p) \in Nat
  BY LenProperties
<1>2. CASE k < Len(p)
  <2>1. k + 1 \in 1 .. Len(p) /\ k # Len(p)
    BY <1>1, <1>2, SMT
  <2>2. p[k + 1] \in Symbols /\ p[k + 1] # EOF
    BY <2>1, CodeListTyped
  <2> QED
    BY <1>2, <2>1, <2>2, SymbolTyped DEF NextOf
<1>3. CASE ~ (k < Len(p))
  <2>1. k = Len(p)
    BY <1>1, <1>3, SMT
  <2> QED
    BY <1>3, <2>1, CodeListTyped, SymbolTyped DEF NextOf
<1> QED
  BY <1>2, <1>3

\* As far as the codes are whole the symbols are the bytes.
LEMMA ParsesBytes ==
    ASSUME NEW p \in Seq(Bytes), NEW b \in Seq(Bit), Carries(b, p)
    PROVE  \A k \in 0 .. Len(p) : Len(FirstCodes(p, k)) <= Len(b) =>
              Parsed(b) = SubSeq(p, 1, k) \o From(b)[Len(FirstCodes(p, k))]
<1> DEFINE P(k) == k <= Len(p) /\ Len(FirstCodes(p, k)) <= Len(b) =>
                      Parsed(b) = SubSeq(p, 1, k) \o From(b)[Len(FirstCodes(p, k))]
           H == {k \in Nat : P(k)}
<1>0. Len(b) \in Nat /\ Len(p) \in Nat
  BY LenProperties
<1>1. 0 \in H
  <2>1. 0 \in 0 .. Len(p) /\ 0 \in 0 .. Len(b)
    BY <1>0, SMT
  <2>2. FirstCodes(p, 0) = <<>> /\ Len(<<>>) = 0
    BY <2>1, NextTyped, NextCode, EmptySeq DEF NextOf
  <2>3. Parsed(b) = From(b)[0] /\ From(b)[0] \in Seq(Symbols)
    BY <2>1, FromIs, FromTyped
  <2>4. SubSeq(p, 1, 0) = <<>>
    BY SubSeqEmpty, SMT
  <2>5. <<>> \o From(b)[0] = From(b)[0]
    BY <2>3, ConcatEmptySeq
  <2> QED
    BY <2>2, <2>3, <2>4, <2>5
<1>2. ASSUME NEW k \in Nat, k \in H, k + 1 <= Len(p), Len(FirstCodes(p, k + 1)) <= Len(b)
      PROVE  Parsed(b) = SubSeq(p, 1, k + 1) \o From(b)[Len(FirstCodes(p, k + 1))]
  <2> DEFINE x == NextOf(p, k)
             l == Len(FirstCodes(p, k))
             m == Len(FirstCodes(p, k + 1))
  <2>1. k \in 0 .. Len(p) /\ k < Len(p) /\ k <= Len(p) /\ k + 1 \in 1 .. Len(p)
    BY <1>0, <1>2, SMT
  <2>2. x \in Symbols /\ Len(Codes[x]) \in 1 .. 24 /\ x # EOF /\ x = p[k + 1] /\ x \in Bytes
    BY <2>1, NextTyped, SymbolCases DEF NextOf
  <2>3. /\ l \in Nat /\ m = l + Len(Codes[x]) /\ m <= Len(Encoded(p))
        /\ \A i \in 1 .. Len(Codes[x]) : Encoded(p)[l + i] = Codes[x][i]
    BY <2>1, <2>2, NextCode DEF NextOf
  <2>a. m <= Len(b)
    BY <1>2
  <2> HIDE DEF x, l, m
  <2>4. l <= Len(b) /\ l \in 0 .. Len(b) /\ m \in 0 .. Len(b)
    BY <1>0, <2>2, <2>3, <2>a, SMT
  <2>5. WholeAt(b, l, x)
    <3>1. l + Len(Codes[x]) <= Len(b)
      BY <2>3, <2>a
    <3>2. ASSUME NEW i \in 1 .. Len(Codes[x]) PROVE b[l + i] = Codes[x][i]
      <4> DEFINE u == Len(Codes[x])
                 y == l + i
      <4>1. u \in 1 .. 24 /\ m = l + u /\ i \in 1 .. u
        BY <2>2, <2>3
      <4> HIDE DEF u
      <4>2. y \in 1 .. Len(b) /\ y <= Len(Encoded(p))
        <5>1. Len(Encoded(p)) \in Nat
          BY EncodedIs
        <5> QED
          BY <1>0, <2>3, <2>a, <4>1, <5>1, SMT
      <4>3. Encoded(p)[y] = Codes[x][i]
        BY <2>3
      <4> HIDE DEF y
      <4>4. b[y] = Encoded(p)[y]
        BY <4>2 DEF Carries, BitAt
      <4> QED
        BY <4>3, <4>4 DEF y
    <3> QED
      BY <3>1, <3>2 DEF WholeAt
  <2>6. From(b)[l] = <<x>> \o From(b)[m]
    BY <2>2, <2>3, <2>4, <2>5, ParseHit
  <2>7. Parsed(b) = SubSeq(p, 1, k) \o From(b)[l]
    BY <1>2, <2>1, <2>4 DEF l
  <2>8. SubSeq(p, 1, k + 1) = Append(SubSeq(p, 1, k), x) /\ SubSeq(p, 1, k) \in Seq(Bytes)
    <3> DEFINE n == k + 1
    <3>1. 1 \in 1 .. Len(p) /\ n \in 1 .. Len(p) /\ n - 1 = k
      BY <1>0, <2>1, SMT
    <3> HIDE DEF n
    <3>2. SubSeq(p, 1, n) = SubSeq(p, 1, n - 1) \o <<p[n]>>
      BY <3>1, SubSeqRecursiveSecond
    <3>3. SubSeq(p, 1, k) \in Seq(Bytes)
      <4>1. \A i \in 1 .. k : i \in 1 .. Len(p)
        BY <1>0, <2>1, SMT
      <4>2. \A i \in 1 .. k : p[i] \in Bytes
        BY <4>1, ElementOfSeq
      <4>3. 1 \in Int /\ k \in Int
        BY SMT
      <4> QED
        BY <4>2, <4>3, SubSeqProperties
    <3>4. SubSeq(p, 1, n) = Append(SubSeq(p, 1, k), x)
      BY <2>2, <3>1, <3>2, <3>3, AppendIsConcat DEF n
    <3> QED
      BY <3>3, <3>4 DEF n
  <2>9. SubSeq(p, 1, k) \in Seq(Symbols) /\ From(b)[m] \in Seq(Symbols)
    <3>1. Bytes \subseteq Symbols
      BY NodeNumbers, SMT
    <3> QED
      BY <2>4, <2>8, <3>1, SeqMonotonic, FromTyped
  <2>10. SubSeq(p, 1, k) \o (<<x>> \o From(b)[m]) = Append(SubSeq(p, 1, k), x) \o From(b)[m]
    <3> DEFINE y == From(b)[m]
               z == SubSeq(p, 1, k)
    <3>1. y \in Seq(Symbols) /\ z \in Seq(Symbols) /\ x \in Symbols
      BY <2>2, <2>9
    <3> HIDE DEF y, z
    <3>2. z \o (<<x>> \o y) = Append(z, x) \o y
      BY <3>1, AppendThen
    <3> QED
      BY <3>2 DEF y, z
  <2>11. Parsed(b) = SubSeq(p, 1, k + 1) \o From(b)[m]
    BY <2>6, <2>7, <2>8, <2>10
  <2> QED
    BY <2>11 DEF m
<1>b. ASSUME NEW k \in Nat, k \in H PROVE k + 1 \in H
  <2>1. P(k + 1)
    BY <1>2, <1>b
  <2> HIDE DEF P
  <2> QED
    BY <2>1
<1> HIDE DEF H, P
<1>3. \A k \in Nat : k \in H
  BY <1>1, <1>b, Induction
<1>4. \A k \in Nat : P(k)
  BY <1>3 DEF H
<1>5. \A k \in 0 .. Len(p) : k \in Nat /\ k <= Len(p)
  BY <1>0, SMT
<1> QED
  BY <1>4, <1>5 DEF P

\* All of the codes: the bytes and the end symbol.
LEMMA ParsesAll ==
    ASSUME NEW p \in Seq(Bytes), NEW b \in Seq(Bit), Carries(b, p), Len(Encoded(p)) <= Len(b)
    PROVE  Parsed(b) = Append(p, EOF)
<1> DEFINE n == Len(p)
           l == Len(FirstCodes(p, n))
           E == Encoded(p)
<1>1. n \in 0 .. Len(p) /\ n \in Nat /\ Len(b) \in Nat /\ NextOf(p, n) = EOF /\ EOF \in Symbols /\ Len(Codes[EOF]) \in 1 .. 24
  <2>1. n \in Nat /\ Len(b) \in Nat
    BY LenProperties
  <2>2. n \in 0 .. Len(p)
    BY <2>1, SMT
  <2> QED
    BY <2>1, <2>2, NextTyped
<1>2. /\ l \in Nat /\ Len(FirstCodes(p, n + 1)) = l + Len(Codes[EOF])
      /\ \A i \in 1 .. Len(Codes[EOF]) : E[l + i] = Codes[EOF][i]
  BY <1>1, NextCode DEF NextOf
<1>3. Len(E) = l + Len(Codes[EOF])
  BY <1>2, EncodedIs
<1> DEFINE u == Len(Codes[EOF])
<1>4. u \in 1 .. 24 /\ l + u <= Len(b) /\ Len(E) = l + u
  BY <1>1, <1>3
<1> HIDE DEF l, u
<1>5. l <= Len(b) /\ l \in 0 .. Len(b) /\ \A i \in 1 .. u : l + i \in 1 .. Len(b) /\ l + i <= l + u
  BY <1>1, <1>2, <1>4, SMT
<1>6. WholeAt(b, l, EOF)
  <2>1. ASSUME NEW i \in 1 .. u PROVE b[l + i] = Codes[EOF][i]
    <3>1. b[l + i] = BitAt(E, l + i)
      BY <1>5 DEF Carries
    <3>2. BitAt(E, l + i) = E[l + i]
      BY <1>4, <1>5 DEF BitAt
    <3> QED
      BY <1>2, <3>1, <3>2 DEF u
  <2> QED
    BY <1>4, <2>1 DEF WholeAt, u
<1>7. From(b)[l] = <<EOF>>
  BY <1>1, <1>5, <1>6, ParseHit
<1>8. Parsed(b) = SubSeq(p, 1, n) \o From(b)[l]
  BY <1>1, <1>5, ParsesBytes DEF l
<1>9. SubSeq(p, 1, n) = p
  BY SubSeqFull
<1>10. p \in Seq(Symbols)
  <2>1. Bytes \subseteq Symbols
    BY NodeNumbers, SMT
  <2> QED
    BY <2>1, SeqMonotonic
<1> QED
  BY <1>1, <1>7, <1>8, <1>9, <1>10, AppendIsConcat

\* The beginning of the codes: bytes, and no end symbol.
LEMMA ParsesPart ==
    ASSUME NEW p \in Seq(Bytes), NEW b \in Seq(Bit), Carries(b, p), Len(b) < Len(Encoded(p))
    PROVE  Parsed(b) \in Seq(Bytes)
<1> DEFINE n == Len(p)
           B == Len(b)
           T == {k \in Nat : k <= n + 1 /\ Len(FirstCodes(p, k)) > B}
<1>1. n \in Nat /\ B \in Nat
  BY LenProperties
<1>2. n + 1 \in T
  <2>1. Len(FirstCodes(p, n + 1)) > B
    <3>1. Encoded(p) = FirstCodes(p, n + 1) /\ Len(Encoded(p)) \in Nat
      BY EncodedIs
    <3>2. \A x \in Nat : B < x => x > B
      BY <1>1, SMT
    <3> HIDE DEF n, B
    <3> QED
      BY <3>1, <3>2 DEF B
  <2> QED
    BY <1>1, <2>1, SMT
<1>3. PICK m \in T : \A k \in T : m <= k
  <2> HIDE DEF T
  <2> QED
    BY <1>2, Least DEF T
<1>4. m \in Nat /\ m <= n + 1 /\ Len(FirstCodes(p, m)) > B
  BY <1>3
<1>5. 0 \in 0 .. n /\ FirstCodes(p, 0) = <<>> /\ Len(<<>>) = 0
  <2>1. 0 \in 0 .. n
    BY <1>1, SMT
  <2> QED
    BY <2>1, NextTyped, NextCode, EmptySeq DEF NextOf
<1>6. m # 0
  <2>1. ~ (0 > B)
    BY <1>1, SMT
  <2> QED
    BY <1>4, <1>5, <2>1
<1> DEFINE k == m - 1
           l == Len(FirstCodes(p, k))
           x == NextOf(p, k)
           u == Len(Codes[x])
<1>7. k \in Nat /\ k \in 0 .. n /\ m = k + 1 /\ k <= n + 1 /\ ~ (m <= k)
  BY <1>1, <1>4, <1>6, SMT
<1> HIDE DEF k
<1>8. /\ x \in Symbols /\ u \in 1 .. 24 /\ l \in Nat /\ Len(FirstCodes(p, k + 1)) = l + u
      /\ \A i \in 1 .. u : Encoded(p)[l + i] = Codes[x][i]
      /\ l + u <= Len(Encoded(p))
  BY <1>7, NextTyped, NextCode DEF NextOf
<1>9. ~ (l > B)
  <2>1. k \notin T
    BY <1>3, <1>7
  <2> QED
    BY <1>7, <2>1
<1>10. l + u > B
  BY <1>4, <1>7, <1>8
<1>a. Len(Encoded(p)) \in Nat
  BY EncodedIs
<1> HIDE DEF l, u, x, T
<1>11. l <= B /\ l \in 0 .. B
  <2> HIDE DEF B
  <2> QED
    BY <1>1, <1>8, <1>9, SMT
<1>12. ASSUME NEW t \in Symbols, WholeAt(b, l, t) PROVE FALSE
  <2> DEFINE v == Len(Codes[t])
             L == Len(Encoded(p))
  <2>1. v \in 1 .. 24 /\ l + v <= B /\ (\A i \in 1 .. v : b[l + i] = Codes[t][i]) /\ L \in Nat /\ l + u <= L
    BY <1>8, <1>12, <1>a, SymbolTyped DEF WholeAt
  <2>2. v < u /\ \A i \in 1 .. v : i \in 1 .. u /\ l + i \in 1 .. B /\ l + i <= L
    <3> HIDE DEF v, L, B
    <3> QED
      BY <1>1, <1>8, <1>10, <2>1, SMT
  <2>3. ASSUME NEW i \in 1 .. v PROVE Codes[t][i] = Codes[x][i]
    <3>1. b[l + i] = BitAt(Encoded(p), l + i)
      BY <2>2 DEF Carries
    <3>2. BitAt(Encoded(p), l + i) = Encoded(p)[l + i]
      BY <2>2 DEF BitAt
    <3> HIDE DEF v, L, B
    <3> QED
      BY <1>8, <2>1, <2>2, <3>1, <3>2
  <2>4. t = x
    BY <1>8, <2>3, PrefixFree
  <2>5. ~ (u < u)
    <3>1. \A y \in 1 .. 24 : ~ (y < y)
      BY SMT
    <3> QED
      BY <1>8, <3>1
  <2> QED
    BY <2>2, <2>4, <2>5 DEF u
<1>13. From(b)[l] = <<>>
  BY <1>11, <1>12, ParseMiss
<1>14. Parsed(b) = SubSeq(p, 1, k) \o From(b)[l]
  BY <1>7, <1>11, ParsesBytes DEF l
<1>15. SubSeq(p, 1, k) \in Seq(Bytes)
  <2>1. \A i \in 1 .. k : i \in 1 .. Len(p)
    BY <1>1, <1>7, SMT
  <2>2. \A i \in 1 .. k : p[i] \in Bytes
    BY <2>1, ElementOfSeq
  <2>3. 1 \in Int /\ k \in Int
    BY <1>7, SMT
  <2> QED
    BY <2>2, <2>3, SubSeqProperties
<1> QED
  BY <1>13, <1>14, <1>15, ConcatEmptySeq

-----------------------------------------------------------------------------
(* The writes of the compression *)

\* The bits of x are those of the bytes of out, and those of b behind them.
Holds(x, out, b) ==
    /\ 8 * Len(out) + Len(b) = Len(x)
    /\ \A m \in 1 .. Len(out), j \in 1 .. 8 : BitsOf(out[m])[j] = x[8 * (m - 1) + j]
    /\ \A j \in 1 .. Len(b) : b[j] = x[8 * Len(out) + j]

LEMMA HoldsMore ==
    ASSUME NEW x \in Seq(Bit), NEW out \in Seq(Bytes), NEW b \in Seq(Bit), NEW c \in Seq(Bit), Holds(x, out, b)
    PROVE  x \o c \in Seq(Bit) /\ b \o c \in Seq(Bit) /\ Len(b \o c) = Len(b) + Len(c) /\ Holds(x \o c, out, b \o c)
<1> DEFINE k == Len(out)
           l == Len(b)
           u == Len(c)
           L == Len(x)
<1>1. k \in Nat /\ l \in Nat /\ u \in Nat /\ L \in Nat
  BY LenProperties
<1>2. /\ 8 * k + l = L /\ (\A m \in 1 .. k, j \in 1 .. 8 : BitsOf(out[m])[j] = x[8 * (m - 1) + j])
      /\ \A j \in 1 .. l : b[j] = x[8 * k + j]
  BY DEF Holds
<1>3. /\ x \o c \in Seq(Bit) /\ Len(x \o c) = L + u
      /\ \A i \in 1 .. L + u : (x \o c)[i] = IF i <= L THEN x[i] ELSE c[i - L]
  BY ConcatProperties
<1>4. /\ b \o c \in Seq(Bit) /\ Len(b \o c) = l + u
      /\ \A i \in 1 .. l + u : (b \o c)[i] = IF i <= l THEN b[i] ELSE c[i - l]
  BY ConcatProperties
<1> DEFINE y == x \o c
           d == b \o c
<1> HIDE DEF k, l, u, L, y, d
<1>5. 8 * k + (l + u) = L + u
  BY <1>1, <1>2, SMT
<1>6. ASSUME NEW m \in 1 .. k, NEW j \in 1 .. 8 PROVE BitsOf(out[m])[j] = y[8 * (m - 1) + j]
  <2>1. 8 * (m - 1) + j \in 1 .. L + u /\ 8 * (m - 1) + j <= L
    BY <1>1, <1>2, SMT
  <2> QED
    BY <1>2, <1>3, <2>1 DEF y
<1>7. ASSUME NEW i \in 1 .. l + u PROVE d[i] = y[8 * k + i]
  <2>1. 8 * k + i \in 1 .. L + u
    BY <1>1, <1>2, SMT
  <2>2. y[8 * k + i] = IF 8 * k + i <= L THEN x[8 * k + i] ELSE c[(8 * k + i) - L]
    BY <1>3, <2>1 DEF y
  <2>3. d[i] = IF i <= l THEN b[i] ELSE c[i - l]
    BY <1>4 DEF d
  <2>4. CASE i <= l
    <3>1. i \in 1 .. l /\ 8 * k + i <= L
      BY <1>1, <1>2, <2>4, SMT
    <3> QED
      BY <1>2, <2>2, <2>3, <2>4, <3>1
  <2>5. CASE ~ (i <= l)
    <3>1. ~ (8 * k + i <= L) /\ (8 * k + i) - L = i - l
      BY <1>1, <1>2, <2>5, SMT
    <3> QED
      BY <2>2, <2>3, <2>5, <3>1
  <2> QED
    BY <2>4, <2>5
<1>8. Holds(y, out, d)
  <2>1. Len(y) = L + u /\ Len(d) = l + u
    BY <1>3, <1>4 DEF y, d
  <2> QED
    BY <1>5, <1>6, <1>7, <2>1 DEF Holds, k
<1> QED
  BY <1>3, <1>4, <1>8 DEF y, d, l, u

BytesOf(b) == [i \in 1 .. WholeBytes(b) |-> AsByte(SubSeq(b, 8 * i - 7, 8 * i))]

\* The n bytes w are written of b, and r stays.
Writes(x, out, b, n, w, r) ==
    /\ n \in Nat /\ 8 * n <= Len(b) /\ Len(b) < 8 * n + 8
    /\ w \in Seq(Bytes) /\ Len(w) = n
    /\ out \o w \in Seq(Bytes) /\ Len(out \o w) = Len(out) + n
    /\ r \in Seq(Bit) /\ Len(r) = Len(b) - 8 * n
    /\ Holds(x, out \o w, r)

LEMMA HoldsWritten ==
    ASSUME NEW x \in Seq(Bit), NEW out \in Seq(Bytes), NEW b \in Seq(Bit), Holds(x, out, b)
    PROVE  Writes(x, out, b, WholeBytes(b), BytesOf(b), SubSeq(b, 8 * WholeBytes(b) + 1, Len(b)))
<1> DEFINE n == WholeBytes(b)
           r == SubSeq(b, 8 * n + 1, Len(b))
<1> DEFINE k == Len(out)
           l == Len(b)
           w == BytesOf(b)
           o == out \o w
           P(m) == \A j \in 1 .. 8 : BitsOf(o[m])[j] = x[8 * (m - 1) + j]
<1>1. k \in Nat /\ l \in Nat /\ \A i \in 1 .. l : b[i] \in Bit
  BY LenProperties, ElementOfSeq
<1>2. n \in Nat /\ 8 * n <= l /\ l < 8 * n + 8
  <2>1. n = l \div 8
    BY DEF WholeBytes
  <2> HIDE DEF l
  <2> QED
    BY <1>1, <2>1, SMT
<1>3. /\ 8 * k + l = Len(x) /\ (\A m \in 1 .. k, j \in 1 .. 8 : BitsOf(out[m])[j] = x[8 * (m - 1) + j])
      /\ \A j \in 1 .. l : b[j] = x[8 * k + j]
  BY DEF Holds
<1>4. r \in Seq(Bit) /\ Len(r) = l - 8 * n /\ \A i \in 1 .. l - 8 * n : r[i] = b[8 * n + i]
  <2> DEFINE q == 8 * n
  <2>1. q \in 0 .. Len(b)
    BY <1>1, <1>2, SMT
  <2>2. r = SubSeq(b, q + 1, Len(b))
    OBVIOUS
  <2> HIDE DEF q
  <2>3. IsRest(r, b, q, Bit)
    BY <2>1, <2>2, RestIs
  <2> QED
    BY <2>3 DEF IsRest, q
<1>5. ASSUME NEW i \in 1 .. n
      PROVE  w[i] \in Bytes /\ \A j \in 1 .. 8 : BitsOf(w[i])[j] = b[8 * (i - 1) + j]
  <2> DEFINE a == 8 * i - 7
             e == 8 * i
             c == SubSeq(b, a, e)
  <2>1. /\ a \in Int /\ e \in Int /\ a <= e /\ e - a + 1 = 8 /\ (\A h \in a .. e : h \in 1 .. l)
        /\ \A j \in 1 .. 8 : a + j - 1 = 8 * (i - 1) + j
    <3> HIDE DEF l
    <3> QED
      BY <1>1, <1>2, SMT
  <2>2. \A h \in a .. e : b[h] \in Bit
    BY <1>1, <2>1
  <2>3. w[i] = AsByte(c)
    BY DEF BytesOf
  <2> HIDE DEF a, e
  <2>4. /\ c \in Seq(Bit) /\ Len(c) = IF a <= e THEN e - a + 1 ELSE 0
        /\ \A j \in 1 .. e - a + 1 : c[j] = b[a + j - 1]
    BY <2>1, <2>2, SubSeqProperties
  <2>5. c \in Seq(Bit) /\ Len(c) = 8 /\ \A j \in 1 .. 8 : c[j] = b[8 * (i - 1) + j]
    BY <2>1, <2>4
  <2> HIDE DEF c
  <2>6. AsByte(c) \in Bytes /\ \A j \in 1 .. 8 : BitsOf(AsByte(c))[j] = c[j]
    BY <2>5, ByteOfBits
  <2> HIDE DEF w
  <2> QED
    BY <2>3, <2>5, <2>6
<1>6. w \in Seq(Bytes) /\ Len(w) = n
  <2>1. w = [i \in 1 .. n |-> w[i]]
    BY DEF BytesOf
  <2> HIDE DEF w
  <2>2. w \in [1 .. n -> Bytes]
    BY <1>5, <2>1
  <2> QED
    BY <1>2, <2>2, FunctionIsSeq
<1> HIDE DEF w, k, l
<1>7. /\ o \in Seq(Bytes) /\ Len(o) = k + n
      /\ \A i \in 1 .. k + n : o[i] = IF i <= k THEN out[i] ELSE w[i - k]
  BY <1>6, ConcatProperties DEF k
<1> HIDE DEF o
<1>8. ASSUME NEW m \in 1 .. k + n, NEW j \in 1 .. 8 PROVE BitsOf(o[m])[j] = x[8 * (m - 1) + j]
  <2>1. CASE m <= k
    <3>1. m \in 1 .. k
      BY <1>1, <2>1, SMT
    <3>2. o[m] = out[m]
      BY <1>7, <2>1
    <3> QED
      BY <1>3, <3>1, <3>2
  <2>2. CASE ~ (m <= k)
    <3> DEFINE i == m - k
               h == 8 * (i - 1) + j
    <3>1. i \in 1 .. n /\ h \in 1 .. l /\ 8 * k + h = 8 * (m - 1) + j
      BY <1>1, <1>2, <2>2, SMT
    <3>2. o[m] = w[i]
      BY <1>7, <2>2
    <3> HIDE DEF i
    <3>3. BitsOf(w[i])[j] = b[h]
      BY <1>5, <3>1
    <3> HIDE DEF h
    <3>4. b[h] = x[8 * k + h]
      BY <1>3, <3>1
    <3> QED
      BY <3>1, <3>2, <3>3, <3>4
  <2> QED
    BY <2>1, <2>2
<1>9. ASSUME NEW i \in 1 .. Len(r) PROVE r[i] = x[8 * (k + n) + i]
  <2> DEFINE h == 8 * n + i
  <2>1. i \in 1 .. l - 8 * n
    BY <1>4
  <2>2. h \in 1 .. l /\ 8 * k + h = 8 * (k + n) + i
    <3>1. i \in Int /\ 1 <= i /\ i <= l - 8 * n
      BY <1>1, <1>2, <2>1, SMT
    <3>2. 8 * n + i \in Int /\ 1 <= 8 * n + i
      BY <1>2, <3>1, SMT
    <3>3. 8 * n + i <= l
      BY <1>1, <1>2, <3>1, SMT
    <3>4. 8 * k + (8 * n + i) = 8 * (k + n) + i
      BY <1>1, <1>2, <3>1, SMT
    <3> QED
      BY <3>2, <3>3, <3>4
  <2>3. r[i] = b[h]
    BY <1>4, <2>1
  <2> HIDE DEF h
  <2>4. b[h] = x[8 * k + h]
    BY <1>3, <2>2
  <2> QED
    BY <2>2, <2>3, <2>4
<1>10. 8 * (k + n) + (l - 8 * n) = 8 * k + l
  BY <1>1, <1>2, SMT
<1>11. Holds(x, o, r)
  BY <1>3, <1>4, <1>7, <1>8, <1>9, <1>10 DEF Holds
<1> QED
  BY <1>2, <1>4, <1>6, <1>7, <1>11 DEF o, w, k, l, Writes

LEMMA LesserOf ==
    ASSUME NEW a \in Int, NEW c \in Int
    PROVE  Min({a, c}) = IF a <= c THEN a ELSE c
<1> DEFINE m == IF a <= c THEN a ELSE c
<1>1. m \in {a, c} /\ \A y \in {a, c} : m <= y
  BY SMT
<1>2. ASSUME NEW z \in {a, c}, \A y \in {a, c} : z <= y PROVE z = m
  BY <1>2, SMT
<1> HIDE DEF m
<1>3. (CHOOSE z \in {a, c} : \A y \in {a, c} : z <= y) = m
  BY <1>1, <1>2
<1> QED
  BY <1>3 DEF Min, m

-----------------------------------------------------------------------------
(* The inductive invariant *)

HuffmanTyped ==
    /\ phase \in {"idle", "compress", "compressed", "decompress", "decompressed"}
    /\ plain \in Seq(Bytes) /\ input \in Seq(Bytes) /\ src \in Seq(Bytes) /\ output \in Seq(Bytes)
    /\ room \in Nat /\ Len(output) <= room
    /\ bits \in Seq(Bit) /\ bitcount \in 0 .. CountWrap - 1 /\ Len(bits) <= bitcount
    /\ phase \in {"idle", "compress", "decompress"} => err = "NONE"
    /\ phase = "idle" => plain = <<>>

\* What is written and loaded are the codes of the bytes that were taken.
Compressing ==
    /\ Suffix(src, plain) /\ bitcount = Len(bits) /\ bitcount < 8
    /\ Holds(FirstCodes(plain, Len(plain) - Len(src)), output, bits)

Needed(p) == (Len(Encoded(p)) + 7) \div 8

SameBits(s, p) == \A m \in 1 .. Len(s), j \in 1 .. 8 : BitsOf(s[m])[j] = BitAt(Encoded(p), 8 * (m - 1) + j)

Compressed ==
    IF Needed(plain) > room THEN err = "BUFFER_FULL"
    ELSE err = "NONE" /\ Len(output) = Needed(plain) /\ SameBits(output, plain)

Own == Len(input) <= Needed(plain) /\ SameBits(input, plain)

\* bitcount is below 0: all was taken, and the stream ends inside of a code.
Lost == bits = <<>> /\ src = <<>> /\ ~ Whole(input)

Decompressing ==
    \/ Lost
    \/ bitcount = Len(bits) /\ bitcount < WordBits /\ OnTrack(input, src, bits, output)

Decompressed ==
    \/ err = "NONE" /\ Parsed(Stream(input)) = Append(output, EOF)
    \/ /\ err = "BUFFER_FULL" /\ Len(output) = room
       /\ Whole(input) => /\ Len(Parsed(Stream(input))) >= room + 2
                          /\ \A i \in 1 .. room : Parsed(Stream(input))[i] = output[i]
    \/ err \notin {"NONE", "BUFFER_FULL"} /\ ~ Whole(input)

HuffmanInv ==
    /\ HuffmanTyped
    /\ phase = "compress" => Compressing
    /\ phase = "compressed" => Compressed
    /\ phase \in {"decompress", "decompressed"} /\ plain # <<>> => Own
    /\ phase = "decompress" => Decompressing
    /\ phase = "decompressed" => Decompressed

LEMMA Wrap == CountWrap \in Nat /\ CountWrap > 100
  BY SMT DEF CountWrap

LEMMA HuffmanInit == Init => HuffmanInv
<1> SUFFICES ASSUME Init PROVE HuffmanInv
  OBVIOUS
<1>1. <<>> \in Seq(Bytes) /\ <<>> \in Seq(Bit) /\ Len(<<>>) = 0
  BY EmptySeq
<1>2. 0 \in Nat /\ 0 <= 0 /\ 0 \in 0 .. CountWrap - 1
  BY Wrap, SMT
<1>3. HuffmanTyped
  BY <1>1, <1>2 DEF Init, HuffmanTyped
<1> QED
  BY <1>3 DEF Init, HuffmanInv

LEMMA StutterKeeps == HuffmanInv /\ UNCHANGED vars => HuffmanInv'
  BY DEF HuffmanInv, HuffmanTyped, Compressing, Compressed, Own, Lost, Decompressing, Decompressed, vars

LEMMA CompressKeeps ==
    ASSUME HuffmanInv, Compress
    PROVE  HuffmanInv'
<1>1. PICK p \in Plains, out \in Rooms : Call("compress", p, out) /\ plain' = p
  BY DEF Compress
<1>2. p \in Seq(Bytes) /\ out \in Nat
  BY HuffmanAssumption
<1>3. /\ phase' = "compress" /\ input' = p /\ src' = p /\ room' = out /\ output' = <<>>
      /\ bits' = <<>> /\ bitcount' = 0 /\ plain' = p /\ err' = "NONE"
  BY <1>1 DEF Compress, Call, HuffmanInv, HuffmanTyped
<1>4. <<>> \in Seq(Bytes) /\ <<>> \in Seq(Bit) /\ Len(<<>>) = 0 /\ Len(p) \in Nat
  BY <1>2, EmptySeq, LenProperties
<1>5. 0 <= out /\ 0 \in 0 .. CountWrap - 1 /\ 0 <= 0 /\ 0 < 8 /\ Len(p) <= Len(p) /\ Len(p) - Len(p) = 0
      /\ 0 \in 0 .. Len(p) /\ (\A i \in 1 .. Len(p) : 0 + i = i) /\ (\A i \in 1 .. 0 : FALSE) /\ 8 * 0 + 0 = 0
  BY <1>2, <1>4, Wrap, SMT
<1>6. HuffmanTyped'
  BY <1>2, <1>3, <1>4, <1>5 DEF HuffmanTyped
<1>7. Suffix(p, p)
  BY <1>5 DEF Suffix
<1>8. FirstCodes(p, 0) = <<>>
  BY <1>2, <1>5, NextTyped, NextCode DEF NextOf
<1>9. Holds(<<>>, <<>>, <<>>)
  BY <1>4, <1>5 DEF Holds
<1>10. Compressing'
  BY <1>3, <1>4, <1>5, <1>7, <1>8, <1>9 DEF Compressing
<1> QED
  BY <1>3, <1>6, <1>10 DEF HuffmanInv

\* What the write of the whole bytes of b leaves in output.
LEMMA WriteIs ==
    ASSUME NEW o \in Seq(Bytes), NEW w \in Seq(Bytes), NEW r \in Nat, NEW n \in Nat, Len(w) = n,
           NEW z, z = SubSeq(o \o w, 1, Min({r, Len(o) + n}))
    PROVE  /\ z \in Seq(Bytes) /\ Len(z) <= r
           /\ ~ (Len(o) + n > r) => z = o \o w
<1> DEFINE m == Min({r, Len(o) + n})
           y == o \o w
<1>1. Len(o) \in Nat /\ y \in Seq(Bytes) /\ Len(y) = Len(o) + n
  BY LenProperties, ConcatProperties
<1>2. m = IF r <= Len(o) + n THEN r ELSE Len(o) + n
  <2>1. r \in Int /\ Len(o) + n \in Int
    BY <1>1, SMT
  <2> QED
    BY <2>1, LesserOf
<1> HIDE DEF m, y
<1>3. m \in Nat /\ m <= r /\ m <= Len(y) /\ (~ (Len(o) + n > r) => m = Len(y)) /\ 1 \in Int /\ m \in Int
      /\ (\A i \in 1 .. m : i \in 1 .. Len(y)) /\ (IF 1 <= m THEN m - 1 + 1 ELSE 0) = m
  BY <1>1, <1>2, SMT
<1>4. \A i \in 1 .. m : y[i] \in Bytes
  BY <1>1, <1>3, ElementOfSeq
<1>5. SubSeq(y, 1, m) \in Seq(Bytes) /\ Len(SubSeq(y, 1, m)) = IF 1 <= m THEN m - 1 + 1 ELSE 0
  BY <1>3, <1>4, SubSeqProperties
<1>6. m = Len(y) => SubSeq(y, 1, m) = y
  BY <1>1, SubSeqFull
<1>7. z = SubSeq(y, 1, m)
  BY DEF y, m
<1> QED
  BY <1>3, <1>5, <1>6, <1>7 DEF y

LEMMA CompressByteKeeps ==
    ASSUME HuffmanInv, CompressByte
    PROVE  HuffmanInv'
<1> DEFINE p == plain
           k == Len(p) - Len(src)
           u == Head(src)
           b == bits \o Codes[u]
           n == WholeBytes(b)
           w == BytesOf(b)
           r == SubSeq(b, 8 * n + 1, Len(b))
           x == FirstCodes(p, k)
           y == FirstCodes(p, k + 1)
<1>1. HuffmanTyped /\ Compressing /\ phase = "compress" /\ err = "NONE"
  BY DEF HuffmanInv, HuffmanTyped, CompressByte
<1>2. /\ src # <<>> /\ src' = Tail(src) /\ Write(b) /\ UNCHANGED <<plain, input, room>>
      /\ NoRoom(b) => phase' = "compressed" /\ err' = "BUFFER_FULL"
      /\ ~ NoRoom(b) => UNCHANGED <<phase, err>>
  BY DEF CompressByte, Return
<1>3. /\ p \in Seq(Bytes) /\ input \in Seq(Bytes) /\ src \in Seq(Bytes) /\ output \in Seq(Bytes)
      /\ room \in Nat /\ bits \in Seq(Bit)
  BY <1>1 DEF HuffmanTyped
<1>4. Suffix(src, p) /\ Holds(x, output, bits)
  BY <1>1 DEF Compressing
<1>5. /\ Len(p) \in Nat /\ Len(src) \in Nat \ {0} /\ Len(output) \in Nat
      /\ Tail(src) \in Seq(Bytes) /\ Len(Tail(src)) = Len(src) - 1
      /\ \A i \in 1 .. Len(Tail(src)) : Tail(src)[i] = src[i + 1]
  BY <1>2, <1>3, LenProperties, EmptySeq, HeadTailProperties
<1>6. k \in 0 .. Len(p) /\ k < Len(p) /\ k + 1 = Len(p) - Len(Tail(src))
      /\ Len(Tail(src)) <= Len(p) /\ 1 \in 1 .. Len(src)
      /\ \A i \in 1 .. Len(Tail(src)) : i + 1 \in 1 .. Len(src) /\ k + (i + 1) = (k + 1) + i
  <2>1. Len(src) <= Len(p)
    BY <1>4 DEF Suffix
  <2> QED
    BY <1>5, <2>1, SMT
<1>7. u = p[k + 1]
  <2>1. u = src[1]
    BY <1>2, <1>3, SMT
  <2>2. src[1] = p[Len(p) - Len(src) + 1]
    BY <1>4, <1>6 DEF Suffix
  <2> QED
    BY <2>1, <2>2
<1>8. u = NextOf(p, k) /\ u \in Symbols /\ Codes[u] \in Seq(Bit)
  <2>1. u = NextOf(p, k)
    BY <1>6, <1>7 DEF NextOf
  <2> HIDE DEF u, k
  <2> QED
    BY <1>3, <1>6, <2>1, NextTyped, SymbolTyped, CodeTyped
<1>9. Suffix(Tail(src), p)
  <2>1. ASSUME NEW i \in 1 .. Len(Tail(src)) PROVE Tail(src)[i] = p[Len(p) - Len(Tail(src)) + i]
    <3>1. Tail(src)[i] = src[i + 1]
      BY <1>5
    <3>2. src[i + 1] = p[k + (i + 1)]
      BY <1>4, <1>6 DEF Suffix
    <3> HIDE DEF k
    <3> QED
      BY <1>6, <3>1, <3>2
  <2> QED
    BY <1>6, <2>1 DEF Suffix
<1> HIDE DEF u, k
<1>10. y = x \o Codes[u] /\ x \in Seq(Bit) /\ Len(y) <= Len(Encoded(p)) /\ Len(Encoded(p)) \in Nat
  BY <1>3, <1>6, <1>8, NextCode, EncodedIs DEF NextOf
<1> HIDE DEF x, y
<1>11. y \in Seq(Bit) /\ b \in Seq(Bit) /\ Holds(y, output, b)
  BY <1>3, <1>4, <1>8, <1>10, HoldsMore
<1> HIDE DEF b
<1>12. /\ n \in Nat /\ 8 * n <= Len(b) /\ Len(b) < 8 * n + 8
       /\ w \in Seq(Bytes) /\ Len(w) = n
       /\ output \o w \in Seq(Bytes) /\ Len(output \o w) = Len(output) + n
       /\ r \in Seq(Bit) /\ Len(r) = Len(b) - 8 * n /\ Holds(y, output \o w, r)
  <2>1. Writes(y, output, b, n, w, r)
    BY <1>3, <1>11, HoldsWritten
  <2> QED
    BY <2>1 DEF Writes
<1>14. /\ output' = SubSeq(output \o w, 1, Min({room, Len(output) + n}))
       /\ bits' = r /\ bitcount' = Len(b) - 8 * n
  BY <1>2 DEF Write, BytesOf
<1> HIDE DEF w, r, n
<1>15. output' \in Seq(Bytes) /\ Len(output') <= room /\ (~ (Len(output) + n > room) => output' = output \o w)
  BY <1>3, <1>12, <1>14, WriteIs
<1>16. bitcount' = Len(r) /\ Len(r) \in Nat /\ Len(r) < 8 /\ Len(r) \in 0 .. CountWrap - 1 /\ Len(r) <= Len(r)
  <2>1. Len(b) \in Nat
    BY <1>11, LenProperties
  <2> QED
    BY <1>12, <1>14, <2>1, Wrap, SMT
<1>17. NoRoom(b) <=> Len(output) + n > room
  BY DEF NoRoom, n
<1>18. CASE NoRoom(b)
  <2>1. phase' = "compressed" /\ err' = "BUFFER_FULL"
    BY <1>2, <1>18
  <2>2. Needed(p) > room
    <3>1. 8 * Len(output) + Len(b) = Len(y) /\ Len(b) \in Nat
      BY <1>11, LenProperties DEF Holds
    <3>2. Len(output) + n > room
      BY <1>17, <1>18
    <3> DEFINE E == Len(Encoded(p))
               L == Len(y)
               o == Len(output)
               l == Len(b)
    <3>3. E \in Nat /\ L <= E /\ 8 * o + l = L /\ l \in Nat /\ o \in Nat /\ 8 * n <= l /\ o + n > room
      BY <1>5, <1>10, <1>12, <3>1, <3>2
    <3> HIDE DEF E, L, o, l
    <3>4. (E + 7) \div 8 > room
      BY <1>3, <1>12, <3>3, SMT
    <3> QED
      BY <3>4 DEF Needed, E
  <2>3. HuffmanTyped'
    BY <1>2, <1>3, <1>5, <1>12, <1>14, <1>15, <1>16, <2>1 DEF HuffmanTyped
  <2>4. Compressed'
    BY <1>2, <2>1, <2>2 DEF Compressed
  <2> QED
    BY <2>1, <2>3, <2>4 DEF HuffmanInv
<1>19. CASE ~ NoRoom(b)
  <2>1. phase' = "compress" /\ err' = "NONE" /\ output' = output \o w
    BY <1>1, <1>2, <1>15, <1>17, <1>19
  <2>2. HuffmanTyped'
    BY <1>2, <1>3, <1>5, <1>12, <1>14, <1>15, <1>16, <2>1 DEF HuffmanTyped
  <2>3. Holds(FirstCodes(plain', Len(plain') - Len(src')), output', bits')
    <3>1. Len(plain') - Len(src') = k + 1 /\ plain' = p
      BY <1>2, <1>6
    <3> QED
      BY <1>12, <1>14, <2>1, <3>1 DEF y
  <2>4. Compressing'
    BY <1>2, <1>9, <1>14, <1>16, <2>3 DEF Compressing
  <2> QED
    BY <2>1, <2>2, <2>4 DEF HuffmanInv
<1> QED
  BY <1>18, <1>19

LEMMA ZerosAre ==
    ASSUME NEW n \in Nat
    PROVE  Zeros(n) \in Seq(Bit) /\ Len(Zeros(n)) = n /\ \A i \in 1 .. n : Zeros(n)[i] = 0
<1> DEFINE z == Zeros(n)
<1>1. z = [i \in 1 .. n |-> 0]
  BY DEF Zeros
<1> HIDE DEF z
<1>2. (\A i \in 1 .. n : z[i] = 0) /\ z \in [1 .. n -> Bit]
  BY <1>1 DEF Bit
<1>3. z \in Seq(Bit) /\ Len(z) = n
  BY <1>2, FunctionIsSeq
<1> QED
  BY <1>2, <1>3 DEF z

LEMMA CompressEndKeeps ==
    ASSUME HuffmanInv, CompressEnd
    PROVE  HuffmanInv'
<1> DEFINE p == plain
           E == Encoded(p)
           c == bits \o Codes[EOF]
           z == (8 - (Len(c) % 8)) % 8
           x == E \o Zeros(z)
           b == LastBits(c)
           n == WholeBytes(b)
           w == BytesOf(b)
           r == SubSeq(b, 8 * n + 1, Len(b))
<1>1. HuffmanTyped /\ Compressing /\ phase = "compress" /\ err = "NONE"
  BY DEF HuffmanInv, HuffmanTyped, CompressEnd
<1>2. /\ src = <<>> /\ Write(b) /\ UNCHANGED <<plain, input, src, room>>
      /\ phase' = "compressed" /\ err' = IF NoRoom(b) THEN "BUFFER_FULL" ELSE "NONE"
  BY DEF CompressEnd, Return
<1>3. /\ p \in Seq(Bytes) /\ input \in Seq(Bytes) /\ src \in Seq(Bytes) /\ output \in Seq(Bytes)
      /\ room \in Nat /\ bits \in Seq(Bit) /\ Len(output) \in Nat
  BY <1>1, LenProperties DEF HuffmanTyped
<1>4. E = FirstCodes(p, Len(p)) \o Codes[EOF] /\ E \in Seq(Bit) /\ Len(E) \in Nat
  BY <1>3, EncodedIs
<1>5. FirstCodes(p, Len(p)) \in Seq(Bit) /\ Codes[EOF] \in Seq(Bit)
  <2>1. Len(p) \in Nat /\ EOF \in Symbols
    BY <1>3, CodeListTyped
  <2>2. Len(p) \in 0 .. Len(p)
    BY <2>1, SMT
  <2>3. FirstCodes(p, Len(p)) \in Seq(Bit)
    BY <1>3, <2>2, NextTyped, NextCode DEF NextOf
  <2> QED
    BY <2>1, <2>3, SymbolTyped, CodeTyped
<1>6. Holds(FirstCodes(p, Len(p)), output, bits)
  <2>1. Len(p) \in Nat /\ Len(src) = 0
    BY <1>2, <1>3, LenProperties, EmptySeq
  <2>2. Len(p) - Len(src) = Len(p)
    BY <2>1, SMT
  <2> QED
    BY <1>1, <2>2 DEF Compressing
<1>7. c \in Seq(Bit) /\ Holds(E, output, c) /\ Len(c) \in Nat
  <2>1. c \in Seq(Bit) /\ Holds(E, output, c)
    BY <1>3, <1>4, <1>5, <1>6, HoldsMore
  <2> QED
    BY <2>1, LenProperties
<1> HIDE DEF c
<1>8. z \in 0 .. 7 /\ z \in Nat /\ (Len(c) + z) % 8 = 0
  <2> DEFINE l == Len(c)
  <2>1. l \in Nat
    BY <1>7
  <2> HIDE DEF l
  <2>2. (8 - (l % 8)) % 8 \in 0 .. 7 /\ (8 - (l % 8)) % 8 \in Nat
    BY <2>1, SMT
  <2>3. (l + ((8 - (l % 8)) % 8)) % 8 = 0
    BY <2>1, SMT
  <2> QED
    BY <2>2, <2>3 DEF l
<1>9. b = c \o Zeros(z)
  BY DEF LastBits
<1>10. Zeros(z) \in Seq(Bit) /\ Len(Zeros(z)) = z /\ \A i \in 1 .. z : Zeros(z)[i] = 0
  <2> HIDE DEF z
  <2> QED
    BY <1>8, ZerosAre
<1> HIDE DEF E, z, b
<1>11. x \in Seq(Bit) /\ b \in Seq(Bit) /\ Len(b) = Len(c) + z /\ Holds(x, output, b)
  <2> DEFINE s == Zeros(z)
  <2>1. s \in Seq(Bit) /\ Len(s) = z
    BY <1>10
  <2> HIDE DEF s
  <2>2. E \o s \in Seq(Bit) /\ c \o s \in Seq(Bit) /\ Len(c \o s) = Len(c) + Len(s)
    BY <1>4, <1>7, <2>1, ConcatProperties
  <2>3. Holds(E \o s, output, c \o s)
    BY <1>3, <1>4, <1>7, <2>1, HoldsMore
  <2> QED
    BY <1>9, <2>1, <2>2, <2>3 DEF s, x
<1>12. /\ Len(x) = Len(E) + z
       /\ \A i \in 1 .. Len(E) + z : x[i] = BitAt(E, i)
  <2> DEFINE s == Zeros(z)
  <2>1. s \in Seq(Bit) /\ Len(s) = z /\ \A i \in 1 .. z : s[i] = 0
    BY <1>10
  <2> HIDE DEF s
  <2>2. /\ Len(E \o s) = Len(E) + z
        /\ \A i \in 1 .. Len(E) + z : (E \o s)[i] = IF i <= Len(E) THEN E[i] ELSE s[i - Len(E)]
    BY <1>4, <2>1, ConcatProperties
  <2>3. \A i \in 1 .. Len(E) + z : ~ (i <= Len(E)) => i - Len(E) \in 1 .. z
    BY <1>4, <1>8, SMT
  <2>4. \A i \in 1 .. Len(E) + z : (E \o s)[i] = BitAt(E, i)
    BY <2>1, <2>2, <2>3 DEF BitAt
  <2> QED
    BY <2>2, <2>4 DEF s
<1> HIDE DEF x
<1>13. /\ n \in Nat /\ 8 * n <= Len(b) /\ Len(b) < 8 * n + 8
       /\ w \in Seq(Bytes) /\ Len(w) = n
       /\ output \o w \in Seq(Bytes) /\ Len(output \o w) = Len(output) + n
       /\ r \in Seq(Bit) /\ Len(r) = Len(b) - 8 * n
       /\ Holds(x, output \o w, r)
  <2>1. Writes(x, output, b, n, w, r)
    BY <1>3, <1>11, HoldsWritten
  <2> QED
    BY <2>1 DEF Writes
<1>14. /\ output' = SubSeq(output \o w, 1, Min({room, Len(output) + n}))
       /\ bits' = r /\ bitcount' = Len(b) - 8 * n
  BY <1>2 DEF Write, BytesOf
<1>15. NoRoom(b) <=> Len(output) + n > room
  BY DEF NoRoom
<1> HIDE DEF w, r, n
<1>16. output' \in Seq(Bytes) /\ Len(output') <= room /\ (~ (Len(output) + n > room) => output' = output \o w)
  BY <1>3, <1>13, <1>14, WriteIs
<1>17. Len(r) = 0 /\ Len(output) + n = Needed(p) /\ 8 * (Len(output) + n) = Len(E) + z
  <2> DEFINE l == Len(b)
             o == Len(output)
             e == Len(E)
             d == Len(c)
  <2>1. /\ n \in Nat /\ 8 * n <= l /\ l < 8 * n + 8 /\ Len(r) = l - 8 * n /\ l = d + z /\ (d + z) % 8 = 0
        /\ d \in Nat /\ e \in Nat /\ o \in Nat /\ 8 * o + d = e /\ z \in 0 .. 7
    BY <1>3, <1>4, <1>7, <1>8, <1>11, <1>13 DEF Holds
  <2> HIDE DEF l, o, e, d
  <2>2. l = 8 * n
    BY <2>1, SMT
  <2>3. 8 * (o + n) = e + z
    BY <2>1, <2>2, SMT
  <2>4. (e + 7) \div 8 = o + n
    BY <2>1, <2>3, SMT
  <2>5. l - 8 * n = 0
    BY <2>1, <2>2, SMT
  <2> QED
    BY <2>1, <2>3, <2>4, <2>5 DEF o, e, Needed, E
<1>18. HuffmanTyped'
  <2>1. bitcount' = 0 /\ Len(bits') = 0 /\ 0 \in 0 .. CountWrap - 1 /\ 0 <= 0
    BY <1>13, <1>14, <1>17, Wrap, SMT
  <2> QED
    BY <1>2, <1>3, <1>13, <1>14, <1>16, <2>1 DEF HuffmanTyped
<1>19. Compressed'
  <2>1. CASE Len(output) + n > room
    BY <1>2, <1>15, <1>17, <2>1 DEF Compressed
  <2>2. CASE ~ (Len(output) + n > room)
    <3>1. err' = "NONE" /\ output' = output \o w /\ Len(output') = Needed(p) /\ ~ (Needed(p) > room)
      BY <1>2, <1>13, <1>15, <1>16, <1>17, <2>2
    <3>2. SameBits(output \o w, p)
      <4> DEFINE y == output \o w
                 N == Len(output) + n
      <4>a. Len(y) = N /\ N \in Nat /\ 8 * N = Len(E) + z
        BY <1>3, <1>13, <1>17
      <4>1. Len(y) = N /\ N \in Nat /\ 8 * N = Len(E) + z
            /\ \A m \in 1 .. Len(y), j \in 1 .. 8 : BitsOf(y[m])[j] = x[8 * (m - 1) + j]
        BY <1>13, <4>a DEF Holds
      <4> HIDE DEF y, N
      <4>2. ASSUME NEW m \in 1 .. N, NEW j \in 1 .. 8
            PROVE  BitsOf(y[m])[j] = BitAt(E, 8 * (m - 1) + j)
        <5> DEFINE i == 8 * (m - 1) + j
        <5>1. i \in 1 .. 8 * N
          BY <4>1, SMT
        <5>2. BitsOf(y[m])[j] = x[i]
          BY <4>1
        <5> HIDE DEF i
        <5>3. x[i] = BitAt(E, i)
          BY <1>12, <4>1, <5>1
        <5> QED
          BY <5>2, <5>3 DEF i
      <4> QED
        BY <4>1, <4>2 DEF SameBits, E, y
    <3> QED
      BY <1>2, <3>1, <3>2 DEF Compressed
  <2> QED
    BY <2>1, <2>2
<1> QED
  BY <1>2, <1>18, <1>19 DEF HuffmanInv

LEMMA DecompressStarts ==
    ASSUME NEW in \in Seq(Bytes), NEW out \in Nat, HuffmanTyped, Call("decompress", in, out), UNCHANGED plain, err' = "NONE"
    PROVE  HuffmanTyped' /\ Decompressing' /\ phase' = "decompress" /\ input' = in
<1>1. /\ phase' = "decompress" /\ input' = in /\ src' = in /\ room' = out /\ output' = <<>>
      /\ bits' = <<>> /\ bitcount' = 0 /\ plain' = plain /\ plain \in Seq(Bytes)
  BY DEF Call, HuffmanTyped
<1>2. <<>> \in Seq(Bytes) /\ <<>> \in Seq(Bit) /\ Len(<<>>) = 0
  BY EmptySeq
<1>3. 0 <= out /\ 0 \in 0 .. CountWrap - 1 /\ 0 <= 0 /\ 0 < WordBits
  BY Wrap, NodeNumbers, SMT
<1>4. HuffmanTyped'
  BY <1>1, <1>2, <1>3 DEF HuffmanTyped
<1>5. OnTrack(in, in, <<>>, <<>>)
  BY StartsOnTrack
<1>6. Decompressing'
  BY <1>1, <1>2, <1>3, <1>5 DEF Decompressing
<1> QED
  BY <1>1, <1>4, <1>6

LEMMA DecompressForeignKeeps ==
    ASSUME HuffmanInv, DecompressForeign
    PROVE  HuffmanInv'
<1>1. HuffmanTyped /\ phase = "idle" /\ err = "NONE" /\ plain = <<>>
  BY DEF HuffmanInv, HuffmanTyped, DecompressForeign
<1>a. PICK n \in Sizes : \E in \in [1 .. n -> Bytes], out \in Rooms : Call("decompress", in, out)
  BY DEF DecompressForeign
<1>2. PICK in \in [1 .. n -> Bytes], out \in Rooms : Call("decompress", in, out)
  BY <1>a
<1>3. n \in Nat /\ out \in Nat /\ in \in Seq(Bytes)
  <2>1. n \in Nat /\ out \in Nat
    BY HuffmanAssumption
  <2> QED
    BY <2>1, FunctionIsSeq
<1>4. UNCHANGED plain /\ err' = "NONE"
  BY <1>1 DEF DecompressForeign
<1>5. HuffmanTyped' /\ Decompressing' /\ phase' = "decompress"
  BY <1>1, <1>2, <1>3, <1>4, DecompressStarts
<1> QED
  BY <1>1, <1>4, <1>5 DEF HuffmanInv

LEMMA DecompressOwnKeeps ==
    ASSUME HuffmanInv, DecompressOwn
    PROVE  HuffmanInv'
<1>1. HuffmanTyped /\ phase = "compressed" /\ err = "NONE" /\ Compressed
  BY DEF HuffmanInv, HuffmanTyped, DecompressOwn
<1>2. PICK cut \in Cuts, out \in Rooms :
         cut <= Len(output) /\ Call("decompress", SubSeq(output, 1, Len(output) - cut), out)
  BY DEF DecompressOwn
<1> DEFINE l == Len(output) - cut
           in == SubSeq(output, 1, l)
<1>3. output \in Seq(Bytes) /\ Len(output) \in Nat /\ cut \in Nat /\ out \in Nat
  BY <1>1, HuffmanAssumption, LenProperties DEF HuffmanTyped
<1>4. l \in Nat /\ l <= Len(output) /\ 1 \in Int /\ l \in Int /\ (\A i \in 1 .. l : i \in 1 .. Len(output))
      /\ (IF 1 <= l THEN l - 1 + 1 ELSE 0) = l /\ l - 1 + 1 = l /\ \A i \in 1 .. l : 1 + i - 1 = i
  BY <1>2, <1>3, SMT
<1> HIDE DEF l
<1>5. in \in Seq(Bytes) /\ Len(in) = l /\ \A i \in 1 .. l : in[i] = output[i]
  <2>1. \A i \in 1 .. l : output[i] \in Bytes
    BY <1>3, <1>4, ElementOfSeq
  <2>2. /\ in \in Seq(Bytes) /\ Len(in) = IF 1 <= l THEN l - 1 + 1 ELSE 0
        /\ \A i \in 1 .. l - 1 + 1 : in[i] = output[1 + i - 1]
    BY <1>4, <2>1, SubSeqProperties
  <2> QED
    BY <1>4, <2>2
<1>6. Call("decompress", in, out)
  BY <1>2 DEF l
<1> HIDE DEF in
<1>7. UNCHANGED plain /\ err' = "NONE"
  BY <1>1 DEF DecompressOwn
<1>8. HuffmanTyped' /\ Decompressing' /\ phase' = "decompress" /\ input' = in
  BY <1>1, <1>3, <1>5, <1>6, <1>7, DecompressStarts
<1>9. Len(output) = Needed(plain) /\ SameBits(output, plain)
  BY <1>1 DEF Compressed
<1>10. Len(in) <= Needed(plain)
  BY <1>4, <1>5, <1>9
<1>11. SameBits(in, plain)
  <2>1. ASSUME NEW m \in 1 .. Len(in), NEW j \in 1 .. 8
        PROVE  BitsOf(in[m])[j] = BitAt(Encoded(plain), 8 * (m - 1) + j)
    <3>1. m \in 1 .. Len(output) /\ in[m] = output[m]
      BY <1>4, <1>5
    <3>2. BitsOf(output[m])[j] = BitAt(Encoded(plain), 8 * (m - 1) + j)
      BY <1>9, <3>1 DEF SameBits
    <3> QED
      BY <3>1, <3>2
  <2> QED
    BY <2>1 DEF SameBits
<1>12. Own'
  BY <1>7, <1>8, <1>10, <1>11 DEF Own
<1> QED
  BY <1>8, <1>12 DEF HuffmanInv

-----------------------------------------------------------------------------
(* A round of the decompression as a step *)

\* The symbol that is met in b, and the bits it takes.
Met(b) == Descend(b, WordBits)
Used(b) == Len(Codes[Met(b)])

LEMMA MetTyped ==
    ASSUME NEW b \in Seq(Bit)
    PROVE  Met(b) \in Symbols /\ Used(b) \in 1 .. 24 /\ (IsSymbol(DecodeLut(b)) <=> Used(b) <= 10)
<1>1. Met(b) \in Symbols /\ (IsSymbol(DecodeLut(b)) <=> Used(b) <= 10)
  BY WalkMeets DEF Met, Used
<1> QED
  BY <1>1, SymbolTyped DEF Used

\* Too few bits are noticed, but for the ten with which a walk begins.
LEMMA FewIs ==
    ASSUME NEW b \in Seq(Bit), NEW count \in Nat
    PROVE  TooFewBits(b, count) <=> count < Used(b) /\ ~ (Used(b) > 10 /\ count = 10)
<1> DEFINE u == Used(b)
<1>1. u \in 1 .. 24 /\ (IsSymbol(DecodeLut(b)) <=> u <= 10)
  BY MetTyped
<1>2. TooFewBits(b, count) <=>
         IF IsSymbol(DecodeLut(b)) THEN count < u ELSE count < 10 \/ count - 10 \in 1 .. u - 10 - 1
  BY NodeNumbers DEF TooFewBits, Used, Met
<1> HIDE DEF u
<1>3. u <= 10 => (count < u <=> count < u /\ ~ (u > 10 /\ count = 10))
  BY <1>1, SMT
<1>4. ~ (u <= 10) =>
         (count < 10 \/ count - 10 \in 1 .. u - 10 - 1 <=> count < u /\ ~ (u > 10 /\ count = 10))
  BY <1>1, SMT
<1>5. TooFewBits(b, count) <=> count < u /\ ~ (u > 10 /\ count = 10)
  BY <1>1, <1>2, <1>3, <1>4
<1> QED
  BY <1>5 DEF u

LEMMA ShortErrors ==
    ASSUME NEW b, NEW count
    PROVE  ShortError(b, count) \notin {"NONE", "BUFFER_FULL"}
  BY DEF ShortError

\* A walk with zeros from its eleventh bit does not meet the end symbol.
LEMMA NotEnd ==
    ASSUME NEW b \in Seq(Bit), Len(b) <= 10
    PROVE  Met(b) # EOF
<1> SUFFICES ASSUME Met(b) = EOF PROVE FALSE
  OBVIOUS
<1>1. PICK i \in LutBits + 1 .. Len(Codes[EOF]) : Codes[EOF][i] = 1
  BY TreeAssumption
<1>2. Len(Codes[EOF]) \in 1 .. 24 /\ Len(b) \in Nat
  BY SymbolTyped, CodeListTyped, LenProperties, EmptySeq
<1>3. i \in 1 .. Len(Codes[EOF]) /\ ~ (i <= Len(b)) /\ ~ (0 = 1)
  BY <1>1, <1>2, NodeNumbers, SMT
<1>4. Codes[EOF][i] = BitAt(b, i)
  BY <1>3, WalkMeets DEF Met
<1> QED
  BY <1>1, <1>3, <1>4 DEF BitAt

\* What the fill of the word leaves: at most 31 bits, and 24 if it was not the
\* end of the input.
Filled(n, l, c) ==
    /\ n \in 0 .. l /\ n \in Nat /\ c + 8 * n \in Nat
    /\ c < 32 => c + 8 * n < 32 /\ (c + 8 * n < 24 => n = l)

LEMMA FillIs ==
    ASSUME NEW l \in Nat, NEW c \in Nat
    PROVE  Filled(Min({l, ToFill(c)}), l, c)
<1> DEFINE f == IF c >= 24 THEN 0 ELSE (24 - c + 7) \div 8
           n == IF l <= f THEN l ELSE f
<1>1. ToFill(c) = f
  BY NodeNumbers DEF ToFill
<1>2. f \in Nat /\ f \in Int /\ l \in Int /\ (c < 32 => c + 8 * f < 32 /\ c + 8 * f >= 24)
  BY SMT
<1>3. Min({l, ToFill(c)}) = n
  <2> HIDE DEF f
  <2> QED
    BY <1>1, <1>2, LesserOf
<1> HIDE DEF f
<1>4. n \in 0 .. l /\ n \in Nat /\ c + 8 * n \in Nat
  BY <1>2, SMT
<1>5. c < 32 => c + 8 * n < 32 /\ (c + 8 * n < 24 => n = l)
  BY <1>2, SMT
<1> QED
  BY <1>3, <1>4, <1>5 DEF Filled

\* The step, with the bits b, count of them, and the symbol named.
Round(n, b, count, symbol, used) ==
    /\ n = Min({Len(src), ToFill(bitcount)}) /\ b = bits \o BitsUpTo(src, n) /\ count = bitcount + 8 * n
    /\ symbol = Met(b) /\ used = Used(b)
    /\ src' = SubSeq(src, n + 1, Len(src)) /\ UNCHANGED <<plain, input, room>>
    /\ \/ /\ TooFewBits(b, count) /\ bits' = b /\ bitcount' = count /\ output' = output
          /\ phase' = "decompressed" /\ err' \notin {"NONE", "BUFFER_FULL"}
       \/ /\ ~ TooFewBits(b, count)
          /\ bits' = SubSeq(b, used + 1, Len(b)) /\ bitcount' = (count - used) % CountWrap
          /\ \/ symbol = EOF /\ phase' = "decompressed" /\ err' = "NONE" /\ output' = output
             \/ /\ symbol # EOF /\ Len(output) = room
                /\ phase' = "decompressed" /\ err' = "BUFFER_FULL" /\ output' = output
             \/ /\ symbol # EOF /\ Len(output) < room
                /\ output' = Append(output, symbol) /\ UNCHANGED <<phase, err>>

LEMMA RoundIs ==
    ASSUME DecompressRound
    PROVE  \E n, b, count, symbol, used : Round(n, b, count, symbol, used)
<1> DEFINE n == Min({Len(src), ToFill(bitcount)})
           b == bits \o BitsUpTo(src, n)
           count == bitcount + 8 * n
<1>1. Round(n, b, count, Met(b), Used(b))
  BY ShortErrors DEF DecompressRound, Round, Return, BitsUpTo, Met, Used
<1> QED
  BY <1>1

\* What is behind the bits that were taken, when there were so many, or not.
LEMMA BehindIs ==
    ASSUME NEW b \in Seq(Bit), NEW used \in 1 .. 24
    PROVE  LET r == SubSeq(b, used + 1, Len(b))
           IN  /\ r \in Seq(Bit) /\ Len(r) \in Nat
               /\ used <= Len(b) => Len(r) = Len(b) - used
               /\ ~ (used <= Len(b)) => r = <<>> /\ Len(r) = 0
<1> DEFINE l == Len(b)
           m == used + 1
           r == SubSeq(b, m, l)
<1>1. l \in Nat /\ (\A i \in 1 .. l : b[i] \in Bit)
  BY LenProperties, ElementOfSeq
<1> HIDE DEF l
<1>2. m \in Int /\ l \in Int /\ (\A i \in m .. l : i \in 1 .. l)
      /\ (used <= l => (IF m <= l THEN l - m + 1 ELSE 0) = l - used)
      /\ (~ (used <= l) => (IF m <= l THEN l - m + 1 ELSE 0) = 0)
  BY <1>1, SMT
<1> HIDE DEF m
<1>3. \A i \in m .. l : b[i] \in Bit
  BY <1>1, <1>2
<1>4. r \in Seq(Bit) /\ Len(r) = IF m <= l THEN l - m + 1 ELSE 0
  BY <1>2, <1>3, SubSeqProperties
<1> HIDE DEF r
<1>5. Len(r) \in Nat /\ (used <= l => Len(r) = l - used)
  BY <1>2, <1>4, LenProperties
<1>6. ~ (used <= l) => r = <<>> /\ Len(r) = 0
  BY <1>2, <1>4, EmptySeq
<1> QED
  BY <1>4, <1>5, <1>6 DEF r, m, l

\* What is left to count is at least what is left of the bits.
LEMMA CountAfter ==
    ASSUME NEW l \in Nat, NEW count \in 0 .. CountWrap - 1, l <= count, NEW used \in 1 .. 24, NEW m \in Nat,
           used <= l => m = l - used, ~ (used <= l) => m = 0
    PROVE  /\ (count - used) % CountWrap \in 0 .. CountWrap - 1 /\ m <= (count - used) % CountWrap
           /\ used <= count => (count - used) % CountWrap = count - used
<1>1. (count - used) % CountWrap \in 0 .. CountWrap - 1
  BY Wrap, SMT
<1>2. used <= count => (count - used) % CountWrap = count - used
  BY Wrap, SMT
<1>3. m <= (count - used) % CountWrap
  <2> DEFINE x == (count - used) % CountWrap
  <2> HIDE DEF x
  <2>1. x \in Nat /\ (used <= count => x = count - used)
    BY <1>1, <1>2, Wrap, SMT DEF x
  <2>2. m <= x
    BY <2>1, SMT
  <2> QED
    BY <2>2 DEF x
<1> QED
  BY <1>1, <1>2, <1>3

LEMMA RoundTyped ==
    ASSUME HuffmanTyped, phase = "decompress",
           NEW n, NEW b \in Seq(Bit), NEW count \in 0 .. CountWrap - 1, NEW symbol, NEW used,
           Round(n, b, count, symbol, used), src' \in Seq(Bytes), Len(b) <= count
    PROVE  /\ HuffmanTyped' /\ phase' \in {"decompress", "decompressed"}
           /\ symbol \in Symbols /\ used \in 1 .. 24
<1>1. symbol \in Symbols /\ used \in 1 .. 24
  BY MetTyped DEF Round
<1>2. /\ plain \in Seq(Bytes) /\ input \in Seq(Bytes) /\ output \in Seq(Bytes)
      /\ room \in Nat /\ Len(output) <= room /\ err = "NONE" /\ Len(output) \in Nat /\ Len(b) \in Nat
  BY LenProperties DEF HuffmanTyped
<1>3. UNCHANGED <<plain, input, room>>
  BY DEF Round
<1> DEFINE r == SubSeq(b, used + 1, Len(b))
<1>4. /\ r \in Seq(Bit) /\ Len(r) \in Nat
      /\ used <= Len(b) => Len(r) = Len(b) - used
      /\ ~ (used <= Len(b)) => Len(r) = 0
  BY <1>1, BehindIs
<1> HIDE DEF r
<1>5. (count - used) % CountWrap \in 0 .. CountWrap - 1 /\ Len(r) <= (count - used) % CountWrap
  BY <1>1, <1>2, <1>4, CountAfter
<1>6. bits' \in Seq(Bit) /\ bitcount' \in 0 .. CountWrap - 1 /\ Len(bits') <= bitcount'
  <2>1. (bits' = b /\ bitcount' = count) \/ (bits' = r /\ bitcount' = (count - used) % CountWrap)
    BY DEF Round, r
  <2> QED
    BY <1>4, <1>5, <2>1
<1>7. output' \in Seq(Bytes) /\ Len(output') <= room
  <2>1. CASE output' = output
    BY <1>2, <2>1
  <2>2. CASE symbol # EOF /\ Len(output) < room /\ output' = Append(output, symbol)
    <3>1. symbol \in Bytes
      BY <1>1, <2>2, SymbolCases
    <3>2. output' \in Seq(Bytes) /\ Len(output') = Len(output) + 1
      BY <1>2, <2>2, <3>1, AppendProperties
    <3>3. Len(output) + 1 <= room
      BY <1>2, <2>2, SMT
    <3> QED
      BY <3>2, <3>3
  <2> QED
    BY <2>1, <2>2 DEF Round
<1>8. phase' = "decompressed" \/ (phase' = "decompress" /\ err' = "NONE")
  <2>1. phase' = "decompressed" \/ UNCHANGED <<phase, err>>
    BY DEF Round
  <2> QED
    BY <1>2, <2>1
<1>9. HuffmanTyped'
  BY <1>2, <1>3, <1>6, <1>7, <1>8 DEF HuffmanTyped
<1> QED
  BY <1>1, <1>8, <1>9

\* A round that finds too few bits, or whose walk begins behind the last one.
LEMMA RoundShort ==
    ASSUME NEW n, NEW b \in Seq(Bit), NEW count, NEW symbol, NEW used, Round(n, b, count, symbol, used),
           used \in 1 .. 24, ~ Whole(input), src' = <<>>,
           TooFewBits(b, count) \/ (Len(b) <= 10 /\ Len(b) < used)
    PROVE  (phase' = phase /\ Lost') \/ (phase' = "decompressed" /\ Decompressed')
<1>1. UNCHANGED <<input, room>>
  BY DEF Round
<1>2. CASE TooFewBits(b, count)
  BY <1>1, <1>2 DEF Round, Decompressed
<1>3. CASE ~ TooFewBits(b, count)
  <2>1. Len(b) <= 10 /\ Len(b) < used /\ Len(b) \in Nat
    BY <1>3, LenProperties
  <2>2. symbol # EOF
    BY <2>1, NotEnd DEF Round
  <2>3. ~ (used <= Len(b))
    BY <2>1, SMT
  <2>4. bits' = <<>>
    BY <1>3, <2>3, BehindIs DEF Round
  <2>5. \/ phase' = "decompressed" /\ err' = "BUFFER_FULL" /\ output' = output /\ Len(output) = room
        \/ phase' = phase
    BY <1>3, <2>2 DEF Round
  <2> QED
    BY <1>1, <2>4, <2>5 DEF Lost, Decompressed
<1> QED
  BY <1>2, <1>3


\* A code of u bits, and c bits before it.
TakenOf(c, u) ==
    /\ c < u => c < 24
    /\ ~ (c < u) /\ c < 32 => /\ u <= c /\ (c - u) % CountWrap = c - u /\ c - u < 32

LEMMA TakenOfIs ==
    ASSUME NEW c \in Nat, NEW u \in 1 .. 24
    PROVE  TakenOf(c, u)
<1>1. c < u => c < 24
  BY SMT
<1>2. ~ (c < u) => u <= c
  BY SMT
<1>3. ~ (c < u) /\ c < 32 => c - u < 32 /\ (c - u) % CountWrap = c - u
  BY Wrap, SMT
<1> QED
  BY <1>1, <1>2, <1>3 DEF TakenOf

LEMMA RoundOnTrack ==
    ASSUME NEW n, NEW b \in Seq(Bit), NEW count, NEW symbol, NEW used, Round(n, b, count, symbol, used),
           used \in 1 .. 24, count = Len(b), count < 32, count < 24 => src' = <<>>,
           input \in Seq(Bytes), src' \in Seq(Bytes), output \in Seq(Bytes), OnTrack(input, src', b, output)
    PROVE  (phase' = phase /\ Decompressing') \/ (phase' = "decompressed" /\ Decompressed')
<1> DEFINE c == Len(b)
<1>1. c \in Nat /\ count = c /\ symbol = Descend(b, WordBits) /\ used = Len(Codes[symbol])
  BY LenProperties DEF Round, Met, Used
<1>2. UNCHANGED <<input, room>>
  BY DEF Round
<1>3. CASE c < used
  <2>1. src' = <<>> /\ Len(src') = 0
    <3>1. c < 24
      BY <1>1, <1>3, TakenOfIs DEF TakenOf
    <3>2. Len(<<>>) = 0
      BY EmptySeq
    <3> QED
      BY <1>1, <3>1, <3>2
  <2>2. ~ Whole(input)
    BY <1>1, <1>3, <2>1, MissedCode
  <2>3. TooFewBits(b, count) \/ (Len(b) <= 10 /\ Len(b) < used)
    <3>1. TooFewBits(b, c) <=> c < used /\ ~ (used > 10 /\ c = 10)
      BY <1>1, FewIs DEF Used, Met
    <3>2. c = 10 => c <= 10
      BY <1>1, SMT
    <3> QED
      BY <1>1, <1>3, <3>1, <3>2
  <2> QED
    BY <2>1, <2>2, <2>3, RoundShort DEF Decompressing
<1>4. CASE ~ (c < used)
  <2> DEFINE r == SubSeq(b, used + 1, Len(b))
  <2>1. used <= c /\ (c - used) % CountWrap = c - used /\ c - used < 32
    BY <1>1, <1>4, TakenOfIs DEF TakenOf
  <2>2. ~ TooFewBits(b, count)
    BY <1>1, <1>4, FewIs DEF Used, Met
  <2>3. bits' = r /\ bitcount' = (c - used) % CountWrap
    BY <1>1, <2>2 DEF Round
  <2>5. /\ r \in Seq(Bit) /\ Len(r) = Len(b) - used /\ symbol \in Symbols
        /\ symbol = EOF => Parsed(Stream(input)) = Append(output, EOF)
        /\ symbol # EOF =>
              /\ OnTrack(input, src', r, Append(output, symbol))
              /\ Whole(input) => /\ Len(Parsed(Stream(input))) >= Len(output) + 2
                                 /\ \A i \in 1 .. Len(output) : Parsed(Stream(input))[i] = output[i]
    <3>1. Takes(input, src', b, output, symbol, used)
      BY <1>1, <2>1, TakenOnTrack
    <3> QED
      BY <3>1 DEF Takes
  <2> HIDE DEF r
  <2>6. bitcount' = Len(bits') /\ bitcount' < WordBits
    BY <2>1, <2>3, <2>5, NodeNumbers
  <2>7. CASE symbol = EOF
    <3>1. phase' = "decompressed" /\ err' = "NONE" /\ output' = output
      BY <2>2, <2>7 DEF Round
    <3> QED
      BY <1>2, <2>5, <2>7, <3>1 DEF Decompressed
  <2>8. CASE symbol # EOF /\ Len(output) = room /\ phase' = "decompressed" /\ err' = "BUFFER_FULL" /\ output' = output
    BY <1>2, <2>5, <2>8 DEF Decompressed
  <2>9. CASE symbol # EOF /\ output' = Append(output, symbol) /\ UNCHANGED <<phase, err>>
    BY <1>2, <2>3, <2>5, <2>6, <2>9 DEF Decompressing
  <2> QED
    BY <2>2, <2>7, <2>8, <2>9 DEF Round
<1> QED
  BY <1>3, <1>4

LEMMA DecompressRoundKeeps ==
    ASSUME HuffmanInv, DecompressRound
    PROVE  HuffmanInv'
<1>1. HuffmanTyped /\ phase = "decompress" /\ Decompressing /\ (plain # <<>> => Own)
  BY DEF HuffmanInv, DecompressRound
<1>2. PICK n, b, count, symbol, used : Round(n, b, count, symbol, used)
  BY RoundIs
<1>3. /\ input \in Seq(Bytes) /\ src \in Seq(Bytes) /\ output \in Seq(Bytes) /\ bits \in Seq(Bit)
      /\ bitcount \in 0 .. CountWrap - 1 /\ bitcount \in Nat /\ Len(src) \in Nat /\ Len(bits) \in Nat
      /\ Len(bits) <= bitcount
  <2>1. \A k \in 0 .. CountWrap - 1 : k \in Nat
    BY Wrap, SMT
  <2> QED
    BY <1>1, <2>1, LenProperties DEF HuffmanTyped
<1>4. /\ n \in 0 .. Len(src) /\ n \in Nat /\ bitcount + 8 * n \in Nat
      /\ bitcount < 32 => bitcount + 8 * n < 32 /\ (bitcount + 8 * n < 24 => n = Len(src))
  <2>1. Filled(n, Len(src), bitcount)
    BY <1>2, <1>3, FillIs DEF Round
  <2> QED
    BY <2>1 DEF Filled
<1>5. b = bits \o BitsUpTo(src, n) /\ count = bitcount + 8 * n /\ src' = SubSeq(src, n + 1, Len(src))
      /\ UNCHANGED <<plain, input>>
  BY <1>2 DEF Round
<1>6. src' \in Seq(Bytes) /\ Len(src') = Len(src) - n /\ Len(src') \in Nat
  <2>1. src' \in Seq(Bytes) /\ Len(src') = Len(src) - n
    BY <1>3, <1>4, <1>5, RestIs DEF IsRest
  <2> QED
    BY <2>1, LenProperties
<1>7. plain' # <<>> => Own'
  BY <1>1, <1>5 DEF Own
<1>8. CASE Lost
  <2>1. bits = <<>> /\ src = <<>> /\ Len(<<>>) = 0 /\ ~ Whole(input)
    BY <1>8, EmptySeq DEF Lost
  <2>2. n = 0 /\ count = bitcount /\ 0 \in Nat /\ \A i \in 1 .. 0 : FALSE
    BY <1>3, <1>4, <1>5, <2>1, SMT
  <2>3. BitsUpTo(src, n) \in Seq(Bit) /\ Len(BitsUpTo(src, n)) = 8 * 0
    BY <2>2, EightEach
  <2>4. 8 * 0 = 0 /\ 0 <= bitcount /\ 0 <= 10 /\ Len(src') = 0
    BY <1>3, <1>4, <1>6, <2>1, <2>2, SMT
  <2>5. b = <<>> /\ b \in Seq(Bit) /\ Len(b) = 0 /\ src' = <<>>
    <3>1. BitsUpTo(src, n) = <<>>
      BY <2>3, <2>4, EmptySeq
    <3>2. <<>> \o <<>> = <<>> /\ <<>> \in Seq(Bit)
      BY EmptySeq, ConcatEmptySeq
    <3>3. src' = <<>>
      BY <1>6, <2>4, EmptySeq
    <3> QED
      BY <1>5, <2>1, <3>1, <3>2, <3>3
  <2>6. HuffmanTyped' /\ phase' \in {"decompress", "decompressed"} /\ used \in 1 .. 24
    BY <1>1, <1>2, <1>3, <1>6, <2>2, <2>4, <2>5, RoundTyped
  <2>7. Len(b) <= 10 /\ Len(b) < used
    BY <2>4, <2>5, <2>6, SMT
  <2>8. (phase' = phase /\ Lost') \/ (phase' = "decompressed" /\ Decompressed')
    BY <1>2, <2>1, <2>5, <2>6, <2>7, RoundShort
  <2> QED
    BY <1>1, <1>7, <2>6, <2>8 DEF HuffmanInv, Decompressing
<1>9. CASE bitcount = Len(bits) /\ bitcount < WordBits /\ OnTrack(input, src, bits, output)
  <2>1. b \in Seq(Bit) /\ Len(b) = Len(bits) + 8 * n /\ OnTrack(input, src', b, output)
    BY <1>3, <1>4, <1>5, <1>9, LoadedOnTrack
  <2>2. count = Len(b) /\ count < 32 /\ (count < 24 => n = Len(src)) /\ count \in Nat
    BY <1>4, <1>5, <1>9, <2>1, NodeNumbers
  <2>3. count < 24 => src' = <<>>
    <3>1. n = Len(src) => Len(src') = 0
      BY <1>3, <1>6, SMT
    <3>2. Len(src') = 0 => src' = <<>>
      BY <1>6, EmptySeq
    <3> QED
      BY <2>2, <3>1, <3>2
  <2>4. count \in 0 .. CountWrap - 1 /\ Len(b) <= count
    BY <2>2, Wrap, SMT
  <2>5. HuffmanTyped' /\ phase' \in {"decompress", "decompressed"} /\ used \in 1 .. 24
    BY <1>1, <1>2, <1>6, <2>1, <2>4, RoundTyped
  <2>6. (phase' = phase /\ Decompressing') \/ (phase' = "decompressed" /\ Decompressed')
    BY <1>2, <1>3, <1>6, <2>1, <2>2, <2>3, <2>5, RoundOnTrack
  <2> QED
    BY <1>1, <1>7, <2>5, <2>6 DEF HuffmanInv
<1> QED
  BY <1>1, <1>8, <1>9 DEF Decompressing

LEMMA NextKeeps == HuffmanInv /\ [Next]_vars => HuffmanInv'
  BY StutterKeeps, CompressKeeps, CompressByteKeeps, CompressEndKeeps, DecompressOwnKeeps, DecompressForeignKeeps,
     DecompressRoundKeeps DEF Next

LEMMA HuffmanAlways == Spec => []HuffmanInv
  BY HuffmanInit, NextKeeps, PTL DEF Spec

-----------------------------------------------------------------------------
(* What the inductive invariant says of the properties *)

LEMMA InvTypes == HuffmanInv => TypeOK
<1> SUFFICES ASSUME HuffmanInv PROVE TypeOK
  OBVIOUS
<1>1. HuffmanTyped
  BY DEF HuffmanInv
<1>2. \A i \in DOMAIN output : output[i] \in Bytes
  <2>1. output \in Seq(Bytes) /\ DOMAIN output = 1 .. Len(output)
    BY <1>1, LenProperties DEF HuffmanTyped
  <2> QED
    BY <2>1, ElementOfSeq
<1>3. phase = "compress" => bitcount < 8
  BY DEF HuffmanInv, Compressing
<1>4. ASSUME phase = "decompress"
      PROVE  Len(bits) + 8 * Min({Len(src), ToFill(bitcount)}) <= WordBits
  <2> DEFINE n == Min({Len(src), ToFill(bitcount)})
  <2>1. Decompressing /\ Len(src) \in Nat /\ bitcount \in Nat
    <3>1. \A k \in 0 .. CountWrap - 1 : k \in Nat
      BY Wrap, SMT
    <3> QED
      BY <1>1, <1>4, <3>1, LenProperties DEF HuffmanInv, HuffmanTyped
  <2>2. /\ n \in 0 .. Len(src) /\ n \in Nat
        /\ bitcount < 32 => bitcount + 8 * n < 32
    BY <2>1, FillIs DEF Filled
  <2> HIDE DEF n
  <2>3. CASE Lost
    <3>1. Len(bits) = 0 /\ Len(src) = 0
      BY <2>3, EmptySeq DEF Lost
    <3>2. n = 0 /\ 0 + 8 * 0 <= 32
      BY <2>2, <3>1, SMT
    <3> QED
      BY <3>1, <3>2, NodeNumbers DEF n
  <2>4. CASE bitcount = Len(bits) /\ bitcount < WordBits
    <3>1. bitcount + 8 * n < 32
      BY <2>2, <2>4, NodeNumbers
    <3>2. bitcount + 8 * n <= 32
      BY <2>1, <2>2, <3>1, SMT
    <3> QED
      BY <2>4, <3>2, NodeNumbers DEF n
  <2> QED
    BY <2>1, <2>3, <2>4 DEF Decompressing
<1> QED
  BY <1>1, <1>2, <1>3, <1>4 DEF TypeOK, HuffmanTyped

LEMMA InvSize == HuffmanInv => CompressedSize
  BY DEF HuffmanInv, Compressed, Needed, CompressedSize

\* The bytes before the end symbol.
LEMMA BeforeEnd ==
    ASSUME NEW in, NEW out \in Seq(Bytes), Parsed(Stream(in)) = Append(out, EOF)
    PROVE  /\ Whole(in) /\ Len(Parsed(Stream(in))) = Len(out) + 1 /\ Len(out) \in Nat
           /\ Front(Parsed(Stream(in))) = out
           /\ \A i \in 1 .. Len(out) : Parsed(Stream(in))[i] = out[i]
<1> DEFINE y == Append(out, EOF)
<1>1. \A x \in Bytes : x \in Symbols
  BY NodeNumbers, SMT
<1>2. EOF \in Symbols
  BY NodeNumbers, SMT
<1>3. out \in Seq(Symbols) /\ Len(out) \in Nat
  <2>1. \A i \in 1 .. Len(out) : out[i] \in Symbols
    BY <1>1, ElementOfSeq
  <2>2. out = [i \in 1 .. Len(out) |-> out[i]] /\ Len(out) \in Nat
    BY LenProperties, SMT
  <2>3. [i \in 1 .. Len(out) |-> out[i]] \in [1 .. Len(out) -> Symbols]
    BY <2>1
  <2> QED
    BY <2>2, <2>3, FunctionIsSeq
<1>4. /\ y \in Seq(Symbols) /\ Len(y) = Len(out) + 1
      /\ (\A i \in 1 .. Len(out) : y[i] = out[i]) /\ y[Len(out) + 1] = EOF
  BY <1>2, <1>3, AppendProperties
<1>5. y # <<>> /\ Last(y) = EOF
  <2>1. Len(out) + 1 # 0
    BY <1>3, SMT
  <2> QED
    BY <1>4, <2>1, EmptySeq DEF Last
<1>6. Front(y) = out
  <2> HIDE DEF y
  <2>1. Len(y) - 1 = Len(out) /\ 1 \in Int /\ Len(out) \in Int /\ (\A i \in 1 .. Len(out) : 1 + i - 1 = i)
        /\ Len(out) - 1 + 1 = Len(out) /\ (IF 1 <= Len(out) THEN Len(out) - 1 + 1 ELSE 0) = Len(out)
    BY <1>3, <1>4, SMT
  <2>2. \A i \in 1 .. Len(out) : y[i] \in Symbols
    BY <1>3, <1>4, ElementOfSeq
  <2> DEFINE z == SubSeq(y, 1, Len(out))
  <2>3. z \in Seq(Symbols) /\ Len(z) = Len(out) /\ \A i \in 1 .. Len(out) : z[i] = y[i]
    <3>1. /\ z \in Seq(Symbols) /\ Len(z) = IF 1 <= Len(out) THEN Len(out) - 1 + 1 ELSE 0
          /\ \A i \in 1 .. Len(out) - 1 + 1 : z[i] = y[1 + i - 1]
      BY <2>1, <2>2, SubSeqProperties
    <3> QED
      BY <2>1, <3>1
  <2>4. Front(y) = z
    BY <2>1 DEF Front
  <2> HIDE DEF z
  <2>5. z = out
    BY <1>3, <1>4, <2>3, SeqEqual
  <2> QED
    BY <2>4, <2>5
<1> QED
  BY <1>3, <1>4, <1>5, <1>6 DEF Whole

LEMMA ParsedTyped ==
    ASSUME NEW b \in Seq(Bit)
    PROVE  Parsed(b) \in Seq(Symbols) /\ Len(Parsed(b)) \in Nat
<1>1. 0 \in 0 .. Len(b)
  <2>1. Len(b) \in Nat
    BY LenProperties
  <2> QED
    BY <2>1, SMT
<1>2. Parsed(b) \in Seq(Symbols)
  BY <1>1, FromIs, FromTyped
<1> QED
  BY <1>2, LenProperties

LEMMA InvExact == HuffmanInv => ExactOrError
<1> SUFFICES ASSUME HuffmanInv, phase = "decompressed" PROVE ExactOrError
  BY DEF ExactOrError
<1>1. /\ input \in Seq(Bytes) /\ output \in Seq(Bytes) /\ room \in Nat /\ Len(output) <= room
      /\ Decompressed
  BY DEF HuffmanInv, HuffmanTyped
<1> DEFINE symbols == Parsed(Stream(input))
<1>2. FlattenSeq([i \in DOMAIN input |-> BitsOf(input[i])]) = Stream(input)
  <2>1. DOMAIN input = 1 .. Len(input)
    BY <1>1, LenProperties
  <2> QED
    BY <2>1 DEF Stream, BitsUpTo
<1>3. IF Whole(input) /\ Len(symbols) - 1 <= room THEN err = "NONE" /\ output = Front(symbols) ELSE err # "NONE"
  <2>1. CASE err = "NONE" /\ symbols = Append(output, EOF)
    <3>1. Whole(input) /\ Len(symbols) = Len(output) + 1 /\ Len(output) \in Nat /\ Front(symbols) = output
      BY <1>1, <2>1, BeforeEnd
    <3> HIDE DEF symbols
    <3>2. Len(symbols) - 1 <= room
      BY <1>1, <3>1, SMT
    <3> QED
      BY <2>1, <3>1, <3>2
  <2>2. CASE err = "BUFFER_FULL" /\ Len(output) = room /\ (Whole(input) => Len(symbols) >= room + 2)
    <3> DEFINE l == Len(symbols)
    <3>1. l \in Nat
      <4>1. Stream(input) \in Seq(Bit)
        BY <1>1, StreamTyped
      <4> QED
        BY <4>1, ParsedTyped, LenProperties
    <3>2. Whole(input) => l >= room + 2
      BY <2>2
    <3> HIDE DEF l
    <3>3. Whole(input) => ~ (l - 1 <= room)
      BY <1>1, <3>1, <3>2, SMT
    <3> QED
      BY <2>2, <3>3 DEF l
  <2>3. CASE err \notin {"NONE", "BUFFER_FULL"} /\ ~ Whole(input)
    BY <2>3
  <2> QED
    BY <1>1, <2>1, <2>2, <2>3 DEF Decompressed
<1> QED
  BY <1>2, <1>3 DEF ExactOrError, Whole

\* A bit of the stream is one of a byte.
BitOf(i, n) == \E m \in 1 .. n, j \in 1 .. 8 : i = 8 * (m - 1) + j

LEMMA BitIsOf ==
    ASSUME NEW n \in Nat, NEW i \in 1 .. 8 * n
    PROVE  BitOf(i, n)
<1> DEFINE m == (i - 1) \div 8 + 1
           j == ((i - 1) % 8) + 1
<1>1. m \in 1 .. n /\ j \in 1 .. 8 /\ i = 8 * (m - 1) + j
  BY SMT
<1> QED
  BY <1>1 DEF BitOf

LEMMA OwnCarries ==
    ASSUME NEW in \in Seq(Bytes), NEW p \in Seq(Bytes), SameBits(in, p)
    PROVE  Carries(Stream(in), p)
<1>1. Len(in) \in Nat /\ Len(Stream(in)) = 8 * Len(in) /\ \A i \in 1 .. Len(in) : in[i] \in Bytes
  BY StreamTyped, ElementOfSeq
<1>2. \A m \in 1 .. Len(in), j \in 1 .. 8 : Stream(in)[8 * (m - 1) + j] = BitsOf(in[m])[j]
  BY <1>1, EightEach DEF Stream
<1>3. ASSUME NEW i \in 1 .. Len(Stream(in)) PROVE Stream(in)[i] = BitAt(Encoded(p), i)
  <2>1. BitOf(i, Len(in))
    BY <1>1, BitIsOf
  <2>2. PICK m \in 1 .. Len(in) : \E j \in 1 .. 8 : i = 8 * (m - 1) + j
    BY <2>1 DEF BitOf
  <2>3. PICK j \in 1 .. 8 : i = 8 * (m - 1) + j
    BY <2>2
  <2>4. BitsOf(in[m])[j] = BitAt(Encoded(p), i)
    BY <2>3 DEF SameBits
  <2> QED
    BY <1>2, <2>3, <2>4
<1> QED
  BY <1>3 DEF Carries

\* An input that has all the bytes has all the bits; one byte less is too few.
AllOrLess(l, e) == (l = (e + 7) \div 8 => e <= 8 * l) /\ (l <= (e + 7) \div 8 /\ l # (e + 7) \div 8 => 8 * l < e)

LEMMA AllOrLessIs ==
    ASSUME NEW l \in Nat, NEW e \in Nat
    PROVE  AllOrLess(l, e)
<1>1. l = (e + 7) \div 8 => e <= 8 * l
  BY SMT
<1>2. l <= (e + 7) \div 8 /\ l # (e + 7) \div 8 => 8 * l < e
  BY SMT
<1> QED
  BY <1>1, <1>2 DEF AllOrLess

LEMMA InvReadsBack == HuffmanInv => ReadsBack
<1> SUFFICES ASSUME HuffmanInv, phase = "decompressed", plain # <<>>
             PROVE  IF Len(input) = Needed(plain)
                    THEN IF Len(plain) <= room THEN err = "NONE" /\ output = plain
                         ELSE err = "BUFFER_FULL" /\ output = SubSeq(plain, 1, room)
                    ELSE err # "NONE"
  BY DEF ReadsBack, Needed
<1>1. /\ plain \in Seq(Bytes) /\ input \in Seq(Bytes) /\ output \in Seq(Bytes) /\ room \in Nat
      /\ Len(output) <= room /\ Own /\ Decompressed
  BY DEF HuffmanInv, HuffmanTyped
<1>2. /\ Stream(input) \in Seq(Bit) /\ Len(Stream(input)) = 8 * Len(input) /\ Len(input) \in Nat
      /\ Carries(Stream(input), plain) /\ Len(Encoded(plain)) \in Nat /\ Len(plain) \in Nat
  BY <1>1, StreamTyped, OwnCarries, EncodedIs, LenProperties DEF Own
<1>3. AllOrLess(Len(input), Len(Encoded(plain))) /\ Len(input) <= Needed(plain)
  BY <1>1, <1>2, AllOrLessIs DEF Own
<1>4. CASE Len(input) = Needed(plain)
  <2>1. Len(Encoded(plain)) <= Len(Stream(input))
    BY <1>2, <1>3, <1>4 DEF AllOrLess, Needed
  <2>2. Parsed(Stream(input)) = Append(plain, EOF)
    BY <1>1, <1>2, <2>1, ParsesAll
  <2>3. /\ Whole(input) /\ Len(Parsed(Stream(input))) = Len(plain) + 1
        /\ \A i \in 1 .. Len(plain) : Parsed(Stream(input))[i] = plain[i]
    BY <1>1, <2>2, BeforeEnd
  <2>4. CASE err = "NONE" /\ Parsed(Stream(input)) = Append(output, EOF)
    <3>1. Front(Parsed(Stream(input))) = plain /\ Front(Parsed(Stream(input))) = output
      BY <1>1, <2>2, <2>4, BeforeEnd
    <3>2. err = "NONE" /\ output = plain /\ Len(plain) <= room
      BY <1>1, <2>4, <3>1
    <3> QED
      BY <1>4, <3>2
  <2>5. CASE /\ err = "BUFFER_FULL" /\ Len(output) = room
             /\ Whole(input) => /\ Len(Parsed(Stream(input))) >= room + 2
                                /\ \A i \in 1 .. room : Parsed(Stream(input))[i] = output[i]
    <3>1. Len(plain) + 1 >= room + 2 /\ \A i \in 1 .. room : Parsed(Stream(input))[i] = output[i]
      BY <2>3, <2>5
    <3>2. /\ ~ (Len(plain) <= room) /\ 1 \in Int /\ room \in Int /\ room - 1 + 1 = room
          /\ (IF 1 <= room THEN room - 1 + 1 ELSE 0) = room
          /\ \A i \in 1 .. room : i \in 1 .. Len(plain) /\ 1 + i - 1 = i
      BY <1>1, <1>2, <3>1, SMT
    <3>3. \A i \in 1 .. room : plain[i] \in Bytes /\ output[i] = plain[i]
      BY <1>1, <2>3, <3>1, <3>2, ElementOfSeq
    <3> DEFINE z == SubSeq(plain, 1, room)
    <3>4. z \in Seq(Bytes) /\ Len(z) = room /\ \A i \in 1 .. room : z[i] = plain[i]
      <4>1. /\ z \in Seq(Bytes) /\ Len(z) = IF 1 <= room THEN room - 1 + 1 ELSE 0
            /\ \A i \in 1 .. room - 1 + 1 : z[i] = plain[1 + i - 1]
        BY <3>2, <3>3, SubSeqProperties
      <4> QED
        BY <3>2, <4>1
    <3> HIDE DEF z
    <3>5. z = output
      <4>1. \A i \in 1 .. Len(output) : output[i] = z[i]
        BY <2>5, <3>3, <3>4
      <4> QED
        BY <1>1, <2>5, <3>4, <4>1, SeqEqual
    <3>6. err = "BUFFER_FULL" /\ output = SubSeq(plain, 1, room) /\ ~ (Len(plain) <= room)
      BY <2>5, <3>2, <3>5 DEF z
    <3> QED
      BY <1>4, <3>6
  <2> QED
    BY <1>1, <2>3, <2>4, <2>5 DEF Decompressed
<1>5. CASE Len(input) # Needed(plain)
  <2>1. Len(Stream(input)) < Len(Encoded(plain))
    BY <1>2, <1>3, <1>5 DEF AllOrLess, Needed
  <2>2. Parsed(Stream(input)) \in Seq(Bytes)
    BY <1>1, <1>2, <2>1, ParsesPart
  <2>3. ~ Whole(input)
    <3> DEFINE y == Parsed(Stream(input))
    <3> SUFFICES ASSUME y # <<>>, Last(y) = EOF PROVE FALSE
      BY DEF Whole
    <3> HIDE DEF y
    <3>1. y \in Seq(Bytes) /\ Len(y) \in Nat \ {0}
      BY <2>2, EmptySeq DEF y
    <3>2. Len(y) \in 1 .. Len(y)
      BY <3>1, SMT
    <3>3. EOF \in Bytes
      BY <3>1, <3>2, ElementOfSeq DEF Last
    <3> QED
      BY <3>3, NodeNumbers, SMT
  <2>4. err = "NONE" => Parsed(Stream(input)) = Append(output, EOF)
    BY <1>1 DEF Decompressed
  <2>5. err = "NONE" => Whole(input)
    BY <1>1, <2>4, BeforeEnd
  <2> QED
    BY <1>5, <2>3, <2>5
<1> QED
  BY <1>4, <1>5

-----------------------------------------------------------------------------
(* The theorems *)

(* The word holds what is loaded, the output never exceeds its room, and   *)
(* what is written and loaded are bytes and bits, whatever is compressed   *)
(* and whatever is decompressed.                                           *)
THEOREM HuffmanTypes == Spec => []TypeOK
  BY HuffmanAlways, InvTypes, PTL

(* Whatever the bytes and the room: what is compressed needs exactly the   *)
(* bytes for its codes and the end symbol, and BUFFER_FULL is returned if  *)
(* and only if there is less room (ddproto_huffman_compress).              *)
THEOREM CompressedToSize == Spec => []CompressedSize
  BY HuffmanAlways, InvSize, PTL

(* Whatever bytes of another sender, of whatever length: they are          *)
(* decompressed without an error if and only if they begin with the codes  *)
(* of bytes and the end symbol and there is room for the bytes, which are  *)
(* the output (ddproto_huffman_decompress).                                *)
THEOREM DecompressedExactly == Spec => []ExactOrError
  BY HuffmanAlways, InvExact, PTL

(* Whatever is compressed is decompressed to what it was, or refused as    *)
(* too long for the room; with a byte less at its end it is refused        *)
(* (ddproto_huffman_compress, ddproto_huffman_decompress).                 *)
THEOREM CompressedReadsBack == Spec => []ReadsBack
  BY HuffmanAlways, InvReadsBack, PTL

=============================================================================
