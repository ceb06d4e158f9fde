--------------------------- MODULE SequenceLemmas ---------------------------
(***************************************************************************)
(* Facts about natural numbers and sequences that the proofs about the     *)
(* byte and bit streams share.  Induction is stated for a set of numbers:  *)
(* to use it, the set of those numbers is taken for which a fact holds.    *)
(***************************************************************************)
EXTENDS Integers, SequencesExt, WellFoundedInduction, SequenceTheorems, TLAPS

\* A set of natural numbers has a least element.
LEMMA Least ==
    ASSUME NEW T, T \subseteq Nat, T # {}
    PROVE  \E n \in T : \A m \in T : n <= m
<1> DEFINE R == OpToRel(<, Nat)
<1>1. IsWellFoundedOn(R, Nat)
  BY NatLessThanWellFounded, Zenon
<1>2. \A x, y \in Nat : x < y => <<x, y>> \in R
  BY DEF OpToRel
<1> HIDE DEF R
<1>3. PICK n \in T : \A y \in T : ~ (<<y, n>> \in R)
  BY <1>1, WFMin
<1>4. \A m \in T : ~ (m < n)
  BY <1>2, <1>3
<1> QED
  BY <1>3, <1>4, SMT

\* Induction over the natural numbers.
LEMMA Induction ==
    ASSUME NEW H, 0 \in H, \A n \in Nat : n \in H => n + 1 \in H
    PROVE  \A n \in Nat : n \in H
<1> SUFFICES ASSUME NEW k \in Nat, k \notin H PROVE FALSE
  OBVIOUS
<1> DEFINE T == {n \in Nat : n \notin H}
<1>1. PICK n \in T : \A m \in T : n <= m
  <2>1. T \subseteq Nat /\ T # {}
    OBVIOUS
  <2> HIDE DEF T
  <2> QED
    BY <2>1, Least
<1>2. n # 0 /\ n \in Nat
  BY <1>1
<1>3. n - 1 \in Nat /\ n - 1 \notin T /\ n = (n - 1) + 1
  BY <1>1, <1>2, SMT
<1> QED
  BY <1>1, <1>2, <1>3

-----------------------------------------------------------------------------
(* FlattenSeq *)

\* What FlattenSeq makes of the first i sequences of s.
Flattens(g, s, n) == g = [i \in 1 .. n |-> IF i = 1 THEN s[i] ELSE g[i - 1] \o s[i]]

LEMMA FlattensExists ==
    ASSUME NEW s, NEW n \in Nat
    PROVE  \E g : Flattens(g, s, n)
<1> DEFINE H == {k \in Nat : \E g : Flattens(g, s, k)}
<1>1. 0 \in H
  <2> DEFINE g == [i \in 1 .. 0 |-> s[i]]
  <2>1. 1 .. 0 = {}
    BY SMT
  <2>2. Flattens(g, s, 0)
    BY <2>1 DEF Flattens
  <2> QED
    BY <2>2
<1>2. ASSUME NEW k \in Nat, k \in H PROVE k + 1 \in H
  <2>1. PICK g : Flattens(g, s, k)
    BY <1>2
  <2> DEFINE h == [i \in 1 .. k + 1 |-> IF i = 1 THEN s[i] ELSE IF i = k + 1 THEN g[k] \o s[i] ELSE g[i]]
  <2>2. ASSUME NEW i \in 1 .. k + 1 PROVE h[i] = IF i = 1 THEN s[i] ELSE h[i - 1] \o s[i]
    <3>1. CASE i = 1
      BY <3>1
    <3>2. CASE i # 1 /\ i = k + 1
      <4>1. k \in 1 .. k + 1 /\ k # k + 1 /\ i - 1 = k /\ k \in 1 .. k
        BY <3>2, SMT
      <4>2. h[k] = g[k]
        BY <4>1, <2>1 DEF Flattens
      <4> QED
        BY <3>2, <4>1, <4>2
    <3>3. CASE i # 1 /\ i # k + 1
      <4>1. i \in 1 .. k /\ i - 1 \in 1 .. k /\ i - 1 \in 1 .. k + 1 /\ i - 1 # k + 1
        BY <3>3, SMT
      <4>2. g[i] = g[i - 1] \o s[i]
        BY <2>1, <3>3, <4>1 DEF Flattens
      <4>3. h[i - 1] = g[i - 1]
        BY <2>1, <4>1 DEF Flattens
      <4> QED
        BY <3>3, <4>2, <4>3
    <3> QED
      BY <3>1, <3>2, <3>3
  <2>3. Flattens(h, s, k + 1)
    <3>1. h = [i \in 1 .. k + 1 |-> h[i]]
      OBVIOUS
    <3> HIDE DEF h
    <3> QED
      BY <2>2, <3>1 DEF Flattens
  <2> QED
    BY <2>3
<1> HIDE DEF H
<1>3. n \in H
  BY <1>1, <1>2, Induction
<1> QED
  BY <1>3 DEF H

LEMMA FlattensLast ==
    ASSUME NEW s, Len(s) \in Nat \ {0}
    PROVE  \E g : Flattens(g, s, Len(s)) /\ FlattenSeq(s) = g[Len(s)]
<1>1. \E g : Flattens(g, s, Len(s))
  BY FlattensExists
<1>2. FlattenSeq(s) = (CHOOSE g : Flattens(g, s, Len(s)))[Len(s)]
  BY DEF FlattenSeq, Flattens
<1> QED
  BY <1>1, <1>2

\* f and g are the same up to n.
SameUpTo(f, g, n) == \A i \in 1 .. n : f[i] = g[i]

LEMMA FlattensAgree ==
    ASSUME NEW s, NEW t, NEW n \in Nat, NEW m \in Nat, n <= m, SameUpTo(s, t, n),
           NEW g, NEW h, Flattens(g, s, n), Flattens(h, t, m)
    PROVE  SameUpTo(g, h, n)
<1> USE DEF SameUpTo
<1> DEFINE H == {k \in Nat : k \in 1 .. n => g[k] = h[k]}
<1>1. 0 \in H
  BY SMT
<1>2. ASSUME NEW k \in Nat, k \in H PROVE k + 1 \in H
  <2> SUFFICES ASSUME k + 1 \in 1 .. n PROVE g[k + 1] = h[k + 1]
    OBVIOUS
  <2>1. k + 1 \in 1 .. m /\ (k + 1) - 1 = k
    BY SMT
  <2>2. CASE k = 0
    BY <2>1, <2>2, SMT DEF Flattens
  <2>3. CASE k # 0
    <3>1. k \in 1 .. n /\ k + 1 # 1
      BY <2>3, SMT
    <3>2. g[k] = h[k]
      BY <1>2, <3>1
    <3>3. g[k + 1] = g[k] \o s[k + 1] /\ h[k + 1] = h[k] \o t[k + 1]
      BY <2>1, <3>1 DEF Flattens
    <3> QED
      BY <3>2, <3>3
  <2> QED
    BY <2>2, <2>3
<1> HIDE DEF H
<1>3. \A k \in Nat : k \in H
  BY <1>1, <1>2, Induction
<1> QED
  BY <1>3, SMT DEF H

LEMMA FlattenEmpty == FlattenSeq(<<>>) = <<>>
  BY DEF FlattenSeq

\* One more sequence is put at the end.
LEMMA FlattenAppend ==
    ASSUME NEW S, NEW T, NEW s \in Seq(T), NEW x \in Seq(S)
    PROVE  FlattenSeq(Append(s, x)) = FlattenSeq(s) \o x
<1> DEFINE n == Len(s)
           t == Append(s, x)
<1>1. n \in Nat /\ Len(t) = n + 1 /\ (\A i \in 1 .. n : s[i] = t[i]) /\ t[n + 1] = x
  <2>1. s \in Seq(T \cup {x}) /\ x \in T \cup {x}
    BY SeqMonotonic, Zenon
  <2> QED
    BY <2>1, AppendProperties, LenProperties
<1> HIDE DEF n, t
<1>2. PICK h : Flattens(h, t, n + 1) /\ FlattenSeq(t) = h[n + 1]
  BY <1>1, FlattensLast
<1>3. CASE n = 0
  <2>1. s = <<>>
    BY <1>3, EmptySeq, SMT DEF n
  <2>2. h[1] = t[1] /\ FlattenSeq(t) = h[1] /\ t[1] = x
    BY <1>1, <1>2, <1>3, SMT DEF Flattens
  <2>3. <<>> \o x = x
    BY ConcatEmptySeq
  <2>4. FlattenSeq(s) = <<>>
    BY <2>1, FlattenEmpty
  <2>5. FlattenSeq(t) = FlattenSeq(s) \o x
    BY <2>2, <2>3, <2>4
  <2> QED
    BY <2>5 DEF t
<1>4. CASE n # 0
  <2>1. PICK g : Flattens(g, s, n) /\ FlattenSeq(s) = g[n]
    BY <1>1, <1>4, FlattensLast DEF n
  <2>2. n \in 1 .. n /\ n + 1 \in 1 .. n + 1 /\ n + 1 # 1 /\ (n + 1) - 1 = n /\ n <= n + 1 /\ n + 1 \in Nat
    BY <1>1, <1>4, SMT
  <2>3. g[n] = h[n]
    <3>1. Flattens(g, s, n) /\ Flattens(h, t, n + 1) /\ SameUpTo(s, t, n)
      BY <1>1, <1>2, <2>1 DEF SameUpTo
    <3>2. SameUpTo(g, h, n)
      BY <1>1, <2>2, <3>1, FlattensAgree
    <3> QED
      BY <2>2, <3>2 DEF SameUpTo
  <2>4. h[n + 1] = h[n] \o t[n + 1]
    BY <1>2, <2>2 DEF Flattens
  <2> QED
    BY <1>1, <1>2, <2>1, <2>3, <2>4 DEF t
<1> QED
  BY <1>3, <1>4
-----------------------------------------------------------------------------
(* Sequences, one after the other *)

\* The first n sequences of s, as one.
FirstOf(s, n) == FlattenSeq([i \in 1 .. n |-> s[i]])

LEMMA FirstGrows ==
    ASSUME NEW S, NEW s, NEW n \in Nat, \A i \in 1 .. n + 1 : s[i] \in Seq(S)
    PROVE  FirstOf(s, 0) = <<>> /\ FirstOf(s, n + 1) = FirstOf(s, n) \o s[n + 1]
<1>1. FirstOf(s, 0) = <<>>
  <2>1. [i \in 1 .. 0 |-> s[i]] = <<>>
    BY SMT
  <2> QED
    BY <2>1, FlattenEmpty DEF FirstOf
<1>2. FirstOf(s, n + 1) = FirstOf(s, n) \o s[n + 1]
  <2> DEFINE a == [i \in 1 .. n |-> s[i]]
             b == [i \in 1 .. n + 1 |-> s[i]]
             x == s[n + 1]
  <2>1. x \in Seq(S)
    <3>1. n + 1 \in 1 .. n + 1
      BY SMT
    <3> QED
      BY <3>1
  <2>2. a \in Seq({s[i] : i \in 1 .. n + 1}) /\ Len(a) = n
    <3> DEFINE T == {s[i] : i \in 1 .. n + 1}
    <3>1. a \in [1 .. n -> T]
      <4>1. \A i \in 1 .. n : i \in 1 .. n + 1
        BY SMT
      <4> QED
        BY <4>1
    <3> HIDE DEF T, a
    <3>2. a \in Seq(T) /\ Len(a) = n
      BY <3>1, SMT
    <3> QED
      BY <3>2 DEF T
  <2>3. b = Append(a, x)
    <3> DEFINE T == {s[i] : i \in 1 .. n + 1}
    <3>1. x \in T /\ n + 1 \in 1 .. n + 1
      <4>1. n + 1 \in 1 .. n + 1
        BY SMT
      <4> QED
        BY <4>1
    <3>2. \A i \in 1 .. n + 1 : b[i] = s[i]
      OBVIOUS
    <3>3. \A i \in 1 .. n : a[i] = s[i]
      OBVIOUS
    <3>4. b \in [1 .. n + 1 -> T]
      OBVIOUS
    <3>5. a \in Seq(T) /\ Len(a) = n
      BY <2>2
    <3> DEFINE c == Append(a, x)
               N == n + 1
    <3> HIDE DEF a, b, T
    <3>6. c \in Seq(T) /\ Len(c) = N /\ c[N] = x /\ \A i \in 1 .. n : c[i] = a[i]
      BY <3>1, <3>5, AppendProperties
    <3>7. N \in Nat
      BY SMT
    <3>8. b \in Seq(T) /\ Len(b) = N
      <4>1. b \in [1 .. N -> T]
        BY <3>4
      <4> HIDE DEF N
      <4> QED
        BY <3>7, <4>1, SMT
    <3>9. \A i \in 1 .. N : b[i] = c[i]
      <4>1. \A i \in 1 .. N : i = N \/ i \in 1 .. n
        BY SMT
      <4> QED
        BY <3>2, <3>3, <3>6, <4>1
    <3> HIDE DEF N, c
    <3>10. b = c
      BY <3>6, <3>8, <3>9, SeqEqual
    <3> QED
      BY <3>10 DEF c
  <2> HIDE DEF a, b, x
  <2>4. FlattenSeq(b) = FlattenSeq(a) \o x
    <3> DEFINE T == {s[i] : i \in 1 .. n + 1}
    <3> HIDE DEF T
    <3>1. a \in Seq(T)
      BY <2>2 DEF T
    <3> QED
      BY <2>1, <2>3, <3>1, FlattenAppend
  <2> QED
    BY <2>4 DEF FirstOf, a, b, x
<1> QED
  BY <1>1, <1>2

LEMMA FirstIs ==
    ASSUME NEW s, NEW n \in Nat, \A i \in 1 .. n + 1 : s[i] \in Seq(Int)
    PROVE  FirstOf(s, 0) = <<>> /\ FirstOf(s, n + 1) = FirstOf(s, n) \o s[n + 1]
  BY FirstGrows

LEMMA FirstTyped ==
    ASSUME NEW s, NEW N \in Nat, \A i \in 1 .. N : s[i] \in Seq(Int)
    PROVE  \A n \in 0 .. N : FirstOf(s, n) \in Seq(Int)
<1> DEFINE H == {k \in Nat : k \in 0 .. N => FirstOf(s, k) \in Seq(Int)}
<1>1. 0 \in H
  <2>1. [i \in 1 .. 0 |-> s[i]] = <<>> /\ <<>> \in Seq(Int)
    BY SMT
  <2> QED
    BY <2>1, FlattenEmpty DEF FirstOf
<1>2. ASSUME NEW k \in Nat, k \in H PROVE k + 1 \in H
  <2> SUFFICES ASSUME k + 1 \in 0 .. N PROVE FirstOf(s, k + 1) \in Seq(Int)
    OBVIOUS
  <2>1. k \in 0 .. N /\ k + 1 \in 1 .. N /\ \A i \in 1 .. k + 1 : i \in 1 .. N
    BY SMT
  <2>2. FirstOf(s, k) \in Seq(Int) /\ s[k + 1] \in Seq(Int)
    BY <1>2, <2>1
  <2>3. FirstOf(s, k + 1) = FirstOf(s, k) \o s[k + 1]
    BY <2>1, FirstIs
  <2> QED
    BY <2>2, <2>3, ConcatProperties
<1> HIDE DEF H
<1>3. \A k \in Nat : k \in H
  BY <1>1, <1>2, Induction
<1> QED
  BY <1>3, SMT DEF H
=============================================================================
