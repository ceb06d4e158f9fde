--------------------------- MODULE MessagesProofs ---------------------------
(***************************************************************************)
(* Proofs about Messages: its types, the snapshots that are handed out and *)
(* freed, and that messages and snapshots are read back as they were sent. *)
(* First come lemmas about the reads of Fields and the decoding of         *)
(* Snapshot: what a read returns and where it ends, and that the integers  *)
(* of an item are decoded into that item.                                  *)
(***************************************************************************)
EXTENDS Messages, SequenceLemmas
-----------------------------------------------------------------------------
(* The reads of an unpacker *)

\* A message as it may be on the wire, and what is behind it.
WireOK ==
    /\ wire \in Seq([type : FieldTypes, value : Int, whole : BOOLEAN])
    /\ behind \in Seq(Int)

Shape(u) == u = [at |-> u.at, err |-> u.err, value |-> u.value, outside |-> u.outside]

\* An unpacker, and one that is inside of the message.  None has the error
\* with which a chunk is kept.
Typed(u) ==
    /\ Shape(u) /\ u.at \in 0 .. Len(wire) + Len(behind) /\ u.value \in Int
    /\ u.err # "UNKNOWN_MESSAGE" /\ u.outside \in BOOLEAN

Good(u) ==
    /\ Shape(u) /\ u.at \in 0 .. Len(wire) /\ u.value \in Int
    /\ u.err # "UNKNOWN_MESSAGE" /\ u.outside \in BOOLEAN

\* v is what a read made of u: a read that succeeds went n fields on, and none
\* succeeds behind one that failed.
Reads(u, v, n) ==
    /\ Good(v)
    /\ v.err = "NONE" => u.err = "NONE" /\ v.at = u.at + n
    /\ v.outside = u.outside

\* As much as is known of the reads that may go behind the message.
Follows(u, v) == Typed(v) /\ (v.err = "NONE" => u.err = "NONE")

LEMMA AtSet ==
    ASSUME NEW u, Shape(u), NEW y
    PROVE  [u EXCEPT !.at = y] = [at |-> y, err |-> u.err, value |-> u.value, outside |-> u.outside]
  BY SMT DEF Shape

LEMMA ErrSet ==
    ASSUME NEW u, Shape(u), NEW y
    PROVE  [u EXCEPT !.err = y] = [at |-> u.at, err |-> y, value |-> u.value, outside |-> u.outside]
  BY SMT DEF Shape

LEMMA ValueSet ==
    ASSUME NEW u, Shape(u), NEW y
    PROVE  [u EXCEPT !.value = y] = [at |-> u.at, err |-> u.err, value |-> y, outside |-> u.outside]
  BY SMT DEF Shape

LEMMA OutsideSet ==
    ASSUME NEW u, Shape(u), NEW y
    PROVE  [u EXCEPT !.outside = y] = [at |-> u.at, err |-> u.err, value |-> u.value, outside |-> y]
  BY SMT DEF Shape

LEMMA RecordShape ==
    ASSUME NEW a, NEW e, NEW v, NEW o, NEW u, u = [at |-> a, err |-> e, value |-> v, outside |-> o]
    PROVE  u.at = a /\ u.err = e /\ u.value = v /\ u.outside = o /\ Shape(u)
  BY SMT DEF Shape

\* A record of this shape is good if where it is and its value are.
LEMMA RecordGood ==
    ASSUME NEW u, NEW a, NEW e, NEW v, NEW o,
           u = [at |-> a, err |-> e, value |-> v, outside |-> o],
           a \in 0 .. Len(wire), e # "UNKNOWN_MESSAGE", v \in Int, o \in BOOLEAN
    PROVE  Good(u) /\ u.at = a /\ u.err = e /\ u.value = v /\ u.outside = o
<1>1. u.at = a /\ u.err = e /\ u.value = v /\ u.outside = o /\ Shape(u)
  BY RecordShape
<1> QED
  BY <1>1 DEF Good

LEMMA RecordTyped ==
    ASSUME NEW u, NEW a, NEW e, NEW v, NEW o,
           u = [at |-> a, err |-> e, value |-> v, outside |-> o],
           a \in 0 .. Len(wire) + Len(behind), e # "UNKNOWN_MESSAGE", v \in Int, o \in BOOLEAN
    PROVE  Typed(u) /\ u.at = a /\ u.err = e /\ u.value = v /\ u.outside = o
<1>1. u.at = a /\ u.err = e /\ u.value = v /\ u.outside = o /\ Shape(u)
  BY RecordShape
<1> QED
  BY <1>1 DEF Typed

LEMMA TypedIs ==
    ASSUME NEW u, Typed(u)
    PROVE  /\ Shape(u) /\ u.at \in 0 .. Len(wire) + Len(behind) /\ u.value \in Int
           /\ u.err # "UNKNOWN_MESSAGE" /\ u.outside \in BOOLEAN
  BY DEF Typed

LEMMA GoodIs ==
    ASSUME NEW u, Good(u)
    PROVE  /\ Shape(u) /\ u.at \in 0 .. Len(wire) /\ u.value \in Int
           /\ u.err # "UNKNOWN_MESSAGE" /\ u.outside \in BOOLEAN
  BY DEF Good

LEMMA Lengths ==
    ASSUME WireOK
    PROVE  /\ Len(wire) \in Nat /\ Len(behind) \in Nat
           /\ \A i \in 1 .. Len(behind) : behind[i] \in Int
  BY LenProperties, ElementOfSeq DEF WireOK

LEMMA GoodIsTyped ==
    ASSUME WireOK, NEW u, Good(u)
    PROVE  Typed(u)
<1>1. \A a \in 0 .. Len(wire) : a \in 0 .. Len(wire) + Len(behind)
  BY Lengths, SMT
<1> QED
  BY <1>1 DEF Good, Typed

\* Where the message ends, and where it does not.
LEMMA Ends ==
    ASSUME WireOK, NEW u, Typed(u)
    PROVE  /\ AtEnd(u) => ~AtPart(u)
           /\ AtPart(u) => ~AtEnd(u) /\ ~Exhausted(u)
           /\ ~Exhausted(u) => u.at + 1 \in 0 .. Len(wire) + Len(behind)
<1>1. Len(wire) \in Nat /\ Len(behind) \in Nat /\ u.at \in 0 .. Len(wire) + Len(behind)
  BY Lengths DEF Typed
<1> QED
  BY <1>1, SMT DEF AtEnd, AtPart, Exhausted

LEMMA Inside ==
    ASSUME WireOK, NEW u, Good(u), ~AtEnd(u)
    PROVE  /\ ~Exhausted(u) /\ u.at < Len(wire) /\ Here(u) = wire[u.at + 1]
           /\ AtPart(u) <=> ~Here(u).whole
<1>1. Len(wire) \in Nat /\ Len(behind) \in Nat /\ u.at \in 0 .. Len(wire)
  BY Lengths DEF Good
<1>2. u.at < Len(wire)
  BY <1>1, SMT DEF AtEnd
<1>3. ~Exhausted(u)
  BY <1>1, <1>2, SMT DEF Exhausted
<1> QED
  BY <1>2, <1>3 DEF Here, AtPart

LEMMA FailsIs ==
    ASSUME NEW u, Shape(u), NEW error
    PROVE  Fails(u, error) = [at |-> u.at, err |-> error, value |-> 0, outside |-> u.outside]
<1> DEFINE w == [u EXCEPT !.err = error]
<1>1. w = [at |-> u.at, err |-> error, value |-> u.value, outside |-> u.outside]
  BY ErrSet
<1>2. Fails(u, error) = [w EXCEPT !.value = 0]
  BY DEF Fails
<1> HIDE DEF w
<1>3. Shape(w) /\ w.at = u.at /\ w.err = error /\ w.outside = u.outside
  BY <1>1, RecordShape
<1> QED
  BY <1>2, <1>3, ValueSet

LEMMA FailsErr ==
    ASSUME NEW u, Shape(u), NEW error
    PROVE  Fails(u, error).err = error
<1> DEFINE w == Fails(u, error)
<1>1. w = [at |-> u.at, err |-> error, value |-> 0, outside |-> u.outside]
  BY FailsIs
<1> HIDE DEF w
<1>2. w.err = error
  BY <1>1, RecordShape
<1> QED
  BY <1>2 DEF w

LEMMA TakesIs ==
    ASSUME NEW u, Shape(u), NEW type
    PROVE  Takes(u, type) =
              [at |-> u.at + 1, err |-> u.err,
               value |-> IF Here(u).type \in {type, "any"} THEN Here(u).value ELSE Garbage,
               outside |-> u.outside]
<1> DEFINE w == [u EXCEPT !.at = u.at + 1]
           v == IF Here(u).type \in {type, "any"} THEN Here(u).value ELSE Garbage
<1>1. w = [at |-> u.at + 1, err |-> u.err, value |-> u.value, outside |-> u.outside]
  BY AtSet
<1>2. Takes(u, type) = [w EXCEPT !.value = v]
  BY DEF Takes
<1> HIDE DEF w, v
<1>3. Shape(w) /\ w.at = u.at + 1 /\ w.err = u.err /\ w.outside = u.outside
  BY <1>1, RecordShape
<1>4. Takes(u, type) = [at |-> u.at + 1, err |-> u.err, value |-> v, outside |-> u.outside]
  BY <1>2, <1>3, ValueSet
<1> QED
  BY <1>4 DEF v

LEMMA HereIsField ==
    ASSUME WireOK, NEW u, Good(u), ~AtEnd(u)
    PROVE  Here(u).value \in Int /\ u.at + 1 \in 0 .. Len(wire) /\ u.at + 1 \in 1 .. Len(wire)
<1> DEFINE F == [type : FieldTypes, value : Int, whole : BOOLEAN]
<1>0. Here(u) = wire[u.at + 1]
  BY Inside
<1>1. wire \in Seq(F) /\ u.at \in 0 .. Len(wire) /\ u.at # Len(wire)
  BY DEF WireOK, Good, AtEnd
<1>2. \A f \in F : f.value \in Int
  OBVIOUS
<1> HIDE DEF F
<1>3. Len(wire) \in Nat /\ \A i \in 1 .. Len(wire) : wire[i] \in F
  BY <1>1, ElementOfSeq, LenProperties
<1>4. u.at + 1 \in 1 .. Len(wire) /\ u.at + 1 \in 0 .. Len(wire)
  BY <1>1, <1>3, SMT
<1> QED
  BY <1>0, <1>2, <1>3, <1>4

LEMMA FailsReads ==
    ASSUME NEW u, Good(u), NEW error, error \notin {"NONE", "UNKNOWN_MESSAGE"}, NEW n
    PROVE  Reads(u, Fails(u, error), n)
<1> DEFINE w == Fails(u, error)
<1>1. w = [at |-> u.at, err |-> error, value |-> 0, outside |-> u.outside]
  BY FailsIs DEF Good
<1> HIDE DEF w
<1>2. w.at = u.at /\ w.err = error /\ w.value = 0 /\ w.outside = u.outside /\ Shape(w)
  BY <1>1, RecordShape
<1>3. Reads(u, w, n)
  BY <1>2, SMT DEF Reads, Good
<1> QED
  BY <1>3 DEF w

LEMMA FailsFollows ==
    ASSUME NEW u, Typed(u), NEW error, error \notin {"NONE", "UNKNOWN_MESSAGE"}
    PROVE  Follows(u, Fails(u, error))
<1> DEFINE w == Fails(u, error)
<1>1. w = [at |-> u.at, err |-> error, value |-> 0, outside |-> u.outside]
  BY FailsIs DEF Typed
<1> HIDE DEF w
<1>2. Typed(w) /\ w.err = error
  BY <1>1, RecordTyped, TypedIs
<1> QED
  BY <1>2 DEF w, Follows

LEMMA TakesReads ==
    ASSUME WireOK, NEW u, Good(u), ~AtEnd(u), NEW type
    PROVE  Reads(u, Takes(u, type), 1)
<1>1. Here(u).value \in Int /\ u.at + 1 \in 0 .. Len(wire)
  BY HereIsField
<1>2. Garbage \in Int
  BY SMT DEF Garbage
<1> DEFINE w == Takes(u, type)
           v == IF Here(u).type \in {type, "any"} THEN Here(u).value ELSE Garbage
<1>3. w = [at |-> u.at + 1, err |-> u.err, value |-> v, outside |-> u.outside]
  BY TakesIs DEF Good
<1>4. v \in Int
  BY <1>1, <1>2
<1> HIDE DEF w, v
<1>5. w.at = u.at + 1 /\ w.err = u.err /\ w.value = v /\ w.outside = u.outside /\ Shape(w)
  BY <1>3, RecordShape
<1>6. Reads(u, w, 1)
  BY <1>1, <1>4, <1>5, Zenon DEF Reads, Good
<1> QED
  BY <1>6 DEF w

LEMMA GetIntIs ==
    ASSUME WireOK, NEW u, Good(u)
    PROVE  /\ AtEnd(u) => GetInt(u) = Fails(u, "EMPTY_BUFFER")
           /\ ~AtEnd(u) /\ AtPart(u) => GetInt(u) = Fails(u, "END_OF_BUFFER")
           /\ ~AtEnd(u) /\ ~AtPart(u) => GetInt(u) = Takes(u, "int")
<1>1. AtEnd(u) => ~AtPart(u)
  BY GoodIsTyped, Ends
<1>2. ~AtEnd(u) => ~Exhausted(u)
  BY Inside
<1> QED
  BY <1>1, <1>2, Zenon DEF GetInt

LEMMA GetIntReads ==
    ASSUME WireOK, NEW u, Good(u)
    PROVE  Reads(u, GetInt(u), 1)
<1>1. CASE AtEnd(u)
  BY <1>1, GetIntIs, FailsReads
<1>2. CASE ~AtEnd(u) /\ AtPart(u)
  BY <1>2, GetIntIs, FailsReads
<1>3. CASE ~AtEnd(u) /\ ~AtPart(u)
  BY <1>3, GetIntIs, TakesReads
<1> QED
  BY <1>1, <1>2, <1>3

LEMMA GetBoolReads ==
    ASSUME WireOK, NEW u, Good(u)
    PROVE  Reads(u, GetBool(u), 1)
<1>1. Reads(u, GetInt(u), 1)
  BY GetIntReads
<1> DEFINE v == GetInt(u)
<1>2. CASE v.value \in {0, 1}
  BY <1>1, <1>2, Zenon DEF GetBool
<1>3. CASE v.value \notin {0, 1}
  <2> DEFINE w == Fails(v, "INVALID_BOOL")
  <2>1. GetBool(u) = w
    BY <1>3, Zenon DEF GetBool, Fails
  <2>2. Good(v) /\ v.outside = u.outside
    BY <1>1 DEF Reads
  <2> HIDE DEF v
  <2>3. w = [at |-> v.at, err |-> "INVALID_BOOL", value |-> 0, outside |-> v.outside]
    BY <2>2, FailsIs DEF Good
  <2>4. Reads(v, w, 1)
    BY <2>2, FailsReads
  <2> HIDE DEF w
  <2>5. w.err = "INVALID_BOOL"
    BY <2>3, RecordShape
  <2>6. Reads(u, w, 1)
    BY <2>2, <2>4, <2>5, SMT DEF Reads
  <2> QED
    BY <2>1, <2>6
<1> QED
  BY <1>2, <1>3

\* What is read behind the message, or where nothing more is known of it.
LEMMA TakesFollows ==
    ASSUME WireOK, NEW u, Typed(u), ~Exhausted(u), NEW type
    PROVE  Follows(u, Takes(u, type)) /\ Takes(u, type).outside = u.outside
<1> DEFINE w == Takes(u, type)
           v == IF Here(u).type \in {type, "any"} THEN Here(u).value ELSE Garbage
<1>1. v \in Int
  <2>1. Garbage \in Int
    BY SMT DEF Garbage
  <2>2. CASE u.at < Len(wire)
    <3>1. Good(u) /\ ~AtEnd(u)
      BY <2>2, Lengths, SMT DEF Typed, Good, AtEnd
    <3> QED
      BY <2>1, <3>1, HereIsField
  <2>3. CASE ~(u.at < Len(wire))
    <3>1. u.at + 1 - Len(wire) \in 1 .. Len(behind)
      BY <2>3, Lengths, SMT DEF Typed, Exhausted
    <3>2. Here(u).value = behind[u.at + 1 - Len(wire)]
      BY <2>3 DEF Here, Field
    <3> QED
      BY <2>1, <3>1, <3>2, Lengths
  <2> QED
    BY <2>2, <2>3
<1>2. w = [at |-> u.at + 1, err |-> u.err, value |-> v, outside |-> u.outside]
  BY TakesIs DEF Typed
<1> HIDE DEF w, v
<1>3. Typed(w) /\ w.err = u.err /\ w.outside = u.outside
  BY <1>1, <1>2, Ends, RecordTyped, TypedIs
<1> QED
  BY <1>3 DEF w, Follows

LEMMA OutsideFollows ==
    ASSUME NEW u, Typed(u)
    PROVE  Follows(u, [u EXCEPT !.outside = TRUE]) /\ [u EXCEPT !.outside = TRUE].outside = TRUE
<1> DEFINE w == [u EXCEPT !.outside = TRUE]
<1>1. w = [at |-> u.at, err |-> u.err, value |-> u.value, outside |-> TRUE]
  BY OutsideSet DEF Typed
<1>0. u.at \in 0 .. Len(wire) + Len(behind) /\ u.value \in Int /\ u.err # "UNKNOWN_MESSAGE"
  BY DEF Typed
<1>3. TRUE \in BOOLEAN
  OBVIOUS
<1> HIDE DEF w
<1>2. Typed(w) /\ w.err = u.err /\ w.outside = TRUE
  BY <1>0, <1>3, <1>1, RecordTyped
<1> QED
  BY <1>2 DEF w, Follows

LEMMA ValueFollows ==
    ASSUME NEW u, Typed(u), NEW v \in Int
    PROVE  Follows(u, [u EXCEPT !.value = v])
<1> DEFINE w == [u EXCEPT !.value = v]
<1>1. w = [at |-> u.at, err |-> u.err, value |-> v, outside |-> u.outside]
  BY ValueSet DEF Typed
<1> HIDE DEF w
<1>2. Typed(w) /\ w.err = u.err
  BY <1>1, RecordTyped, TypedIs
<1> QED
  BY <1>2 DEF w, Follows

LEMMA GetIntFollows ==
    ASSUME WireOK, NEW u, Typed(u)
    PROVE  Follows(u, GetInt(u))
<1>0. AtPart(u) => ~AtEnd(u) /\ ~Exhausted(u)
  BY Ends
<1>1. CASE AtEnd(u)
  <2>1. GetInt(u) = Fails(u, "EMPTY_BUFFER")
    BY <1>0, <1>1, Zenon DEF GetInt
  <2> QED
    BY <2>1, FailsFollows
<1>2. CASE AtPart(u)
  <2>1. GetInt(u) = Fails(u, "END_OF_BUFFER")
    BY <1>0, <1>2, Zenon DEF GetInt
  <2> QED
    BY <2>1, FailsFollows
<1>3. CASE ~AtEnd(u) /\ ~AtPart(u) /\ Exhausted(u)
  <2>1. GetInt(u) = [u EXCEPT !.outside = TRUE]
    BY <1>3, Zenon DEF GetInt
  <2> QED
    BY <2>1, OutsideFollows
<1>4. CASE ~AtEnd(u) /\ ~AtPart(u) /\ ~Exhausted(u)
  <2>1. GetInt(u) = Takes(u, "int")
    BY <1>4, Zenon DEF GetInt
  <2> QED
    BY <1>4, <2>1, TakesFollows
<1> QED
  BY <1>1, <1>2, <1>3, <1>4

LEMMA GetBoolFollows ==
    ASSUME WireOK, NEW u, Typed(u)
    PROVE  Follows(u, GetBool(u))
<1> DEFINE v == GetInt(u)
<1>1. Follows(u, v)
  BY GetIntFollows
<1>2. CASE v.value \in {0, 1}
  BY <1>1, <1>2, Zenon DEF GetBool
<1>3. CASE v.value \notin {0, 1}
  <2> DEFINE w == Fails(v, "INVALID_BOOL")
  <2>1. GetBool(u) = w
    BY <1>3, Zenon DEF GetBool, Fails
  <2> HIDE DEF v
  <2>2. Follows(v, w)
    BY <1>1, FailsFollows DEF Follows
  <2> QED
    BY <1>1, <2>1, <2>2 DEF Follows
<1> QED
  BY <1>2, <1>3

LEMMA SanitizeIsInt == \A n \in Int : Sanitize(n) \in Int
  BY SMT DEF Sanitize

LEMMA GetStringFollows ==
    ASSUME WireOK, NEW u, Typed(u)
    PROVE  Follows(u, GetString(u))
<1>0. Shape(u) /\ 0 \in Int /\ (AtPart(u) => ~AtEnd(u) /\ ~Exhausted(u))
  BY Ends DEF Typed
<1>1. CASE u.err # "NONE"
  <2>1. GetString(u) = [u EXCEPT !.value = 0]
    BY <1>1 DEF GetString
  <2> QED
    BY <1>0, <2>1, ValueFollows
<1>2. CASE u.err = "NONE" /\ Exhausted(u)
  <2>1. GetString(u) = [u EXCEPT !.outside = TRUE]
    BY <1>0, <1>2, Zenon DEF GetString
  <2> QED
    BY <2>1, OutsideFollows
<1>3. CASE u.err = "NONE" /\ AtPart(u)
  <2> DEFINE w == [u EXCEPT !.at = @ + 1]
  <2>1. GetString(u) = Fails(w, "STR_UNEXPECTED_EOF")
    BY <1>0, <1>3, Zenon DEF GetString
  <2>2. w = [at |-> u.at + 1, err |-> u.err, value |-> u.value, outside |-> u.outside]
    BY <1>0, AtSet
  <2> HIDE DEF w
  <2>3. Typed(w) /\ w.err = u.err
    BY <1>0, <1>3, <2>2, Ends, RecordTyped, TypedIs
  <2>4. Follows(w, Fails(w, "STR_UNEXPECTED_EOF"))
    BY <2>3, FailsFollows
  <2> QED
    BY <2>1, <2>3, <2>4 DEF Follows
<1>4. CASE u.err = "NONE" /\ ~Exhausted(u) /\ ~AtPart(u)
  <2> DEFINE t == Takes(u, "string")
  <2>1. GetString(u) = [t EXCEPT !.value = Sanitize(t.value)]
    BY <1>4, Zenon DEF GetString
  <2>2. Follows(u, t)
    BY <1>4, TakesFollows
  <2> HIDE DEF t
  <2>3. Sanitize(t.value) \in Int /\ Typed(t)
    BY <2>2, SanitizeIsInt DEF Follows, Typed
  <2>4. Follows(t, [t EXCEPT !.value = Sanitize(t.value)])
    BY <2>3, ValueFollows
  <2> QED
    BY <2>1, <2>2, <2>4 DEF Follows
<1> QED
  BY <1>1, <1>2, <1>3, <1>4

LEMMA GetRawFollows ==
    ASSUME WireOK, NEW u, Typed(u), NEW n
    PROVE  Follows(u, GetRaw(u, n))
<1> DEFINE room == IF AtEnd(u) \/ AtPart(u) THEN 0 ELSE Here(u).value
<1>0. CASE ~AtEnd(u) /\ Exhausted(u)
  <2>1. GetRaw(u, n) = [u EXCEPT !.outside = TRUE]
    BY <1>0 DEF GetRaw
  <2> QED
    BY <2>1, OutsideFollows
<1>1. CASE ~(~AtEnd(u) /\ Exhausted(u)) /\ n = 0
  <2>1. GetRaw(u, n) = [u EXCEPT !.value = 0]
    BY <1>1 DEF GetRaw
  <2> QED
    BY <2>1, ValueFollows
<1>2. CASE ~(~AtEnd(u) /\ Exhausted(u)) /\ n # 0 /\ n \in 1 .. room
  <2> DEFINE t == Takes(u, "raw")
  <2>1. GetRaw(u, n) = [t EXCEPT !.value = n]
    BY <1>2 DEF GetRaw
  <2>2. ~AtEnd(u)
    <3>1. 1 .. 0 = {}
      BY SMT
    <3> QED
      BY <1>2, <3>1
  <2>3. Follows(u, t)
    BY <1>2, <2>2, TakesFollows
  <2>4. n \in Int
    BY <1>2, SMT
  <2> HIDE DEF t, room
  <2>5. Follows(t, [t EXCEPT !.value = n])
    BY <2>3, <2>4, ValueFollows DEF Follows
  <2> QED
    BY <2>1, <2>3, <2>5 DEF Follows
<1>3. CASE ~(~AtEnd(u) /\ Exhausted(u)) /\ n # 0 /\ n \notin 1 .. room
  <2>1. GetRaw(u, n) = Fails(u, "END_OF_BUFFER")
    BY <1>3 DEF GetRaw
  <2> HIDE DEF room
  <2> QED
    BY <2>1, FailsFollows
<1> HIDE DEF room
<1> QED
  BY <1>0, <1>1, <1>2, <1>3

\* The fields before one that is cut off.
There == IF wire # <<>> /\ ~wire[Len(wire)].whole THEN Len(wire) - 1 ELSE Len(wire)

LEMMA ThereIs ==
    ASSUME WireOK
    PROVE  /\ There \in 0 .. Len(wire)
           /\ There # Len(wire) => There + 1 = Len(wire) /\ ~wire[There + 1].whole
<1>1. Len(wire) \in Nat /\ (wire # <<>> => Len(wire) # 0)
  BY LenProperties, EmptySeq DEF WireOK
<1> QED
  BY <1>1, SMT DEF There

LEMMA GetIntsReads ==
    ASSUME WireOK, NEW u, Good(u), NEW n \in Int
    PROVE  Reads(u, GetInts(u, n), IF n > 0 THEN n ELSE 0)
<1>0. GetInts(u, n) = IF n <= 0 THEN u
                      ELSE GetInt([u EXCEPT !.at = IF u.at + n <= There THEN u.at + n - 1 ELSE There])
  BY DEF GetInts, There
<1>1. Len(wire) \in Nat /\ u.at \in 0 .. Len(wire) /\ There \in 0 .. Len(wire)
  BY ThereIs, LenProperties DEF WireOK, Good
<1>2. CASE n <= 0
  <2>1. GetInts(u, n) = u
    BY <1>0, <1>2, Zenon
  <2>2. u.at = u.at + 0 /\ ~(n > 0)
    BY <1>1, <1>2, SMT
  <2> QED
    BY <2>1, <2>2 DEF Reads
<1>3. CASE n > 0 /\ u.at + n <= There
  <2> DEFINE w == [u EXCEPT !.at = u.at + n - 1]
  <2>1. GetInts(u, n) = GetInt(w)
    BY <1>0, <1>3, SMT
  <2>2. u.at + n - 1 \in 0 .. Len(wire)
    BY <1>1, <1>3, SMT
  <2>0. w = [at |-> u.at + n - 1, err |-> u.err, value |-> u.value, outside |-> u.outside]
    BY AtSet DEF Good
  <2> HIDE DEF w
  <2>3. Good(w) /\ w.at = u.at + n - 1 /\ w.err = u.err /\ w.outside = u.outside
    BY <2>0, <2>2, RecordGood, GoodIs
  <2>4. Reads(w, GetInt(w), 1)
    BY <2>3, GetIntReads
  <2>5. w.at + 1 = u.at + n
    BY <1>1, <2>3, SMT
  <2> QED
    BY <1>3, <2>1, <2>3, <2>4, <2>5 DEF Reads
<1>4. CASE n > 0 /\ ~(u.at + n <= There)
  <2> DEFINE w == [u EXCEPT !.at = There]
  <2>1. GetInts(u, n) = GetInt(w)
    BY <1>0, <1>4, SMT
  <2>0. w = [at |-> There, err |-> u.err, value |-> u.value, outside |-> u.outside]
    BY AtSet DEF Good
  <2> HIDE DEF w
  <2>2. Good(w) /\ w.at = There /\ w.err = u.err /\ w.outside = u.outside
    BY <2>0, <1>1, RecordGood, GoodIs
  <2>3. Reads(w, GetInt(w), 1)
    BY <2>2, GetIntReads
  <2>4. GetInt(w).err # "NONE"
    <3>1. CASE AtEnd(w)
      <4>1. GetInt(w) = Fails(w, "EMPTY_BUFFER")
        BY <2>2, <3>1, GetIntIs
      <4> QED
        BY <2>2, <4>1, FailsErr DEF Good
    <3>2. CASE ~AtEnd(w)
      <4>1. AtPart(w)
        <5>1. ~wire[There + 1].whole
          BY <2>2, <3>2, ThereIs DEF AtEnd
        <5> QED
          BY <2>2, <3>2, <5>1, Inside
      <4>2. GetInt(w) = Fails(w, "END_OF_BUFFER")
        BY <2>2, <3>2, <4>1, GetIntIs
      <4> QED
        BY <2>2, <4>2, FailsErr DEF Good
    <3> QED
      BY <3>1, <3>2
  <2> QED
    BY <2>1, <2>2, <2>3, <2>4 DEF Reads
<1> QED
  BY <1>1, <1>2, <1>3, <1>4, SMT
-----------------------------------------------------------------------------
(* Sizes *)

\* What Total makes of the first i of n sizes.
Totals(g, s, n) == g = [i \in 0 .. n |-> IF i = 0 THEN 0 ELSE g[i - 1] + s[i]]

LEMMA TotalsExists ==
    ASSUME NEW s, NEW n \in Nat
    PROVE  \E g : Totals(g, s, n)
<1> DEFINE H == {k \in Nat : \E g : Totals(g, s, k)}
<1>1. 0 \in H
  <2> DEFINE g == [i \in 0 .. 0 |-> 0]
  <2>1. \A i \in 0 .. 0 : i = 0
    BY SMT
  <2>2. g = [i \in 0 .. 0 |-> IF i = 0 THEN 0 ELSE g[i - 1] + s[i]]
    BY <2>1, Zenon
  <2>3. Totals(g, s, 0)
    BY <2>2 DEF Totals
  <2> QED
    BY <2>3
<1>2. ASSUME NEW k \in Nat, k \in H PROVE k + 1 \in H
  <2>1. PICK g : Totals(g, s, k)
    BY <1>2
  <2> DEFINE h == [i \in 0 .. k + 1 |-> IF i = k + 1 THEN g[k] + s[i] ELSE g[i]]
  <2>2. ASSUME NEW i \in 0 .. k + 1
        PROVE  h[i] = IF i = 0 THEN 0 ELSE h[i - 1] + s[i]
    <3>1. CASE i = k + 1
      <4>1. i # 0 /\ k \in 0 .. k + 1 /\ k # k + 1 /\ i - 1 = k
        BY <3>1, SMT
      <4>2. h[i - 1] = g[k] /\ h[i] = g[k] + s[i]
        BY <3>1, <4>1
      <4> QED
        BY <4>1, <4>2
    <3>2. CASE i # k + 1
      <4>1. i \in 0 .. k /\ h[i] = g[i]
        BY <3>2, SMT
      <4>2. g[i] = IF i = 0 THEN 0 ELSE g[i - 1] + s[i]
        BY <2>1, <4>1 DEF Totals
      <4>3. i # 0 => h[i - 1] = g[i - 1]
        <5>1. i # 0 => i - 1 \in 0 .. k + 1 /\ i - 1 # k + 1
          BY <4>1, SMT
        <5> QED
          BY <5>1
      <4> QED
        BY <4>1, <4>2, <4>3
    <3> QED
      BY <3>1, <3>2
  <2>3. Totals(h, s, k + 1)
    <3>1. h = [i \in 0 .. k + 1 |-> h[i]]
      OBVIOUS
    <3> HIDE DEF h
    <3> QED
      BY <2>2, <3>1 DEF Totals
  <2> QED
    BY <2>3
<1> HIDE DEF H
<1>3. n \in H
  BY <1>1, <1>2, Induction
<1> QED
  BY <1>3 DEF H

LEMMA TotalLast ==
    ASSUME NEW s, Len(s) \in Nat
    PROVE  \E g : Totals(g, s, Len(s)) /\ Total(s) = g[Len(s)]
<1>1. \E g : Totals(g, s, Len(s))
  BY TotalsExists
<1>2. Total(s) = (CHOOSE g : Totals(g, s, Len(s)))[Len(s)]
  BY DEF Total, Totals
<1> QED
  BY <1>1, <1>2

LEMMA TotalsAgree ==
    ASSUME NEW s, NEW t, NEW n \in Nat, NEW m \in Nat, n <= m, SameUpTo(s, t, n),
           NEW g, NEW h, Totals(g, s, n), Totals(h, t, m)
    PROVE  g[n] = h[n]
<1> DEFINE H == {k \in Nat : k \in 0 .. n => g[k] = h[k]}
<1>1. 0 \in H
  BY SMT DEF Totals
<1>2. ASSUME NEW k \in Nat, k \in H PROVE k + 1 \in H
  <2> SUFFICES ASSUME k + 1 \in 0 .. n PROVE g[k + 1] = h[k + 1]
    OBVIOUS
  <2>1. k + 1 \in 1 .. n /\ k + 1 \in 0 .. m /\ (k + 1) - 1 = k /\ k \in 0 .. n /\ k + 1 # 0
    BY SMT
  <2>2. g[k] = h[k] /\ s[k + 1] = t[k + 1]
    BY <1>2, <2>1 DEF SameUpTo
  <2>3. g[k + 1] = g[k] + s[k + 1] /\ h[k + 1] = h[k] + t[k + 1]
    BY <2>1 DEF Totals
  <2> QED
    BY <2>2, <2>3
<1> HIDE DEF H
<1>3. n \in H
  BY <1>1, <1>2, Induction
<1>4. n \in 0 .. n
  BY SMT
<1> QED
  BY <1>3, <1>4 DEF H

LEMMA TotalsAreNat ==
    ASSUME NEW s, NEW n \in Nat, \A i \in 1 .. n : s[i] \in Nat, NEW g, Totals(g, s, n)
    PROVE  \A i \in 0 .. n : g[i] \in Nat
<1> DEFINE H == {k \in Nat : k \in 0 .. n => g[k] \in Nat}
<1>1. 0 \in H
  BY SMT DEF Totals
<1>2. ASSUME NEW k \in Nat, k \in H PROVE k + 1 \in H
  <2> SUFFICES ASSUME k + 1 \in 0 .. n PROVE g[k + 1] \in Nat
    OBVIOUS
  <2>1. k + 1 \in 1 .. n /\ k + 1 \in 0 .. n /\ (k + 1) - 1 = k /\ k \in 0 .. n /\ k + 1 # 0
    BY SMT
  <2>2. g[k] \in Nat /\ s[k + 1] \in Nat
    BY <1>2, <2>1
  <2>3. g[k + 1] = g[k] + s[k + 1]
    BY <2>1 DEF Totals
  <2> QED
    BY <2>2, <2>3, SMT
<1> HIDE DEF H
<1>3. \A k \in Nat : k \in H
  BY <1>1, <1>2, Induction
<1> QED
  BY <1>3, SMT DEF H

\* With one more size the total is greater by it.
LEMMA TotalMore ==
    ASSUME NEW s, NEW t, Len(s) \in Nat, Len(t) = Len(s) + 1, SameUpTo(s, t, Len(s))
    PROVE  Total(t) = Total(s) + t[Len(t)]
<1> DEFINE n == Len(s)
<1>1. n \in Nat /\ Len(t) = n + 1 /\ n + 1 \in Nat /\ SameUpTo(s, t, n)
  OBVIOUS
<1>2. PICK g : Totals(g, s, n) /\ Total(s) = g[n]
  BY TotalLast
<1>3. Len(t) \in Nat
  BY <1>1, SMT
<1>4. PICK h : Totals(h, t, Len(t)) /\ Total(t) = h[Len(t)]
  BY <1>3, TotalLast, Zenon
<1> HIDE DEF n
<1>5. Totals(h, t, n + 1) /\ Total(t) = h[n + 1]
  BY <1>1, <1>4
<1>6. g[n] = h[n]
  BY <1>1, <1>2, <1>5, TotalsAgree, SMT
<1>7. n + 1 \in 0 .. n + 1 /\ n + 1 # 0 /\ (n + 1) - 1 = n
  BY <1>1, SMT
<1>8. h[n + 1] = h[n] + t[n + 1]
  BY <1>5, <1>7 DEF Totals
<1> QED
  BY <1>1, <1>2, <1>5, <1>6, <1>8

LEMMA TotalIsNat ==
    ASSUME NEW s, Len(s) \in Nat, \A i \in 1 .. Len(s) : s[i] \in Nat
    PROVE  Total(s) \in Nat
<1>1. PICK g : Totals(g, s, Len(s)) /\ Total(s) = g[Len(s)]
  BY TotalLast
<1>2. \A i \in 0 .. Len(s) : g[i] \in Nat
  BY <1>1, TotalsAreNat
<1>3. Len(s) \in 0 .. Len(s)
  BY SMT
<1> QED
  BY <1>1, <1>2, <1>3

-----------------------------------------------------------------------------
(* The items of a snapshot *)

\* An item that is being decoded; only a string that fails stops it.
ItemShape(st) == st = [u |-> st.u, members |-> st.members, stop |-> st.stop]
Decoding(st) == ItemShape(st) /\ Good(st.u) /\ (st.stop => st.u.err # "NONE")

\* after is what a read of n integers made of st.
Went(st, after, n) ==
    /\ Decoding(after)
    /\ after.u.err = "NONE" => st.u.err = "NONE" /\ after.u.at = st.u.at + n

SizeOf(member) == IF member \in DOMAIN NumInts THEN NumInts[member] ELSE 1

LEMMA USet ==
    ASSUME NEW st, ItemShape(st), NEW u
    PROVE  [st EXCEPT !.u = u] = [u |-> u, members |-> st.members, stop |-> st.stop]
  BY SMT DEF ItemShape

LEMMA MembersSet ==
    ASSUME NEW st, ItemShape(st), NEW u, NEW m
    PROVE  [st EXCEPT !.u = u, !.members = m] = [u |-> u, members |-> m, stop |-> st.stop]
<1> DEFINE w == [st EXCEPT !.u = u]
<1>1. w = [u |-> u, members |-> st.members, stop |-> st.stop]
  BY USet
<1>2. [st EXCEPT !.u = u, !.members = m] = [w EXCEPT !.members = m]
  OBVIOUS
<1> HIDE DEF w
<1>3. [w EXCEPT !.members = m] = [u |-> u, members |-> m, stop |-> st.stop]
  BY <1>1, SMT
<1> QED
  BY <1>2, <1>3

LEMMA StopSet ==
    ASSUME NEW st, ItemShape(st), NEW u, NEW b
    PROVE  [st EXCEPT !.u = u, !.stop = b] = [u |-> u, members |-> st.members, stop |-> b]
<1> DEFINE w == [st EXCEPT !.u = u]
<1>1. w = [u |-> u, members |-> st.members, stop |-> st.stop]
  BY USet
<1>2. [st EXCEPT !.u = u, !.stop = b] = [w EXCEPT !.stop = b]
  OBVIOUS
<1> HIDE DEF w
<1>3. [w EXCEPT !.stop = b] = [u |-> u, members |-> st.members, stop |-> b]
  BY <1>1, SMT
<1> QED
  BY <1>2, <1>3

LEMMA GetMemberReads ==
    ASSUME WireOK, NEW st, Decoding(st), NEW member
    PROVE  Went(st, GetMember(st, member), SizeOf(member))
<1>1. CASE st.stop
  <2>1. GetMember(st, member) = st
    BY <1>1 DEF GetMember
  <2> QED
    BY <1>1, <2>1 DEF Went, Decoding
<1>2. CASE ~st.stop /\ member \in DOMAIN NumInts
  <2> DEFINE n == NumInts[member]
             v == GetInts(st.u, n)
             m == Setting(st.members, member, IntsToStr([i \in 1 .. n |-> wire[st.u.at + i].value]))
  <2>1. n \in Int /\ n > 0
    BY <1>2, SMT DEF NumInts
  <2>2. GetMember(st, member) = IF v.err # "NONE" THEN [st EXCEPT !.u = v, !.stop = TRUE]
                                ELSE [st EXCEPT !.u = v, !.members = m]
    BY <1>2 DEF GetMember, GetStr
  <2>3. n = SizeOf(member)
    BY <1>2 DEF SizeOf
  <2> HIDE DEF n, m
  <2>4. Reads(st.u, v, n)
    <3>1. Reads(st.u, GetInts(st.u, n), IF n > 0 THEN n ELSE 0)
      BY <2>1, GetIntsReads DEF Decoding
    <3> QED
      BY <2>1, <3>1
  <2> HIDE DEF v
  <2>5. CASE v.err # "NONE"
    <3> DEFINE w == [st EXCEPT !.u = v, !.stop = TRUE]
    <3>1. w = [u |-> v, members |-> st.members, stop |-> TRUE]
      BY StopSet DEF Decoding
    <3>2. GetMember(st, member) = w
      BY <2>2, <2>5
    <3> HIDE DEF w
    <3>3. w.u = v /\ ItemShape(w)
      BY <3>1 DEF ItemShape
    <3> QED
      BY <2>4, <2>5, <3>2, <3>3 DEF Went, Decoding, Reads
  <2>6. CASE v.err = "NONE"
    <3> DEFINE w == [st EXCEPT !.u = v, !.members = m]
    <3>1. w = [u |-> v, members |-> m, stop |-> st.stop]
      BY MembersSet DEF Decoding
    <3>2. GetMember(st, member) = w
      BY <2>2, <2>6
    <3> HIDE DEF w
    <3>3. w.u = v /\ w.stop = st.stop /\ ItemShape(w)
      BY <3>1 DEF ItemShape
    <3> QED
      BY <1>2, <2>3, <2>4, <3>2, <3>3 DEF Went, Decoding, Reads
  <2> QED
    BY <2>5, <2>6
<1>3. CASE ~st.stop /\ member \notin DOMAIN NumInts
  <2> DEFINE v == IF member \in Bools THEN GetBool(st.u) ELSE GetInt(st.u)
             m == Setting(st.members, member, v.value)
             w == [st EXCEPT !.u = v, !.members = m]
  <2>1. GetMember(st, member) = w
    BY <1>3 DEF GetMember
  <2>2. Reads(st.u, v, 1)
    BY GetBoolReads, GetIntReads DEF Decoding
  <2> HIDE DEF v, m
  <2>3. w = [u |-> v, members |-> m, stop |-> st.stop]
    BY MembersSet DEF Decoding
  <2> HIDE DEF w
  <2>4. w.u = v /\ w.stop = st.stop /\ ItemShape(w)
    BY <2>3 DEF ItemShape
  <2>5. SizeOf(member) = 1
    BY <1>3 DEF SizeOf
  <2> QED
    BY <1>3, <2>1, <2>2, <2>4, <2>5 DEF Went, Decoding, Reads
<1> QED
  BY <1>1, <1>2, <1>3

LEMMA MembersSizeIsInt ==
    ASSUME NEW s, Len(s) \in Nat
    PROVE  MembersSize(s) \in Int
<1> DEFINE n == Len(s)
           sizes == [i \in 1 .. n |-> IF s[i] \in DOMAIN NumInts THEN NumInts[s[i]] ELSE 1]
<1>1. sizes \in Seq(Nat) /\ Len(sizes) = n
  <2>1. \A i \in 1 .. n : (IF s[i] \in DOMAIN NumInts THEN NumInts[s[i]] ELSE 1) \in Nat
    BY SMT DEF NumInts
  <2>2. sizes \in [1 .. n -> Nat]
    BY <2>1
  <2> HIDE DEF sizes
  <2> QED
    BY <2>2, SMT
<1>2. MembersSize(s) = Total(sizes)
  BY DEF MembersSize
<1> HIDE DEF sizes, n
<1>3. \A i \in 1 .. Len(sizes) : sizes[i] \in Nat
  BY <1>1, ElementOfSeq
<1>4. Len(sizes) \in Nat
  BY <1>1, LenProperties
<1> QED
  BY <1>2, <1>3, <1>4, TotalIsNat, SMT

LEMMA NoMembersSize == MembersSize(<<>>) = 0
<1> DEFINE sizes == [i \in 1 .. Len(<<>>) |-> IF <<>>[i] \in DOMAIN NumInts THEN NumInts[<<>>[i]] ELSE 1]
<1>1. Len(sizes) = 0
  BY SMT
<1>2. MembersSize(<<>>) = Total(sizes)
  BY DEF MembersSize
<1> HIDE DEF sizes
<1>3. PICK g : Totals(g, sizes, 0) /\ Total(sizes) = g[0]
  <2>1. Len(sizes) \in Nat
    BY <1>1, SMT
  <2>2. \E g : Totals(g, sizes, Len(sizes)) /\ Total(sizes) = g[Len(sizes)]
    BY <2>1, TotalLast, Zenon
  <2> QED
    BY <1>1, <2>2
<1>4. 0 \in 0 .. 0
  BY SMT
<1>5. g[0] = 0
  BY <1>3, <1>4 DEF Totals
<1> QED
  BY <1>2, <1>3, <1>5

LEMMA TwoMembersSize == MembersSize(<<"x", "y">>) = 2
<1> DEFINE s == <<"x", "y">>
           sizes == [i \in 1 .. Len(s) |-> IF s[i] \in DOMAIN NumInts THEN NumInts[s[i]] ELSE 1]
<1>1. Len(s) = 2 /\ s[1] \notin DOMAIN NumInts /\ s[2] \notin DOMAIN NumInts
  BY SMT DEF NumInts
<1>2. MembersSize(s) = Total(sizes)
  BY DEF MembersSize
<1> HIDE DEF s
<1>3. Len(sizes) = 2 /\ sizes[1] = 1 /\ sizes[2] = 1
  BY <1>1, SMT
<1> HIDE DEF sizes
<1>4. PICK g : Totals(g, sizes, 2) /\ Total(sizes) = g[2]
  <2>1. Len(sizes) \in Nat
    BY <1>3, SMT
  <2>2. \E g : Totals(g, sizes, Len(sizes)) /\ Total(sizes) = g[Len(sizes)]
    BY <2>1, TotalLast, Zenon
  <2> QED
    BY <1>3, <2>2
<1>5. g[0] = 0 /\ g[1] = g[0] + sizes[1] /\ g[2] = g[1] + sizes[2]
  BY <1>4, SMT DEF Totals
<1> QED
  BY <1>2, <1>3, <1>4, <1>5, SMT DEF s

\* What GetMembers makes of the first i of n members.
MembersRead(g, st, s, n) == g = [i \in 0 .. n |-> IF i = 0 THEN st ELSE GetMember(g[i - 1], s[i])]

LEMMA MembersReadExists ==
    ASSUME NEW st, NEW s, NEW n \in Nat
    PROVE  \E g : MembersRead(g, st, s, n)
<1> DEFINE H == {k \in Nat : \E g : MembersRead(g, st, s, k)}
<1>1. 0 \in H
  <2> DEFINE g == [i \in 0 .. 0 |-> st]
  <2>1. \A i \in 0 .. 0 : i = 0
    BY SMT
  <2>2. g = [i \in 0 .. 0 |-> IF i = 0 THEN st ELSE GetMember(g[i - 1], s[i])]
    BY <2>1, Zenon
  <2>3. MembersRead(g, st, s, 0)
    BY <2>2 DEF MembersRead
  <2> QED
    BY <2>3
<1>2. ASSUME NEW k \in Nat, k \in H PROVE k + 1 \in H
  <2>1. PICK g : MembersRead(g, st, s, k)
    BY <1>2
  <2> DEFINE h == [i \in 0 .. k + 1 |-> IF i = k + 1 THEN GetMember(g[k], s[i]) ELSE g[i]]
  <2>2. ASSUME NEW i \in 0 .. k + 1
        PROVE  h[i] = IF i = 0 THEN st ELSE GetMember(h[i - 1], s[i])
    <3>1. CASE i = k + 1
      <4>1. i # 0 /\ k \in 0 .. k + 1 /\ k # k + 1 /\ i - 1 = k
        BY <3>1, SMT
      <4>2. h[i - 1] = g[k] /\ h[i] = GetMember(g[k], s[i])
        BY <3>1, <4>1
      <4> QED
        BY <4>1, <4>2
    <3>2. CASE i # k + 1
      <4>1. i \in 0 .. k /\ h[i] = g[i]
        BY <3>2, SMT
      <4>2. g[i] = IF i = 0 THEN st ELSE GetMember(g[i - 1], s[i])
        BY <2>1, <4>1 DEF MembersRead
      <4>3. i # 0 => h[i - 1] = g[i - 1]
        <5>1. i # 0 => i - 1 \in 0 .. k + 1 /\ i - 1 # k + 1
          BY <4>1, SMT
        <5> QED
          BY <5>1
      <4> QED
        BY <4>1, <4>2, <4>3
    <3> QED
      BY <3>1, <3>2
  <2>3. MembersRead(h, st, s, k + 1)
    <3>1. h = [i \in 0 .. k + 1 |-> h[i]]
      OBVIOUS
    <3> HIDE DEF h
    <3> QED
      BY <2>2, <3>1 DEF MembersRead
  <2> QED
    BY <2>3
<1> HIDE DEF H
<1>3. n \in H
  BY <1>1, <1>2, Induction
<1> QED
  BY <1>3 DEF H

\* Members that are read take the integers they are given.
LEMMA GetMembersReads ==
    ASSUME WireOK, NEW st, Decoding(st), NEW s, Len(s) \in Nat
    PROVE  Went(st, GetMembers(st, s), MembersSize(s))
<1> DEFINE n == Len(s)
           sizes == [i \in 1 .. n |-> IF s[i] \in DOMAIN NumInts THEN NumInts[s[i]] ELSE 1]
<1>1. PICK g : MembersRead(g, st, s, n) /\ GetMembers(st, s) = g[n]
  <2>1. \E g : MembersRead(g, st, s, n)
    BY MembersReadExists
  <2>2. GetMembers(st, s) = (CHOOSE g : MembersRead(g, st, s, n))[n]
    BY DEF GetMembers, MembersRead
  <2> QED
    BY <2>1, <2>2
<1>2. MembersSize(s) = Total(sizes) /\ Len(sizes) = n /\ n \in Nat
  <2>1. sizes \in Seq({IF s[i] \in DOMAIN NumInts THEN NumInts[s[i]] ELSE 1 : i \in 1 .. n})
    BY IsASeq
  <2> QED
    BY <2>1, LenProperties, SMT DEF MembersSize
<1>3. \A i \in 1 .. n : sizes[i] = SizeOf(s[i])
  BY DEF SizeOf
<1> HIDE DEF n, sizes
<1>4. PICK t : Totals(t, sizes, n) /\ Total(sizes) = t[n]
  BY <1>2, TotalLast
<1> DEFINE H == {k \in Nat : k \in 0 .. n => t[k] \in Int /\ Went(st, g[k], t[k])}
<1>5. 0 \in H
  <2>1. 0 \in 0 .. n
    BY <1>2, SMT
  <2>2. t[0] = 0 /\ g[0] = st
    BY <1>1, <1>4, <2>1 DEF Totals, MembersRead
  <2>3. st.u.at = st.u.at + 0
    BY SMT DEF Decoding, Good
  <2> QED
    BY <2>2, <2>3 DEF Went
<1>6. ASSUME NEW k \in Nat, k \in H PROVE k + 1 \in H
  <2> SUFFICES ASSUME k + 1 \in 0 .. n PROVE t[k + 1] \in Int /\ Went(st, g[k + 1], t[k + 1])
    OBVIOUS
  <2>1. k + 1 \in 1 .. n /\ k \in 0 .. n /\ (k + 1) - 1 = k /\ k + 1 # 0
    BY <1>2, SMT
  <2>2. t[k] \in Int /\ Went(st, g[k], t[k])
    BY <1>6, <2>1
  <2>3. t[k + 1] = t[k] + SizeOf(s[k + 1])
    BY <1>3, <1>4, <2>1 DEF Totals
  <2>4. g[k + 1] = GetMember(g[k], s[k + 1])
    BY <1>1, <2>1 DEF MembersRead
  <2>5. Went(g[k], g[k + 1], SizeOf(s[k + 1]))
    BY <2>2, <2>4, GetMemberReads DEF Went
  <2>6. SizeOf(s[k + 1]) \in Int
    BY SMT DEF SizeOf, NumInts
  <2>7. st.u.at \in Int /\ g[k].u.at \in Int
    BY <2>2, SMT DEF Decoding, Good, Went
  <2>8. g[k].u.at = st.u.at + t[k] => g[k].u.at + SizeOf(s[k + 1]) = st.u.at + t[k + 1]
    BY <2>2, <2>3, <2>6, <2>7, SMT
  <2>9. t[k + 1] \in Int
    BY <2>2, <2>3, <2>6, SMT
  <2> QED
    BY <2>2, <2>5, <2>8, <2>9 DEF Went
<1> HIDE DEF H
<1>7. n \in H
  BY <1>2, <1>5, <1>6, Induction
<1>8. n \in 0 .. n
  BY <1>2, SMT
<1> QED
  BY <1>1, <1>2, <1>4, <1>7, <1>8 DEF H

\* An item that is decoded without an error takes the integers it should.
LEMMA DecodeItemReads ==
    ASSUME WireOK, NEW u, Good(u), NEW d, d = DecodeItem(u)
    PROVE  /\ Good(d.u) /\ d.err # "UNKNOWN_MESSAGE"
           /\ d.err = "NONE" =>
                /\ d.u.err = "NONE" /\ GetInt(GetInt(u)).err = "NONE"
                /\ ItemSize(d.item) \in Int /\ d.u.at = u.at + ItemSize(d.item)
<1> DEFINE type == GetInt(u)
           id == GetInt(type)
           common == IF type.value \in EventCommon .. ItemType.DAMAGE_INDICATOR THEN <<"x", "y">> ELSE <<>>
           names == {name \in DOMAIN ItemType : ItemType[name] = type.value}
           name == CHOOSE n \in names : TRUE
           start == [u |-> id, members |-> <<>>, stop |-> FALSE]
           begun == GetMembers(start, common)
           st == GetMembers(begun, ItemReads[name])
           len == GetInt(id)
           skip == GetInts(len, len.value)
           known == [kind |-> name, id |-> id.value, members |-> st.members]
           unknown == [kind |-> "UNKNOWN", id |-> id.value,
                       members |-> [type_id |-> type.value, size |-> len.value,
                                    data_len |-> skip.at - len.at]]
<1>1. d = CASE names # {} -> [u |-> st.u, err |-> st.u.err, item |-> known]
            [] names = {} /\ type.value \in Vanilla ->
                 [u |-> begun.u, err |-> "UNKNOWN_SNAP_ITEM", item |-> <<>>]
            [] OTHER -> [u |-> skip, err |-> skip.err, item |-> unknown]
  BY DEF DecodeItem
<1>2. Reads(u, type, 1)
  BY GetIntReads
<1>3. Reads(type, id, 1)
  BY <1>2, GetIntReads DEF Reads
<1>4. Reads(id, len, 1)
  BY <1>3, GetIntReads DEF Reads
<1>5. Reads(len, skip, IF len.value > 0 THEN len.value ELSE 0) /\ len.value \in Int
  <2>1. Good(len) /\ len.value \in Int
    BY <1>4 DEF Reads, Good
  <2> HIDE DEF len
  <2> QED
    BY <2>1, GetIntsReads
<1>6. Good(u) /\ Good(type) /\ Good(id) /\ Good(len) /\ Good(skip)
  BY <1>2, <1>3, <1>4, <1>5 DEF Reads
<1>7. Decoding(start) /\ start.u = id
  <2>1. start.u = id /\ start.stop = FALSE /\ ItemShape(start)
    BY DEF ItemShape
  <2> HIDE DEF start
  <2> QED
    BY <1>6, <2>1 DEF Decoding
<1>8. Went(start, begun, MembersSize(common))
  <2>1. Len(common) \in Nat
    BY SMT
  <2> HIDE DEF start, common
  <2> QED
    BY <1>7, <2>1, GetMembersReads
<1>9. u.at \in Int /\ type.at \in Int /\ id.at \in Int /\ len.at \in Int /\ skip.at \in Int
  BY <1>6, LenProperties, SMT DEF Good, WireOK
<1>10. CASE names # {}
  <2>1. name \in DOMAIN ItemType /\ ItemType[name] = type.value
    BY <1>10
  <2>2. d.u = st.u /\ d.err = st.u.err /\ d.item = known
    <3> HIDE DEF names, st, known
    <3> QED
      BY <1>1, <1>10
  <2>3. Len(ItemReads[name]) \in Nat
    BY <2>1, ItemsAssumption, LenProperties
  <2>4. Went(begun, st, MembersSize(ItemReads[name]))
    <3>1. Decoding(begun)
      BY <1>8 DEF Went
    <3> HIDE DEF begun, name
    <3> QED
      BY <2>3, <3>1, GetMembersReads
  <2>5. name # "UNKNOWN" /\ known.kind = name
    <3>1. "UNKNOWN" \notin DOMAIN ItemType
      BY SMT DEF ItemType
    <3> QED
      BY <2>1, <3>1
  <2>6. ItemSize(d.item) = 2 + MembersSize(Struct[name])
    <3> HIDE DEF name, known
    <3> QED
      BY <2>2, <2>5 DEF ItemSize
  <2>7. MembersSize(Struct[name]) = MembersSize(common) + MembersSize(ItemReads[name])
        /\ MembersSize(common) \in Int /\ MembersSize(ItemReads[name]) \in Int
    <3>1. MembersSize(Struct[name]) = MembersSize(ItemReads[name]) + (IF name \in DOMAIN Events THEN 2 ELSE 0)
      <4> DEFINE both == IF name \in DOMAIN Events THEN <<"x", "y">> ELSE <<>>
      <4>1. MembersSize(Struct[name]) = MembersSize(ItemReads[name]) + Len(both)
        BY <2>1, ItemsAssumption
      <4>2. Len(both) = IF name \in DOMAIN Events THEN 2 ELSE 0
        BY SMT
      <4> HIDE DEF both, name
      <4> QED
        BY <4>1, <4>2
    <3>2. common = IF name \in DOMAIN Events THEN <<"x", "y">> ELSE <<>>
      <4>1. ItemType[name] \in IF name \in DOMAIN Events THEN 14 .. 20 ELSE 1 .. 12
        BY <2>1, ItemsAssumption
      <4>2. ItemType.DAMAGE_INDICATOR = 20 /\ EventCommon = 13
        BY DEF ItemType, EventCommon
      <4>3. type.value \in EventCommon .. ItemType.DAMAGE_INDICATOR <=> name \in DOMAIN Events
        <5> HIDE DEF name, type
        <5> QED
          BY <2>1, <4>1, <4>2, SMT
      <4> QED
        BY <4>3
    <3>3. MembersSize(ItemReads[name]) \in Int
      BY <2>3, MembersSizeIsInt
    <3> HIDE DEF name, common
    <3> QED
      BY <3>1, <3>2, <3>3, NoMembersSize, TwoMembersSize, SMT
  <2> HIDE DEF type, id, common, names, name, start, begun, st, len, skip, known, unknown
  <2>8. Good(d.u) /\ d.err # "UNKNOWN_MESSAGE"
    BY <2>2, <2>4 DEF Went, Decoding, Good
  <2>9. ASSUME d.err = "NONE"
        PROVE  /\ d.u.err = "NONE" /\ id.err = "NONE"
               /\ d.u.at = u.at + ItemSize(d.item) /\ ItemSize(d.item) \in Int
    <3>1. st.u.err = "NONE" /\ begun.u.err = "NONE" /\ st.u.at = begun.u.at + MembersSize(ItemReads[name])
      BY <2>2, <2>4, <2>9 DEF Went
    <3>2. id.err = "NONE" /\ begun.u.at = id.at + MembersSize(common)
      BY <1>7, <1>8, <3>1 DEF Went
    <3>3. type.err = "NONE" /\ id.at = type.at + 1 /\ type.at = u.at + 1
      BY <1>2, <1>3, <3>2 DEF Reads
    <3> QED
      BY <1>9, <2>2, <2>6, <2>7, <3>1, <3>2, <3>3, SMT
  <2> QED
    BY <2>8, <2>9 DEF id, type
<1>11. CASE names = {} /\ type.value \in Vanilla
  <2>1. d.u = begun.u /\ d.err = "UNKNOWN_SNAP_ITEM"
    <3> HIDE DEF names, begun, type
    <3> QED
      BY <1>1, <1>11
  <2>2. Good(begun.u)
    BY <1>8 DEF Went, Decoding
  <2> HIDE DEF begun
  <2> QED
    BY <2>1, <2>2
<1>12. CASE names = {} /\ type.value \notin Vanilla
  <2>1. d.u = skip /\ d.err = skip.err /\ d.item = unknown
    <3> HIDE DEF names, type, skip, unknown
    <3> QED
      BY <1>1, <1>12
  <2>2. unknown.kind = "UNKNOWN" /\ unknown.members.data_len = skip.at - len.at
    OBVIOUS
  <2> HIDE DEF type, id, len, skip, unknown
  <2>3. ItemSize(d.item) = 3 + (skip.at - len.at)
    BY <2>1, <2>2 DEF ItemSize
  <2>4. ASSUME d.err = "NONE"
        PROVE  len.at = u.at + 3 /\ id.err = "NONE"
    <3>1. len.err = "NONE" /\ id.err = "NONE" /\ type.err = "NONE"
      BY <1>2, <1>3, <1>4, <1>5, <2>1, <2>4 DEF Reads
    <3>2. type.at = u.at + 1 /\ id.at = type.at + 1 /\ len.at = id.at + 1
      BY <1>2, <1>3, <1>4, <3>1 DEF Reads
    <3> QED
      BY <1>9, <3>1, <3>2, SMT
  <2>5. d.err = "NONE" => d.u.err = "NONE" /\ ItemSize(d.item) \in Int /\ d.u.at = u.at + ItemSize(d.item)
    BY <1>6, <1>9, <2>1, <2>3, <2>4, SMT
  <2> QED
    BY <1>6, <2>1, <2>4, <2>5 DEF id, type, Good
<1> QED
  BY <1>10, <1>11, <1>12

-----------------------------------------------------------------------------
(* What a field is read as *)

LEMMA IntTaken ==
    ASSUME WireOK, NEW u, Good(u), ~AtEnd(u), ~AtPart(u), Here(u).type = "int",
           NEW v, v = GetInt(u)
    PROVE  v.at = u.at + 1 /\ v.err = u.err /\ v.outside = u.outside /\ v.value = Here(u).value
<1>1. v = Takes(u, "int")
  BY GetIntIs
<1>2. v = [at |-> u.at + 1, err |-> u.err,
           value |-> IF Here(u).type \in {"int", "any"} THEN Here(u).value ELSE Garbage,
           outside |-> u.outside]
  BY <1>1, TakesIs DEF Good
<1> QED
  BY <1>2, RecordShape

LEMMA IntMissing ==
    ASSUME WireOK, NEW u, Good(u), AtEnd(u) \/ AtPart(u), NEW v, v = GetInt(u)
    PROVE  v.err # "NONE" /\ v.value = 0 /\ v.outside = u.outside
<1>1. PICK error : error # "NONE" /\ v = Fails(u, error)
  BY GetIntIs
<1>2. v = [at |-> u.at, err |-> error, value |-> 0, outside |-> u.outside]
  BY <1>1, FailsIs DEF Good
<1> QED
  BY <1>1, <1>2, RecordShape

LEMMA BoolRead ==
    ASSUME WireOK, NEW u, Good(u), NEW v, v = GetBool(u), NEW i, i = GetInt(u)
    PROVE  /\ v.outside = u.outside
           /\ i.value \in {0, 1} => v = i
           /\ i.value \notin {0, 1} => v.err # "NONE"
<1>1. Good(i) /\ i.outside = u.outside
  BY GetIntReads DEF Reads
<1>2. v = IF i.value \in {0, 1} THEN i ELSE [i EXCEPT !.err = "INVALID_BOOL", !.value = 0]
  BY DEF GetBool
<1>3. CASE i.value \in {0, 1}
  BY <1>1, <1>2, <1>3
<1>4. CASE i.value \notin {0, 1}
  <2>1. v = Fails(i, "INVALID_BOOL")
    BY <1>2, <1>4 DEF Fails
  <2>2. v = [at |-> i.at, err |-> "INVALID_BOOL", value |-> 0, outside |-> i.outside]
    BY <1>1, <2>1, FailsIs DEF Good
  <2>3. v.err = "INVALID_BOOL" /\ v.outside = i.outside
    BY <2>2, RecordShape
  <2> QED
    BY <1>1, <1>4, <2>3
<1> QED
  BY <1>3, <1>4

LEMMA StringTaken ==
    ASSUME WireOK, NEW u, Good(u), ~AtEnd(u), ~AtPart(u), Here(u).type = "string", u.err = "NONE",
           NEW v, v = GetString(u)
    PROVE  /\ v.at = u.at + 1 /\ v.err = u.err /\ v.outside = u.outside
           /\ v.value = Sanitize(Here(u).value)
<1> DEFINE t == Takes(u, "string")
<1>1. v = [t EXCEPT !.value = Sanitize(t.value)]
  BY Inside, Zenon DEF GetString
<1>2. t = [at |-> u.at + 1, err |-> u.err,
           value |-> IF Here(u).type \in {"string", "any"} THEN Here(u).value ELSE Garbage,
           outside |-> u.outside]
  BY TakesIs DEF Good
<1> HIDE DEF t
<1>3. Shape(t) /\ t.at = u.at + 1 /\ t.err = u.err /\ t.outside = u.outside /\ t.value = Here(u).value
  BY <1>2, RecordShape
<1>4. v = [at |-> t.at, err |-> t.err, value |-> Sanitize(t.value), outside |-> t.outside]
  BY <1>1, <1>3, ValueSet
<1> QED
  BY <1>3, <1>4, RecordShape

LEMMA StringMissing ==
    ASSUME WireOK, NEW u, Good(u), ~AtEnd(u), AtPart(u), u.err = "NONE", NEW v, v = GetString(u)
    PROVE  v.err # "NONE"
<1> DEFINE w == [u EXCEPT !.at = @ + 1]
<1>1. v = Fails(w, "STR_UNEXPECTED_EOF")
  BY Inside, Zenon DEF GetString
<1>2. w = [at |-> u.at + 1, err |-> u.err, value |-> u.value, outside |-> u.outside]
  BY AtSet DEF Good
<1> HIDE DEF w
<1>3. Shape(w)
  BY <1>2, RecordShape
<1> QED
  BY <1>1, <1>3, FailsErr

LEMMA RawRead ==
    ASSUME WireOK, NEW u, Good(u), NEW n, NEW v, v = GetRaw(u, n)
    PROVE  /\ v.outside = u.outside
           /\ u.err # "NONE" => v.err # "NONE"
           /\ v.err = "NONE" => v.value = n
           /\ n \in Nat /\ ~AtEnd(u) /\ ~AtPart(u) /\ Here(u).value = n => v.err = u.err
<1> DEFINE room == IF AtEnd(u) \/ AtPart(u) THEN 0 ELSE Here(u).value
<1>0. ~(~AtEnd(u) /\ Exhausted(u))
  BY Inside
<1>1. CASE n = 0
  <2>1. v = [u EXCEPT !.value = 0]
    BY <1>0, <1>1 DEF GetRaw
  <2>2. v = [at |-> u.at, err |-> u.err, value |-> 0, outside |-> u.outside]
    BY <2>1, ValueSet DEF Good
  <2>3. v.err = u.err /\ v.value = 0 /\ v.outside = u.outside
    BY <2>2, RecordShape
  <2> QED
    BY <1>1, <2>3
<1>2. CASE n # 0 /\ n \in 1 .. room
  <2> DEFINE t == Takes(u, "raw")
  <2>1. v = [t EXCEPT !.value = n]
    BY <1>0, <1>2 DEF GetRaw
  <2>2. t = [at |-> u.at + 1, err |-> u.err,
             value |-> IF Here(u).type \in {"raw", "any"} THEN Here(u).value ELSE Garbage,
             outside |-> u.outside]
    BY TakesIs DEF Good
  <2> HIDE DEF t
  <2>3. t.err = u.err /\ t.outside = u.outside /\ Shape(t)
    BY <2>2, RecordShape
  <2>4. v = [at |-> t.at, err |-> t.err, value |-> n, outside |-> t.outside]
    BY <2>1, <2>3, ValueSet
  <2>5. v.err = u.err /\ v.value = n /\ v.outside = u.outside
    BY <2>3, <2>4, RecordShape
  <2> QED
    BY <2>5
<1>3. CASE n # 0 /\ n \notin 1 .. room
  <2>1. v = Fails(u, "END_OF_BUFFER")
    BY <1>0, <1>3 DEF GetRaw
  <2>2. v = [at |-> u.at, err |-> "END_OF_BUFFER", value |-> 0, outside |-> u.outside]
    BY <2>1, FailsIs DEF Good
  <2>3. v.err = "END_OF_BUFFER" /\ v.outside = u.outside
    BY <2>2, RecordShape
  <2>4. ~(n \in Nat /\ ~AtEnd(u) /\ ~AtPart(u) /\ Here(u).value = n)
    <3>1. n \in Nat => n \in 1 .. n
      BY <1>3, SMT
    <3> QED
      BY <1>3, <3>1
  <2> QED
    BY <2>3, <2>4
<1> QED
  BY <1>1, <1>2, <1>3

-----------------------------------------------------------------------------
(* Strings packed into integers *)

LEMMA Beginning ==
    ASSUME NEW S, NEW s \in Seq(S), NEW l \in Nat, l <= Len(s)
    PROVE  /\ SubSeq(s, 1, l) \in Seq(S) /\ Len(SubSeq(s, 1, l)) = l
           /\ \A i \in 1 .. l : SubSeq(s, 1, l)[i] = s[i]
  BY SMT

\* The digits of a number are the results of its division.
LEMMA Digit ==
    ASSUME NEW h \in Int, NEW r \in Int
    PROVE  /\ 0 <= r /\ r < 256 => (h * 256 + r) \div 256 = h /\ (h * 256 + r) % 256 = r
           /\ 0 <= r /\ r < 65536 => (h * 65536 + r) \div 65536 = h
           /\ 0 <= r /\ r < 16777216 => (h * 16777216 + r) \div 16777216 = h
  BY SMT

LEMMA TopDigit ==
    ASSUME NEW b \in 0 .. 255, NEW h, h = IF b >= 128 THEN b - 256 ELSE b
    PROVE  h \in Int /\ h % 256 = b
  BY SMT

\* The bytes of an integer are those it was made of.
LEMMA BytesBack ==
    ASSUME NEW b, \A j \in 1 .. 4 : b[j] \in 0 .. 255
    PROVE  FromBytes(b) \in Int /\ \A j \in 1 .. 4 : ToBytes(FromBytes(b))[j] = b[j]
<1> DEFINE h == IF b[1] >= 128 THEN b[1] - 256 ELSE b[1]
           b2 == b[2]
           b3 == b[3]
           b4 == b[4]
           v == h * 16777216 + b2 * 65536 + b3 * 256 + b4
<1>1. b[1] \in 0 .. 255 /\ b2 \in 0 .. 255 /\ b3 \in 0 .. 255 /\ b4 \in 0 .. 255
  BY SMT
<1>2. h \in Int /\ h % 256 = b[1]
  <2> DEFINE c == b[1]
  <2> HIDE DEF c
  <2>1. c \in 0 .. 255 /\ h = IF c >= 128 THEN c - 256 ELSE c
    BY <1>1 DEF c
  <2> HIDE DEF h
  <2>2. h \in Int /\ h % 256 = c
    BY <2>1, TopDigit
  <2> QED
    BY <2>2 DEF c
<1>3. FromBytes(b) = v
  BY DEF FromBytes
<1> HIDE DEF h, b2, b3, b4
<1>4. v \in Int
  BY <1>1, <1>2, SMT
<1>5. v \div 16777216 = h
  <2> DEFINE r == b2 * 65536 + b3 * 256 + b4
  <2>1. r \in Int /\ 0 <= r /\ r < 16777216
    BY <1>1, SMT
  <2>2. v = h * 16777216 + r
    BY <1>1, <1>2, SMT
  <2> HIDE DEF v, r
  <2> QED
    BY <1>2, <2>1, <2>2, Digit
<1>6. (v \div 65536) % 256 = b2
  <2> DEFINE r == b3 * 256 + b4
             q == h * 256 + b2
  <2>1. r \in Int /\ 0 <= r /\ r < 65536 /\ q \in Int
    BY <1>1, <1>2, SMT
  <2>2. v = q * 65536 + r
    BY <1>1, <1>2, SMT
  <2> HIDE DEF v, r
  <2>3. v \div 65536 = q
    <3> HIDE DEF q
    <3> QED
      BY <2>1, <2>2, Digit
  <2>4. 0 <= b2 /\ b2 < 256 /\ b2 \in Int
    BY <1>1, SMT
  <2> QED
    BY <1>2, <2>3, <2>4, Digit
<1>7. (v \div 256) % 256 = b3
  <2> DEFINE q == h * 256 + b2
             p == q * 256 + b3
  <2>1. q \in Int /\ p \in Int
    BY <1>1, <1>2, SMT
  <2>2. v = p * 256 + b4
    BY <1>1, <1>2, SMT
  <2>3. 0 <= b3 /\ b3 < 256 /\ b3 \in Int /\ 0 <= b4 /\ b4 < 256 /\ b4 \in Int
    BY <1>1, SMT
  <2> HIDE DEF v, q
  <2>4. v \div 256 = p
    <3> HIDE DEF p
    <3> QED
      BY <2>1, <2>2, <2>3, Digit
  <2> QED
    BY <2>1, <2>3, <2>4, Digit
<1>8. v % 256 = b4
  <2> DEFINE q == h * 256 + b2
             p == q * 256 + b3
  <2>1. p \in Int
    BY <1>1, <1>2, SMT
  <2>2. v = p * 256 + b4
    BY <1>1, <1>2, SMT
  <2>3. 0 <= b4 /\ b4 < 256 /\ b4 \in Int
    BY <1>1, SMT
  <2> HIDE DEF v, p
  <2> QED
    BY <2>1, <2>2, <2>3, Digit
<1> HIDE DEF v
<1>9. ToBytes(v) = <<b[1], b2, b3, b4>>
  BY <1>2, <1>5, <1>6, <1>7, <1>8 DEF ToBytes
<1>10. \A j \in 1 .. 4 : <<b[1], b2, b3, b4>>[j] = b[j]
  BY SMT DEF b2, b3, b4
<1> QED
  BY <1>3, <1>4, <1>9, <1>10

\* A character of a string or what fills it up, and how it is packed.
CharAt(s, i) == IF i <= Len(s) THEN s[i] ELSE 0
ByteAt(s, n, i) == IF i = 4 * n THEN 0 ELSE Shifted(CharAt(s, i))

LEMMA ShiftedBack ==
    ASSUME NEW c \in 0 .. 255
    PROVE  Shifted(c) \in 0 .. 255 /\ Shifted(Shifted(c)) = c
  BY SMT DEF Shifted

LEMMA CharIs ==
    ASSUME NEW s \in Seq(1 .. 255), NEW i \in Nat \ {0}
    PROVE  CharAt(s, i) \in 0 .. 255 /\ (i <= Len(s) <=> CharAt(s, i) # 0)
<1>1. Len(s) \in Nat /\ \A j \in 1 .. Len(s) : s[j] \in 1 .. 255
  BY LenProperties, ElementOfSeq
<1>2. CASE i <= Len(s)
  <2>1. i \in 1 .. Len(s)
    BY <1>1, <1>2, SMT
  <2> DEFINE c == s[i]
  <2>2. c \in 1 .. 255 /\ CharAt(s, i) = c
    BY <1>1, <1>2, <2>1 DEF CharAt
  <2> HIDE DEF c
  <2> QED
    BY <1>2, <2>2, SMT
<1>3. CASE ~(i <= Len(s))
  BY <1>3, SMT DEF CharAt
<1> QED
  BY <1>2, <1>3

LEMMA StrToIntsIs ==
    ASSUME NEW s \in Seq(1 .. 255), NEW n \in Nat
    PROVE  /\ StrToInts(s, n) \in Seq(Int) /\ Len(StrToInts(s, n)) = n
           /\ \A i \in 1 .. n : \A j \in 1 .. 4 :
                 ToBytes(StrToInts(s, n)[i])[j] = ByteAt(s, n, 4 * (i - 1) + j)
<1> DEFINE B(i) == [j \in 1 .. 4 |-> ByteAt(s, n, 4 * (i - 1) + j)]
           ints == StrToInts(s, n)
<1>1. ints = [i \in 1 .. n |-> FromBytes(B(i))]
  BY DEF StrToInts, ByteAt, CharAt
<1>2. ASSUME NEW i \in 1 .. n
      PROVE  FromBytes(B(i)) \in Int /\ \A j \in 1 .. 4 : ToBytes(FromBytes(B(i)))[j] = B(i)[j]
  <2>1. ASSUME NEW j \in 1 .. 4 PROVE B(i)[j] \in 0 .. 255
    <3> DEFINE p == 4 * (i - 1) + j
    <3>1. p \in Nat \ {0}
      BY SMT
    <3> HIDE DEF p
    <3>2. ByteAt(s, n, p) \in 0 .. 255
      <4>1. CharAt(s, p) \in 0 .. 255
        BY <3>1, CharIs
      <4>2. Shifted(CharAt(s, p)) \in 0 .. 255 /\ 0 \in 0 .. 255
        <5>1. 0 \in 0 .. 255
          BY SMT
        <5> QED
          BY <4>1, <5>1, ShiftedBack
      <4> QED
        BY <4>2 DEF ByteAt
    <3> QED
      BY <3>2 DEF p
  <2> DEFINE b == B(i)
  <2>2. \A j \in 1 .. 4 : b[j] \in 0 .. 255
    BY <2>1
  <2> HIDE DEF b
  <2>3. FromBytes(b) \in Int /\ \A j \in 1 .. 4 : ToBytes(FromBytes(b))[j] = b[j]
    BY <2>2, BytesBack
  <2> QED
    BY <2>3 DEF b
<1>3. ASSUME NEW i \in 1 .. n, NEW j \in 1 .. 4
      PROVE  ToBytes(ints[i])[j] = ByteAt(s, n, 4 * (i - 1) + j)
  <2>1. ints[i] = FromBytes(B(i)) /\ B(i)[j] = ByteAt(s, n, 4 * (i - 1) + j)
    BY <1>1
  <2> HIDE DEF ints, B
  <2> QED
    BY <1>2, <2>1
<1>4. ints \in [1 .. n -> Int]
  <2> HIDE DEF B, ints
  <2> QED
    BY <1>1, <1>2
<1> HIDE DEF ints
<1>5. ints \in Seq(Int) /\ Len(ints) = n
  BY <1>4, SMT
<1> QED
  BY <1>3, <1>5 DEF ints

\* What is kept of a string: the terminator takes the place of a character that
\* fills the last integer.
Terminated(s, n) == IF Len(s) = 4 * n THEN SubSeq(s, 1, Len(s) - 1) ELSE s

LEMMA StringBack ==
    ASSUME NEW n \in Nat \ {0}, NEW s \in Seq(1 .. 255), Accepts(s, n),
           NEW ints, ints = StrToInts(s, n)
    PROVE  IntsToStr(ints) = Terminated(s, n)
<1> DEFINE bytes == [i \in 1 .. 4 * n |->
                       IF i = 4 * n THEN 0 ELSE Shifted(ToBytes(ints[(i + 3) \div 4])[((i - 1) % 4) + 1])]
           m == IF Len(s) = 4 * n THEN Len(s) - 1 ELSE Len(s)
<1>1. /\ ints \in Seq(Int) /\ Len(ints) = n
      /\ \A i \in 1 .. n : \A j \in 1 .. 4 : ToBytes(ints[i])[j] = ByteAt(s, n, 4 * (i - 1) + j)
  BY StrToIntsIs
<1>2. Len(s) \in Nat /\ Len(s) <= 4 * n /\ m \in 0 .. 4 * n - 1 /\ m <= Len(s)
  BY LenProperties, SMT DEF Accepts
<1>3. IntsToStr(ints) = SubSeq(bytes, 1, StrLength(bytes))
  BY <1>1 DEF IntsToStr
<1>4. ASSUME NEW i \in 1 .. 4 * n
      PROVE  bytes[i] = IF i = 4 * n THEN 0 ELSE CharAt(s, i)
  <2> SUFFICES ASSUME i # 4 * n PROVE bytes[i] = CharAt(s, i)
    OBVIOUS
  <2> DEFINE q == (i + 3) \div 4
             r == ((i - 1) % 4) + 1
  <2>1. q \in 1 .. n /\ r \in 1 .. 4 /\ 4 * (q - 1) + r = i
    BY SMT
  <2>2. bytes[i] = Shifted(ToBytes(ints[q])[r])
    OBVIOUS
  <2> HIDE DEF q, r, bytes
  <2>3. ToBytes(ints[q])[r] = ByteAt(s, n, i)
    BY <1>1, <2>1
  <2>4. ByteAt(s, n, i) = Shifted(CharAt(s, i))
    BY DEF ByteAt
  <2>5. i \in Nat \ {0}
    BY SMT
  <2>6. CharAt(s, i) \in 0 .. 255
    BY <2>5, CharIs
  <2> QED
    BY <2>2, <2>3, <2>4, <2>6, ShiftedBack
<1>5. bytes \in Seq(0 .. 255) /\ Len(bytes) = 4 * n
  <2>1. ASSUME NEW i \in 1 .. 4 * n PROVE bytes[i] \in 0 .. 255
    <3>1. i \in Nat \ {0} /\ 0 \in 0 .. 255
      BY SMT
    <3>2. CharAt(s, i) \in 0 .. 255
      BY <3>1, CharIs
    <3> HIDE DEF bytes
    <3> QED
      BY <1>4, <3>1, <3>2
  <2>2. bytes = [i \in 1 .. 4 * n |-> bytes[i]]
    OBVIOUS
  <2> DEFINE l == 4 * n
  <2> HIDE DEF bytes
  <2>3. l \in Nat
    BY SMT
  <2> HIDE DEF l
  <2>4. bytes \in [1 .. l -> 0 .. 255]
    BY <2>1, <2>2 DEF l
  <2>5. bytes \in Seq(0 .. 255) /\ Len(bytes) = l
    BY <2>3, <2>4, SMT
  <2> QED
    BY <2>5 DEF l
<1> HIDE DEF bytes
<1>6. \A i \in 1 .. 4 * n : bytes[i] # 0 <=> i <= m
  <2> TAKE i \in 1 .. 4 * n
  <2>1. i \in Nat \ {0}
    BY SMT
  <2>2. i <= Len(s) <=> CharAt(s, i) # 0
    BY <2>1, CharIs
  <2>3. bytes[i] = IF i = 4 * n THEN 0 ELSE CharAt(s, i)
    BY <1>4
  <2>4. i <= m <=> i <= Len(s) /\ i # 4 * n
    BY <1>2, SMT
  <2> QED
    BY <2>2, <2>3, <2>4
<1>7. StrLength(bytes) = m
  <2> DEFINE P(l) == bytes[l + 1] = 0 /\ \A i \in 1 .. l : bytes[i] # 0
  <2>1. StrLength(bytes) = CHOOSE l \in 0 .. 4 * n - 1 : P(l)
    BY <1>5 DEF StrLength
  <2>2. ASSUME NEW l \in 0 .. 4 * n - 1 PROVE P(l) <=> l = m
    <3>1. CASE l = m
      <4>1. m + 1 \in 1 .. 4 * n /\ ~(m + 1 <= m)
        BY <1>2, SMT
      <4>2. \A i \in 1 .. m : i \in 1 .. 4 * n /\ i <= m
        BY <1>2, SMT
      <4> HIDE DEF m
      <4> QED
        BY <1>6, <3>1, <4>1, <4>2
    <3>2. CASE l < m
      <4>1. l + 1 \in 1 .. 4 * n /\ l + 1 <= m /\ l # m
        BY <1>2, <3>2, SMT
      <4> HIDE DEF m
      <4> QED
        BY <1>6, <4>1
    <3>3. CASE l > m
      <4>1. m + 1 \in 1 .. l /\ m + 1 \in 1 .. 4 * n /\ ~(m + 1 <= m) /\ l # m
        BY <1>2, <3>3, SMT
      <4> HIDE DEF m
      <4> QED
        BY <1>6, <4>1
    <3> QED
      BY <1>2, <3>1, <3>2, <3>3, SMT
  <2> HIDE DEF P, m
  <2> QED
    BY <1>2, <2>1, <2>2
<1>8. Terminated(s, n) \in Seq(1 .. 255) /\ Len(Terminated(s, n)) = m /\ \A i \in 1 .. m : Terminated(s, n)[i] = s[i]
  <2>1. CASE Len(s) = 4 * n
    <3> DEFINE l == Len(s) - 1
    <3>1. l \in Nat /\ l <= Len(s) /\ l = m /\ Terminated(s, n) = SubSeq(s, 1, l)
      BY <1>2, <2>1, SMT DEF Terminated
    <3> HIDE DEF l
    <3>2. SubSeq(s, 1, l) \in Seq(1 .. 255) /\ Len(SubSeq(s, 1, l)) = l
          /\ \A i \in 1 .. l : SubSeq(s, 1, l)[i] = s[i]
      BY <1>2, <3>1, Beginning
    <3> HIDE DEF m
    <3> QED
      BY <3>1, <3>2
  <2>2. CASE Len(s) # 4 * n
    BY <2>2 DEF Terminated
  <2> QED
    BY <2>1, <2>2
<1>9. /\ SubSeq(bytes, 1, m) \in Seq(0 .. 255) /\ Len(SubSeq(bytes, 1, m)) = m
      /\ \A i \in 1 .. m : SubSeq(bytes, 1, m)[i] = bytes[i]
  <2>1. m \in Nat /\ m <= Len(bytes)
    BY <1>2, <1>5, SMT
  <2> HIDE DEF m
  <2> QED
    BY <1>5, <2>1, Beginning
<1>10. \A i \in 1 .. m : bytes[i] = s[i]
  <2> TAKE i \in 1 .. m
  <2>1. i \in 1 .. 4 * n /\ i # 4 * n /\ i <= Len(s)
    BY <1>2, SMT
  <2> QED
    BY <1>4, <2>1 DEF CharAt
<1>11. SubSeq(bytes, 1, m) = Terminated(s, n)
  <2> HIDE DEF m
  <2> QED
    BY <1>8, <1>9, <1>10, SeqEqual
<1> QED
  BY <1>3, <1>7, <1>11
-----------------------------------------------------------------------------
(* Integers that were sent, as they are read *)

\* Behind a fields of the message come these integers, as far as there are any;
\* in a message that is not cut off they are there.
Lies(ints, a, cut) ==
    /\ ints \in Seq(Int) /\ a \in Nat
    /\ \A i \in 1 .. Len(ints) :
          /\ a + i \in 1 .. Len(wire) => wire[a + i].type = "int" /\ wire[a + i].value = ints[i]
          /\ ~cut => a + i \in 1 .. Len(wire) /\ wire[a + i].whole

LEMMA LieApart ==
    ASSUME NEW x \in Seq(Int), NEW y \in Seq(Int), NEW a, NEW cut, Lies(x \o y, a, cut)
    PROVE  Lies(x, a, cut) /\ Lies(y, a + Len(x), cut)
<1> DEFINE z == x \o y
           m == Len(x)
           n == Len(y)
<1>1. /\ z \in Seq(Int) /\ Len(z) = m + n /\ m \in Nat /\ n \in Nat /\ a \in Nat
      /\ \A i \in 1 .. m + n : z[i] = IF i <= m THEN x[i] ELSE y[i - m]
  BY ConcatProperties, LenProperties DEF Lies
<1>2. Lies(z, a, cut)
  OBVIOUS
<1> HIDE DEF z, m, n
<1>3. ASSUME NEW i \in 1 .. m
      PROVE  /\ a + i \in 1 .. Len(wire) => wire[a + i].type = "int" /\ wire[a + i].value = x[i]
             /\ ~cut => a + i \in 1 .. Len(wire) /\ wire[a + i].whole
  <2>1. i \in 1 .. Len(z) /\ z[i] = x[i]
    BY <1>1, SMT
  <2> QED
    BY <1>2, <2>1 DEF Lies
<1>4. ASSUME NEW i \in 1 .. n
      PROVE  /\ (a + m) + i \in 1 .. Len(wire) =>
                  wire[(a + m) + i].type = "int" /\ wire[(a + m) + i].value = y[i]
             /\ ~cut => (a + m) + i \in 1 .. Len(wire) /\ wire[(a + m) + i].whole
  <2>1. m + i \in 1 .. Len(z) /\ z[m + i] = y[i] /\ a + (m + i) = (a + m) + i
    <3>1. m + i \in 1 .. m + n /\ ~(m + i <= m) /\ (m + i) - m = i /\ a + (m + i) = (a + m) + i
      BY <1>1, SMT
    <3> QED
      BY <1>1, <3>1
  <2> QED
    BY <1>2, <2>1 DEF Lies
<1>5. a + m \in Nat
  BY <1>1, SMT
<1> QED
  BY <1>1, <1>3, <1>4, <1>5 DEF Lies, m, n

\* They are the next to be read.
Coming(ints, u, cut) == u.err = "NONE" => Lies(ints, u.at, cut)

LEMMA IntCame ==
    ASSUME WireOK, NEW u, Good(u), NEW x, NEW cut, Coming(<<x>>, u, cut),
           NEW v, v = GetInt(u)
    PROVE  /\ v.err = "NONE" => v.value = x
           /\ ~cut /\ u.err = "NONE" => v.err = "NONE"
<1>1. v.err = "NONE" => u.err = "NONE"
  BY GetIntReads DEF Reads
<1> SUFFICES ASSUME u.err = "NONE"
             PROVE  (v.err = "NONE" => v.value = x) /\ (~cut => v.err = "NONE")
  BY <1>1
<1>2. /\ u.at + 1 \in 1 .. Len(wire) => wire[u.at + 1].type = "int" /\ wire[u.at + 1].value = x
      /\ ~cut => u.at + 1 \in 1 .. Len(wire) /\ wire[u.at + 1].whole
  <2>1. Len(<<x>>) = 1 /\ <<x>>[1] = x /\ 1 \in 1 .. 1
    BY SMT
  <2> QED
    BY <2>1 DEF Coming, Lies
<1>3. CASE AtEnd(u) \/ AtPart(u)
  <2>1. v.err # "NONE"
    BY <1>3, IntMissing
  <2>2. cut
    <3> SUFFICES ASSUME ~cut PROVE FALSE
      OBVIOUS
    <3>1. u.at + 1 \in 1 .. Len(wire) /\ wire[u.at + 1].whole
      BY <1>2
    <3>2. ~AtEnd(u)
      BY <3>1, Lengths, SMT DEF AtEnd
    <3> QED
      BY <1>3, <3>1, <3>2, Inside
  <2> QED
    BY <2>1, <2>2
<1>4. CASE ~AtEnd(u) /\ ~AtPart(u)
  <2>1. u.at + 1 \in 1 .. Len(wire)
    BY <1>4, HereIsField
  <2>2. Here(u).type = "int" /\ Here(u).value = x
    BY <1>2, <1>4, <2>1, Inside
  <2> QED
    BY <1>4, <2>2, IntTaken
<1> QED
  BY <1>3, <1>4

LEMMA BoolCame ==
    ASSUME WireOK, NEW u, Good(u), NEW x \in {0, 1}, NEW cut, Coming(<<x>>, u, cut),
           NEW v, v = GetBool(u)
    PROVE  /\ v.err = "NONE" => v.value = x
           /\ ~cut /\ u.err = "NONE" => v.err = "NONE"
<1> DEFINE i == GetInt(u)
<1>1. (i.err = "NONE" => i.value = x) /\ (~cut /\ u.err = "NONE" => i.err = "NONE")
  BY IntCame
<1>2. (i.value \in {0, 1} => v = i) /\ (i.value \notin {0, 1} => v.err # "NONE")
  BY BoolRead
<1> HIDE DEF i
<1> QED
  BY <1>1, <1>2

LEMMA IntsCame ==
    ASSUME WireOK, NEW u, Good(u), NEW ints, NEW cut, ints \in Seq(Int),
           Coming(ints, u, cut),
           NEW n, n = Len(ints), NEW v, v = GetInts(u, n)
    PROVE  /\ Reads(u, v, n)
           /\ v.err = "NONE" => \A i \in 1 .. n : wire[u.at + i].value = ints[i]
           /\ ~cut /\ u.err = "NONE" => v.err = "NONE"
<1>0. n \in Nat /\ Len(wire) \in Nat /\ u.at \in 0 .. Len(wire)
  BY LenProperties DEF WireOK, Good
<1>1. Reads(u, v, n)
  <2>1. Reads(u, GetInts(u, n), IF n > 0 THEN n ELSE 0)
    BY <1>0, GetIntsReads
  <2>2. (IF n > 0 THEN n ELSE 0) = n
    BY <1>0, SMT
  <2> QED
    BY <2>1, <2>2
<1>2. ASSUME v.err = "NONE", NEW i \in 1 .. n
      PROVE  wire[u.at + i].value = ints[i]
  <2>1. u.err = "NONE" /\ v.at = u.at + n /\ v.at \in 0 .. Len(wire)
    BY <1>1, <1>2 DEF Reads, Good
  <2>2. u.at + i \in 1 .. Len(wire)
    BY <1>0, <2>1, SMT
  <2> QED
    BY <2>1, <2>2 DEF Coming, Lies
<1>3. ASSUME ~cut, u.err = "NONE"
      PROVE  v.err = "NONE"
  <2>1. CASE n = 0
    <3>1. v = u
      BY <2>1, SMT DEF GetInts
    <3> QED
      BY <1>3, <3>1
  <2>2. CASE n # 0
    <3>1. n \in 1 .. n
      BY <1>0, <2>2, SMT
    <3>2. /\ u.at + n \in 1 .. Len(wire) /\ wire[u.at + n].whole
          /\ wire[u.at + n].type = "int"
      BY <1>3, <3>1 DEF Coming, Lies
    <3>3. There \in 0 .. Len(wire) /\ (There # Len(wire) => There + 1 = Len(wire) /\ ~wire[There + 1].whole)
      BY ThereIs
    <3>4. u.at + n <= There
      <4>1. CASE There = Len(wire)
        BY <1>0, <3>2, <4>1, SMT
      <4>2. CASE There # Len(wire)
        <5>1. u.at + n # There + 1
          BY <3>2, <3>3, <4>2
        <5> QED
          BY <1>0, <3>2, <3>3, <4>2, <5>1, SMT
      <4> QED
        BY <4>1, <4>2
    <3> DEFINE w == [u EXCEPT !.at = u.at + n - 1]
    <3>5. v = GetInt(w)
      <4>1. GetInts(u, n) = IF n <= 0 THEN u
                            ELSE GetInt([u EXCEPT !.at = IF u.at + n <= There THEN u.at + n - 1 ELSE There])
        BY DEF GetInts, There
      <4>2. ~(n <= 0)
        BY <1>0, <2>2, SMT
      <4> QED
        BY <3>4, <4>1, <4>2
    <3>6. w = [at |-> u.at + n - 1, err |-> u.err, value |-> u.value, outside |-> u.outside]
      BY AtSet DEF Good
    <3>7. u.at + n - 1 \in 0 .. Len(wire) /\ (u.at + n - 1) + 1 = u.at + n /\ u.at + n - 1 # Len(wire)
      <4> DEFINE a == u.at
                 l == Len(wire)
      <4>1. a \in 0 .. l /\ l \in Nat /\ n \in Nat \ {0} /\ a + n \in 1 .. l
        BY <1>0, <2>2, <3>2
      <4> HIDE DEF a, l
      <4>2. a + n - 1 \in 0 .. l /\ (a + n - 1) + 1 = a + n /\ a + n - 1 # l
        BY <4>1, SMT
      <4> QED
        BY <4>2 DEF a, l
    <3> HIDE DEF w
    <3>8. Good(w) /\ w.at = u.at + n - 1 /\ w.err = u.err
      BY <3>6, <3>7, RecordGood, GoodIs
    <3>9. ~AtEnd(w) /\ ~AtPart(w) /\ Here(w).type = "int"
      <4>1. ~AtEnd(w)
        BY <3>7, <3>8 DEF AtEnd
      <4>2. Here(w) = wire[u.at + n] /\ (AtPart(w) <=> ~Here(w).whole)
        BY <3>7, <3>8, <4>1, Inside
      <4> QED
        BY <3>2, <4>1, <4>2
    <3> QED
      BY <1>3, <3>5, <3>8, <3>9, IntTaken
  <2> QED
    BY <2>1, <2>2
<1> QED
  BY <1>1, <1>2, <1>3

-----------------------------------------------------------------------------
(* The members of an item, as they are read *)

\* The integers a member is packed in, what is kept of it, and what it may be.
IntsOf(member, value) ==
    IF member \in DOMAIN NumInts THEN StrToInts(value, NumInts[member]) ELSE <<value>>

KeptOf(member, value) ==
    IF member \in DOMAIN NumInts THEN Terminated(value, NumInts[member]) ELSE value

ValueOK(member, value) ==
    IF member \in DOMAIN NumInts
    THEN value \in Seq(1 .. 255) /\ Accepts(value, NumInts[member])
    ELSE value \in IF member \in Bools THEN {0, 1} ELSE Int

LEMMA NumIntsAre ==
    ASSUME NEW member \in DOMAIN NumInts
    PROVE  NumInts[member] \in Nat \ {0}
  BY SMT DEF NumInts

LEMMA IntsOfTyped ==
    ASSUME NEW member, NEW value, ValueOK(member, value)
    PROVE  IntsOf(member, value) \in Seq(Int) /\ Len(IntsOf(member, value)) = SizeOf(member)
<1>1. CASE member \in DOMAIN NumInts
  <2>1. NumInts[member] \in Nat /\ value \in Seq(1 .. 255)
    BY <1>1, NumIntsAre DEF ValueOK
  <2> QED
    BY <1>1, <2>1, StrToIntsIs DEF IntsOf, SizeOf
<1>2. CASE member \notin DOMAIN NumInts
  <2>1. value \in Int
    BY <1>2, SMT DEF ValueOK
  <2>2. <<value>> \in Seq(Int) /\ Len(<<value>>) = 1
    BY <2>1, SMT
  <2> QED
    BY <1>2, <2>2 DEF IntsOf, SizeOf
<1> QED
  BY <1>1, <1>2

\* A read that succeeded got the member, and it succeeds in a whole message.
Taken(st, after, member, value, cut) ==
    /\ after.u.err = "NONE" => after.members = Setting(st.members, member, KeptOf(member, value))
    /\ ~cut /\ st.u.err = "NONE" => after.u.err = "NONE"

LEMMA GetMemberCame ==
    ASSUME WireOK, NEW st, Decoding(st), NEW member, NEW value, ValueOK(member, value), NEW cut,
           Coming(IntsOf(member, value), st.u, cut),
           NEW after, after = GetMember(st, member)
    PROVE  Taken(st, after, member, value, cut)
<1> USE DEF Taken
<1>1. CASE st.stop
  <2>1. after = st
    BY <1>1 DEF GetMember
  <2> QED
    BY <1>1, <2>1 DEF Decoding
<1>2. CASE ~st.stop /\ member \in DOMAIN NumInts
  <2> DEFINE n == NumInts[member]
             v == GetInts(st.u, n)
             ints == StrToInts(value, n)
             read == [i \in 1 .. n |-> wire[st.u.at + i].value]
             m == Setting(st.members, member, IntsToStr(read))
  <2>1. after = IF v.err # "NONE" THEN [st EXCEPT !.u = v, !.stop = TRUE]
                ELSE [st EXCEPT !.u = v, !.members = m]
    BY <1>2 DEF GetMember, GetStr
  <2>2. n \in Nat \ {0} /\ value \in Seq(1 .. 255) /\ Accepts(value, n)
    BY <1>2, NumIntsAre DEF ValueOK
  <2>3. ints \in Seq(Int) /\ Len(ints) = n /\ IntsOf(member, value) = ints
    <3>1. n \in Nat
      BY <2>2
    <3> QED
      BY <1>2, <2>2, <3>1, StrToIntsIs DEF IntsOf
  <2>4. /\ v.err = "NONE" => \A i \in 1 .. n : wire[st.u.at + i].value = ints[i]
        /\ ~cut /\ st.u.err = "NONE" => v.err = "NONE"
    <3> DEFINE u == st.u
    <3>4. u = st.u
      OBVIOUS
    <3> HIDE DEF n, ints, v, u
    <3>1. Good(u) /\ v = GetInts(u, n) /\ Coming(ints, u, cut)
      BY <2>3 DEF Decoding, v, u
    <3>3. ints \in Seq(Int) /\ n = Len(ints)
      BY <2>3
    <3>2. /\ v.err = "NONE" => \A i \in 1 .. n : wire[u.at + i].value = ints[i]
          /\ ~cut /\ u.err = "NONE" => v.err = "NONE"
      BY <3>1, <3>3, IntsCame
    <3> QED
      BY <3>2, <3>4
  <2>5. v.err = "NONE" => read = ints
    <3> SUFFICES ASSUME v.err = "NONE" PROVE read = ints
      OBVIOUS
    <3>1. DOMAIN ints = 1 .. n
      BY <2>3, LenProperties
    <3>2. ints = [i \in 1 .. n |-> ints[i]]
      <4>1. ints \in [1 .. n -> Int]
        <5> HIDE DEF ints, n
        <5> QED
          BY <2>3, LenProperties, ElementOfSeq, SMT
      <4> HIDE DEF ints, n
      <4> QED
        BY <4>1
    <3> HIDE DEF ints, n, v
    <3> QED
      BY <2>4, <3>2
  <2>6. IntsToStr(ints) = Terminated(value, n) /\ KeptOf(member, value) = Terminated(value, n)
    <3>1. KeptOf(member, value) = Terminated(value, n)
      BY <1>2 DEF KeptOf
    <3> HIDE DEF n
    <3> QED
      BY <2>2, <3>1, StringBack
  <2> HIDE DEF n, v, ints, read
  <2>7. CASE v.err # "NONE"
    <3> DEFINE w == [st EXCEPT !.u = v, !.stop = TRUE]
    <3>1. w = [u |-> v, members |-> st.members, stop |-> TRUE]
      BY StopSet DEF Decoding
    <3>2. after = w
      BY <2>1, <2>7
    <3> HIDE DEF w
    <3>3. w.u = v
      BY <3>1
    <3> QED
      BY <2>4, <2>7, <3>2, <3>3
  <2>8. CASE v.err = "NONE"
    <3>0. m = Setting(st.members, member, KeptOf(member, value))
      BY <2>5, <2>6, <2>8
    <3> HIDE DEF m
    <3> DEFINE w == [st EXCEPT !.u = v, !.members = m]
    <3>1. w = [u |-> v, members |-> m, stop |-> st.stop]
      BY MembersSet DEF Decoding
    <3>2. after = w
      BY <2>1, <2>8
    <3> HIDE DEF w
    <3>3. w.u = v /\ w.members = m
      BY <3>1
    <3> QED
      BY <2>8, <3>0, <3>2, <3>3
  <2> QED
    BY <2>7, <2>8
<1>3. CASE ~st.stop /\ member \notin DOMAIN NumInts
  <2> DEFINE v == IF member \in Bools THEN GetBool(st.u) ELSE GetInt(st.u)
             m == Setting(st.members, member, v.value)
             w == [st EXCEPT !.u = v, !.members = m]
  <2>1. after = w
    BY <1>3 DEF GetMember
  <2>2. IntsOf(member, value) = <<value>> /\ KeptOf(member, value) = value
    BY <1>3 DEF IntsOf, KeptOf
  <2>3. Good(st.u)
    BY DEF Decoding
  <2>4. (v.err = "NONE" => v.value = value) /\ (~cut /\ st.u.err = "NONE" => v.err = "NONE")
    <3>1. CASE member \in Bools
      <4>1. value \in {0, 1} /\ v = GetBool(st.u)
        BY <1>3, <3>1 DEF ValueOK
      <4> HIDE DEF v
      <4>2. Coming(<<value>>, st.u, cut)
        BY <2>2
      <4> DEFINE u == st.u
      <4>5. u = st.u
        OBVIOUS
      <4> HIDE DEF u
      <4>3. Good(u) /\ v = GetBool(u) /\ Coming(<<value>>, u, cut)
        BY <2>3, <4>1, <4>2 DEF u
      <4>4. (v.err = "NONE" => v.value = value) /\ (~cut /\ u.err = "NONE" => v.err = "NONE")
        BY <4>1, <4>3, BoolCame
      <4> QED
        BY <4>4, <4>5
    <3>2. CASE member \notin Bools
      <4>1. v = GetInt(st.u)
        BY <3>2
      <4> HIDE DEF v
      <4>2. Coming(<<value>>, st.u, cut)
        BY <2>2
      <4> DEFINE u == st.u
      <4>5. u = st.u
        OBVIOUS
      <4> HIDE DEF u
      <4>3. Good(u) /\ v = GetInt(u) /\ Coming(<<value>>, u, cut)
        BY <2>3, <4>1, <4>2 DEF u
      <4>4. (v.err = "NONE" => v.value = value) /\ (~cut /\ u.err = "NONE" => v.err = "NONE")
        BY <4>3, IntCame
      <4> QED
        BY <4>4, <4>5
    <3> QED
      BY <3>1, <3>2
  <2> HIDE DEF v
  <2>5. v.err = "NONE" => m = Setting(st.members, member, KeptOf(member, value))
    BY <2>2, <2>4
  <2> HIDE DEF m
  <2>6. w = [u |-> v, members |-> m, stop |-> st.stop]
    BY MembersSet DEF Decoding
  <2> HIDE DEF w
  <2>7. w.u = v /\ w.members = m
    BY <2>6
  <2> QED
    BY <2>1, <2>4, <2>5, <2>7
<1> QED
  BY <1>1, <1>2, <1>3
\* Members s with the values vals lie one after the other, the j-th up to p[j].
Laid(s, vals, p, n, cut) ==
    \A j \in 1 .. n :
        /\ ValueOK(s[j], vals[j]) /\ p[j] = p[j - 1] + SizeOf(s[j])
        /\ Lies(IntsOf(s[j], vals[j]), p[j - 1], cut)

Distinct(s, n) == \A i, j \in 1 .. n : s[i] = s[j] => i = j

\* To the members m the first n of s were added.
Gained(m, s, vals, n, got) ==
    /\ DOMAIN got = DOMAIN m \cup {s[j] : j \in 1 .. n}
    /\ \A j \in 1 .. n : got[s[j]] = KeptOf(s[j], vals[j])
    /\ \A member \in DOMAIN m \ {s[j] : j \in 1 .. n} : got[member] = m[member]

LEMMA GainedMore ==
    ASSUME NEW m, NEW s, NEW vals, NEW N \in Nat, Distinct(s, N), NEW n \in Nat, n + 1 \in 1 .. N,
           NEW got, Gained(m, s, vals, n, got),
           NEW more, more = Setting(got, s[n + 1], KeptOf(s[n + 1], vals[n + 1]))
    PROVE  Gained(m, s, vals, n + 1, more)
<1> DEFINE x == s[n + 1]
           v == KeptOf(s[n + 1], vals[n + 1])
<1>1. /\ DOMAIN more = DOMAIN got \cup {x}
      /\ \A member \in DOMAIN got \cup {x} : more[member] = IF member = x THEN v ELSE got[member]
  BY DEF Setting
<1>2. \A j \in 1 .. n + 1 : j \in 1 .. N /\ (j # n + 1 => j \in 1 .. n)
  BY SMT
<1>3. \A j \in 1 .. n : j \in 1 .. n + 1 /\ j # n + 1
  BY SMT
<1>4. {s[j] : j \in 1 .. n + 1} = {s[j] : j \in 1 .. n} \cup {x}
  <2>1. n + 1 \in 1 .. n + 1
    BY SMT
  <2> QED
    BY <1>2, <1>3, <2>1
<1>5. \A j \in 1 .. n : s[j] # x
  BY <1>2, <1>3 DEF Distinct
<1> DEFINE A == {s[j] : j \in 1 .. n}
           B == {s[j] : j \in 1 .. n + 1}
<1>6. DOMAIN more = DOMAIN m \cup B
  BY <1>1, <1>4 DEF Gained
<1>7. ASSUME NEW j \in 1 .. n + 1 PROVE more[s[j]] = KeptOf(s[j], vals[j])
  <2>1. CASE j = n + 1
    BY <1>1, <2>1
  <2>2. CASE j # n + 1
    <3>1. j \in 1 .. n
      BY <1>2, <2>2
    <3>2. s[j] # x /\ s[j] \in DOMAIN got
      BY <1>5, <3>1 DEF Gained
    <3> QED
      BY <1>1, <3>1, <3>2 DEF Gained
  <2> QED
    BY <2>1, <2>2
<1>8. ASSUME NEW member \in DOMAIN m \ B PROVE more[member] = m[member]
  <2>1. member \in DOMAIN m \ A /\ member # x /\ member \in DOMAIN got
    BY <1>4 DEF Gained
  <2> QED
    BY <1>1, <2>1 DEF Gained
<1> QED
  BY <1>6, <1>7, <1>8 DEF Gained

LEMMA GetMembersCame ==
    ASSUME WireOK, NEW st, Decoding(st), NEW s, NEW n \in Nat, Len(s) = n, Distinct(s, n),
           NEW vals, NEW p, NEW cut, Laid(s, vals, p, n, cut), st.u.err = "NONE" => st.u.at = p[0],
           NEW after, after = GetMembers(st, s)
    PROVE  /\ Decoding(after)
           /\ after.u.err = "NONE" =>
                st.u.err = "NONE" /\ after.u.at = p[n] /\ Gained(st.members, s, vals, n, after.members)
           /\ ~cut /\ st.u.err = "NONE" => after.u.err = "NONE"
<1>1. PICK g : MembersRead(g, st, s, n) /\ after = g[n]
  <2>1. \E g : MembersRead(g, st, s, n)
    BY MembersReadExists
  <2>2. GetMembers(st, s) = (CHOOSE g : MembersRead(g, st, s, n))[n]
    BY DEF GetMembers, MembersRead
  <2> QED
    BY <2>1, <2>2
<1> DEFINE P(k) == /\ Decoding(g[k])
                   /\ g[k].u.err = "NONE" =>
                        /\ st.u.err = "NONE" /\ g[k].u.at = p[k]
                        /\ Gained(st.members, s, vals, k, g[k].members)
                   /\ ~cut /\ st.u.err = "NONE" => g[k].u.err = "NONE"
           H == {k \in Nat : k \in 0 .. n => P(k)}
<1>2. 0 \in H
  <2>1. 0 \in 0 .. n /\ 1 .. 0 = {}
    BY SMT
  <2>2. g[0] = st
    BY <1>1, <2>1 DEF MembersRead
  <2>3. Gained(st.members, s, vals, 0, st.members)
    BY <2>1 DEF Gained
  <2> QED
    BY <2>2, <2>3
<1>3. ASSUME NEW k \in Nat, k \in H PROVE k + 1 \in H
  <2> SUFFICES ASSUME k + 1 \in 0 .. n PROVE P(k + 1)
    OBVIOUS
  <2>1. k + 1 \in 1 .. n /\ k \in 0 .. n /\ (k + 1) - 1 = k /\ k + 1 # 0
    BY SMT
  <2>2. P(k)
    BY <1>3, <2>1
  <2> DEFINE x == s[k + 1]
             v == vals[k + 1]
  <2>3. g[k + 1] = GetMember(g[k], x)
    BY <1>1, <2>1 DEF MembersRead
  <2>4. ValueOK(x, v) /\ p[k + 1] = p[k] + SizeOf(x) /\ Lies(IntsOf(x, v), p[k], cut)
    BY <2>1 DEF Laid
  <2>5. Went(g[k], g[k + 1], SizeOf(x))
    BY <2>2, <2>3, GetMemberReads
  <2> DEFINE a == g[k]
             b == g[k + 1]
  <2>6. Decoding(a) /\ b = GetMember(a, x) /\ (a.u.err = "NONE" => a.u.at = p[k])
    BY <2>2, <2>3
  <2>7. /\ b.u.err = "NONE" => b.members = Setting(a.members, x, KeptOf(x, v))
        /\ ~cut /\ a.u.err = "NONE" => b.u.err = "NONE"
    <3> HIDE DEF a, b, x, v
    <3>1. Coming(IntsOf(x, v), a.u, cut)
      BY <2>4, <2>6 DEF Coming
    <3> QED
      <4>1. WireOK /\ Decoding(a) /\ ValueOK(x, v) /\ b = GetMember(a, x)
        BY <2>4, <2>6
      <4>2. Taken(a, b, x, v, cut)
        BY <3>1, <4>1, GetMemberCame
      <4> QED
        BY <4>2 DEF Taken
  <2>8. ASSUME b.u.err = "NONE"
        PROVE  a.u.err = "NONE" /\ st.u.err = "NONE" /\ b.u.at = p[k + 1]
               /\ Gained(st.members, s, vals, k + 1, b.members)
    <3>1. a.u.err = "NONE" /\ b.u.at = a.u.at + SizeOf(x)
      BY <2>5, <2>8 DEF Went
    <3>2. st.u.err = "NONE" /\ a.u.at = p[k] /\ Gained(st.members, s, vals, k, a.members)
      BY <2>2, <3>1
    <3>3. b.members = Setting(a.members, s[k + 1], KeptOf(s[k + 1], vals[k + 1]))
      BY <2>7, <2>8
    <3> HIDE DEF a, b
    <3>4. Gained(st.members, s, vals, k + 1, b.members)
      BY <2>1, <3>2, <3>3, GainedMore
    <3> QED
      BY <2>4, <3>1, <3>2, <3>4
  <2> QED
    BY <2>2, <2>5, <2>7, <2>8 DEF Went
<1> HIDE DEF H, P
<1>4. n \in H
  BY <1>2, <1>3, Induction
<1>5. n \in 0 .. n
  BY SMT
<1>6. P(n)
  BY <1>4, <1>5 DEF H
<1> QED
  BY <1>1, <1>6 DEF P

-----------------------------------------------------------------------------
(* Sequences of integers, one after the other *)

\* Where they all come, each comes behind those before it.
LEMMA PartsLie ==
    ASSUME NEW s, NEW N \in Nat, \A i \in 1 .. N : s[i] \in Seq(Int), NEW a, NEW cut,
           Lies(FirstOf(s, N), a, cut)
    PROVE  \A n \in 1 .. N :
              /\ Lies(s[n], a + Len(FirstOf(s, n - 1)), cut)
              /\ Len(FirstOf(s, n)) = Len(FirstOf(s, n - 1)) + Len(s[n])
<1> DEFINE L(n) == Lies(FirstOf(s, n), a, cut)
           H == {k \in Nat : k \in 0 .. N => L(N - k)}
<1>0. \A n \in 0 .. N : FirstOf(s, n) \in Seq(Int)
  BY FirstTyped
<1>1. ASSUME NEW n \in 1 .. N
      PROVE  /\ FirstOf(s, n) = FirstOf(s, n - 1) \o s[n]
             /\ FirstOf(s, n - 1) \in Seq(Int) /\ s[n] \in Seq(Int)
  <2>1. n - 1 \in Nat /\ n - 1 \in 0 .. N /\ (n - 1) + 1 = n /\ \A i \in 1 .. n : i \in 1 .. N
    BY SMT
  <2> DEFINE m == n - 1
  <2>2. m \in Nat /\ \A i \in 1 .. m + 1 : s[i] \in Seq(Int)
    BY <2>1
  <2> HIDE DEF m
  <2>3. FirstOf(s, m + 1) = FirstOf(s, m) \o s[m + 1]
    BY <2>2, FirstIs
  <2> QED
    BY <1>0, <2>1, <2>3 DEF m
<1>2. 0 \in H
  <2>1. N - 0 = N
    BY SMT
  <2> QED
    BY <2>1
<1>3. ASSUME NEW k \in Nat, k \in H PROVE k + 1 \in H
  <2> SUFFICES ASSUME k + 1 \in 0 .. N PROVE L(N - (k + 1))
    OBVIOUS
  <2>1. k \in 0 .. N /\ N - k \in 1 .. N /\ (N - k) - 1 = N - (k + 1)
    BY SMT
  <2> DEFINE n == N - k
  <2>2. L(n) /\ n \in 1 .. N /\ n - 1 = N - (k + 1)
    BY <1>3, <2>1
  <2> HIDE DEF n
  <2>3. L(n - 1)
    <3> DEFINE x == FirstOf(s, n - 1)
               y == s[n]
    <3>1. x \in Seq(Int) /\ y \in Seq(Int) /\ Lies(x \o y, a, cut)
      BY <1>1, <2>2
    <3> HIDE DEF x, y
    <3>2. Lies(x, a, cut)
      BY <3>1, LieApart
    <3> QED
      BY <3>2 DEF x
  <2> QED
    BY <2>2, <2>3
<1> HIDE DEF H
<1>4. \A k \in Nat : k \in H
  BY <1>2, <1>3, Induction
<1>5. ASSUME NEW n \in 0 .. N PROVE L(n)
  <2>1. N - n \in Nat /\ N - n \in 0 .. N /\ N - (N - n) = n
    BY SMT
  <2>2. L(N - (N - n))
    BY <1>4, <2>1 DEF H
  <2> QED
    BY <2>1, <2>2
<1> SUFFICES ASSUME NEW n \in 1 .. N
             PROVE  /\ Lies(s[n], a + Len(FirstOf(s, n - 1)), cut)
                    /\ Len(FirstOf(s, n)) = Len(FirstOf(s, n - 1)) + Len(s[n])
  OBVIOUS
<1>6. Lies(FirstOf(s, n - 1) \o s[n], a, cut)
  <2>1. n \in 0 .. N
    BY SMT
  <2> QED
    BY <1>1, <1>5, <2>1
<1> DEFINE x == FirstOf(s, n - 1)
           y == s[n]
<1>7. x \in Seq(Int) /\ y \in Seq(Int) /\ Lies(x \o y, a, cut) /\ FirstOf(s, n) = x \o y
  BY <1>1, <1>6
<1> HIDE DEF x, y
<1>8. Lies(y, a + Len(x), cut) /\ Len(x \o y) = Len(x) + Len(y)
  BY <1>7, LieApart, ConcatProperties
<1> QED
  BY <1>7, <1>8 DEF x, y
-----------------------------------------------------------------------------
(* An item, as it is read *)

LEMMA TypesApart ==
  /\ \A j, k \in DOMAIN ItemType : ItemType[j] = ItemType[k] => j = k
  /\ \A k \in DOMAIN ItemType : ItemType[k] \in Vanilla /\ ItemType[k] \in Int
  /\ "UNKNOWN" \notin DOMAIN ItemType
  BY SMT DEF ItemType, Vanilla

\* Members that are read in each other's place, of an item that was sent.
Alike(x, y) == x = y \/ {x, y} \subseteq Carriers

LEMMA AlikeRead ==
    ASSUME NEW x, NEW y, Alike(x, y), NEW v
    PROVE  /\ ValueOK(x, v) <=> ValueOK(y, v)
           /\ IntsOf(x, v) = IntsOf(y, v) /\ SizeOf(x) = SizeOf(y)
<1>1. CASE x = y
  BY <1>1
<1>2. CASE x # y
  <2>1. \A m \in Carriers : m \notin DOMAIN NumInts /\ m \notin Bools
    BY SMT DEF Carriers, NumInts, Bools
  <2>2. x \in Carriers /\ y \in Carriers
    BY <1>2 DEF Alike
  <2>3. x \notin DOMAIN NumInts /\ x \notin Bools /\ y \notin DOMAIN NumInts /\ y \notin Bools
    BY <2>1, <2>2
  <2> QED
    BY <2>3 DEF ValueOK, IntsOf, SizeOf
<1> QED
  BY <1>1, <1>2

\* The integers of the members of an item.
PartInts(item) ==
    [i \in DOMAIN Struct[item.kind] |->
        IntsOf(Struct[item.kind][i], item.members[Struct[item.kind][i]])]

\* The members all events begin with.
CommonOf(k) == IF k \in DOMAIN Events THEN <<"x", "y">> ELSE <<>>

LEMMA CommonIs ==
    ASSUME NEW k
    PROVE  /\ Len(CommonOf(k)) \in Nat /\ DOMAIN CommonOf(k) = 1 .. Len(CommonOf(k))
           /\ Distinct(CommonOf(k), Len(CommonOf(k)))
<1>1. CASE k \in DOMAIN Events
  <2> DEFINE s == <<"x", "y">>
  <2>1. Len(s) = 2 /\ DOMAIN s = 1 .. 2 /\ s[1] = "x" /\ s[2] = "y" /\ 2 \in Nat
    BY SMT
  <2>2. \A i \in 1 .. 2 : i = 1 \/ i = 2
    BY SMT
  <2>3. CommonOf(k) = s
    BY <1>1 DEF CommonOf
  <2> HIDE DEF s
  <2>4. \A i, j \in 1 .. 2 : s[i] = s[j] => i = j
    BY <2>1, <2>2
  <2> QED
    BY <2>1, <2>3, <2>4 DEF Distinct
<1>2. CASE k \notin DOMAIN Events
  <2>1. Len(<<>>) = 0 /\ DOMAIN <<>> = 1 .. 0 /\ 1 .. 0 = {} /\ 0 \in Nat
    BY SMT
  <2>2. CommonOf(k) = <<>>
    BY <1>2 DEF CommonOf
  <2> QED
    BY <2>1, <2>2 DEF Distinct
<1> QED
  BY <1>1, <1>2

\* What the tables say of an item that is known.
\* Every place is one of the first c, or behind them.
FirstOr(c, r, n) == \A i \in 1 .. n : i \in 1 .. c \/ \E j \in 1 .. r : j + c = i

LEMMA FirstOrBehind ==
    ASSUME NEW c \in Nat, NEW r \in Nat, NEW n \in Nat, n = r + c
    PROVE  FirstOr(c, r, n)
<1> SUFFICES ASSUME NEW i \in 1 .. n, i \notin 1 .. c PROVE \E j \in 1 .. r : j + c = i
  BY DEF FirstOr
<1>1. i - c \in 1 .. r /\ (i - c) + c = i
  OBVIOUS
<1> QED
  BY <1>1

Known(k, c, r, n) ==
    /\ c \in Nat /\ r \in Nat /\ n \in Nat /\ n = r + c /\ DOMAIN Struct[k] = 1 .. n
    /\ FirstOr(c, r, n)
    /\ DOMAIN ItemReads[k] = 1 .. r /\ Distinct(ItemReads[k], r)
    /\ \A i \in 1 .. c : Struct[k][i] = CommonOf(k)[i] /\ CommonOf(k)[i] \notin ToSet(ItemReads[k])
    /\ \A i \in 1 .. r : Alike(ItemReads[k][i], Struct[k][i + c])

LEMMA KnownItem ==
    ASSUME NEW k \in DOMAIN ItemType, NEW c, c = Len(CommonOf(k)),
           NEW r, r = Len(ItemReads[k]), NEW n, n = Len(Struct[k])
    PROVE  Known(k, c, r, n)
<1> DEFINE common == CommonOf(k)
<1>0. common = IF k \in DOMAIN Events THEN <<"x", "y">> ELSE <<>>
  BY DEF CommonOf
<1>1. c \in Nat /\ DOMAIN common = 1 .. c
  BY CommonIs
<1>2. /\ ItemReads[k] \in Seq(STRING) /\ Struct[k] \in Seq(STRING)
      /\ Len(Struct[k]) = Len(ItemReads[k]) + Len(common)
      /\ \A i \in DOMAIN common : Struct[k][i] = common[i] /\ common[i] \notin ToSet(ItemReads[k])
      /\ \A i \in DOMAIN ItemReads[k] :
            \/ ItemReads[k][i] = Struct[k][i + Len(common)]
            \/ {ItemReads[k][i], Struct[k][i + Len(common)]} \subseteq Carriers
      /\ \A i, j \in DOMAIN ItemReads[k] : ItemReads[k][i] = ItemReads[k][j] => i = j
  BY ItemsAssumption DEF CommonOf
<1> HIDE DEF common
<1>3. r \in Nat /\ n \in Nat /\ DOMAIN Struct[k] = 1 .. n /\ DOMAIN ItemReads[k] = 1 .. r
  BY <1>2, LenProperties
<1>4. n = r + c /\ c = Len(common) /\ common = CommonOf(k)
  BY <1>2 DEF common
<1>5. Distinct(ItemReads[k], r)
  BY <1>2, <1>3 DEF Distinct
<1>6. \A i \in 1 .. c : Struct[k][i] = CommonOf(k)[i] /\ CommonOf(k)[i] \notin ToSet(ItemReads[k])
  BY <1>1, <1>2, <1>4
<1>7. ASSUME NEW i \in 1 .. r PROVE Alike(ItemReads[k][i], Struct[k][i + c])
  <2>1. i \in DOMAIN ItemReads[k]
    BY <1>3
  <2>2. \/ ItemReads[k][i] = Struct[k][i + Len(common)]
        \/ {ItemReads[k][i], Struct[k][i + Len(common)]} \subseteq Carriers
    BY <1>2, <2>1
  <2> DEFINE x == ItemReads[k][i]
             y == Struct[k][i + c]
  <2>3. Len(common) = c
    BY <1>4
  <2> HIDE DEF common
  <2>4. x = y \/ {x, y} \subseteq Carriers
    BY <2>2, <2>3
  <2> HIDE DEF x, y
  <2>5. Alike(x, y)
    BY <2>4 DEF Alike
  <2> QED
    BY <2>5 DEF x, y
<1> QED
  <2>1. FirstOr(c, r, n)
    BY <1>1, <1>3, <1>4, FirstOrBehind
  <2> QED
    BY <1>1, <1>3, <1>4, <1>5, <1>6, <1>7, <2>1 DEF Known

\* Every member of an item that was sent is of its struct.
LEMMA PartsOfItem ==
    ASSUME NEW item, ItemSendable(item), item.kind # "UNKNOWN", NEW k, k = item.kind,
           NEW n, n = Len(Struct[k])
    PROVE  /\ k \in DOMAIN ItemType
           /\ DOMAIN item.members = {Struct[k][i] : i \in 1 .. n}
           /\ \A i \in 1 .. n :
                /\ ValueOK(Struct[k][i], item.members[Struct[k][i]])
                /\ PartInts(item)[i] = IntsOf(Struct[k][i], item.members[Struct[k][i]])
                /\ PartInts(item)[i] \in Seq(Int) /\ Len(PartInts(item)[i]) = SizeOf(Struct[k][i])
           /\ DOMAIN PartInts(item) = 1 .. n
<1>1. /\ k \in DOMAIN ItemType /\ DOMAIN item.members = ToSet(Struct[k])
      /\ \A m \in DOMAIN item.members : ValueOK(m, item.members[m])
  BY DEF ItemSendable, ValueOK
<1>2. DOMAIN Struct[k] = 1 .. n
  BY <1>1, KnownItem DEF Known
<1>3. DOMAIN item.members = {Struct[k][i] : i \in 1 .. n}
  BY <1>1, <1>2 DEF ToSet
<1>4. ASSUME NEW i \in 1 .. n
      PROVE  /\ ValueOK(Struct[k][i], item.members[Struct[k][i]])
             /\ PartInts(item)[i] = IntsOf(Struct[k][i], item.members[Struct[k][i]])
  <2>1. Struct[k][i] \in DOMAIN item.members
    BY <1>3
  <2> QED
    BY <1>1, <1>2, <2>1 DEF PartInts
<1>5. ASSUME NEW i \in 1 .. n
      PROVE  PartInts(item)[i] \in Seq(Int) /\ Len(PartInts(item)[i]) = SizeOf(Struct[k][i])
  <2> DEFINE x == Struct[k][i]
             v == item.members[Struct[k][i]]
  <2>1. ValueOK(x, v) /\ PartInts(item)[i] = IntsOf(x, v)
    BY <1>4
  <2> HIDE DEF x, v
  <2>2. IntsOf(x, v) \in Seq(Int) /\ Len(IntsOf(x, v)) = SizeOf(x)
    BY <2>1, IntsOfTyped
  <2> QED
    BY <2>1, <2>2 DEF x
<1>6. DOMAIN PartInts(item) = 1 .. n
  BY <1>2 DEF PartInts
<1> QED
  BY <1>1, <1>3, <1>4, <1>5, <1>6

LEMMA ItemIntsAre ==
    ASSUME NEW item, ItemSendable(item), item.kind # "UNKNOWN",
           NEW n, n = Len(Struct[item.kind])
    PROVE  ItemInts(item) = <<ItemType[item.kind], item.id>> \o FirstOf(PartInts(item), n)
<1>1. DOMAIN PartInts(item) = 1 .. n
  BY PartsOfItem
<1>2. PartInts(item) = [i \in 1 .. n |-> PartInts(item)[i]]
  BY <1>1 DEF PartInts
<1>3. ItemInts(item) = <<ItemType[item.kind], item.id>> \o FlattenSeq(PartInts(item))
  BY DEF ItemInts, PartInts, IntsOf
<1>4. FlattenSeq(PartInts(item)) = FirstOf(PartInts(item), n)
  BY <1>2 DEF FirstOf
<1> QED
  BY <1>3, <1>4

LEMMA ItemIntsTyped ==
    ASSUME NEW item, ItemSendable(item)
    PROVE  ItemInts(item) \in Seq(Int)
<1>1. CASE item.kind = "UNKNOWN"
  <2> DEFINE n == item.members.size
             x == item.members.type_id
             y == item.id
             r == [i \in 1 .. n |-> i]
  <2>1. n \in Nat /\ x \in Int /\ y \in Int
    BY <1>1, SMT DEF ItemSendable
  <2>2. ItemInts(item) = <<x, y, n>> \o r
    BY <1>1 DEF ItemInts
  <2> HIDE DEF n, x, y
  <2>3. <<x, y, n>> \in Seq(Int)
    BY <2>1, SMT
  <2>4. r \in Seq(Int)
    <3>1. r \in [1 .. n -> Int]
      BY SMT
    <3> HIDE DEF r
    <3> QED
      BY <2>1, <3>1, SMT
  <2> HIDE DEF r
  <2> DEFINE h == <<x, y, n>>
  <2> HIDE DEF h
  <2>5. h \o r \in Seq(Int)
    BY <2>3, <2>4, ConcatProperties DEF h
  <2> QED
    BY <2>2, <2>5 DEF h
<1>2. CASE item.kind # "UNKNOWN"
  <2> DEFINE n == Len(Struct[item.kind])
             x == ItemType[item.kind]
             y == item.id
             r == FirstOf(PartInts(item), n)
  <2>1. item.kind \in DOMAIN ItemType /\ y \in Int
    BY <1>2 DEF ItemSendable
  <2>2. x \in Int /\ n \in Nat
    BY <2>1, TypesApart, KnownItem DEF Known
  <2>3. ItemInts(item) = <<x, y>> \o r
    BY <1>2, ItemIntsAre
  <2>4. r \in Seq(Int)
    <3>1. \A i \in 1 .. n : PartInts(item)[i] \in Seq(Int)
      BY <1>2, PartsOfItem
    <3>2. n \in 0 .. n
      BY <2>2, SMT
    <3> HIDE DEF n
    <3> QED
      BY <2>2, <3>1, <3>2, FirstTyped
  <2> HIDE DEF n, x, y, r
  <2>5. <<x, y>> \in Seq(Int)
    BY <2>1, <2>2, SMT
  <2> DEFINE h == <<x, y>>
  <2> HIDE DEF h
  <2>6. h \o r \in Seq(Int)
    BY <2>4, <2>5, ConcatProperties DEF h
  <2> QED
    BY <2>3, <2>6 DEF h
<1> QED
  BY <1>1, <1>2

\* The values of the members of an item in their order, and the place on the wire
\* behind each when the first lies at a.
InOrder(item) ==
    [i \in 1 .. Len(Struct[item.kind]) |-> item.members[Struct[item.kind][i]]]

Places(item, a) ==
    [i \in 0 .. Len(Struct[item.kind]) |-> a + Len(FirstOf(PartInts(item), i))]

LEMMA StructLaid ==
    ASSUME NEW item, ItemSendable(item), item.kind # "UNKNOWN", NEW k, k = item.kind,
           NEW n, n = Len(Struct[k]), NEW a, NEW cut, Lies(FirstOf(PartInts(item), n), a, cut)
    PROVE  /\ Laid(Struct[k], InOrder(item), Places(item, a), n, cut)
           /\ Places(item, a)[0] = a /\ Places(item, a)[n] = a + Len(FirstOf(PartInts(item), n))
<1> DEFINE parts == PartInts(item)
           vals == InOrder(item)
           p == Places(item, a)
<1>1. k \in DOMAIN ItemType /\ n \in Nat
  BY PartsOfItem, KnownItem DEF Known
<1>2. \A i \in 1 .. n : /\ ValueOK(Struct[k][i], vals[i])
                        /\ parts[i] = IntsOf(Struct[k][i], vals[i])
                        /\ parts[i] \in Seq(Int) /\ Len(parts[i]) = SizeOf(Struct[k][i])
  <2> SUFFICES ASSUME NEW i \in 1 .. n
               PROVE  /\ ValueOK(Struct[k][i], vals[i])
                      /\ parts[i] = IntsOf(Struct[k][i], vals[i])
                      /\ parts[i] \in Seq(Int) /\ Len(parts[i]) = SizeOf(Struct[k][i])
    OBVIOUS
  <2>1. vals[i] = item.members[Struct[k][i]]
    BY DEF InOrder
  <2> HIDE DEF vals
  <2> QED
    BY <2>1, PartsOfItem
<1>3. \A i \in 0 .. n : p[i] = a + Len(FirstOf(parts, i))
  BY DEF Places
<1>4. a \in Nat
  BY DEF Lies
<1> HIDE DEF parts, vals, p
<1>5. \A i \in 1 .. n :
         /\ Lies(parts[i], a + Len(FirstOf(parts, i - 1)), cut)
         /\ Len(FirstOf(parts, i)) = Len(FirstOf(parts, i - 1)) + Len(parts[i])
  <2>1. Lies(FirstOf(parts, n), a, cut)
    BY DEF parts
  <2> QED
    BY <1>1, <1>2, <2>1, PartsLie
<1>6. ASSUME NEW i \in 1 .. n
      PROVE  /\ ValueOK(Struct[k][i], vals[i]) /\ p[i] = p[i - 1] + SizeOf(Struct[k][i])
             /\ Lies(IntsOf(Struct[k][i], vals[i]), p[i - 1], cut)
  <2>1. i \in 0 .. n /\ i - 1 \in 0 .. n
    BY <1>1, SMT
  <2> DEFINE x == Len(FirstOf(parts, i))
             y == Len(FirstOf(parts, i - 1))
             z == Len(parts[i])
  <2>2. p[i] = a + x /\ p[i - 1] = a + y
    BY <1>3, <2>1
  <2>3. x = y + z /\ z = SizeOf(Struct[k][i])
    BY <1>2, <1>5
  <2>4. x \in Nat /\ y \in Nat /\ z \in Nat
    <3>1. FirstOf(parts, i) \in Seq(Int) /\ FirstOf(parts, i - 1) \in Seq(Int) /\ parts[i] \in Seq(Int)
      BY <1>1, <1>2, <2>1, FirstTyped
    <3> QED
      BY <3>1, LenProperties
  <2> HIDE DEF x, y, z
  <2>5. p[i] = p[i - 1] + SizeOf(Struct[k][i])
    BY <1>4, <2>2, <2>3, <2>4, SMT
  <2>6. Lies(IntsOf(Struct[k][i], vals[i]), p[i - 1], cut)
    BY <1>2, <1>5, <2>2 DEF y
  <2> QED
    BY <1>2, <2>5, <2>6
<1>7. p[0] = a /\ p[n] = a + Len(FirstOf(parts, n))
  <2>1. 0 \in 0 .. n /\ n \in 0 .. n
    BY <1>1, SMT
  <2>2. FirstOf(parts, 0) = <<>>
    <3>1. 1 .. 0 = {}
      BY SMT
    <3>2. [i \in 1 .. 0 |-> parts[i]] = <<>>
      BY <3>1
    <3> QED
      BY <3>2, FlattenEmpty DEF FirstOf
  <2>3. Len(<<>>) = 0
    BY SMT
  <2> QED
    BY <1>3, <1>4, <2>1, <2>2, <2>3, SMT
<1> QED
  BY <1>6, <1>7 DEF Laid, parts, vals, p

\* What is laid is laid up to any member, and from any member on.
LEMMA LaidFirst ==
    ASSUME NEW s, NEW vals, NEW p, NEW n \in Nat, NEW cut, Laid(s, vals, p, n, cut),
           NEW c \in Nat, c <= n, NEW t, \A i \in 1 .. c : s[i] = t[i]
    PROVE  Laid(t, vals, p, c, cut)
<1> SUFFICES ASSUME NEW j \in 1 .. c
             PROVE  /\ ValueOK(t[j], vals[j]) /\ p[j] = p[j - 1] + SizeOf(t[j])
                    /\ Lies(IntsOf(t[j], vals[j]), p[j - 1], cut)
  BY DEF Laid
<1>1. j \in 1 .. n
  BY SMT
<1> QED
  BY <1>1 DEF Laid

AlikeFrom(t, s, c, r) == \A i \in 1 .. r : Alike(t[i], s[i + c])

Later(f, first, c, r) == [i \in first .. r |-> f[i + c]]

LEMMA LaidLater ==
    ASSUME NEW s, NEW vals, NEW p, NEW n \in Nat, NEW cut, Laid(s, vals, p, n, cut),
           NEW c \in Nat, NEW r \in Nat, n = r + c, NEW t, AlikeFrom(t, s, c, r)
    PROVE  Laid(t, Later(vals, 1, c, r), Later(p, 0, c, r), r, cut)
<1> DEFINE late == Later(vals, 1, c, r)
           q == Later(p, 0, c, r)
<1> SUFFICES ASSUME NEW j \in 1 .. r
             PROVE  /\ ValueOK(t[j], late[j]) /\ q[j] = q[j - 1] + SizeOf(t[j])
                    /\ Lies(IntsOf(t[j], late[j]), q[j - 1], cut)
  BY DEF Laid
<1>1. j + c \in 1 .. n /\ (j + c) - 1 = (j - 1) + c /\ j \in 0 .. r /\ j - 1 \in 0 .. r
  BY SMT
<1> DEFINE x == t[j]
           y == s[j + c]
           v == vals[j + c]
<1>2. late[j] = v /\ q[j] = p[j + c] /\ q[j - 1] = p[(j + c) - 1]
  BY <1>1 DEF Later
<1>3. ValueOK(y, v) /\ p[j + c] = p[(j + c) - 1] + SizeOf(y) /\ Lies(IntsOf(y, v), p[(j + c) - 1], cut)
  BY <1>1 DEF Laid
<1>4. Alike(x, y)
  BY DEF AlikeFrom
<1>5. x = t[j]
  OBVIOUS
<1> HIDE DEF x, y, v, late, q
<1>6. (ValueOK(x, v) <=> ValueOK(y, v)) /\ IntsOf(x, v) = IntsOf(y, v) /\ SizeOf(x) = SizeOf(y)
  BY <1>4, AlikeRead
<1> QED
  BY <1>2, <1>3, <1>5, <1>6 DEF late, q

\* The members of an item that came, all but the carriers.
AllMembersCame(item, got) ==
    \A member \in DOMAIN item.members \ Carriers :
        member \in DOMAIN got /\ MemberCame(item.members[member], member, got[member])

LEMMA KeptCame ==
    ASSUME NEW member, NEW value
    PROVE  MemberCame(value, member, KeptOf(member, value))
  BY DEF MemberCame, KeptOf, Terminated

LEMMA ItemMembersCame ==
    ASSUME NEW item, ItemSendable(item), item.kind # "UNKNOWN", NEW k, k = item.kind,
           NEW c, c = Len(CommonOf(k)), NEW r, r = Len(ItemReads[k]),
           NEW n, n = Len(Struct[k]), NEW late, late = Later(InOrder(item), 1, c, r),
           NEW m, Gained(<<>>, CommonOf(k), InOrder(item), c, m),
           NEW got, Gained(m, ItemReads[k], late, r, got)
    PROVE  AllMembersCame(item, got)
<1>1. k \in DOMAIN ItemType /\ DOMAIN item.members = {Struct[k][i] : i \in 1 .. n}
  BY PartsOfItem
<1>2. /\ c \in Nat /\ r \in Nat /\ n \in Nat /\ n = r + c
      /\ DOMAIN ItemReads[k] = 1 .. r
      /\ FirstOr(c, r, n)
      /\ \A i \in 1 .. c : Struct[k][i] = CommonOf(k)[i] /\ CommonOf(k)[i] \notin ToSet(ItemReads[k])
      /\ \A i \in 1 .. r : Alike(ItemReads[k][i], Struct[k][i + c])
  <2>1. Known(k, c, r, n)
    BY <1>1, KnownItem
  <2> QED
    BY <2>1 DEF Known
<1> DEFINE vals == InOrder(item)
           s == Struct[k]
           t == ItemReads[k]
<1>3. \A i \in 1 .. n : vals[i] = item.members[s[i]]
  BY DEF InOrder
<1>4. /\ DOMAIN m = DOMAIN <<>> \cup {CommonOf(k)[j] : j \in 1 .. c}
      /\ \A j \in 1 .. c : m[CommonOf(k)[j]] = KeptOf(CommonOf(k)[j], vals[j])
  BY DEF Gained
<1>5. /\ DOMAIN got = DOMAIN m \cup {t[j] : j \in 1 .. r}
      /\ \A j \in 1 .. r : got[t[j]] = KeptOf(t[j], late[j])
      /\ \A member \in DOMAIN m \ {t[j] : j \in 1 .. r} : got[member] = m[member]
  BY DEF Gained
<1>6. \A j \in 1 .. r : late[j] = vals[j + c]
  BY DEF Later
<1>7. {t[j] : j \in 1 .. r} = ToSet(t)
  BY <1>2 DEF ToSet
<1>8. ASSUME NEW i \in 1 .. n, s[i] \notin Carriers
      PROVE  s[i] \in DOMAIN got /\ got[s[i]] = KeptOf(s[i], vals[i])
  <2> HIDE DEF vals, s, t
  <2>1. CASE i \in 1 .. c
    <3> DEFINE x == CommonOf(k)[i]
    <3>1. s[i] = x /\ x \notin ToSet(t)
      <4>1. \A j \in 1 .. c : s[j] = CommonOf(k)[j] /\ CommonOf(k)[j] \notin ToSet(t)
        BY <1>2 DEF s, t
      <4> QED
        BY <2>1, <4>1
    <3>2. x \in DOMAIN m /\ m[x] = KeptOf(x, vals[i])
      BY <1>4, <2>1
    <3> HIDE DEF x
    <3>3. x \in DOMAIN got /\ got[x] = m[x]
      BY <1>5, <1>7, <3>1, <3>2
    <3> QED
      BY <3>1, <3>2, <3>3
  <2>2. CASE i \notin 1 .. c
    <3>2. PICK j \in 1 .. r : j + c = i
      BY <1>2, <2>2 DEF FirstOr
    <3>3. Alike(t[j], s[i])
      <4>1. Alike(t[j], s[j + c])
        BY <1>2, <3>2 DEF s, t
      <4> QED
        BY <3>2, <4>1
    <3>4. t[j] = s[i]
      BY <1>8, <3>3 DEF Alike
    <3>5. got[t[j]] = KeptOf(t[j], late[j]) /\ late[j] = vals[i] /\ t[j] \in DOMAIN got
      BY <1>5, <1>6, <3>2
    <3> QED
      BY <3>4, <3>5
  <2> QED
    BY <2>1, <2>2
<1>9. ASSUME NEW member \in DOMAIN item.members \ Carriers
      PROVE  member \in DOMAIN got /\ MemberCame(item.members[member], member, got[member])
  <2>1. PICK i \in 1 .. n : member = s[i]
    BY <1>1
  <2>2. vals[i] = item.members[member]
    BY <1>3, <2>1
  <2>3. member \in DOMAIN got /\ got[member] = KeptOf(member, item.members[member])
    BY <1>8, <2>1, <2>2
  <2> QED
    BY <2>3, KeptCame
<1> QED
  BY <1>9 DEF AllMembersCame

\* An item of a known kind from an unpacker where its members lie.
ItemMembersRead(item, u, a, ints, cut, st) ==
    /\ Decoding(st)
    /\ st.u.err = "NONE" =>
         u.err = "NONE" /\ st.u.at = a + Len(ints) /\ AllMembersCame(item, st.members)
    /\ ~cut /\ u.err = "NONE" => st.u.err = "NONE"

LEMMA MembersOfItemCame ==
    ASSUME WireOK, NEW item, ItemSendable(item), item.kind # "UNKNOWN", NEW k, k = item.kind,
           NEW u, Good(u), NEW a, NEW cut, NEW ints,
           ints = FirstOf(PartInts(item), Len(Struct[k])), Lies(ints, a, cut),
           u.err = "NONE" => u.at = a,
           NEW start, start = [u |-> u, members |-> <<>>, stop |-> FALSE],
           NEW begun, begun = GetMembers(start, CommonOf(k)),
           NEW st, st = GetMembers(begun, ItemReads[k])
    PROVE  ItemMembersRead(item, u, a, ints, cut, st)
<1>1. k \in DOMAIN ItemType
  BY DEF ItemSendable
<1> DEFINE c == Len(CommonOf(k))
           r == Len(ItemReads[k])
           n == Len(Struct[k])
           vals == InOrder(item)
           p == Places(item, a)
           late == Later(vals, 1, c, r)
           q == Later(p, 0, c, r)
           x == CommonOf(k)
           y == ItemReads[k]
<1>2. /\ c \in Nat /\ r \in Nat /\ n \in Nat /\ n = r + c /\ Distinct(y, r)
      /\ \A i \in 1 .. c : Struct[k][i] = x[i]
      /\ AlikeFrom(y, Struct[k], c, r)
  <2>1. c = Len(CommonOf(k)) /\ r = Len(ItemReads[k]) /\ n = Len(Struct[k])
    OBVIOUS
  <2> HIDE DEF c, r, n
  <2>2. Known(k, c, r, n)
    BY <1>1, <2>1, KnownItem
  <2> QED
    BY <2>2 DEF Known, AlikeFrom
<1>3. Laid(Struct[k], vals, p, n, cut) /\ p[0] = a /\ p[n] = a + Len(ints)
  <2>1. Lies(FirstOf(PartInts(item), n), a, cut)
    OBVIOUS
  <2> HIDE DEF n
  <2>2. n = Len(Struct[k]) /\ ints = FirstOf(PartInts(item), n)
    BY DEF n
  <2> QED
    BY <2>1, <2>2, StructLaid
<1>4. Distinct(x, c)
  BY CommonIs
<1>5. Laid(x, vals, p, c, cut)
  <2> HIDE DEF c, r, n, vals, p, x
  <2>1. c <= n
    BY <1>2, SMT
  <2> QED
    BY <1>2, <1>3, <2>1, LaidFirst
<1>6. Laid(y, late, q, r, cut)
  <2> HIDE DEF c, r, n, vals, p, y
  <2> QED
    BY <1>2, <1>3, LaidLater
<1>7. q[0] = p[c] /\ q[r] = p[n]
  <2>1. 0 \in 0 .. r /\ r \in 0 .. r /\ 0 + c = c /\ r + c = n
    BY <1>2, SMT
  <2> QED
    BY <2>1 DEF Later
<1>8. Len(x) = c /\ Len(y) = r /\ x = CommonOf(k) /\ y = ItemReads[k] /\ vals = InOrder(item)
      /\ late = Later(vals, 1, c, r) /\ c = Len(CommonOf(k)) /\ r = Len(ItemReads[k])
  OBVIOUS
<1> HIDE DEF c, r, n, vals, p, x, y, late, q
<1>9. Decoding(start) /\ start.u = u /\ start.members = <<>>
  <2>1. start.u = u /\ start.stop = FALSE /\ start.members = <<>> /\ ItemShape(start)
    BY DEF ItemShape
  <2> QED
    BY <2>1 DEF Decoding
<1>10. begun = GetMembers(start, x) /\ st = GetMembers(begun, y)
  BY <1>8
<1>11. /\ Decoding(begun)
       /\ begun.u.err = "NONE" =>
            start.u.err = "NONE" /\ begun.u.at = p[c] /\ Gained(start.members, x, vals, c, begun.members)
       /\ ~cut /\ start.u.err = "NONE" => begun.u.err = "NONE"
  <2>1. start.u.err = "NONE" => start.u.at = p[0]
    BY <1>3, <1>9
  <2> QED
    BY <1>2, <1>4, <1>5, <1>8, <1>9, <1>10, <2>1, GetMembersCame
<1>12. /\ Decoding(st)
       /\ st.u.err = "NONE" =>
            begun.u.err = "NONE" /\ st.u.at = q[r] /\ Gained(begun.members, y, late, r, st.members)
       /\ ~cut /\ begun.u.err = "NONE" => st.u.err = "NONE"
  <2>1. begun.u.err = "NONE" => begun.u.at = q[0]
    BY <1>7, <1>11
  <2>2. Decoding(begun)
    BY <1>11
  <2> QED
    BY <1>2, <1>6, <1>8, <1>10, <2>1, <2>2, GetMembersCame
<1>13. ASSUME st.u.err = "NONE"
       PROVE  AllMembersCame(item, st.members)
  <2> DEFINE m == begun.members
             got == st.members
  <2>1. Gained(<<>>, CommonOf(k), InOrder(item), c, m) /\ Gained(m, ItemReads[k], late, r, got)
    BY <1>8, <1>9, <1>11, <1>12, <1>13
  <2>2. late = Later(InOrder(item), 1, c, r)
    BY <1>8
  <2> HIDE DEF m, got
  <2>3. AllMembersCame(item, got)
    BY <1>8, <2>1, <2>2, ItemMembersCame
  <2> QED
    BY <2>3 DEF got
<1> QED
  BY <1>3, <1>7, <1>9, <1>11, <1>12, <1>13 DEF ItemMembersRead

LEMMA LieOne ==
    ASSUME NEW ints, NEW a, NEW cut, Lies(ints, a, cut), NEW i \in 1 .. Len(ints),
           NEW b, b = (a + i) - 1, NEW x, x = ints[i]
    PROVE  Lies(<<x>>, b, cut)
<1>1. a \in Nat /\ ints \in Seq(Int) /\ Len(ints) \in Nat /\ x \in Int
  BY LenProperties, ElementOfSeq DEF Lies
<1>2. b \in Nat /\ b + 1 = a + i
  BY <1>1, SMT
<1> DEFINE one == <<x>>
<1>3. one \in Seq(Int) /\ Len(one) = 1 /\ one[1] = x
  BY <1>1
<1> HIDE DEF one
<1>4. ASSUME NEW j \in 1 .. Len(one)
      PROVE  /\ b + j \in 1 .. Len(wire) => wire[b + j].type = "int" /\ wire[b + j].value = one[j]
             /\ ~cut => b + j \in 1 .. Len(wire) /\ wire[b + j].whole
  <2>1. j = 1 /\ b + j = a + i
    BY <1>2, <1>3, SMT
  <2> DEFINE z == a + i
  <2>2. /\ z \in 1 .. Len(wire) => wire[z].type = "int" /\ wire[z].value = ints[i]
        /\ ~cut => z \in 1 .. Len(wire) /\ wire[z].whole
    BY DEF Lies
  <2>3. b + j = z /\ one[j] = ints[i]
    BY <1>3, <2>1
  <2> HIDE DEF z
  <2> QED
    BY <2>2, <2>3
<1> QED
  BY <1>2, <1>3, <1>4 DEF Lies, one

\* The type and the id of an item, of which the first two integers are x and y.
HeadRead(u, ints, cut, type, id) ==
    /\ Good(id) /\ u.at \in Nat
    /\ id.err = "NONE" => type.value = ints[1] /\ id.value = ints[2] /\ id.at = u.at + 2
    /\ ~cut => id.err = "NONE"

LEMMA HeadCame ==
    ASSUME WireOK, NEW u, Good(u), u.err = "NONE", NEW ints, NEW cut, Lies(ints, u.at, cut),
           Len(ints) >= 2, NEW type, type = GetInt(u), NEW id, id = GetInt(type)
    PROVE  HeadRead(u, ints, cut, type, id)
<1>1. Len(ints) \in Nat /\ u.at \in Nat
  BY LenProperties DEF Lies
<1> DEFINE x == ints[1]
           y == ints[2]
<1>2. Lies(<<x>>, u.at, cut)
  <2>1. 1 \in 1 .. Len(ints) /\ u.at = (u.at + 1) - 1
    BY <1>1, SMT
  <2> QED
    BY <2>1, LieOne
<1>3. Lies(<<y>>, u.at + 1, cut)
  <2>1. 2 \in 1 .. Len(ints) /\ u.at + 1 = (u.at + 2) - 1
    BY <1>1, SMT
  <2> QED
    BY <2>1, LieOne
<1>8. x = ints[1] /\ y = ints[2]
  OBVIOUS
<1> HIDE DEF x, y
<1>4. Reads(u, type, 1)
  BY GetIntReads
<1>5. Good(type) /\ (type.err = "NONE" => type.at = u.at + 1)
  BY <1>4 DEF Reads
<1>6. (type.err = "NONE" => type.value = x) /\ (~cut => type.err = "NONE")
  <2>1. Coming(<<x>>, u, cut)
    BY <1>2 DEF Coming
  <2> QED
    BY <2>1, IntCame
<1>7. (id.err = "NONE" => id.value = y) /\ (~cut /\ type.err = "NONE" => id.err = "NONE")
  <2>1. Coming(<<y>>, type, cut)
    BY <1>3, <1>5 DEF Coming
  <2> QED
    BY <1>5, <2>1, IntCame
<1>9. Reads(type, id, 1)
  BY <1>5, GetIntReads
<1>10. Good(id) /\ (id.err = "NONE" => type.err = "NONE" /\ id.at = type.at + 1)
  BY <1>9 DEF Reads
<1>11. ASSUME id.err = "NONE" PROVE id.at = u.at + 2
  <2>1. id.at = (u.at + 1) + 1
    BY <1>5, <1>10, <1>11
  <2> QED
    BY <1>1, <2>1, SMT
<1> QED
  BY <1>1, <1>6, <1>7, <1>8, <1>10, <1>11 DEF HeadRead

\* An item as it came: d is what was decoded at the place a.
ItemRead(item, a, cut, d) ==
    /\ d.err = "NONE" =>
         d.u.err = "NONE" /\ d.u.at = a + Len(ItemInts(item)) /\ ItemCame(item, d.item)
    /\ ~cut => d.err = "NONE"

\* The sequence of the members common to all events is asked for by the type id.
LEMMA CommonByType ==
    ASSUME NEW k \in DOMAIN ItemType, NEW v, v = ItemType[k]
    PROVE  (IF v \in EventCommon .. ItemType.DAMAGE_INDICATOR THEN <<"x", "y">> ELSE <<>>) = CommonOf(k)
<1>1. v \in IF k \in DOMAIN Events THEN 14 .. 20 ELSE 1 .. 12
  BY ItemsAssumption
<1>2. ItemType.DAMAGE_INDICATOR = 20 /\ EventCommon = 13
  BY SMT DEF ItemType, EventCommon
<1>3. v \in EventCommon .. ItemType.DAMAGE_INDICATOR <=> k \in DOMAIN Events
  BY <1>1, <1>2, SMT
<1> QED
  BY <1>3 DEF CommonOf

LEMMA ItemMembersAre ==
    ASSUME NEW item, NEW got, got.kind = item.kind, got.id = item.id,
           AllMembersCame(item, got.members)
    PROVE  ItemCame(item, got)
  BY DEF ItemCame, AllMembersCame

LEMMA KnownCame ==
    ASSUME WireOK, NEW item, ItemSendable(item), item.kind # "UNKNOWN", NEW u, Good(u), u.err = "NONE",
           NEW cut, Lies(ItemInts(item), u.at, cut), NEW d, d = DecodeItem(u)
    PROVE  ItemRead(item, u.at, cut, d)
<1> DEFINE k == item.kind
           rest == FirstOf(PartInts(item), Len(Struct[k]))
           x == ItemType[k]
           y == item.id
           h == <<x, y>>
           a == u.at
<1>1. k \in DOMAIN ItemType /\ y \in Int /\ ItemInts(item) = h \o rest
  BY ItemIntsAre DEF ItemSendable
<1>2. x \in Int
  BY <1>1, TypesApart
<1>3. rest \in Seq(Int)
  <2> DEFINE n == Len(Struct[k])
  <2>1. n \in Nat /\ \A i \in 1 .. n : PartInts(item)[i] \in Seq(Int)
    BY <1>1, KnownItem, PartsOfItem DEF Known
  <2> HIDE DEF n
  <2>2. n \in 0 .. n
    BY <2>1, SMT
  <2>3. FirstOf(PartInts(item), n) \in Seq(Int)
    BY <2>1, <2>2, FirstTyped
  <2> QED
    BY <2>3 DEF n
<1>4. h \in Seq(Int) /\ Len(h) = 2 /\ h[1] = x /\ h[2] = y
  <2> HIDE DEF x, y
  <2> QED
    BY <1>1, <1>2
<1> HIDE DEF rest, x, y, h
<1>5. Len(h \o rest) = 2 + Len(rest) /\ Len(rest) \in Nat /\ (h \o rest)[1] = x /\ (h \o rest)[2] = y
  <2>1. Len(h \o rest) = Len(h) + Len(rest) /\ Len(rest) \in Nat
        /\ \A i \in 1 .. Len(h) + Len(rest) : (h \o rest)[i] = IF i <= Len(h) THEN h[i] ELSE rest[i - Len(h)]
    BY <1>3, <1>4, ConcatProperties, LenProperties
  <2>2. 1 \in 1 .. Len(h) + Len(rest) /\ 2 \in 1 .. Len(h) + Len(rest) /\ 1 <= Len(h) /\ 2 <= Len(h)
    BY <1>4, <2>1, SMT
  <2> QED
    BY <1>4, <2>1, <2>2
<1>6. Lies(rest, a + 2, cut)
  BY <1>1, <1>3, <1>4, LieApart
<1> DEFINE ints == ItemInts(item)
           type == GetInt(u)
           id == GetInt(type)
<1>7. Lies(ints, u.at, cut) /\ ints = h \o rest
  BY <1>1
<1>8. type = GetInt(u) /\ id = GetInt(type)
  OBVIOUS
<1> HIDE DEF ints, type, id
<1>9. /\ Good(id) /\ u.at \in Nat
      /\ id.err = "NONE" => type.value = x /\ id.value = y /\ id.at = u.at + 2
      /\ ~cut => id.err = "NONE"
  <2>1. Len(ints) >= 2 /\ ints[1] = x /\ ints[2] = y
    BY <1>5, <1>7, SMT
  <2>2. HeadRead(u, ints, cut, type, id)
    BY <1>7, <1>8, <2>1, HeadCame
  <2> QED
    BY <2>1, <2>2 DEF HeadRead
<1>10. d.err = "NONE" => id.err = "NONE" /\ d.u.err = "NONE"
  BY <1>8, DecodeItemReads
<1>11. ASSUME id.err = "NONE"
       PROVE  ItemRead(item, u.at, cut, d)
  <2> DEFINE start == [u |-> id, members |-> <<>>, stop |-> FALSE]
             begun == GetMembers(start, CommonOf(k))
             st == GetMembers(begun, ItemReads[k])
             known == [kind |-> k, id |-> id.value, members |-> st.members]
  <2>1. d = [u |-> st.u, err |-> st.u.err, item |-> known]
    <3> DEFINE names == {name \in DOMAIN ItemType : ItemType[name] = type.value}
               name == CHOOSE n \in names : TRUE
               common == IF type.value \in EventCommon .. ItemType.DAMAGE_INDICATOR THEN <<"x", "y">> ELSE <<>>
               begun2 == GetMembers(start, common)
               st2 == GetMembers(begun2, ItemReads[name])
               item2 == [kind |-> name, id |-> id.value, members |-> st2.members]
    <3>1. type.value = ItemType[k]
      BY <1>9, <1>11 DEF x
    <3>2. names = {k}
      <4>1. \A j \in DOMAIN ItemType : ItemType[j] = ItemType[k] <=> j = k
        BY <1>1, TypesApart
      <4> QED
        BY <1>1, <3>1, <4>1
    <3>3. name = k
      BY <3>2
    <3>4. common = CommonOf(k)
      BY <1>1, <3>1, CommonByType
    <3>5. names # {} => d = [u |-> st2.u, err |-> st2.u.err, item |-> item2]
      BY DEF DecodeItem, id, type
    <3> HIDE DEF names, name, common, k, start
    <3>6. begun2 = begun
      BY <3>4
    <3>7. st2 = st
      BY <3>3, <3>6
    <3> HIDE DEF begun2, st2, begun, st
    <3>8. item2 = known
      BY <3>3, <3>7
    <3> QED
      BY <3>2, <3>5, <3>7, <3>8
  <2>2. /\ st.u.err = "NONE" => st.u.at = (a + 2) + Len(rest) /\ AllMembersCame(item, st.members)
        /\ ~cut => st.u.err = "NONE"
    <3>1. rest = FirstOf(PartInts(item), Len(Struct[k])) /\ start = [u |-> id, members |-> <<>>, stop |-> FALSE]
          /\ begun = GetMembers(start, CommonOf(k)) /\ st = GetMembers(begun, ItemReads[k]) /\ k = item.kind
      BY DEF rest
    <3> HIDE DEF start, begun, st, k
    <3> DEFINE b == a + 2
    <3>2. (id.err = "NONE" => id.at = b) /\ Lies(rest, b, cut) /\ Good(id)
      BY <1>6, <1>9
    <3> HIDE DEF b
    <3>3. ItemMembersRead(item, id, b, rest, cut, st)
      BY <3>1, <3>2, MembersOfItemCame
    <3> QED
      BY <1>11, <3>3 DEF b, ItemMembersRead
  <2>3. known.kind = item.kind /\ known.id = item.id /\ known.members = st.members
    BY <1>9, <1>11 DEF y
  <2> HIDE DEF start, begun, st, known
  <2>4. d.u = st.u /\ d.err = st.u.err /\ d.item = known
    BY <2>1
  <2>5. st.u.err = "NONE" => ItemCame(item, known)
    BY <2>2, <2>3, ItemMembersAre
  <2>6. (a + 2) + Len(rest) = a + Len(ints)
    BY <1>5, <1>7, <1>9, SMT
  <2> HIDE DEF a
  <2>7. ItemRead(item, a, cut, d)
    BY <2>2, <2>4, <2>5, <2>6 DEF ItemRead, ints
  <2> QED
    BY <2>7 DEF a
<1>12. CASE id.err # "NONE"
  BY <1>9, <1>10, <1>12 DEF ItemRead
<1> QED
  BY <1>11, <1>12

\* The integers of an item of a type the client does not know.
UnknownInts(x, y, n) == <<x, y, n>> \o [i \in 1 .. n |-> i]

Begun(ints, x, y, n) == Len(ints) = 3 + n /\ ints[1] = x /\ ints[2] = y /\ ints[3] = n

LEMMA UnknownIntsAre ==
    ASSUME NEW x \in Int, NEW y \in Int, NEW n \in Nat, NEW ints, ints = UnknownInts(x, y, n)
    PROVE  Begun(ints, x, y, n)
<1> DEFINE h == <<x, y, n>>
           r == [i \in 1 .. n |-> i]
<1>1. h \in Seq(Int) /\ Len(h) = 3 /\ h[1] = x /\ h[2] = y /\ h[3] = n
  OBVIOUS
<1>2. r \in Seq(Int) /\ Len(r) = n
  <2>1. r \in [1 .. n -> Int]
    BY SMT
  <2> HIDE DEF r
  <2> QED
    BY <2>1, SMT
<1>3. ints = h \o r
  BY DEF UnknownInts
<1> HIDE DEF h, r
<1>4. /\ Len(h \o r) = Len(h) + Len(r)
      /\ \A i \in 1 .. Len(h) + Len(r) : (h \o r)[i] = IF i <= Len(h) THEN h[i] ELSE r[i - Len(h)]
  BY <1>1, <1>2, ConcatProperties
<1>5. /\ 1 \in 1 .. Len(h) + Len(r) /\ 2 \in 1 .. Len(h) + Len(r) /\ 3 \in 1 .. Len(h) + Len(r)
      /\ 1 <= Len(h) /\ 2 <= Len(h) /\ 3 <= Len(h)
  BY <1>1, <1>2, SMT
<1> QED
  BY <1>1, <1>2, <1>3, <1>4, <1>5 DEF Begun

LEMMA UnknownItemIs ==
    ASSUME NEW item, ItemSendable(item), item.kind = "UNKNOWN",
           NEW x, x = item.members.type_id, NEW y, y = item.id, NEW n, n = item.members.size
    PROVE  /\ x \in Int /\ x \notin Vanilla /\ y \in Int /\ n \in Nat /\ item.members.data_len = n
           /\ DOMAIN item.members = {"type_id", "size", "data_len"}
           /\ ItemInts(item) = UnknownInts(x, y, n)
  BY SMT DEF ItemSendable, ItemInts, UnknownInts

LEMMA UnknownMembersCame ==
    ASSUME NEW item, ItemSendable(item), item.kind = "UNKNOWN", NEW got,
           got = [kind |-> "UNKNOWN", id |-> item.id,
                  members |-> [type_id |-> item.members.type_id, size |-> item.members.size,
                               data_len |-> item.members.size]]
    PROVE  ItemCame(item, got)
<1> DEFINE x == item.members.type_id
           n == item.members.size
           m == [type_id |-> x, size |-> n, data_len |-> n]
<1>1. DOMAIN item.members = {"type_id", "size", "data_len"} /\ item.members.data_len = n
  BY UnknownItemIs
<1>2. got.kind = "UNKNOWN" /\ got.id = item.id /\ got.members = m
  OBVIOUS
<1>3. \A member \in DOMAIN item.members : member \notin DOMAIN NumInts
  <2>1. "type_id" \notin DOMAIN NumInts /\ "size" \notin DOMAIN NumInts /\ "data_len" \notin DOMAIN NumInts
    BY SMT DEF NumInts
  <2> QED
    BY <1>1, <2>1
<1>4. /\ "type_id" \in DOMAIN m /\ "size" \in DOMAIN m /\ "data_len" \in DOMAIN m
      /\ m.type_id = x /\ m.size = n /\ m.data_len = n
  OBVIOUS
<1>5. ASSUME NEW member \in DOMAIN item.members
      PROVE  member \in DOMAIN m /\ MemberCame(item.members[member], member, m[member])
  <2>1. member \in DOMAIN m /\ m[member] = item.members[member]
    <3>1. x = item.members["type_id"] /\ n = item.members["size"]
      OBVIOUS
    <3> HIDE DEF x, n, m
    <3>2. CASE member = "type_id"
      BY <1>4, <3>1, <3>2
    <3>3. CASE member = "size"
      BY <1>4, <3>1, <3>3
    <3>4. CASE member = "data_len"
      BY <1>1, <1>4, <3>4
    <3> QED
      BY <1>1, <3>2, <3>3, <3>4
  <2> QED
    BY <1>3, <2>1 DEF MemberCame
<1> HIDE DEF m
<1> QED
  BY <1>2, <1>5 DEF ItemCame

LEMMA UnknownCame ==
    ASSUME WireOK, NEW item, ItemSendable(item), item.kind = "UNKNOWN", NEW u, Good(u), u.err = "NONE",
           NEW cut, Lies(ItemInts(item), u.at, cut), NEW d, d = DecodeItem(u)
    PROVE  ItemRead(item, u.at, cut, d)
<1> DEFINE x == item.members.type_id
           y == item.id
           n == item.members.size
           ints == ItemInts(item)
           h == <<x, y, n>>
           r == [i \in 1 .. n |-> i]
           type == GetInt(u)
           id == GetInt(type)
           len == GetInt(id)
           skip == GetInts(len, len.value)
           a == u.at
<1>1. /\ x \in Int /\ x \notin Vanilla /\ y \in Int /\ n \in Nat /\ item.members.data_len = n
      /\ ints = UnknownInts(x, y, n)
  BY UnknownItemIs
<1>2. h \in Seq(Int) /\ Len(h) = 3
  <2> HIDE DEF x, y, n
  <2> QED
    BY <1>1
<1>3. r \in Seq(Int) /\ Len(r) = n
  <2> HIDE DEF n
  <2>1. r \in [1 .. n -> Int]
    BY <1>1, SMT
  <2> HIDE DEF r
  <2> QED
    BY <1>1, <2>1, SMT
<1>4. ints = h \o r
  BY <1>1 DEF UnknownInts
<1>5. type = GetInt(u) /\ id = GetInt(type) /\ len = GetInt(id) /\ skip = GetInts(len, len.value)
  OBVIOUS
<1>6. x = item.members.type_id /\ y = item.id /\ n = item.members.size /\ Lies(ints, a, cut)
  OBVIOUS
<1>7. d.err = "NONE" => id.err = "NONE" /\ d.u.err = "NONE"
  BY DecodeItemReads
<1> HIDE DEF x, y, n, ints, h, r, type, id, len, skip
<1>8. Len(ints) = 3 + n /\ ints[1] = x /\ ints[2] = y /\ ints[3] = n
  <2>1. Begun(ints, x, y, n)
    BY <1>1, UnknownIntsAre
  <2> QED
    BY <2>1 DEF Begun
<1>9. Lies(r, a + 3, cut)
  <2>1. Lies(h \o r, a, cut)
    BY <1>4, <1>6
  <2> QED
    BY <1>2, <1>3, <2>1, LieApart
<1>10. /\ Good(id) /\ a \in Nat
       /\ id.err = "NONE" => type.value = x /\ id.value = y /\ id.at = a + 2
       /\ ~cut => id.err = "NONE"
  <2>1. Len(ints) >= 2
    BY <1>1, <1>8, SMT
  <2>2. HeadRead(u, ints, cut, type, id)
    BY <1>5, <1>6, <2>1, HeadCame
  <2> QED
    BY <1>8, <2>2 DEF HeadRead
<1>11. Lies(<<n>>, a + 2, cut)
  <2>1. 3 \in 1 .. Len(ints) /\ a + 2 = (a + 3) - 1
    BY <1>1, <1>8, <1>10, SMT
  <2> HIDE DEF a
  <2> QED
    BY <1>6, <1>8, <2>1, LieOne
<1>12. ASSUME id.err = "NONE"
       PROVE  ItemRead(item, a, cut, d)
  <2>1. (len.err = "NONE" => len.value = n /\ len.at = a + 3) /\ (~cut => len.err = "NONE") /\ Good(len)
    <3>1. Coming(<<n>>, id, cut)
      BY <1>10, <1>11, <1>12 DEF Coming
    <3>2. (len.err = "NONE" => len.value = n) /\ (~cut /\ id.err = "NONE" => len.err = "NONE")
      BY <1>5, <1>10, <3>1, IntCame
    <3>3. Reads(id, len, 1)
      BY <1>5, <1>10, GetIntReads
    <3>4. Good(len) /\ (len.err = "NONE" => len.at = (a + 2) + 1)
      BY <1>10, <1>12, <3>3 DEF Reads
    <3>5. (a + 2) + 1 = a + 3
      BY <1>10, SMT
    <3> QED
      BY <1>12, <3>2, <3>4, <3>5
  <2>2. len.value \in Int /\ len.at \in Int
    BY <2>1, LenProperties, SMT DEF Good, WireOK
  <2>3. Reads(len, skip, IF len.value > 0 THEN len.value ELSE 0)
    BY <1>5, <2>1, <2>2, GetIntsReads
  <2>4. skip.err = "NONE" => len.err = "NONE" /\ skip.at = (a + 3) + n
    <3> SUFFICES ASSUME skip.err = "NONE" PROVE len.err = "NONE" /\ skip.at = (a + 3) + n
      OBVIOUS
    <3>1. len.err = "NONE" /\ skip.at = len.at + (IF len.value > 0 THEN len.value ELSE 0)
      BY <2>3 DEF Reads
    <3>2. len.value = n /\ len.at = a + 3
      BY <2>1, <3>1
    <3> QED
      BY <1>1, <3>1, <3>2, SMT
  <2>5. ~cut => skip.err = "NONE"
    <3> SUFFICES ASSUME ~cut PROVE skip.err = "NONE"
      OBVIOUS
    <3>1. len.err = "NONE" /\ len.value = n
      BY <2>1
    <3>2. skip = GetInts(len, n) /\ Coming(r, len, cut)
      BY <1>5, <1>9, <2>1, <3>1 DEF Coming
    <3> QED
      BY <1>3, <2>1, <3>1, <3>2, IntsCame
  <2> DEFINE m == [type_id |-> type.value, size |-> len.value, data_len |-> skip.at - len.at]
             unknown == [kind |-> "UNKNOWN", id |-> id.value, members |-> m]
  <2>6. d.u = skip /\ d.err = skip.err /\ d.item = unknown
    <3> DEFINE names == {name \in DOMAIN ItemType : ItemType[name] = type.value}
               all == [u |-> skip, err |-> skip.err, item |-> unknown]
    <3>1. type.value \notin Vanilla
      BY <1>1, <1>10, <1>12
    <3>2. names = {}
      BY <3>1, TypesApart
    <3>3. names = {} /\ type.value \notin Vanilla => d = all
      BY DEF DecodeItem, id, type, len, skip
    <3> HIDE DEF names, unknown
    <3>4. d = all
      BY <3>1, <3>2, <3>3
    <3> QED
      BY <3>4
  <2>7. skip.err = "NONE" => ItemCame(item, unknown)
    <3> SUFFICES ASSUME skip.err = "NONE" PROVE ItemCame(item, unknown)
      OBVIOUS
    <3>1. len.value = n /\ len.at = a + 3 /\ skip.at = (a + 3) + n /\ type.value = x /\ id.value = y
      BY <1>10, <1>12, <2>1, <2>4
    <3>2. skip.at - len.at = n
      BY <1>1, <1>10, <3>1, SMT
    <3>3. m = [type_id |-> x, size |-> n, data_len |-> n]
      BY <3>1, <3>2
    <3>4. unknown = [kind |-> "UNKNOWN", id |-> y, members |-> [type_id |-> x, size |-> n, data_len |-> n]]
      BY <3>1, <3>3
    <3> HIDE DEF unknown, m
    <3> QED
      BY <3>4, UnknownMembersCame DEF x, y, n
  <2> HIDE DEF unknown
  <2>8. (a + 3) + n = a + Len(ints)
    BY <1>1, <1>8, <1>10, SMT
  <2> HIDE DEF a
  <2> QED
    BY <2>4, <2>5, <2>6, <2>7, <2>8 DEF ItemRead, ints
<1>13. CASE id.err # "NONE"
  BY <1>7, <1>10, <1>13 DEF ItemRead
<1> QED
  BY <1>12, <1>13

\* An item that lies where the unpacker is, decoded.
LEMMA DecodeItemCame ==
    ASSUME WireOK, NEW item, ItemSendable(item), NEW u, Good(u), u.err = "NONE",
           NEW cut, Lies(ItemInts(item), u.at, cut), NEW d, d = DecodeItem(u)
    PROVE  ItemRead(item, u.at, cut, d)
<1>1. CASE item.kind = "UNKNOWN"
  BY <1>1, UnknownCame
<1>2. CASE item.kind # "UNKNOWN"
  BY <1>2, KnownCame
<1> QED
  BY <1>1, <1>2

-----------------------------------------------------------------------------
(* A snapshot, as it lies in the message *)

\* The integers of each of its items.
SnapParts(s) == [i \in DOMAIN s.items |-> ItemInts(s.items[i])]

\* Where the first n of the items end.
ItemsAt(s, n) == 8 + Len(s.keys) + Len(FirstOf(SnapParts(s), n))

Counts(s) == <<Len(s.keys), Len(s.items), 0>>

\* The items of a snapshot that can be sent.
PartsOK(s, n) ==
    /\ n \in Nat /\ DOMAIN s.items = 1 .. n /\ Len(s.keys) \in Nat
    /\ \A i \in 1 .. n : /\ ItemSendable(s.items[i]) /\ SnapParts(s)[i] = ItemInts(s.items[i])
                         /\ SnapParts(s)[i] \in Seq(Int)

LEMMA SnapPartsTyped ==
    ASSUME NEW s, SnapSendable(s), NEW n, n = Len(s.items)
    PROVE  PartsOK(s, n)
<1>1. s.items \in Seq(ToSet(s.items)) /\ s.keys \in Seq(Int)
  BY DEF SnapSendable
<1>2. n \in Nat /\ DOMAIN s.items = 1 .. n /\ Len(s.keys) \in Nat
  BY <1>1, LenProperties
<1>3. ASSUME NEW i \in 1 .. n
      PROVE  /\ ItemSendable(s.items[i]) /\ SnapParts(s)[i] = ItemInts(s.items[i])
             /\ SnapParts(s)[i] \in Seq(Int)
  <2>1. ItemSendable(s.items[i]) /\ SnapParts(s)[i] = ItemInts(s.items[i])
    BY <1>2 DEF SnapSendable, SnapParts
  <2> QED
    BY <2>1, ItemIntsTyped
<1> QED
  BY <1>2, <1>3 DEF PartsOK

LEMMA CountsTyped ==
    ASSUME NEW s, SnapSendable(s)
    PROVE  /\ Counts(s) \in Seq(Int) /\ Len(Counts(s)) = 3
           /\ Counts(s)[1] = Len(s.keys) /\ Counts(s)[2] = Len(s.items) /\ Counts(s)[3] = 0
<1> DEFINE m == Len(s.keys)
           n == Len(s.items)
<1>1. m \in Nat /\ n \in Nat
  BY SnapPartsTyped DEF PartsOK
<1> HIDE DEF m, n
<1>2. <<m, n, 0>> \in Seq(Int) /\ Len(<<m, n, 0>>) = 3
      /\ <<m, n, 0>>[1] = m /\ <<m, n, 0>>[2] = n /\ <<m, n, 0>>[3] = 0
  BY <1>1
<1> QED
  BY <1>2 DEF Counts, m, n

LEMMA SnapIntsAre ==
    ASSUME NEW s, SnapSendable(s), NEW n, n = Len(s.items)
    PROVE  /\ SnapInts(s) = (Counts(s) \o s.keys) \o FirstOf(SnapParts(s), n)
           /\ Counts(s) \o s.keys \in Seq(Int) /\ Len(Counts(s) \o s.keys) = 3 + Len(s.keys)
           /\ FirstOf(SnapParts(s), n) \in Seq(Int) /\ s.keys \in Seq(Int)
<1>1. PartsOK(s, n)
  BY SnapPartsTyped
<1>2. DOMAIN s.items = 1 .. n /\ n \in Nat /\ \A i \in 1 .. n : SnapParts(s)[i] \in Seq(Int)
  BY <1>1 DEF PartsOK
<1>3. FirstOf(SnapParts(s), n) \in Seq(Int)
  <2>1. n \in 0 .. n
    BY <1>2, SMT
  <2> QED
    BY <1>2, <2>1, FirstTyped
<1>4. s.keys \in Seq(Int) /\ Counts(s) \in Seq(Int) /\ Len(Counts(s)) = 3
  BY CountsTyped DEF SnapSendable
<1>5. SnapParts(s) = [i \in 1 .. n |-> SnapParts(s)[i]]
  BY <1>2 DEF SnapParts
<1>6. SnapInts(s) = (Counts(s) \o s.keys) \o FlattenSeq(SnapParts(s))
  BY DEF SnapInts, Counts, SnapParts
<1>7. FlattenSeq(SnapParts(s)) = FirstOf(SnapParts(s), n)
  BY <1>5 DEF FirstOf
<1>8. Counts(s) \o s.keys \in Seq(Int) /\ Len(Counts(s) \o s.keys) = 3 + Len(s.keys)
  <2> DEFINE c == Counts(s)
             k == s.keys
  <2> HIDE DEF c, k
  <2>1. c \o k \in Seq(Int) /\ Len(c \o k) = Len(c) + Len(k)
    BY <1>4, ConcatProperties DEF c, k
  <2> QED
    BY <1>4, <2>1 DEF c, k
<1> QED
  BY <1>3, <1>4, <1>6, <1>7, <1>8

LEMMA SnapIntsTyped ==
    ASSUME NEW s, SnapSendable(s)
    PROVE  SnapInts(s) \in Seq(Int)
<1> DEFINE a == Counts(s) \o s.keys
           b == FirstOf(SnapParts(s), Len(s.items))
<1>1. SnapInts(s) = a \o b /\ a \in Seq(Int) /\ b \in Seq(Int)
  BY SnapIntsAre
<1> HIDE DEF a, b
<1> QED
  BY <1>1, ConcatProperties

\* The counts of a snapshot, its keys and its items, in their places.
SnapLies(s, cut) ==
    /\ SnapSendable(s) /\ Lies(Counts(s), 5, cut) /\ Lies(s.keys, 8, cut)
    /\ ItemsAt(s, 0) = 8 + Len(s.keys)
    /\ \A i \in 1 .. Len(s.items) :
          /\ Lies(ItemInts(s.items[i]), ItemsAt(s, i - 1), cut)
          /\ ItemsAt(s, i) = ItemsAt(s, i - 1) + Len(ItemInts(s.items[i]))

LEMMA SnapLiesApart ==
    ASSUME NEW s, SnapSendable(s), NEW cut, Lies(SnapInts(s), 5, cut)
    PROVE  SnapLies(s, cut)
<1> DEFINE n == Len(s.items)
           c == Counts(s)
           k == s.keys
           parts == SnapParts(s)
           all == FirstOf(parts, n)
<1>1. /\ SnapInts(s) = (c \o k) \o all /\ c \o k \in Seq(Int) /\ Len(c \o k) = 3 + Len(k)
      /\ all \in Seq(Int) /\ k \in Seq(Int)
  BY SnapIntsAre
<1>2. c \in Seq(Int) /\ Len(c) = 3
  BY CountsTyped
<1>3. n \in Nat /\ Len(k) \in Nat /\ \A i \in 1 .. n : parts[i] = ItemInts(s.items[i]) /\ parts[i] \in Seq(Int)
  BY SnapPartsTyped DEF PartsOK
<1>4. all = FirstOf(parts, n) /\ n = Len(s.items) /\ k = s.keys /\ c = Counts(s)
  OBVIOUS
<1>5. \A i \in 0 .. n : ItemsAt(s, i) = (8 + Len(k)) + Len(FirstOf(parts, i))
  <2> SUFFICES ASSUME NEW i \in 0 .. n PROVE ItemsAt(s, i) = (8 + Len(k)) + Len(FirstOf(parts, i))
    OBVIOUS
  <2> QED
    BY DEF ItemsAt
<1> HIDE DEF n, c, k, parts, all
<1>6. Lies(c \o k, 5, cut) /\ Lies(all, 5 + Len(c \o k), cut)
  BY <1>1, LieApart
<1>7. Lies(c, 5, cut) /\ Lies(k, 8, cut)
  <2>1. Lies(c, 5, cut) /\ Lies(k, 5 + Len(c), cut)
    BY <1>1, <1>2, <1>6, LieApart
  <2>2. 5 + Len(c) = 8
    BY <1>2, SMT
  <2> QED
    BY <2>1, <2>2
<1> DEFINE a == 8 + Len(k)
<1>8. Lies(FirstOf(parts, n), a, cut) /\ a \in Nat
  <2>1. 5 + Len(c \o k) = a /\ a \in Nat
    BY <1>1, <1>3, SMT
  <2> QED
    BY <1>4, <1>6, <2>1
<1> HIDE DEF a
<1>9. \A i \in 1 .. n :
         /\ Lies(parts[i], a + Len(FirstOf(parts, i - 1)), cut)
         /\ Len(FirstOf(parts, i)) = Len(FirstOf(parts, i - 1)) + Len(parts[i])
  BY <1>3, <1>8, PartsLie
<1>10. ASSUME NEW i \in 1 .. n
       PROVE  /\ Lies(ItemInts(s.items[i]), ItemsAt(s, i - 1), cut)
              /\ ItemsAt(s, i) = ItemsAt(s, i - 1) + Len(ItemInts(s.items[i]))
  <2>1. i \in 0 .. n /\ i - 1 \in 0 .. n
    BY <1>3, SMT
  <2> DEFINE x == Len(FirstOf(parts, i))
             y == Len(FirstOf(parts, i - 1))
             z == Len(parts[i])
  <2>2. ItemsAt(s, i) = a + x /\ ItemsAt(s, i - 1) = a + y
    BY <1>5, <2>1 DEF a
  <2>3. x = y + z
    BY <1>9
  <2>4. y \in Nat /\ z \in Nat
    <3>1. FirstOf(parts, i - 1) \in Seq(Int) /\ parts[i] \in Seq(Int)
      BY <1>3, <2>1, FirstTyped
    <3> QED
      BY <3>1, LenProperties
  <2>5. Lies(parts[i], a + y, cut) /\ parts[i] = ItemInts(s.items[i])
    BY <1>3, <1>9
  <2>6. z = Len(ItemInts(s.items[i]))
    BY <2>5
  <2> HIDE DEF x, y, z
  <2>7. ItemsAt(s, i) = ItemsAt(s, i - 1) + z
    BY <1>8, <2>2, <2>3, <2>4, SMT
  <2> QED
    BY <2>2, <2>5, <2>6, <2>7
<1>11. ItemsAt(s, 0) = 8 + Len(k)
  <2>1. 0 \in 0 .. n
    BY <1>3, SMT
  <2>2. FirstOf(parts, 0) = <<>>
    <3>1. [i \in 1 .. 0 |-> parts[i]] = <<>>
      BY SMT
    <3> QED
      BY <3>1, FlattenEmpty DEF FirstOf
  <2>3. Len(FirstOf(parts, 0)) = 0
    BY <2>2
  <2> QED
    BY <1>3, <1>5, <2>1, <2>3, SMT
<1> QED
  BY <1>4, <1>7, <1>10, <1>11 DEF SnapLies

-----------------------------------------------------------------------------
(* Tune parameters *)

LEMMA RoundedNear ==
    ASSUME NEW x \in Nat, NEW d \in {1, 2, 4, 8, 16, 32, 64, 100, 128}
    PROVE  Rounded(x, d) \in Nat /\ 2 * (Rounded(x, d) * d - x) \in -d .. d
<1> DEFINE q == x \div d
           r == 2 * (x % d)
<1>1. Rounded(x, d) = q \/ Rounded(x, d) = q + 1
  BY DEF Rounded
<1>2. Rounded(x, d) = IF r > d \/ (r = d /\ q % 2 = 1) THEN q + 1 ELSE q
  BY DEF Rounded
<1>3. (r > d \/ (r = d /\ q % 2 = 1) => r >= d) /\ (~(r > d \/ (r = d /\ q % 2 = 1)) => r <= d)
  <2>1. r \in Int /\ d \in Int
    <3>1. CASE d = 1 BY <3>1, SMT
    <3>2. CASE d = 2 BY <3>2, SMT
    <3>3. CASE d = 4 BY <3>3, SMT
    <3>4. CASE d = 8 BY <3>4, SMT
    <3>5. CASE d = 16 BY <3>5, SMT
    <3>6. CASE d = 32 BY <3>6, SMT
    <3>7. CASE d = 64 BY <3>7, SMT
    <3>8. CASE d = 100 BY <3>8, SMT
    <3>9. CASE d = 128 BY <3>9, SMT
    <3> QED
      BY <3>1, <3>2, <3>3, <3>4, <3>5, <3>6, <3>7, <3>8, <3>9
  <2> HIDE DEF r, q
  <2>2. CASE q % 2 = 1
    BY <2>1, <2>2, SMT
  <2>3. CASE q % 2 # 1
    BY <2>1, <2>3, SMT
  <2> QED
    BY <2>2, <2>3
<1>4. /\ q \in Nat /\ 2 * (q * d - x) = -r /\ 2 * ((q + 1) * d - x) = 2 * d - r
      /\ r \in 0 .. 2 * d - 1 /\ d \in Nat
  <2>1. CASE d = 1 BY <2>1, SMT
  <2>2. CASE d = 2 BY <2>2, SMT
  <2>3. CASE d = 4 BY <2>3, SMT
  <2>4. CASE d = 8 BY <2>4, SMT
  <2>5. CASE d = 16 BY <2>5, SMT
  <2>6. CASE d = 32 BY <2>6, SMT
  <2>7. CASE d = 64 BY <2>7, SMT
  <2>8. CASE d = 100 BY <2>8, SMT
  <2>9. CASE d = 128 BY <2>9, SMT
  <2> QED
    BY <2>1, <2>2, <2>3, <2>4, <2>5, <2>6, <2>7, <2>8, <2>9
<1>5. CASE r > d \/ (r = d /\ q % 2 = 1)
  <2>1. Rounded(x, d) = q + 1 /\ r >= d
    BY <1>2, <1>3, <1>5
  <2> HIDE DEF q, r
  <2> QED
    BY <1>4, <2>1, SMT
<1>6. CASE ~(r > d \/ (r = d /\ q % 2 = 1))
  <2>1. Rounded(x, d) = q /\ r <= d
    BY <1>2, <1>3, <1>6
  <2> HIDE DEF q, r
  <2> QED
    BY <1>4, <2>1, SMT
<1> QED
  BY <1>5, <1>6

Powers == {128, 256, 512, 1024, 2048, 4096, 8192, 16384, 32768, 65536, 131072, 262144, 524288,
           1048576, 2097152, 4194304, 8388608, 16777216, 33554432, 67108864, 134217728, 268435456,
           536870912, 1073741824, 2147483648}

LEMMA PowersOfTwo ==
  /\ 2^0 = 1
  /\ 2^1 = 2
  /\ 2^2 = 4
  /\ 2^3 = 8
  /\ 2^4 = 16
  /\ 2^5 = 32
  /\ 2^6 = 64
  /\ 2^7 = 128
  /\ 2^8 = 256
  /\ 2^9 = 512
  /\ 2^10 = 1024
  /\ 2^11 = 2048
  /\ 2^12 = 4096
  /\ 2^13 = 8192
  /\ 2^14 = 16384
  /\ 2^15 = 32768
  /\ 2^16 = 65536
  /\ 2^17 = 131072
  /\ 2^18 = 262144
  /\ 2^19 = 524288
  /\ 2^20 = 1048576
  /\ 2^21 = 2097152
  /\ 2^22 = 4194304
  /\ 2^23 = 8388608
  /\ 2^24 = 16777216
  /\ 2^25 = 33554432
  /\ 2^26 = 67108864
  /\ 2^27 = 134217728
  /\ 2^28 = 268435456
  /\ 2^29 = 536870912
  /\ 2^30 = 1073741824
  /\ 2^31 = 2147483648
  BY SMT

\* The place in which the 24 bits of a float with hundredths end.
LEMMA ExponentIs ==
    ASSUME NEW a \in Int, 1 <= a, a <= MaxTuneParam
    PROVE  InFloat(a, Exponent(a)) /\ 2 ^ Exponent(a) \in Powers
<1>1. \E e \in 0 .. 31 : InFloat(a, e)
  <2>1. a >= 6553600 /\ a < 13107200 => InFloat(a, 7)
    BY PowersOfTwo, SMT DEF InFloat, MaxTuneParam
  <2>2. a >= 3276800 /\ a < 6553600 => InFloat(a, 8)
    BY PowersOfTwo, SMT DEF InFloat, MaxTuneParam
  <2>3. a >= 1638400 /\ a < 3276800 => InFloat(a, 9)
    BY PowersOfTwo, SMT DEF InFloat, MaxTuneParam
  <2>4. a >= 819200 /\ a < 1638400 => InFloat(a, 10)
    BY PowersOfTwo, SMT DEF InFloat, MaxTuneParam
  <2>5. a >= 409600 /\ a < 819200 => InFloat(a, 11)
    BY PowersOfTwo, SMT DEF InFloat, MaxTuneParam
  <2>6. a >= 204800 /\ a < 409600 => InFloat(a, 12)
    BY PowersOfTwo, SMT DEF InFloat, MaxTuneParam
  <2>7. a >= 102400 /\ a < 204800 => InFloat(a, 13)
    BY PowersOfTwo, SMT DEF InFloat, MaxTuneParam
  <2>8. a >= 51200 /\ a < 102400 => InFloat(a, 14)
    BY PowersOfTwo, SMT DEF InFloat, MaxTuneParam
  <2>9. a >= 25600 /\ a < 51200 => InFloat(a, 15)
    BY PowersOfTwo, SMT DEF InFloat, MaxTuneParam
  <2>10. a >= 12800 /\ a < 25600 => InFloat(a, 16)
    BY PowersOfTwo, SMT DEF InFloat, MaxTuneParam
  <2>11. a >= 6400 /\ a < 12800 => InFloat(a, 17)
    BY PowersOfTwo, SMT DEF InFloat, MaxTuneParam
  <2>12. a >= 3200 /\ a < 6400 => InFloat(a, 18)
    BY PowersOfTwo, SMT DEF InFloat, MaxTuneParam
  <2>13. a >= 1600 /\ a < 3200 => InFloat(a, 19)
    BY PowersOfTwo, SMT DEF InFloat, MaxTuneParam
  <2>14. a >= 800 /\ a < 1600 => InFloat(a, 20)
    BY PowersOfTwo, SMT DEF InFloat, MaxTuneParam
  <2>15. a >= 400 /\ a < 800 => InFloat(a, 21)
    BY PowersOfTwo, SMT DEF InFloat, MaxTuneParam
  <2>16. a >= 200 /\ a < 400 => InFloat(a, 22)
    BY PowersOfTwo, SMT DEF InFloat, MaxTuneParam
  <2>17. a >= 100 /\ a < 200 => InFloat(a, 23)
    BY PowersOfTwo, SMT DEF InFloat, MaxTuneParam
  <2>18. a >= 50 /\ a < 100 => InFloat(a, 24)
    BY PowersOfTwo, SMT DEF InFloat, MaxTuneParam
  <2>19. a >= 25 /\ a < 50 => InFloat(a, 25)
    BY PowersOfTwo, SMT DEF InFloat, MaxTuneParam
  <2>20. a >= 13 /\ a < 25 => InFloat(a, 26)
    BY PowersOfTwo, SMT DEF InFloat, MaxTuneParam
  <2>21. a >= 7 /\ a < 13 => InFloat(a, 27)
    BY PowersOfTwo, SMT DEF InFloat, MaxTuneParam
  <2>22. a >= 4 /\ a < 7 => InFloat(a, 28)
    BY PowersOfTwo, SMT DEF InFloat, MaxTuneParam
  <2>23. a >= 2 /\ a < 4 => InFloat(a, 29)
    BY PowersOfTwo, SMT DEF InFloat, MaxTuneParam
  <2>24. a >= 1 /\ a < 2 => InFloat(a, 30)
    BY PowersOfTwo, SMT DEF InFloat, MaxTuneParam
  <2>25. \A e \in 7 .. 30 : e \in 0 .. 31
    BY SMT
  <2> QED
    BY <2>1, <2>2, <2>3, <2>4, <2>5, <2>6, <2>7, <2>8, <2>9, <2>10, <2>11, <2>12, <2>13, <2>14, <2>15, <2>16, <2>17, <2>18, <2>19, <2>20, <2>21, <2>22, <2>23, <2>24, <2>25, SMT DEF MaxTuneParam
<1>2. Exponent(a) \in 0 .. 31 /\ InFloat(a, Exponent(a))
  BY <1>1, Zenon DEF Exponent
<1> DEFINE e == Exponent(a)
<1> HIDE DEF e
<1>3. e \in 0 .. 31 /\ InFloat(a, e)
  BY <1>2 DEF e
<1>4. 2^e \in Powers
  <2>1. ~InFloat(a, 0)
    BY PowersOfTwo, SMT DEF InFloat, MaxTuneParam
  <2>2. ~InFloat(a, 1)
    BY PowersOfTwo, SMT DEF InFloat, MaxTuneParam
  <2>3. ~InFloat(a, 2)
    BY PowersOfTwo, SMT DEF InFloat, MaxTuneParam
  <2>4. ~InFloat(a, 3)
    BY PowersOfTwo, SMT DEF InFloat, MaxTuneParam
  <2>5. ~InFloat(a, 4)
    BY PowersOfTwo, SMT DEF InFloat, MaxTuneParam
  <2>6. ~InFloat(a, 5)
    BY PowersOfTwo, SMT DEF InFloat, MaxTuneParam
  <2>7. ~InFloat(a, 6)
    BY PowersOfTwo, SMT DEF InFloat, MaxTuneParam
  <2>8. 2^7 \in Powers
    BY PowersOfTwo, SMT DEF Powers
  <2>9. 2^8 \in Powers
    BY PowersOfTwo, SMT DEF Powers
  <2>10. 2^9 \in Powers
    BY PowersOfTwo, SMT DEF Powers
  <2>11. 2^10 \in Powers
    BY PowersOfTwo, SMT DEF Powers
  <2>12. 2^11 \in Powers
    BY PowersOfTwo, SMT DEF Powers
  <2>13. 2^12 \in Powers
    BY PowersOfTwo, SMT DEF Powers
  <2>14. 2^13 \in Powers
    BY PowersOfTwo, SMT DEF Powers
  <2>15. 2^14 \in Powers
    BY PowersOfTwo, SMT DEF Powers
  <2>16. 2^15 \in Powers
    BY PowersOfTwo, SMT DEF Powers
  <2>17. 2^16 \in Powers
    BY PowersOfTwo, SMT DEF Powers
  <2>18. 2^17 \in Powers
    BY PowersOfTwo, SMT DEF Powers
  <2>19. 2^18 \in Powers
    BY PowersOfTwo, SMT DEF Powers
  <2>20. 2^19 \in Powers
    BY PowersOfTwo, SMT DEF Powers
  <2>21. 2^20 \in Powers
    BY PowersOfTwo, SMT DEF Powers
  <2>22. 2^21 \in Powers
    BY PowersOfTwo, SMT DEF Powers
  <2>23. 2^22 \in Powers
    BY PowersOfTwo, SMT DEF Powers
  <2>24. 2^23 \in Powers
    BY PowersOfTwo, SMT DEF Powers
  <2>25. 2^24 \in Powers
    BY PowersOfTwo, SMT DEF Powers
  <2>26. 2^25 \in Powers
    BY PowersOfTwo, SMT DEF Powers
  <2>27. 2^26 \in Powers
    BY PowersOfTwo, SMT DEF Powers
  <2>28. 2^27 \in Powers
    BY PowersOfTwo, SMT DEF Powers
  <2>29. 2^28 \in Powers
    BY PowersOfTwo, SMT DEF Powers
  <2>30. 2^29 \in Powers
    BY PowersOfTwo, SMT DEF Powers
  <2>31. 2^30 \in Powers
    BY PowersOfTwo, SMT DEF Powers
  <2>32. 2^31 \in Powers
    BY PowersOfTwo, SMT DEF Powers
  <2>33. e = 0 \/ e = 1 \/ e = 2 \/ e = 3 \/ e = 4 \/ e = 5 \/ e = 6 \/ e = 7 \/ e = 8 \/ e = 9 \/ e = 10 \/ e = 11 \/ e = 12 \/ e = 13 \/ e = 14 \/ e = 15 \/ e = 16 \/ e = 17 \/ e = 18 \/ e = 19 \/ e = 20 \/ e = 21 \/ e = 22 \/ e = 23 \/ e = 24 \/ e = 25 \/ e = 26 \/ e = 27 \/ e = 28 \/ e = 29 \/ e = 30 \/ e = 31
    BY <1>3, SMT
  <2> QED
    BY <1>3, <2>1, <2>2, <2>3, <2>4, <2>5, <2>6, <2>7, <2>8, <2>9, <2>10, <2>11, <2>12, <2>13, <2>14, <2>15, <2>16, <2>17, <2>18, <2>19, <2>20, <2>21, <2>22, <2>23, <2>24, <2>25, <2>26, <2>27, <2>28, <2>29, <2>30, <2>31, <2>32, <2>33
<1> QED
  BY <1>3, <1>4 DEF e

LEMMA FitsIs ==
    ASSUME NEW p \in Int, 838860800 <= p, p <= 1677721600
    PROVE  Shift(p) \in 0 .. 7
<1>1. p < 1073741824 => Fits(p, 6)
  <2>1. p < 1073741824 => 8388608 <= p \div 2^6 /\ p \div 2^6 < 16777216
    BY SMT
  <2> QED
    BY <2>1, SMT DEF Fits
<1>2. p >= 1073741824 => Fits(p, 7)
  <2>1. p >= 1073741824 => 8388608 <= p \div 2^7 /\ p \div 2^7 < 16777216
    BY SMT
  <2> QED
    BY <2>1, SMT DEF Fits
<1>3. \E s \in 0 .. 7 : Fits(p, s)
  BY <1>1, <1>2, SMT
<1> QED
  BY <1>3, SMT DEF Shift

LEMMA QuotientNear ==
    ASSUME NEW a \in Int, NEW w \in Int, NEW d \in Powers,
           -114 <= w - a * d, w - a * d <= 114
    PROVE  w \div d \in Int /\ (w \div d = a \/ w \div d = a - 1)
<1>1. CASE d = 128
  BY <1>1, SMT
<1>2. CASE d = 256
  BY <1>2, SMT
<1>3. CASE d = 512
  BY <1>3, SMT
<1>4. CASE d = 1024
  BY <1>4, SMT
<1>5. CASE d = 2048
  BY <1>5, SMT
<1>6. CASE d = 4096
  BY <1>6, SMT
<1>7. CASE d = 8192
  BY <1>7, SMT
<1>8. CASE d = 16384
  BY <1>8, SMT
<1>9. CASE d = 32768
  BY <1>9, SMT
<1>10. CASE d = 65536
  BY <1>10, SMT
<1>11. CASE d = 131072
  BY <1>11, SMT
<1>12. CASE d = 262144
  BY <1>12, SMT
<1>13. CASE d = 524288
  BY <1>13, SMT
<1>14. CASE d = 1048576
  BY <1>14, SMT
<1>15. CASE d = 2097152
  BY <1>15, SMT
<1>16. CASE d = 4194304
  BY <1>16, SMT
<1>17. CASE d = 8388608
  BY <1>17, SMT
<1>18. CASE d = 16777216
  BY <1>18, SMT
<1>19. CASE d = 33554432
  BY <1>19, SMT
<1>20. CASE d = 67108864
  BY <1>20, SMT
<1>21. CASE d = 134217728
  BY <1>21, SMT
<1>22. CASE d = 268435456
  BY <1>22, SMT
<1>23. CASE d = 536870912
  BY <1>23, SMT
<1>24. CASE d = 1073741824
  BY <1>24, SMT
<1>25. CASE d = 2147483648
  BY <1>25, SMT
<1> QED
  BY <1>1, <1>2, <1>3, <1>4, <1>5, <1>6, <1>7, <1>8, <1>9, <1>10, <1>11, <1>12, <1>13, <1>14, <1>15, <1>16, <1>17, <1>18, <1>19, <1>20, <1>21, <1>22, <1>23, <1>24, <1>25, SMT DEF Powers

\* The float of a hundredths, times 100, is cut off to a or to one less.
Hundredths(a) ==
    LET e == Exponent(a)
        p == 100 * Rounded(a * 2^e, 100)
        s == Shift(p)
    IN  (Rounded(p, 2^s) * 2^s) \div 2^e

LEMMA HundredthsNear ==
    ASSUME NEW a \in Int, 1 <= a, a <= MaxTuneParam
    PROVE  Hundredths(a) \in Int /\ (Hundredths(a) = a \/ Hundredths(a) = a - 1)
<1> DEFINE e == Exponent(a)
           f == 2^e
           x == a * f
           r == Rounded(x, 100)
           p == 100 * r
           s == Shift(p)
           d == 2^s
           w == Rounded(p, d) * d
<1>1. InFloat(a, e) /\ f \in Powers
  BY ExponentIs
<1>2. x \in Int /\ 838860800 <= x /\ x <= 1677721599 /\ f \in Int
  <2>1. f \in Int
    BY <1>1, SMT DEF Powers
  <2>2. 838860800 <= x /\ x < 1677721600
    BY <1>1 DEF InFloat
  <2> HIDE DEF f
  <2>3. x \in Int
    BY <2>1, SMT
  <2> HIDE DEF x
  <2> QED
    BY <2>1, <2>2, <2>3, SMT
<1> HIDE DEF e, f, x
<1>3. r \in Nat /\ 2 * (r * 100 - x) \in -100 .. 100
  <2>1. x \in Nat /\ 100 \in {1, 2, 4, 8, 16, 32, 64, 100, 128}
    BY <1>2, SMT
  <2> QED
    BY <2>1, RoundedNear, Zenon
<1>4. p \in Int /\ 838860800 <= p /\ p <= 1677721600 /\ -50 <= p - x /\ p - x <= 50
  <2> HIDE DEF r
  <2> QED
    BY <1>2, <1>3, SMT
<1> HIDE DEF r, p
<1>5. s \in 0 .. 7
  BY <1>4, FitsIs, SMT
<1>6. d \in {1, 2, 4, 8, 16, 32, 64, 100, 128}
  <2>1. s = 0 \/ s = 1 \/ s = 2 \/ s = 3 \/ s = 4 \/ s = 5 \/ s = 6 \/ s = 7
    BY <1>5, SMT
  <2> HIDE DEF s
  <2>2. CASE s = 0
    <3>1. d = 2^0
      BY <2>2
    <3> QED
      BY <3>1, SMT
  <2>3. CASE s = 1
    <3>1. d = 2^1
      BY <2>3
    <3> QED
      BY <3>1, SMT
  <2>4. CASE s = 2
    <3>1. d = 2^2
      BY <2>4
    <3> QED
      BY <3>1, SMT
  <2>5. CASE s = 3
    <3>1. d = 2^3
      BY <2>5
    <3> QED
      BY <3>1, SMT
  <2>6. CASE s = 4
    <3>1. d = 2^4
      BY <2>6
    <3> QED
      BY <3>1, SMT
  <2>7. CASE s = 5
    <3>1. d = 2^5
      BY <2>7
    <3> QED
      BY <3>1, SMT
  <2>8. CASE s = 6
    <3>1. d = 2^6
      BY <2>8
    <3> QED
      BY <3>1, SMT
  <2>9. CASE s = 7
    <3>1. d = 2^7
      BY <2>9
    <3> QED
      BY <3>1, SMT
  <2> QED
    BY <2>1, <2>2, <2>3, <2>4, <2>5, <2>6, <2>7, <2>8, <2>9
<1> HIDE DEF s, d
<1>7. p \in Nat
  BY <1>4, SMT
<1>8. Rounded(p, d) \in Nat /\ 2 * (Rounded(p, d) * d - p) \in -d .. d
  <2> DEFINE ds == {1, 2, 4, 8, 16, 32, 64, 100, 128}
  <2>1. \A c \in ds : Rounded(p, c) \in Nat /\ 2 * (Rounded(p, c) * c - p) \in -c .. c
    BY <1>7, RoundedNear, Zenon
  <2>2. d \in ds
    BY <1>6
  <2> HIDE DEF ds
  <2> QED
    BY <2>1, <2>2
<1>9. w \in Int /\ -64 <= w - p /\ w - p <= 64
  <2>1. d \in Int /\ d <= 128
    BY <1>6, SMT
  <2>2. w \in Int
    BY <1>8, <2>1, SMT
  <2>3. 2 * (w - p) \in -d .. d
    BY <1>8
  <2> HIDE DEF w
  <2> QED
    BY <1>4, <2>1, <2>2, <2>3, SMT
<1> HIDE DEF w
<1>10. -114 <= w - a * f /\ w - a * f <= 114
  BY <1>2, <1>4, <1>9, SMT DEF x
<1>11. Hundredths(a) = w \div f
  BY DEF Hundredths, w, d, s, p, r, x, f, e
<1> QED
  BY <1>1, <1>9, <1>10, <1>11, QuotientNear, SMT

LEMMA ScaledNear ==
    ASSUME NEW n \in Int, -MaxTuneParam <= n, n <= MaxTuneParam
    PROVE  /\ Scaled(n) \in Int
           /\ Scaled(n) = n \/ (n # 0 /\ Scaled(n) = n - (IF n > 0 THEN 1 ELSE -1))
<1> DEFINE a == IF n < 0 THEN -n ELSE n
<1>1. Scaled(n) = CASE n = 0 -> 0 [] n > 0 -> Hundredths(a) [] OTHER -> -Hundredths(a)
  BY DEF Scaled, Hundredths
<1>2. MaxTuneParam \in Int
  BY SMT DEF MaxTuneParam
<1>3. a \in Int /\ (n # 0 => 1 <= a /\ a <= MaxTuneParam)
  BY <1>2, SMT
<1>4. n # 0 => Hundredths(a) \in Int /\ (Hundredths(a) = a \/ Hundredths(a) = a - 1)
  BY <1>3, HundredthsNear
<1> DEFINE v == Hundredths(a)
<1> HIDE DEF v
<1>5. Scaled(n) = CASE n = 0 -> 0 [] n > 0 -> v [] OTHER -> -v
  BY <1>1 DEF v
<1>6. n # 0 => v \in Int /\ (v = a \/ v = a - 1)
  BY <1>4 DEF v
<1>7. CASE n = 0
  <2>1. Scaled(n) = 0
    BY <1>5, <1>7, SMT
  <2> QED
    BY <1>7, <2>1, SMT
<1>8. CASE n > 0
  <2>1. Scaled(n) = v
    BY <1>5, <1>8, SMT
  <2> QED
    BY <1>6, <1>8, <2>1, SMT
<1>9. CASE n < 0
  <2>1. Scaled(n) = -v
    BY <1>5, <1>9, SMT
  <2> QED
    BY <1>6, <1>9, <2>1, SMT
<1> QED
  BY <1>7, <1>8, <1>9, SMT

-----------------------------------------------------------------------------
(* The members of a message *)

\* A message that is being decoded.
MsgShape(st) == st = [u |-> st.u, msg |-> st.msg]
Unpacking(st) == MsgShape(st) /\ Typed(st.u)

LEMMA UnpackFollows ==
    ASSUME WireOK, NEW st, Unpacking(st), NEW f
    PROVE  Unpacking(Unpack(st, f)) /\ (Unpack(st, f).u.err = "NONE" => st.u.err = "NONE")
<1> DEFINE v == CASE f[1] = "int"    -> GetInt(st.u)
                  [] f[1] = "bool"   -> GetBool(st.u)
                  [] f[1] = "string" -> GetString(st.u)
                  [] OTHER           -> GetRaw(st.u, st.msg.chunk_size)
           w == [u |-> v, msg |-> Setting(st.msg, f[2], v.value)]
<1>1. Unpack(st, f) = IF st.u.outside THEN st ELSE w
  BY DEF Unpack
<1>2. Follows(st.u, v)
  <2>0. Typed(st.u)
    BY DEF Unpacking
  <2>1. CASE f[1] = "int"
    <3>1. v = GetInt(st.u)
      BY <2>1
    <3> QED
      BY <2>0, <3>1, GetIntFollows
  <2>2. CASE f[1] = "bool"
    <3>1. v = GetBool(st.u)
      BY <2>2
    <3> QED
      BY <2>0, <3>1, GetBoolFollows
  <2>3. CASE f[1] = "string"
    <3>1. v = GetString(st.u)
      BY <2>3
    <3> QED
      BY <2>0, <3>1, GetStringFollows
  <2>4. CASE f[1] \notin {"int", "bool", "string"}
    <3>1. v = GetRaw(st.u, st.msg.chunk_size)
      BY <2>4
    <3> QED
      BY <2>0, <3>1, GetRawFollows
  <2> HIDE DEF v
  <2> QED
    BY <2>1, <2>2, <2>3, <2>4
<1>3. w.u = v /\ MsgShape(w)
  BY DEF MsgShape
<1> HIDE DEF v, w
<1>4. CASE st.u.outside
  BY <1>1, <1>4
<1>5. CASE ~st.u.outside
  BY <1>1, <1>2, <1>3, <1>5 DEF Unpacking, Follows
<1> QED
  BY <1>4, <1>5

\* What UnpackAll makes of the first i of n fields.
Unpacks(g, st, s, n) == g = [i \in 0 .. n |-> IF i = 0 THEN st ELSE Unpack(g[i - 1], s[i])]

LEMMA UnpacksExists ==
    ASSUME NEW st, NEW s, NEW n \in Nat
    PROVE  \E g : Unpacks(g, st, s, n)
<1> DEFINE H == {k \in Nat : \E g : Unpacks(g, st, s, k)}
<1>1. 0 \in H
  <2> DEFINE g == [i \in 0 .. 0 |-> st]
  <2>1. \A i \in 0 .. 0 : i = 0
    BY SMT
  <2>2. g = [i \in 0 .. 0 |-> IF i = 0 THEN st ELSE Unpack(g[i - 1], s[i])]
    BY <2>1, Zenon
  <2>3. Unpacks(g, st, s, 0)
    BY <2>2 DEF Unpacks
  <2> QED
    BY <2>3
<1>2. ASSUME NEW k \in Nat, k \in H PROVE k + 1 \in H
  <2>1. PICK g : Unpacks(g, st, s, k)
    BY <1>2
  <2> DEFINE h == [i \in 0 .. k + 1 |-> IF i = k + 1 THEN Unpack(g[k], s[i]) ELSE g[i]]
  <2>2. ASSUME NEW i \in 0 .. k + 1
        PROVE  h[i] = IF i = 0 THEN st ELSE Unpack(h[i - 1], s[i])
    <3>1. CASE i = k + 1
      <4>1. i # 0 /\ k \in 0 .. k + 1 /\ k # k + 1 /\ i - 1 = k
        BY <3>1, SMT
      <4>2. h[i - 1] = g[k] /\ h[i] = Unpack(g[k], s[i])
        BY <3>1, <4>1
      <4> QED
        BY <4>1, <4>2
    <3>2. CASE i # k + 1
      <4>1. i \in 0 .. k /\ h[i] = g[i]
        BY <3>2, SMT
      <4>2. g[i] = IF i = 0 THEN st ELSE Unpack(g[i - 1], s[i])
        BY <2>1, <4>1 DEF Unpacks
      <4>3. i # 0 => h[i - 1] = g[i - 1]
        <5>1. i # 0 => i - 1 \in 0 .. k + 1 /\ i - 1 # k + 1
          BY <4>1, SMT
        <5> QED
          BY <5>1
      <4> QED
        BY <4>1, <4>2, <4>3
    <3> QED
      BY <3>1, <3>2
  <2>3. Unpacks(h, st, s, k + 1)
    <3>1. h = [i \in 0 .. k + 1 |-> h[i]]
      OBVIOUS
    <3> HIDE DEF h
    <3> QED
      BY <2>2, <3>1 DEF Unpacks
  <2> QED
    BY <2>3
<1> HIDE DEF H
<1>3. n \in H
  BY <1>1, <1>2, Induction
<1> QED
  BY <1>3 DEF H

LEMMA UnpackAllLast ==
    ASSUME NEW st, NEW s, Len(s) \in Nat
    PROVE  \E g : Unpacks(g, st, s, Len(s)) /\ UnpackAll(st, s) = g[Len(s)]
<1>1. \E g : Unpacks(g, st, s, Len(s))
  BY UnpacksExists
<1>2. UnpackAll(st, s) = (CHOOSE g : Unpacks(g, st, s, Len(s)))[Len(s)]
  BY DEF UnpackAll, Unpacks
<1> QED
  BY <1>1, <1>2

LEMMA UnpackAllTyped ==
    ASSUME WireOK, NEW st, Unpacking(st), NEW s, Len(s) \in Nat
    PROVE  Unpacking(UnpackAll(st, s))
<1> DEFINE n == Len(s)
<1>1. PICK g : Unpacks(g, st, s, n) /\ UnpackAll(st, s) = g[n]
  BY UnpackAllLast
<1>2. n \in Nat
  OBVIOUS
<1> HIDE DEF n
<1> DEFINE H == {k \in Nat : k \in 0 .. n => Unpacking(g[k])}
<1>3. 0 \in H
  <2>1. 0 \in 0 .. n
    BY <1>2, SMT
  <2> QED
    BY <1>1, <2>1 DEF Unpacks
<1>4. ASSUME NEW k \in Nat, k \in H PROVE k + 1 \in H
  <2> SUFFICES ASSUME k + 1 \in 0 .. n PROVE Unpacking(g[k + 1])
    OBVIOUS
  <2>1. k \in 0 .. n /\ (k + 1) - 1 = k /\ k + 1 # 0
    BY <1>2, SMT
  <2>2. g[k + 1] = Unpack(g[k], s[k + 1])
    BY <1>1, <2>1 DEF Unpacks
  <2> QED
    BY <1>4, <2>1, <2>2, UnpackFollows
<1> HIDE DEF H
<1>5. n \in H
  BY <1>2, <1>3, <1>4, Induction
<1>6. n \in 0 .. n
  BY <1>2, SMT
<1> QED
  BY <1>1, <1>5, <1>6 DEF H

\* Integers that are unpacked lie one after the other.
LEMMA UnpackAllInts ==
    ASSUME WireOK, NEW st, Unpacking(st), Good(st.u), st.u.outside = FALSE,
           NEW s, Len(s) \in Nat, \A i \in 1 .. Len(s) : s[i][1] = "int"
    PROVE  Unpacking(UnpackAll(st, s)) /\ Reads(st.u, UnpackAll(st, s).u, Len(s))
<1> DEFINE n == Len(s)
<1>1. PICK g : Unpacks(g, st, s, n) /\ UnpackAll(st, s) = g[n]
  BY UnpackAllLast
<1>2. n \in Nat /\ \A i \in 1 .. n : s[i][1] = "int"
  OBVIOUS
<1> HIDE DEF n
<1> DEFINE H == {k \in Nat : k \in 0 .. n => Unpacking(g[k]) /\ Reads(st.u, g[k].u, k)}
<1>3. 0 \in H
  <2>1. 0 \in 0 .. n /\ st.u.at = st.u.at + 0
    BY <1>2, SMT DEF Good
  <2> QED
    BY <1>1, <2>1 DEF Unpacks, Reads
<1>4. ASSUME NEW k \in Nat, k \in H PROVE k + 1 \in H
  <2> SUFFICES ASSUME k + 1 \in 0 .. n PROVE Unpacking(g[k + 1]) /\ Reads(st.u, g[k + 1].u, k + 1)
    OBVIOUS
  <2>1. k \in 0 .. n /\ (k + 1) - 1 = k /\ k + 1 # 0 /\ k + 1 \in 1 .. n
    BY <1>2, SMT
  <2>2. g[k + 1] = Unpack(g[k], s[k + 1])
    BY <1>1, <2>1 DEF Unpacks
  <2>3. Unpacking(g[k]) /\ Reads(st.u, g[k].u, k)
    BY <1>4, <2>1
  <2>4. Unpacking(g[k + 1])
    BY <2>2, <2>3, UnpackFollows
  <2>5. s[k + 1][1] = "int" /\ g[k].u.outside = FALSE
    BY <1>2, <2>1, <2>3 DEF Reads
  <2>6. g[k + 1].u = GetInt(g[k].u)
    <3> DEFINE v == GetInt(g[k].u)
    <3>1. Unpack(g[k], s[k + 1]) = [u |-> v, msg |-> Setting(g[k].msg, s[k + 1][2], v.value)]
      BY <2>5, Zenon DEF Unpack
    <3> QED
      BY <2>2, <3>1
  <2>7. Reads(g[k].u, g[k + 1].u, 1)
    BY <2>3, <2>6, GetIntReads DEF Reads
  <2>8. st.u.at \in Int /\ k \in Int
    BY SMT DEF Good
  <2>9. g[k].u.at = st.u.at + k => g[k].u.at + 1 = st.u.at + (k + 1)
    <3> DEFINE a == st.u.at
               b == g[k].u.at
    <3> HIDE DEF a, b
    <3>1. a \in Int
      BY <2>8 DEF a
    <3>2. b = a + k => b + 1 = a + (k + 1)
      BY <2>8, <3>1, SMT
    <3> QED
      BY <3>2 DEF a, b
  <2> QED
    BY <2>3, <2>4, <2>7, <2>9 DEF Reads
<1> HIDE DEF H
<1>5. n \in H
  BY <1>2, <1>3, <1>4, Induction
<1>6. n \in 0 .. n
  BY <1>2, SMT
<1> QED
  BY <1>1, <1>5, <1>6 DEF H, n

-----------------------------------------------------------------------------
(* What is on the wire *)

WireField == [type : FieldTypes, value : Int, whole : BOOLEAN]

LEMMA FieldTyped ==
    ASSUME NEW t \in FieldTypes, NEW v \in Int
    PROVE  Field(t, v) \in WireField
  BY DEF Field, WireField

LEMMA IntFieldTyped ==
    ASSUME NEW v \in Int
    PROVE  Field("int", v) \in WireField
<1>1. "int" \in FieldTypes
  BY DEF FieldTypes
<1> QED
  BY <1>1, FieldTyped

LEMMA WireTyped == WireOK <=> wire \in Seq(WireField) /\ behind \in Seq(Int)
  BY DEF WireOK, WireField

LEMMA IdFieldTyped ==
    ASSUME NEW k \in Kinds
    PROVE  IdField(k) \in WireField
<1>1. (IF k \in DOMAIN SystemId THEN 2 * SystemId[k] + 1 ELSE 2 * GameId[k]) \in Int
  <2>1. CASE k \in DOMAIN SystemId
    <3>1. SystemId[k] \in Int
      BY <2>1, SMT DEF SystemId
    <3> QED
      BY <2>1, <3>1, SMT
  <2>2. CASE k \notin DOMAIN SystemId
    <3>1. k \in DOMAIN GameId
      BY <2>2 DEF Kinds
    <3>2. GameId[k] \in Int
      BY <3>1, SMT DEF GameId
    <3> QED
      BY <2>2, <3>2, SMT
  <2> QED
    BY <2>1, <2>2
<1> DEFINE v == IF k \in DOMAIN SystemId THEN 2 * SystemId[k] + 1 ELSE 2 * GameId[k]
<1>2. IdField(k) = Field("int", v)
  BY DEF IdField
<1>3. v \in Int
  BY <1>1
<1> HIDE DEF v
<1> QED
  BY <1>2, <1>3, IntFieldTyped

\* What is packed of a message whose members are set is an integer.
LEMMA PackedTyped ==
    ASSUME NEW k \in DOMAIN Encodes, NEW m, Settable(k, m), ~ReadsUnset(k, m),
           NEW i \in DOMAIN Encodes[k]
    PROVE  Packed(k, m, Encodes[k][i]) \in WireField
<1> DEFINE f == Encodes[k][i]
           v == IF f[2] = "buildinfo" THEN 1
                ELSE IF BehindOptions(k, m, f[2]) THEN 0
                ELSE IF k = "SV_TUNEPARAMS" THEN Scaled(m[f[2]]) ELSE m[f[2]]
<1>1. f \in ToSet(Encodes[k])
  BY DEF ToSet
<1>2. f[1] \in FieldTypes
  <2>1. Encodes[k] \in Seq(FieldTypes \X STRING)
    BY TablesAssumption
  <2>2. f \in FieldTypes \X STRING
    BY <2>1, ElementOfSeq, LenProperties
  <2> HIDE DEF f
  <2> QED
    BY <2>2, SMT
<1>3. Packed(k, m, f) = Field(f[1], v)
  BY DEF Packed
<1>4. f[2] = "buildinfo" \/ BehindOptions(k, m, f[2]) \/ f[2] \in DOMAIN m
  BY <1>1 DEF ReadsUnset
<1>5. f[2] \in DOMAIN m => m[f[2]] \in Int
  BY DEF Settable
<1>6. f[2] \in DOMAIN m /\ k = "SV_TUNEPARAMS" => Scaled(m[f[2]]) \in Int
  <2> SUFFICES ASSUME f[2] \in DOMAIN m, k = "SV_TUNEPARAMS" PROVE Scaled(m[f[2]]) \in Int
    OBVIOUS
  <2>1. m[f[2]] \in -MaxTuneParam .. MaxTuneParam
    BY DEF Settable
  <2>3. MaxTuneParam \in Int
    BY SMT DEF MaxTuneParam
  <2> DEFINE w == m[f[2]]
  <2> HIDE DEF w
  <2>4. w \in Int /\ w \in -MaxTuneParam .. MaxTuneParam
    BY <2>1, <1>5 DEF w
  <2>5. w \in Int /\ -MaxTuneParam <= w /\ w <= MaxTuneParam
    BY <2>3, <2>4, SMT
  <2>2. m[f[2]] \in Int /\ -MaxTuneParam <= m[f[2]] /\ m[f[2]] <= MaxTuneParam
    BY <2>5 DEF w
  <2> QED
    BY <2>2, ScaledNear
<1> HIDE DEF f
<1>7. v \in Int
  BY <1>4, <1>5, <1>6
<1> HIDE DEF v
<1>8. Packed(k, m, f) \in WireField
  BY <1>2, <1>3, <1>7, FieldTyped
<1> QED
  BY <1>8 DEF f

\* The whole message that is sent for a kind and its members.
MessageOf(k, m) == <<IdField(k)>> \o [i \in DOMAIN Encodes[k] |-> Packed(k, m, Encodes[k][i])]

LEMMA MessageTyped ==
    ASSUME NEW k \in DOMAIN Encodes, k \in Kinds, NEW m, Settable(k, m), ~ReadsUnset(k, m)
    PROVE  /\ MessageOf(k, m) \in Seq(WireField)
           /\ Len(MessageOf(k, m)) = 1 + Len(Encodes[k])
           /\ MessageOf(k, m)[1] = IdField(k)
           /\ \A i \in 1 .. Len(Encodes[k]) : MessageOf(k, m)[i + 1] = Packed(k, m, Encodes[k][i])
<1> DEFINE n == Len(Encodes[k])
           members == [i \in DOMAIN Encodes[k] |-> Packed(k, m, Encodes[k][i])]
<1>1. n \in Nat /\ DOMAIN Encodes[k] = 1 .. n
  BY TablesAssumption, LenProperties
<1>2. members = [i \in 1 .. n |-> Packed(k, m, Encodes[k][i])]
  BY <1>1
<1>3. \A i \in 1 .. n : Packed(k, m, Encodes[k][i]) \in WireField
  BY <1>1, PackedTyped
<1>4. members \in Seq(WireField) /\ Len(members) = n
      /\ \A i \in 1 .. n : members[i] = Packed(k, m, Encodes[k][i])
  <2>1. members \in [1 .. n -> WireField]
    BY <1>2, <1>3
  <2>2. \A i \in 1 .. n : members[i] = Packed(k, m, Encodes[k][i])
    BY <1>2
  <2> HIDE DEF members, n
  <2> QED
    BY <1>1, <2>1, <2>2, SMT
<1>5. <<IdField(k)>> \in Seq(WireField) /\ Len(<<IdField(k)>>) = 1 /\ <<IdField(k)>>[1] = IdField(k)
  BY IdFieldTyped
<1>6. MessageOf(k, m) = <<IdField(k)>> \o members
  BY DEF MessageOf
<1> HIDE DEF members, n
<1> DEFINE w == MessageOf(k, m)
           first == <<IdField(k)>>
<1> HIDE DEF first
<1>7. first \in Seq(WireField) /\ Len(first) = 1 /\ first[1] = IdField(k) /\ w = first \o members
  BY <1>5, <1>6 DEF first
<1> HIDE DEF w
<1>8. w \in Seq(WireField) /\ Len(w) = 1 + n
      /\ (\A i \in 1 .. Len(w) : w[i] = IF i <= Len(first) THEN first[i] ELSE members[i - Len(first)])
  <2>1. /\ first \o members \in Seq(WireField)
        /\ Len(first \o members) = Len(first) + Len(members)
        /\ \A i \in 1 .. Len(first) + Len(members) :
              (first \o members)[i] = IF i <= Len(first) THEN first[i] ELSE members[i - Len(first)]
    BY <1>4, <1>7, ConcatProperties
  <2> QED
    BY <1>4, <1>7, <2>1
<1>9. w[1] = IdField(k)
  BY <1>1, <1>7, <1>8, SMT
<1>10. \A i \in 1 .. n : w[i + 1] = members[i]
  <2> TAKE i \in 1 .. n
  <2>1. i + 1 \in 1 .. Len(w) /\ ~(i + 1 <= Len(first)) /\ (i + 1) - Len(first) = i
    BY <1>1, <1>7, <1>8, SMT
  <2> QED
    BY <1>8, <2>1
<1> QED
  BY <1>4, <1>8, <1>9, <1>10 DEF w, n

LEMMA IntsTyped ==
    ASSUME NEW ints \in Seq(Int)
    PROVE  SnapWire(ints) \in Seq(WireField)
<1>1. <<IdField("SNAPSINGLE")>> \in Seq(WireField)
  <2>1. "SNAPSINGLE" \in Kinds
    BY DEF Kinds, SystemId
  <2> QED
    BY <2>1, IdFieldTyped
<1>2. [i \in 1 .. 4 |-> Field("int", i)] \in Seq(WireField)
  <2>1. \A i \in 1 .. 4 : Field("int", i) \in WireField
    BY IntFieldTyped, SMT
  <2>2. [i \in 1 .. 4 |-> Field("int", i)] \in [1 .. 4 -> WireField]
    BY <2>1
  <2> QED
    BY <2>2, SMT
<1>3. [i \in DOMAIN ints |-> Field("int", ints[i])] \in Seq(WireField)
  <2>1. DOMAIN ints = 1 .. Len(ints) /\ Len(ints) \in Nat /\ \A i \in 1 .. Len(ints) : ints[i] \in Int
    BY LenProperties, ElementOfSeq
  <2>2. \A i \in 1 .. Len(ints) : Field("int", ints[i]) \in WireField
    BY <2>1, IntFieldTyped
  <2>3. [i \in DOMAIN ints |-> Field("int", ints[i])] \in [1 .. Len(ints) -> WireField]
    BY <2>1, <2>2
  <2> DEFINE t == [i \in DOMAIN ints |-> Field("int", ints[i])]
  <2> HIDE DEF t
  <2>4. t \in [1 .. Len(ints) -> WireField]
    BY <2>3 DEF t
  <2>5. t \in Seq(WireField)
    BY <2>1, <2>4, SMT
  <2> QED
    BY <2>5 DEF t
<1> DEFINE a == <<IdField("SNAPSINGLE")>>
           b == [i \in 1 .. 4 |-> Field("int", i)]
           c == [i \in DOMAIN ints |-> Field("int", ints[i])]
<1>4. SnapWire(ints) = a \o b \o c
  BY DEF SnapWire
<1> HIDE DEF a, b, c
<1>5. a \o b \in Seq(WireField)
  BY <1>1, <1>2, ConcatProperties DEF a, b
<1>6. a \o b \o c \in Seq(WireField)
  BY <1>3, <1>5, ConcatProperties DEF c
<1> QED
  BY <1>4, <1>6

\* short is the message w cut off behind some fields, or inside of the last.
CutOf(short, w) ==
    /\ short \in Seq(WireField) /\ Len(short) <= Len(w)
    /\ \A i \in 1 .. Len(short) :
          /\ short[i].type = w[i].type /\ short[i].value = w[i].value
          /\ short[i].whole = w[i].whole \/ (i = Len(short) /\ short[i].whole = FALSE)

LEMMA CutIsCut ==
    ASSUME NEW w \in Seq(WireField), NEW n \in 0 .. Len(w), n < Len(w), NEW short,
           \/ short = SubSeq(w, 1, n)
           \/ short = [SubSeq(w, 1, n + 1) EXCEPT ![n + 1].whole = FALSE]
    PROVE  CutOf(short, w)
<1>0. Len(w) \in Nat /\ n \in Nat /\ n + 1 \in Nat /\ n + 1 <= Len(w)
  BY LenProperties, SMT
<1>1. ASSUME NEW j \in Nat, j <= Len(w)
      PROVE  /\ SubSeq(w, 1, j) \in Seq(WireField) /\ Len(SubSeq(w, 1, j)) = j
             /\ \A i \in 1 .. j : SubSeq(w, 1, j)[i] = w[i]
  BY <1>0, <1>1, SMT
<1>2. CASE short = SubSeq(w, 1, n)
  <2>1. short \in Seq(WireField) /\ Len(short) = n /\ \A i \in 1 .. n : short[i] = w[i]
    BY <1>0, <1>1, <1>2
  <2> QED
    BY <1>0, <2>1, SMT DEF CutOf
<1>3. CASE short = [SubSeq(w, 1, n + 1) EXCEPT ![n + 1].whole = FALSE]
  <2> DEFINE t == SubSeq(w, 1, n + 1)
  <2>1. t \in Seq(WireField) /\ Len(t) = n + 1 /\ \A i \in 1 .. n + 1 : t[i] = w[i]
    BY <1>0, <1>1
  <2>2. short = [t EXCEPT ![n + 1] = [t[n + 1] EXCEPT !.whole = FALSE]]
    BY <1>3
  <2> HIDE DEF t
  <2>3. n + 1 \in 1 .. n + 1 /\ t[n + 1] \in WireField
    BY <1>0, <2>1, ElementOfSeq, SMT
  <2> DEFINE x == [t[n + 1] EXCEPT !.whole = FALSE]
  <2>4. x \in WireField /\ x.type = t[n + 1].type /\ x.value = t[n + 1].value /\ x.whole = FALSE
    BY <2>3 DEF WireField
  <2> HIDE DEF x
  <2>5. short = [t EXCEPT ![n + 1] = x]
    BY <2>2 DEF x
  <2>6. short \in Seq(WireField) /\ Len(short) = n + 1
        /\ \A i \in 1 .. n + 1 : short[i] = IF i = n + 1 THEN x ELSE t[i]
    BY <2>1, <2>3, <2>4, <2>5, ExceptSeq, SMT
  <2>7. \A i \in 1 .. n + 1 : short[i].type = w[i].type /\ short[i].value = w[i].value
            /\ (short[i].whole = w[i].whole \/ (i = n + 1 /\ short[i].whole = FALSE))
    <3> TAKE i \in 1 .. n + 1
    <3>1. CASE i = n + 1
      BY <2>1, <2>4, <2>6, <3>1
    <3>2. CASE i # n + 1
      BY <2>1, <2>6, <3>2
    <3> QED
      BY <3>1, <3>2
  <2> QED
    BY <1>0, <2>6, <2>7 DEF CutOf
<1> QED
  BY <1>2, <1>3

-----------------------------------------------------------------------------
(* Types, and the snapshots that are handed out *)

IsSequence(s) == \E S : s \in Seq(S)

\* The state before anything is decoded.
Before == {"idle", "failed", "undefined", "sent"}

SnapShape ==
    snap = [keysLen  |-> snap.keysLen,  keysData  |-> snap.keysData,  keys  |-> snap.keys,
            itemsLen |-> snap.itemsLen, itemsData |-> snap.itemsData, items |-> snap.items]

ItemsBound == IF phase = "items" THEN snap.itemsLen - 1
              ELSE IF snap.itemsLen > 0 THEN snap.itemsLen ELSE 0

ItemsTotal(items) == Total([i \in 1 .. Len(items) |-> ItemSize(items[i])])

\* In the loop over the items the arrays are allocated, and the items that are
\* there end where the unpacker is.
Loop ==
    /\ unpacker.err = "NONE" /\ unpacker.at = 8 + snap.keysLen + ItemsTotal(snap.items)
    /\ ItemsTotal(snap.items) \in Int
    /\ snap.keysLen \in Nat /\ snap.keysData = Allocated(snap.keysLen)
    /\ Len(snap.keys) = snap.keysLen
    /\ snap.itemsLen > 0 /\ snap.itemsData = "array"
    /\ heap = {a \in {"keys"} : snap.keysLen > 0} \cup {"items"}

Phases == {"idle", "failed", "undefined", "sent", "snapshot", "items", "decoded", "outside", "freed"}

MInv ==
    /\ WireOK /\ Typed(unpacker) /\ phase \in Phases
    /\ kind \in Kinds \cup {"UNKNOWN"}
    /\ phase \in Before => unpacker = Unpacker
    /\ phase \in {"snapshot", "items"} => Good(unpacker)
    /\ phase \in Before \cup {"snapshot"} => snap = NoSnap /\ heap = {}
    /\ phase = "snapshot" /\ unpacker.err = "NONE" => unpacker.at = 5
    /\ phase = "items" => Loop
    /\ SnapShape /\ IsSequence(snap.items) /\ snap.itemsLen \in Int
    /\ Len(snap.items) <= ItemsBound
    /\ heap \subseteq {"keys", "items"}
    /\ SnapHandedOut /\ SnapIsFreed

LEMMA UnpackerGood == ASSUME WireOK PROVE Good(Unpacker)
<1>1. 0 \in 0 .. Len(wire) /\ 0 \in Int
  BY LenProperties, SMT DEF WireOK
<1>2. Unpacker = [at |-> 0, err |-> "NONE", value |-> 0, outside |-> FALSE]
  BY DEF Unpacker
<1>3. Shape(Unpacker) /\ Unpacker.at = 0 /\ Unpacker.value = 0 /\ Unpacker.err = "NONE"
  BY <1>2 DEF Shape
<1>4. Unpacker.outside \in BOOLEAN
  BY <1>2
<1> QED
  BY <1>1, <1>3, <1>4 DEF Good

LEMMA NoSnapOK ==
    ASSUME snap = NoSnap
    PROVE  SnapShape /\ IsSequence(snap.items) /\ snap.itemsLen \in Int
           /\ Len(snap.items) = 0 /\ snap.itemsLen = 0 /\ snap.keysLen = 0
<1>1. snap.items = <<>> /\ snap.itemsLen = 0 /\ snap.keysLen = 0
  BY DEF NoSnap
<1>2. SnapShape
  BY DEF NoSnap, SnapShape
<1>3. <<>> \in Seq({}) /\ Len(<<>>) = 0
  OBVIOUS
<1> QED
  BY <1>1, <1>2, <1>3, SMT DEF IsSequence

LEMMA MInitKeeps == Init => MInv
<1> SUFFICES ASSUME Init PROVE MInv
  OBVIOUS
<1> USE DEF Init
<1>1. WireOK
  BY MessagesAssumption DEF WireOK
<1>2. Typed(unpacker)
  BY <1>1, UnpackerGood, GoodIsTyped
<1>3. SnapShape /\ IsSequence(snap.items) /\ snap.itemsLen \in Int /\ Len(snap.items) <= ItemsBound
  <2>1. snap.itemsLen = 0 /\ Len(snap.items) = 0 /\ SnapShape /\ IsSequence(snap.items)
    BY NoSnapOK
  <2> QED
    BY <2>1, SMT DEF ItemsBound
<1>4. kind \in Kinds \cup {"UNKNOWN"}
  BY MessagesAssumption
<1> QED
  BY <1>1, <1>2, <1>3, <1>4 DEF MInv, Phases, SnapHandedOut, SnapIsFreed

\* Where nothing was decoded before and nothing is now.
LEMMA SendKeeps ==
    ASSUME MInv, phase \in Before, phase' \in Before, (wire \in Seq(WireField))',
           UNCHANGED <<behind, unpacker, kind, snap, heap>>
    PROVE  MInv'
<1>1. WireOK'
  BY DEF MInv, WireOK, WireField
<1>2. unpacker' = Unpacker
  BY DEF MInv
<1>3. Typed(unpacker)'
  <2>0. Len(wire') \in Nat /\ Len(behind') \in Nat
    BY <1>1, LenProperties DEF WireOK
  <2>1. 0 \in 0 .. Len(wire') + Len(behind') /\ 0 \in Int
    BY <2>0, SMT
  <2>2. Unpacker = [at |-> 0, err |-> "NONE", value |-> 0, outside |-> FALSE]
    BY DEF Unpacker
  <2>3. Shape(Unpacker) /\ Unpacker.at = 0 /\ Unpacker.value = 0 /\ Unpacker.err = "NONE"
    BY <2>2 DEF Shape
  <2>4. Unpacker.outside \in BOOLEAN
    BY <2>2
  <2> QED
    BY <1>2, <2>1, <2>3, <2>4 DEF Typed
<1>4. snap = NoSnap /\ heap = {} /\ snap' = NoSnap /\ heap' = {}
  BY DEF MInv, Before
<1>5. (SnapShape /\ IsSequence(snap.items) /\ snap.itemsLen \in Int)'
  BY DEF MInv, SnapShape, IsSequence
<1>6. (Len(snap.items) <= ItemsBound)'
  <2>1. Len(snap.items) = 0 /\ snap.itemsLen = 0
    BY <1>4, NoSnapOK
  <2>2. Len(snap'.items) = 0 /\ snap'.itemsLen = 0 /\ phase' # "items"
    BY <1>4, <2>1 DEF Before
  <2> QED
    BY <2>2, SMT DEF ItemsBound
<1>7. kind' \in Kinds \cup {"UNKNOWN"}
  BY DEF MInv
<1>8. phase' \in Phases /\ phase' \notin {"snapshot", "items", "decoded", "outside", "freed"}
  BY DEF Before, Phases
<1>9. SnapHandedOut' /\ SnapIsFreed'
  BY <1>8 DEF SnapHandedOut, SnapIsFreed
<1> QED
  BY <1>1, <1>2, <1>3, <1>4, <1>5, <1>6, <1>7, <1>8, <1>9 DEF MInv

LEMMA EncodeKeeps ==
    ASSUME MInv, phase = "idle", NEW k \in Kinds, NEW m \in Payloads[k], Encode(k, m)
    PROVE  MInv'
<1>1. k \in DOMAIN Encodes /\ Settable(k, m)
  BY MessagesAssumption DEF Encode
<1>2. UNCHANGED <<behind, unpacker, kind, snap, heap>>
  BY DEF Encode, Sending
<1>3. phase' \in Before /\ (wire \in Seq(WireField))'
  <2>1. CASE ~ReadsUnset(k, m)
    <3>1. wire' = MessageOf(k, m) /\ phase' = "sent"
      BY <2>1 DEF Encode, MessageOf
    <3>2. wire' \in Seq(WireField)
      BY <1>1, <2>1, <3>1, MessageTyped
    <3> QED
      BY <3>1, <3>2 DEF Before
  <2>2. CASE ReadsUnset(k, m)
    BY <2>2, WireTyped DEF Encode, Before, MInv
  <2> QED
    BY <2>1, <2>2
<1>4. phase \in Before
  BY DEF Before
<1> QED
  BY <1>2, <1>3, <1>4, SendKeeps

LEMMA OtherSendsKeep ==
    ASSUME MInv, phase = "idle",
           \/ \E k \in Kinds : \E m \in Payloads[k] : EncodeFails(k, m)
           \/ \E w \in UnknownWires : EncodeUnknown(w)
           \/ \E s \in Snapshots : SendSnapshot(s)
           \/ \E ints \in ForeignInts : SendForeign(ints)
    PROVE  MInv'
<1>0. phase \in Before /\ wire \in Seq(WireField)
  BY WireTyped DEF Before, MInv
<1>1. CASE \E k \in Kinds : \E m \in Payloads[k] : EncodeFails(k, m)
  <2>1. UNCHANGED <<behind, unpacker, kind, snap, heap>> /\ wire' = wire /\ phase' \in Before
    BY <1>1 DEF EncodeFails, Sending, Before
  <2> QED
    BY <1>0, <2>1, SendKeeps
<1>2. CASE \E w \in UnknownWires : EncodeUnknown(w)
  <2>1. PICK w \in UnknownWires : EncodeUnknown(w)
    BY <1>2
  <2>2. w \in Seq([type : FieldTypes, value : Int, whole : {TRUE}])
    BY MessagesAssumption DEF Wires
  <2>3. [type : FieldTypes, value : Int, whole : {TRUE}] \subseteq WireField
    BY DEF WireField
  <2>4. w \in Seq(WireField)
    BY <2>2, <2>3, SeqMonotonic, Zenon
  <2>5. UNCHANGED <<behind, unpacker, kind, snap, heap>> /\ wire' = w /\ phase' \in Before
    BY <2>1 DEF EncodeUnknown, Sending, Before
  <2> QED
    BY <1>0, <2>4, <2>5, SendKeeps
<1>3. CASE \E s \in Snapshots : SendSnapshot(s)
  <2>1. PICK s \in Snapshots : SendSnapshot(s)
    BY <1>3
  <2>2. SnapWire(SnapInts(s)) \in Seq(WireField)
    BY MessagesAssumption, SnapIntsTyped, IntsTyped
  <2>3. UNCHANGED <<behind, unpacker, kind, snap, heap>> /\ wire' = SnapWire(SnapInts(s)) /\ phase' \in Before
    BY <2>1 DEF SendSnapshot, Sending, Before
  <2> QED
    BY <1>0, <2>2, <2>3, SendKeeps
<1>4. CASE \E ints \in ForeignInts : SendForeign(ints)
  <2>1. PICK ints \in ForeignInts : SendForeign(ints)
    BY <1>4
  <2>2. SnapWire(ints) \in Seq(WireField)
    BY MessagesAssumption, IntsTyped
  <2>3. UNCHANGED <<behind, unpacker, kind, snap, heap>> /\ wire' = SnapWire(ints) /\ phase' \in Before
    BY <2>1 DEF SendForeign, Sending, Before
  <2> QED
    BY <1>0, <2>2, <2>3, SendKeeps
<1> QED
  BY <1>1, <1>2, <1>3, <1>4

LEMMA CutKeeps ==
    ASSUME MInv, NEW n \in 0 .. Len(wire), Cut(n)
    PROVE  MInv'
<1>1. wire \in Seq(WireField)
  BY WireTyped DEF MInv
<1>2. CutOf(wire', wire)
  BY <1>1, CutIsCut DEF Cut
<1>3. phase = "sent" /\ phase' = "sent" /\ UNCHANGED <<behind, unpacker, kind, snap, heap>>
  BY DEF Cut
<1> QED
  BY <1>2, <1>3, SendKeeps DEF CutOf, Before

-----------------------------------------------------------------------------
(* Decoding *)

LEMMA VoteOptions ==
    /\ "SV_VOTEOPTIONLISTADD" \in DOMAIN Decodes
    /\ Decodes["SV_VOTEOPTIONLISTADD"] = AllInts(<<"num_options">>)
<1>1. "SV_VOTEOPTIONLISTADD" \in DOMAIN GameDecodes /\ "SV_VOTEOPTIONLISTADD" \notin DOMAIN SystemDecodes
  BY DEF SystemDecodes, GameDecodes
<1>2. GameDecodes["SV_VOTEOPTIONLISTADD"] = AllInts(<<"num_options">>)
  BY DEF GameDecodes
<1> QED
  BY <1>1, <1>2 DEF Decodes, Either

LEMMA DescriptionsLength == Len(Descriptions) = 14 /\ DOMAIN Descriptions = 1 .. 14
<1> DEFINE D(i) == "descriptions" \o ToString(i - 1)
<1>1. Descriptions = [i \in 1 .. 14 |-> D(i)]
  BY DEF Descriptions
<1> HIDE DEF D
<1>2. Descriptions \in Seq({D(i) : i \in 1 .. 14})
  <2>1. 14 \in Nat
    BY SMT
  <2> QED
    BY <1>1, <2>1, IsASeq
<1> QED
  BY <1>1, <1>2, LenProperties, SMT

LEMMA OptionsLength ==
    ASSUME NEW n \in Int, n <= 14
    PROVE  Len(AllStrings(SubSeq(Descriptions, 1, n))) \in Nat
<1> DEFINE s == SubSeq(Descriptions, 1, n)
<1>1. s \in Seq({Descriptions[i] : i \in 1 .. n})
  BY SubSeqProperties, SMT
<1> HIDE DEF s
<1>2. DOMAIN s = 1 .. Len(s) /\ Len(s) \in Nat
  BY <1>1, LenProperties
<1>3. AllStrings(s) = [i \in 1 .. Len(s) |-> AString(s[i])]
  BY <1>2 DEF AllStrings
<1>4. AllStrings(s) \in Seq({AString(s[i]) : i \in 1 .. Len(s)})
  BY <1>2, <1>3, IsASeq
<1> QED
  BY <1>4, LenProperties DEF s

LEMMA NamedKinds ==
    ASSUME NEW v, NEW k \in Named(v)
    PROVE  k \in Kinds /\ (k \in DOMAIN Decodes \/ k = "SNAPSINGLE")
<1>1. DOMAIN SystemDecodes \cup {"SNAPSINGLE"} \subseteq DOMAIN SystemId
  BY DEF SystemDecodes, SystemId
<1>2. DOMAIN GameDecodes \subseteq DOMAIN GameId
  BY DEF GameDecodes, GameId
<1> QED
  BY <1>1, <1>2 DEF Named, Kinds, Decodes, Either

\* What has been read when the kind of the message is known.
Start == [u |-> GetInt(Unpacker), msg |-> <<>>]

LEMMA StartGood ==
    ASSUME WireOK
    PROVE  Unpacking(Start) /\ Reads(Unpacker, Start.u, 1) /\ Start.u.outside = FALSE
<1>1. Good(Unpacker)
  BY UnpackerGood
<1>2. Reads(Unpacker, GetInt(Unpacker), 1)
  BY <1>1, GetIntReads
<1> DEFINE v == GetInt(Unpacker)
<1> HIDE DEF v
<1>3. Start = [u |-> v, msg |-> <<>>]
  BY DEF Start, v
<1>4. Start.u = v /\ MsgShape(Start)
  BY <1>3 DEF MsgShape
<1>5. Unpacker.outside = FALSE
  BY DEF Unpacker
<1>6. Good(v) /\ v.outside = FALSE /\ Reads(Unpacker, v, 1)
  BY <1>2, <1>5 DEF v, Reads
<1>7. Typed(v)
  BY <1>6, GoodIsTyped
<1> QED
  BY <1>4, <1>6, <1>7 DEF Unpacking

\* One integer that is unpacked into its member.
LEMMA OneIntIs ==
    ASSUME NEW st, st.u.outside = FALSE, NEW member, NEW v, v = GetInt(st.u)
    PROVE  UnpackAll(st, AllInts(<<member>>)) = [u |-> v, msg |-> Setting(st.msg, member, v.value)]
<1> DEFINE s == AllInts(<<member>>)
           r == UnpackAll(st, s)
<1>1. Len(s) = 1 /\ s[1] = <<"int", member>>
  BY SMT DEF AllInts, AnInt
<1> HIDE DEF s
<1>2. PICK g : Unpacks(g, st, s, 1) /\ r = g[1]
  <2>1. Len(s) \in Nat
    BY <1>1, SMT
  <2> QED
    BY <1>1, <2>1, UnpackAllLast
<1>3. 0 \in 0 .. 1 /\ 1 \in 0 .. 1 /\ 1 # 0 /\ 1 - 1 = 0
  BY SMT
<1>4. g[0] = st /\ g[1] = Unpack(g[0], s[1])
  BY <1>2, <1>3 DEF Unpacks
<1>5. Unpack(st, s[1]) = [u |-> v, msg |-> Setting(st.msg, member, v.value)]
  <2>1. s[1][1] = "int" /\ s[1][2] = member
    BY <1>1
  <2> QED
    BY <2>1, Zenon DEF Unpack
<1> HIDE DEF r
<1>6. r = [u |-> v, msg |-> Setting(st.msg, member, v.value)]
  BY <1>2, <1>4, <1>5
<1> QED
  BY <1>6 DEF r, s

LEMMA UnpackOneInt ==
    ASSUME WireOK, NEW st, Unpacking(st), st.u.outside = FALSE, NEW member
    PROVE  UnpackAll(st, AllInts(<<member>>)).msg[member] \in Int
<1> DEFINE r == UnpackAll(st, AllInts(<<member>>))
           v == GetInt(st.u)
<1>1. v.value \in Int
  BY GetIntFollows DEF Unpacking, Follows, Typed
<1>2. r = [u |-> v, msg |-> Setting(st.msg, member, v.value)]
  BY OneIntIs
<1> HIDE DEF v, r
<1>3. r.msg = Setting(st.msg, member, v.value)
  BY <1>2
<1>4. r.msg[member] = v.value
  BY <1>3 DEF Setting
<1> QED
  BY <1>1, <1>4 DEF r

LEMMA UnpackerSet ==
    ASSUME NEW st, MsgShape(st), NEW v
    PROVE  [st EXCEPT !.u = v] = [u |-> v, msg |-> st.msg]
  BY SMT DEF MsgShape

LEMMA OptionsGood ==
    ASSUME WireOK, NEW st, Unpacking(st), st.msg.num_options \in Int
    PROVE  Unpacking(Options(st))
<1>1. CASE st.msg.num_options > Len(Descriptions)
  <2> DEFINE v == [st.u EXCEPT !.outside = TRUE]
             w == [u |-> v, msg |-> st.msg]
  <2>1. [st EXCEPT !.u = v] = w
    <3>1. MsgShape(st)
      BY DEF Unpacking
    <3> HIDE DEF v
    <3> QED
      BY <3>1, UnpackerSet
  <2>2. [st EXCEPT !.u.outside = TRUE] = [st EXCEPT !.u = v]
    OBVIOUS
  <2>3. Options(st) = w
    BY <1>1, <2>1, <2>2 DEF Options
  <2>6. Typed(v)
    BY OutsideFollows DEF Unpacking, Follows
  <2> HIDE DEF v
  <2>7. w.u = v /\ MsgShape(w)
    BY DEF MsgShape
  <2> HIDE DEF w
  <2> QED
    BY <2>3, <2>6, <2>7 DEF Unpacking
<1>2. CASE ~(st.msg.num_options > Len(Descriptions))
  <2> DEFINE n == st.msg.num_options
             s == AllStrings(SubSeq(Descriptions, 1, n))
  <2>1. n \in Int /\ n <= 14
    BY <1>2, DescriptionsLength, SMT
  <2>2. Len(s) \in Nat
    <3> HIDE DEF n
    <3> QED
      BY <2>1, OptionsLength
  <2>3. Options(st) = UnpackAll(st, s)
    BY <1>2 DEF Options
  <2> HIDE DEF s
  <2> QED
    BY <2>2, <2>3, UnpackAllTyped
<1> QED
  BY <1>1, <1>2

\* Where no snapshot was decoded.
LEMMA MessageKeeps ==
    ASSUME MInv, phase = "sent", phase' \in {"decoded", "outside"}, Typed(unpacker)',
           kind' \in (Kinds \cup {"UNKNOWN"}) \ {"SNAPSINGLE"},
           UNCHANGED <<wire, behind, snap, heap>>
    PROVE  MInv'
<1>1. WireOK'
  BY DEF WireOK, MInv
<1>2. snap' = NoSnap /\ heap' = {}
  BY DEF MInv, Before
<1>3. (SnapShape /\ IsSequence(snap.items) /\ snap.itemsLen \in Int)'
  BY DEF MInv, SnapShape, IsSequence
<1>4. (Len(snap.items) <= ItemsBound)'
  <2>1. Len(snap'.items) = 0 /\ snap'.itemsLen = 0
    BY NoSnapOK DEF MInv, Before
  <2> QED
    BY <2>1, SMT DEF ItemsBound
<1>5. phase' \in Phases /\ phase' \notin Before \cup {"snapshot", "items", "freed"}
  BY DEF Phases, Before
<1>6. SnapHandedOut' /\ SnapIsFreed'
  BY <1>5 DEF SnapHandedOut, SnapIsFreed
<1> QED
  BY <1>1, <1>2, <1>3, <1>4, <1>5, <1>6 DEF MInv

LEMMA DecodeKnownKeeps ==
    ASSUME MInv, DecodeKnown
    PROVE  MInv'
<1>1. WireOK /\ phase = "sent" /\ UNCHANGED <<wire, behind, snap, heap>>
  BY DEF MInv, DecodeKnown
<1>2. PICK k \in Named(GetInt(Unpacker).value) \ {"SNAPSINGLE"} :
         LET read == UnpackAll(Start, Decodes[k])
             st   == IF k = "SV_VOTEOPTIONLISTADD" THEN Options(read) ELSE read
         IN  /\ unpacker' = st.u /\ kind' = KindSet(k)
             /\ phase' = IF st.u.outside THEN "outside" ELSE "decoded"
  BY DEF DecodeKnown, Start
<1> DEFINE read == UnpackAll(Start, Decodes[k])
           st   == IF k = "SV_VOTEOPTIONLISTADD" THEN Options(read) ELSE read
<1>3. unpacker' = st.u /\ kind' = KindSet(k) /\ phase' \in {"decoded", "outside"}
  BY <1>2
<1>4. k \in Kinds /\ k \in DOMAIN Decodes /\ k # "SNAPSINGLE"
  BY <1>2, NamedKinds
<1>5. Unpacking(read)
  <2>1. Len(Decodes[k]) \in Nat
    BY <1>4, TablesAssumption, LenProperties
  <2> QED
    BY <1>1, <2>1, StartGood, UnpackAllTyped
<1>6. k = "SV_VOTEOPTIONLISTADD" => read.msg.num_options \in Int
  BY <1>1, VoteOptions, StartGood, UnpackOneInt
<1> HIDE DEF read
<1>7. Unpacking(st)
  BY <1>1, <1>5, <1>6, OptionsGood
<1> HIDE DEF st
<1>8. Typed(unpacker)'
  <2>1. Typed(st.u)
    BY <1>7 DEF Unpacking
  <2> QED
    BY <1>1, <1>3, <2>1 DEF Typed
<1>9. kind' \in Kinds /\ kind' # "SNAPSINGLE"
  <2>1. "MAP_CHANGE" \in Kinds
    BY DEF Kinds, SystemId
  <2> QED
    BY <1>3, <1>4, <2>1 DEF KindSet
<1> QED
  BY <1>1, <1>3, <1>8, <1>9, MessageKeeps

LEMMA DecodeUnknownKeeps ==
    ASSUME MInv, DecodeUnknown
    PROVE  MInv'
<1>1. /\ WireOK /\ phase = "sent" /\ UNCHANGED <<wire, behind, snap, heap>> /\ phase' = "decoded"
      /\ unpacker' = GetInt(Unpacker) /\ kind' = "UNKNOWN"
  BY DEF MInv, DecodeUnknown
<1>2. Typed(GetInt(Unpacker))
  BY <1>1, UnpackerGood, GetIntReads, GoodIsTyped DEF Reads
<1>3. Typed(unpacker)'
  BY <1>1, <1>2 DEF Typed
<1> QED
  BY <1>1, <1>3, MessageKeeps

LEMMA DecodeSnapSingleKeeps ==
    ASSUME MInv, DecodeSnapSingle
    PROVE  MInv'
<1> DEFINE s == AllInts(<<"game_tick", "delta_tick", "crc", "part_size">>)
           head == UnpackAll(Start, s)
<1>1. /\ WireOK /\ phase = "sent" /\ UNCHANGED <<wire, behind, kind, snap, heap>> /\ phase' = "snapshot"
      /\ unpacker' = head.u
  BY DEF MInv, DecodeSnapSingle, Start
<1>2. Len(s) = 4 /\ \A i \in 1 .. Len(s) : s[i][1] = "int"
  BY SMT DEF AllInts, AnInt
<1> HIDE DEF s
<1>3. Unpacking(head) /\ Reads(Start.u, head.u, 4)
  <2>1. Len(s) \in Nat
    BY <1>2, SMT
  <2>2. Good(Start.u)
    BY <1>1, StartGood DEF Reads
  <2> QED
    BY <1>1, <1>2, <2>1, <2>2, StartGood, UnpackAllInts
<1>4. Reads(Unpacker, Start.u, 1) /\ Unpacker.at = 0
  BY <1>1, StartGood DEF Unpacker
<1> HIDE DEF head
<1>5. Good(unpacker)' /\ Typed(unpacker)'
  <2>1. Good(head.u) /\ Typed(head.u)
    BY <1>3 DEF Reads, Unpacking
  <2> QED
    BY <1>1, <2>1 DEF Good, Typed
<1>6. unpacker'.err = "NONE" => unpacker'.at = 5
  <2> SUFFICES ASSUME head.u.err = "NONE" PROVE head.u.at = 5
    BY <1>1
  <2>1. Start.u.err = "NONE" /\ head.u.at = Start.u.at + 4
    BY <1>3 DEF Reads
  <2>2. Start.u.at = 0 + 1
    BY <1>4, <2>1 DEF Reads
  <2> QED
    BY <2>1, <2>2, SMT
<1>7. snap = NoSnap /\ snap' = NoSnap /\ heap' = {} /\ WireOK'
  BY <1>1 DEF MInv, Before, WireOK
<1>8. (SnapShape /\ IsSequence(snap.items) /\ snap.itemsLen \in Int)'
  BY <1>1 DEF MInv, SnapShape, IsSequence
<1>9. (Len(snap.items) <= ItemsBound)'
  <2>1. Len(snap'.items) = 0 /\ snap'.itemsLen = 0
    BY <1>7, NoSnapOK
  <2> QED
    BY <1>1, <2>1, SMT DEF ItemsBound
<1>10. kind' \in Kinds \cup {"UNKNOWN"}
  BY <1>1 DEF MInv
<1>11. phase' \in Phases /\ phase' \notin Before \cup {"items", "freed"}
  BY <1>1 DEF Phases, Before
<1>12. SnapHandedOut' /\ SnapIsFreed'
  BY <1>1 DEF SnapHandedOut, SnapIsFreed
<1> QED
  BY <1>1, <1>5, <1>6, <1>7, <1>8, <1>9, <1>10, <1>11, <1>12 DEF MInv
-----------------------------------------------------------------------------
(* Decoding a snapshot *)

LEMMA SnapRecord ==
    ASSUME NEW kl, NEW kd, NEW k, NEW il, NEW id, NEW it,
           NEW s, s = [keysLen |-> kl, keysData |-> kd, keys |-> k,
                       itemsLen |-> il, itemsData |-> id, items |-> it]
    PROVE  /\ s.keysLen = kl /\ s.keysData = kd /\ s.keys = k
           /\ s.itemsLen = il /\ s.itemsData = id /\ s.items = it
  BY SMT

LEMMA KeysSet ==
    ASSUME NEW s, s = [keysLen |-> s.keysLen, keysData |-> s.keysData, keys |-> s.keys,
                       itemsLen |-> s.itemsLen, itemsData |-> s.itemsData, items |-> s.items],
           NEW a, NEW b
    PROVE  [s EXCEPT !.keysData = a, !.keys = b]
              = [keysLen |-> s.keysLen, keysData |-> a, keys |-> b,
                 itemsLen |-> s.itemsLen, itemsData |-> s.itemsData, items |-> s.items]
<1> DEFINE w == [s EXCEPT !.keysData = a]
<1>1. w = [keysLen |-> s.keysLen, keysData |-> a, keys |-> s.keys,
           itemsLen |-> s.itemsLen, itemsData |-> s.itemsData, items |-> s.items]
  BY SMT
<1>2. [s EXCEPT !.keysData = a, !.keys = b] = [w EXCEPT !.keys = b]
  OBVIOUS
<1> HIDE DEF w
<1> QED
  BY <1>1, <1>2, SMT

LEMMA SnapSet ==
    ASSUME NEW s, s = [keysLen |-> s.keysLen, keysData |-> s.keysData, keys |-> s.keys,
                       itemsLen |-> s.itemsLen, itemsData |-> s.itemsData, items |-> s.items],
           NEW y
    PROVE  /\ [s EXCEPT !.itemsData = y]
                = [keysLen |-> s.keysLen, keysData |-> s.keysData, keys |-> s.keys,
                   itemsLen |-> s.itemsLen, itemsData |-> y, items |-> s.items]
           /\ [s EXCEPT !.items = y]
                = [keysLen |-> s.keysLen, keysData |-> s.keysData, keys |-> s.keys,
                   itemsLen |-> s.itemsLen, itemsData |-> s.itemsData, items |-> y]
  BY SMT

LEMMA SequenceLength ==
    ASSUME NEW s, IsSequence(s), NEW x
    PROVE  /\ Len(s) \in Nat
           /\ IsSequence(Append(s, x)) /\ Len(Append(s, x)) = Len(s) + 1
           /\ Append(s, x)[Len(s) + 1] = x
           /\ \A i \in 1 .. Len(s) : Append(s, x)[i] = s[i]
<1>1. PICK S : s \in Seq(S)
  BY DEF IsSequence
<1>2. s \in Seq(S \cup {x}) /\ x \in S \cup {x}
  BY <1>1, SeqMonotonic
<1> DEFINE T == S \cup {x}
<1> HIDE DEF T
<1>3. s \in Seq(T) /\ x \in T
  BY <1>2 DEF T
<1>4. Append(s, x) \in Seq(T) /\ Len(Append(s, x)) = Len(s) + 1
      /\ (\A i \in 1 .. Len(s) : Append(s, x)[i] = s[i]) /\ Append(s, x)[Len(s) + 1] = x
  BY <1>3, AppendProperties
<1> QED
  BY <1>1, <1>4, LenProperties DEF IsSequence

LEMMA NoItemsTotal == ItemsTotal(<<>>) = 0
<1> DEFINE sizes == [i \in 1 .. Len(<<>>) |-> ItemSize(<<>>[i])]
<1>1. Len(sizes) = 0
  <2>1. Len(<<>>) = 0 /\ 0 \in Nat
    OBVIOUS
  <2>2. sizes \in Seq({ItemSize(<<>>[i]) : i \in 1 .. Len(<<>>)})
    BY <2>1, IsASeq
  <2>3. DOMAIN sizes = 1 .. 0
    BY <2>1
  <2> HIDE DEF sizes
  <2> QED
    BY <2>2, <2>3, LenProperties, SMT
<1>2. ItemsTotal(<<>>) = Total(sizes)
  BY DEF ItemsTotal
<1> HIDE DEF sizes
<1>3. PICK g : Totals(g, sizes, 0) /\ Total(sizes) = g[0]
  <2>1. Len(sizes) \in Nat
    BY <1>1, SMT
  <2>2. \E g : Totals(g, sizes, Len(sizes)) /\ Total(sizes) = g[Len(sizes)]
    BY <2>1, TotalLast, Zenon
  <2> QED
    BY <1>1, <2>2
<1>4. 0 \in 0 .. 0
  BY SMT
<1>5. g[0] = 0
  BY <1>3, <1>4 DEF Totals
<1> QED
  BY <1>2, <1>3, <1>5

LEMMA OneItemMore ==
    ASSUME NEW items, IsSequence(items), NEW x
    PROVE  ItemsTotal(Append(items, x)) = ItemsTotal(items) + ItemSize(x)
<1> DEFINE n == Len(items)
           more == Append(items, x)
           s == [i \in 1 .. n |-> ItemSize(items[i])]
           t == [i \in 1 .. n + 1 |-> ItemSize(more[i])]
<1>1. /\ n \in Nat /\ n + 1 \in Nat /\ Len(more) = n + 1 /\ more[n + 1] = x
      /\ \A i \in 1 .. n : more[i] = items[i]
  BY SequenceLength, SMT
<1>2. ItemsTotal(items) = Total(s) /\ ItemsTotal(more) = Total(t)
  BY <1>1 DEF ItemsTotal
<1> HIDE DEF more, n
<1>3. Len(s) = n
  <2>1. s \in Seq({ItemSize(items[i]) : i \in 1 .. n})
    BY <1>1, IsASeq
  <2>2. DOMAIN s = 1 .. n
    OBVIOUS
  <2> HIDE DEF s
  <2> QED
    BY <1>1, <2>1, <2>2, LenProperties, SMT
<1>4. Len(t) = n + 1
  <2> DEFINE m == n + 1
  <2> HIDE DEF m
  <2>1. t \in Seq({ItemSize(more[i]) : i \in 1 .. m})
    <3>1. t = [i \in 1 .. m |-> ItemSize(more[i])]
      BY DEF m
    <3>2. m \in Nat
      BY <1>1 DEF m
    <3> HIDE DEF t
    <3> QED
      BY <3>1, <3>2, IsASeq
  <2>2. DOMAIN t = 1 .. m
    BY DEF m
  <2>3. m \in Nat
    BY <1>1 DEF m
  <2> HIDE DEF t
  <2>4. Len(t) = m
    BY <2>1, <2>2, <2>3, LenProperties, SMT
  <2> QED
    BY <2>4 DEF m
<1>5. \A i \in 1 .. n : i \in 1 .. n + 1
  BY <1>1, SMT
<1>6. \A i \in 1 .. n : s[i] = t[i]
  BY <1>1, <1>5
<1>7. n + 1 \in 1 .. n + 1
  BY <1>1, SMT
<1>8. t[n + 1] = ItemSize(x)
  BY <1>1, <1>7
<1> HIDE DEF s, t
<1>9. Total(t) = Total(s) + t[Len(t)]
  BY <1>1, <1>3, <1>4, <1>6, TotalMore DEF SameUpTo
<1> QED
  BY <1>2, <1>4, <1>8, <1>9 DEF more

\* The last part of every step below: a decoded snapshot, or one that is not.
LEMMA SnapStepKeeps ==
    ASSUME MInv, UNCHANGED <<wire, behind>>, Good(unpacker)', SnapShape', IsSequence(snap'.items),
           snap'.itemsLen \in Int, (Len(snap.items) <= ItemsBound)', heap' \subseteq {"keys", "items"},
           phase' \in {"items", "decoded", "outside"},
           phase' = "items" => Loop', phase' = "decoded" => SnapHandedOut',
           kind' \in Kinds \cup {"UNKNOWN"}
    PROVE  MInv'
<1>1. WireOK'
  BY DEF MInv, WireOK
<1>2. phase' \in Phases /\ phase' \notin Before \cup {"snapshot", "freed"}
  BY DEF Phases, Before
<1>3. SnapHandedOut' /\ SnapIsFreed'
  BY <1>2 DEF SnapHandedOut, SnapIsFreed
<1>4. Typed(unpacker)'
  <2>1. Len(wire) \in Nat /\ Len(behind) \in Nat
    BY Lengths DEF MInv
  <2>2. \A a \in 0 .. Len(wire) : a \in 0 .. Len(wire) + Len(behind)
    BY <2>1, SMT
  <2> QED
    BY <2>2 DEF Good, Typed
<1> QED
  BY <1>1, <1>2, <1>3, <1>4 DEF MInv, IsSequence

LEMMA ReturnError ==
    ASSUME MInv, phase \in {"snapshot", "items"}, NEW error,
           error \notin {"NONE", "UNKNOWN_MESSAGE"}, ReturnTo(error)
    PROVE  phase' = "decoded" /\ SnapHandedOut' /\ kind' \in Kinds \cup {"UNKNOWN"}
  BY DEF ReturnTo, MInv, SnapHandedOut, Kept

LEMMA ReturnSnap ==
    ASSUME ReturnTo("NONE")
    PROVE  phase' = "decoded" /\ kind' = "SNAPSINGLE" /\ kind' \in Kinds \cup {"UNKNOWN"}
  BY DEF ReturnTo, Kinds, SystemId

LEMMA SnapBeginKeeps ==
    ASSUME MInv, SnapBegin, UNCHANGED <<wire, behind>>
    PROVE  MInv'
<1> DEFINE removed == GetInt(unpacker)
           count   == GetInt(removed)
           zero    == GetInt(count)
           keys    == GetInts(zero, removed.value)
           counted == [keysLen  |-> removed.value, keysData  |-> Pointer(removed.value), keys  |-> <<>>,
                       itemsLen |-> count.value,   itemsData |-> Pointer(count.value),   items |-> <<>>]
           read    == [i \in 1 .. keys.at - zero.at |-> wire[zero.at + i].value]
           keyed   == [counted EXCEPT !.keysData = Allocated(removed.value), !.keys = read]
           keysIn  == IF removed.value = 0 THEN {} ELSE {"keys"}
<1>1. phase = "snapshot" /\ snap = NoSnap /\ heap = {} /\ WireOK /\ Good(unpacker)
      /\ (unpacker.err = "NONE" => unpacker.at = 5)
      /\ kind \in Kinds \cup {"UNKNOWN"}
  BY DEF MInv, SnapBegin
<1>2. Reads(unpacker, removed, 1)
  BY <1>1, GetIntReads
<1>3. Reads(removed, count, 1)
  BY <1>1, <1>2, GetIntReads DEF Reads
<1>4. Reads(count, zero, 1)
  BY <1>1, <1>3, GetIntReads DEF Reads
<1>5. removed.value \in Int /\ count.value \in Int /\ Good(zero) /\ Good(count) /\ Good(removed)
  BY <1>2, <1>3, <1>4 DEF Reads, Good
<1>6. Reads(zero, keys, IF removed.value > 0 THEN removed.value ELSE 0)
  BY <1>1, <1>5, GetIntsReads
<1>7. \/ /\ zero.err # "NONE" /\ unpacker' = zero /\ snap' = counted /\ heap' = heap
         /\ ReturnTo(zero.err)
      \/ /\ phase' = "outside" /\ UNCHANGED <<unpacker, snap, heap, kind>>
      \/ /\ keys.err # "NONE" /\ unpacker' = keys /\ snap' = keyed /\ heap' = heap \cup keysIn
         /\ ReturnTo(keys.err)
      \/ /\ keys.err = "NONE" /\ removed.value >= 0 /\ count.value = 0
         /\ unpacker' = keys /\ snap' = keyed /\ heap' = heap \cup keysIn
         /\ ReturnTo("NONE")
      \/ /\ keys.err = "NONE" /\ removed.value >= 0 /\ count.value > 0
         /\ unpacker' = keys /\ snap' = [keyed EXCEPT !.itemsData = "array"]
         /\ heap' = heap \cup keysIn \cup {"items"}
         /\ phase' = "items" /\ UNCHANGED kind
  BY DEF SnapBegin
<1>9. /\ counted.keysLen = removed.value /\ counted.keysData = Pointer(removed.value)
      /\ counted.keys = <<>> /\ counted.itemsLen = count.value
      /\ counted.itemsData = Pointer(count.value) /\ counted.items = <<>>
  <2> HIDE DEF removed, count
  <2> QED
    BY SnapRecord
<1>13. counted = [keysLen  |-> counted.keysLen,  keysData  |-> counted.keysData,  keys  |-> counted.keys,
                  itemsLen |-> counted.itemsLen, itemsData |-> counted.itemsData, items |-> counted.items]
  BY <1>9
<1>8. keyed = [keysLen  |-> removed.value, keysData  |-> Allocated(removed.value), keys  |-> read,
               itemsLen |-> count.value,   itemsData |-> Pointer(count.value),     items |-> <<>>]
  <2> DEFINE a == Allocated(removed.value)
  <2> HIDE DEF a, removed, count, read, counted
  <2>1. [counted EXCEPT !.keysData = a, !.keys = read]
           = [keysLen |-> counted.keysLen, keysData |-> a, keys |-> read,
              itemsLen |-> counted.itemsLen, itemsData |-> counted.itemsData, items |-> counted.items]
    BY <1>13, KeysSet
  <2>2. keyed = [counted EXCEPT !.keysData = a, !.keys = read]
    BY DEF a
  <2> HIDE DEF keyed
  <2> QED
    BY <1>9, <2>1, <2>2 DEF a
<1>10. /\ keyed.keysLen = removed.value /\ keyed.keysData = Allocated(removed.value)
       /\ keyed.keys = read /\ keyed.itemsLen = count.value
       /\ keyed.itemsData = Pointer(count.value) /\ keyed.items = <<>>
  <2> HIDE DEF removed, count, read, keyed
  <2> QED
    BY <1>8, SnapRecord
<1>11. keys.err = "NONE" /\ removed.value >= 0 =>
          /\ keys.at = 8 + removed.value
          /\ Len(read) = removed.value
  <2> SUFFICES ASSUME keys.err = "NONE", removed.value >= 0
               PROVE  keys.at = 8 + removed.value /\ Len(read) = removed.value
    OBVIOUS
  <2>1. zero.err = "NONE" /\ keys.at = zero.at + (IF removed.value > 0 THEN removed.value ELSE 0)
    BY <1>6 DEF Reads
  <2>2. count.err = "NONE" /\ zero.at = count.at + 1
    BY <1>4, <2>1 DEF Reads
  <2>3. removed.err = "NONE" /\ count.at = removed.at + 1
    BY <1>3, <2>2 DEF Reads
  <2>4. removed.at = unpacker.at + 1 /\ unpacker.at = 5
    BY <1>1, <1>2, <2>3 DEF Reads
  <2> DEFINE n == keys.at - zero.at
  <2>5. zero.at = 8 /\ keys.at = 8 + removed.value /\ n = removed.value /\ n \in Nat
    <3> HIDE DEF removed, count, zero, keys
    <3> QED
      BY <1>5, <2>1, <2>2, <2>3, <2>4, SMT
  <2> HIDE DEF n
  <2>6. read = [i \in 1 .. n |-> wire[zero.at + i].value]
    BY DEF n
  <2> HIDE DEF read, removed, count, zero, keys
  <2> DEFINE V(i) == wire[zero.at + i].value
  <2>7. read \in Seq({V(i) : i \in 1 .. n}) /\ DOMAIN read = 1 .. n
    <3>1. read = [i \in 1 .. n |-> V(i)]
      BY <2>6
    <3>2. DOMAIN read = 1 .. n
      BY <3>1
    <3> HIDE DEF V
    <3>3. read \in Seq({V(i) : i \in 1 .. n})
      BY <2>5, <3>1, IsASeq
    <3> QED
      BY <3>2, <3>3
  <2>8. Len(read) = n
    BY <2>5, <2>7, LenProperties, SMT
  <2> QED
    BY <2>5, <2>8
<1>12. Good(keys)
  BY <1>6 DEF Reads
<1>14. keyed = [keysLen  |-> keyed.keysLen,  keysData  |-> keyed.keysData,  keys  |-> keyed.keys,
                itemsLen |-> keyed.itemsLen, itemsData |-> keyed.itemsData, items |-> keyed.items]
  BY <1>8, <1>10
<1> HIDE DEF removed, count, zero, keys, counted, read, keyed
<1>15. IsSequence(<<>>) /\ Len(<<>>) = 0
  <2>1. <<>> \in Seq({}) /\ Len(<<>>) = 0
    OBVIOUS
  <2> QED
    BY <2>1 DEF IsSequence
<1>16. CASE /\ zero.err # "NONE" /\ unpacker' = zero /\ snap' = counted /\ heap' = heap
            /\ ReturnTo(zero.err)
  <2>1. phase' = "decoded" /\ SnapHandedOut' /\ kind' \in Kinds \cup {"UNKNOWN"}
    BY <1>1, <1>5, <1>16, ReturnError DEF Good
  <2>2. Good(unpacker)' /\ SnapShape' /\ IsSequence(snap'.items) /\ snap'.itemsLen \in Int
    BY <1>5, <1>9, <1>13, <1>15, <1>16 DEF Good, SnapShape
  <2>3. (Len(snap.items) <= ItemsBound)'
    BY <1>5, <1>9, <1>15, <1>16, <2>1, SMT DEF ItemsBound
  <2> QED
    BY <1>1, <1>16, <2>1, <2>2, <2>3, SnapStepKeeps
<1>17. CASE phase' = "outside" /\ UNCHANGED <<unpacker, snap, heap, kind>>
  <2>1. Good(unpacker)' /\ SnapShape' /\ IsSequence(snap'.items) /\ snap'.itemsLen \in Int
    BY <1>1, <1>17 DEF Good, SnapShape, MInv
  <2>2. (Len(snap.items) <= ItemsBound)'
    <3>1. snap'.itemsLen = 0 /\ Len(snap'.items) = 0
      BY <1>1, <1>17, NoSnapOK
    <3> QED
      BY <1>17, <3>1, SMT DEF ItemsBound
  <2> QED
    BY <1>1, <1>17, <2>1, <2>2, SnapStepKeeps
<1>18. CASE /\ keys.err # "NONE" /\ unpacker' = keys /\ snap' = keyed /\ heap' = heap \cup keysIn
            /\ ReturnTo(keys.err)
  <2>1. phase' = "decoded" /\ SnapHandedOut' /\ kind' \in Kinds \cup {"UNKNOWN"}
    BY <1>1, <1>12, <1>18, ReturnError DEF Good
  <2>2. Good(unpacker)' /\ SnapShape' /\ IsSequence(snap'.items) /\ snap'.itemsLen \in Int
    BY <1>5, <1>10, <1>12, <1>14, <1>15, <1>18 DEF Good, SnapShape
  <2>3. (Len(snap.items) <= ItemsBound)'
    BY <1>5, <1>10, <1>15, <1>18, <2>1, SMT DEF ItemsBound
  <2>4. heap' \subseteq {"keys", "items"}
    BY <1>1, <1>18
  <2> QED
    BY <1>18, <2>1, <2>2, <2>3, <2>4, SnapStepKeeps
<1>19. CASE /\ keys.err = "NONE" /\ removed.value >= 0 /\ count.value = 0
            /\ unpacker' = keys /\ snap' = keyed /\ heap' = heap \cup keysIn
            /\ ReturnTo("NONE")
  <2>1. phase' = "decoded" /\ kind' = "SNAPSINGLE" /\ kind' \in Kinds \cup {"UNKNOWN"}
    BY <1>19, ReturnSnap
  <2>2. Good(unpacker)' /\ SnapShape' /\ IsSequence(snap'.items) /\ snap'.itemsLen \in Int
    BY <1>5, <1>10, <1>12, <1>14, <1>15, <1>19 DEF Good, SnapShape
  <2>3. (Len(snap.items) <= ItemsBound)'
    BY <1>5, <1>10, <1>15, <1>19, <2>1, SMT DEF ItemsBound
  <2>4. heap' \subseteq {"keys", "items"}
    BY <1>1, <1>19
  <2>5. SnapHandedOut'
    <3>1. snap'.keysData = Allocated(snap'.keysLen) /\ snap'.itemsData = Allocated(snap'.itemsLen)
      BY <1>10, <1>19 DEF Allocated, Pointer
    <3>2. Len(snap'.keys) = snap'.keysLen /\ Len(snap'.items) = snap'.itemsLen
      BY <1>10, <1>11, <1>15, <1>19
    <3>3. heap' = {a \in {"keys"} : snap'.keysLen > 0} \cup {a \in {"items"} : snap'.itemsLen > 0}
      <4>1. ~(snap'.itemsLen > 0) /\ (snap'.keysLen > 0 <=> removed.value # 0)
        BY <1>5, <1>10, <1>19, SMT
      <4> QED
        BY <1>1, <1>19, <4>1
    <3>4. unpacker'.at = SnapSize(snap')
      <4>1. SnapSize(snap') = 8 + snap'.keysLen + ItemsTotal(snap'.items)
        BY DEF SnapSize, ItemsTotal
      <4>2. ItemsTotal(snap'.items) = 0
        BY <1>10, <1>19, NoItemsTotal
      <4> QED
        BY <1>5, <1>10, <1>11, <1>19, <4>1, <4>2, SMT
    <3> QED
      BY <3>1, <3>2, <3>3, <3>4 DEF SnapHandedOut
  <2> QED
    BY <1>19, <2>1, <2>2, <2>3, <2>4, <2>5, SnapStepKeeps
<1>20. CASE /\ keys.err = "NONE" /\ removed.value >= 0 /\ count.value > 0
            /\ unpacker' = keys /\ snap' = [keyed EXCEPT !.itemsData = "array"]
            /\ heap' = heap \cup keysIn \cup {"items"}
            /\ phase' = "items" /\ UNCHANGED kind
  <2>0. snap' = [keysLen  |-> keyed.keysLen,  keysData  |-> keyed.keysData,  keys  |-> keyed.keys,
                 itemsLen |-> keyed.itemsLen, itemsData |-> "array",         items |-> keyed.items]
    BY <1>14, <1>20, SnapSet
  <2>1. /\ snap'.keysLen = removed.value /\ snap'.keysData = Allocated(removed.value)
        /\ snap'.keys = read /\ snap'.itemsLen = count.value
        /\ snap'.itemsData = "array" /\ snap'.items = <<>>
    BY <1>10, <2>0, SnapRecord
  <2>2. Good(unpacker)' /\ SnapShape' /\ IsSequence(snap'.items) /\ snap'.itemsLen \in Int
    <3>1. SnapShape'
      BY <1>10, <2>0, <2>1 DEF SnapShape
    <3> QED
      BY <1>5, <1>12, <1>15, <1>20, <2>1, <3>1 DEF Good
  <2>3. (Len(snap.items) <= ItemsBound)'
    BY <1>5, <1>15, <1>20, <2>1, SMT DEF ItemsBound
  <2>4. heap' \subseteq {"keys", "items"}
    BY <1>1, <1>20
  <2>5. Loop'
    <3>1. ItemsTotal(snap'.items) = 0
      BY <2>1, NoItemsTotal
    <3>2. unpacker'.at = 8 + snap'.keysLen + ItemsTotal(snap'.items)
          /\ ItemsTotal(snap'.items) \in Int /\ snap'.keysLen \in Nat /\ snap'.itemsLen > 0
          /\ (snap'.keysLen > 0 <=> removed.value # 0)
      BY <1>5, <1>11, <1>20, <2>1, <3>1, SMT
    <3>3. heap' = {a \in {"keys"} : snap'.keysLen > 0} \cup {"items"}
      BY <1>1, <1>20, <3>2
    <3> QED
      BY <1>11, <1>20, <2>1, <3>2, <3>3 DEF Loop
  <2> QED
    BY <1>1, <1>20, <2>2, <2>3, <2>4, <2>5, SnapStepKeeps
<1> QED
  BY <1>7, <1>16, <1>17, <1>18, <1>19, <1>20

LEMMA SnapItemKeeps ==
    ASSUME MInv, SnapItem, UNCHANGED <<wire, behind>>
    PROVE  MInv'
<1>1. /\ phase = "items" /\ Loop /\ WireOK /\ Good(unpacker) /\ SnapShape
      /\ IsSequence(snap.items) /\ snap.itemsLen \in Int /\ Len(snap.items) <= snap.itemsLen - 1
      /\ heap \subseteq {"keys", "items"}
      /\ kind \in Kinds \cup {"UNKNOWN"}
  BY DEF MInv, SnapItem, ItemsBound
<1> DEFINE d == DecodeItem(unpacker)
<1>2. /\ unpacker' = d.u /\ heap' = heap
      /\ \/ d.err # "NONE" /\ snap' = snap /\ ReturnTo(d.err)
         \/ /\ d.err = "NONE" /\ snap' = [snap EXCEPT !.items = Append(@, d.item)]
            /\ IF MoreItems(Len(snap.items) + 1) THEN phase' = "items" /\ UNCHANGED <<err, kind>>
               ELSE ReturnTo("NONE")
  BY DEF SnapItem
<1>3. /\ Good(d.u) /\ d.err # "UNKNOWN_MESSAGE"
      /\ d.err = "NONE" => /\ d.u.err = "NONE" /\ ItemSize(d.item) \in Int
                           /\ d.u.at = unpacker.at + ItemSize(d.item)
  BY <1>1, DecodeItemReads
<1> HIDE DEF d
<1>4. Len(snap.items) \in Nat
  BY <1>1, SequenceLength
<1>5. Good(unpacker)'
  BY <1>2, <1>3 DEF Good
<1>6. CASE d.err # "NONE" /\ snap' = snap /\ ReturnTo(d.err)
  <2>1. phase' = "decoded" /\ SnapHandedOut' /\ kind' \in Kinds \cup {"UNKNOWN"}
    BY <1>1, <1>3, <1>6, ReturnError
  <2>2. SnapShape' /\ IsSequence(snap'.items) /\ snap'.itemsLen \in Int
    BY <1>1, <1>6 DEF SnapShape
  <2>3. (Len(snap.items) <= ItemsBound)'
    BY <1>1, <1>4, <1>6, <2>1, SMT DEF ItemsBound
  <2> QED
    BY <1>1, <1>2, <1>5, <2>1, <2>2, <2>3, SnapStepKeeps
<1>7. CASE /\ d.err = "NONE" /\ snap' = [snap EXCEPT !.items = Append(@, d.item)]
           /\ IF MoreItems(Len(snap.items) + 1) THEN phase' = "items" /\ UNCHANGED <<err, kind>>
              ELSE ReturnTo("NONE")
  <2> DEFINE items == Append(snap.items, d.item)
  <2>1. snap' = [snap EXCEPT !.items = items]
    BY <1>7
  <2>2. IsSequence(items) /\ Len(items) = Len(snap.items) + 1
        /\ ItemsTotal(items) = ItemsTotal(snap.items) + ItemSize(d.item)
    BY <1>1, SequenceLength, OneItemMore
  <2> HIDE DEF items
  <2>3. snap' = [keysLen  |-> snap.keysLen,  keysData  |-> snap.keysData,  keys  |-> snap.keys,
                 itemsLen |-> snap.itemsLen, itemsData |-> snap.itemsData, items |-> items]
    BY <1>1, <2>1, SnapSet DEF SnapShape
  <2>4. /\ snap'.keysLen = snap.keysLen /\ snap'.keysData = snap.keysData /\ snap'.keys = snap.keys
        /\ snap'.itemsLen = snap.itemsLen /\ snap'.itemsData = snap.itemsData /\ snap'.items = items
    BY <2>3, SnapRecord
  <2>5. SnapShape' /\ IsSequence(snap'.items) /\ snap'.itemsLen \in Int
    BY <1>1, <2>2, <2>3, <2>4 DEF SnapShape
  <2>6. ItemsTotal(snap'.items) \in Int /\ unpacker'.at = 8 + snap'.keysLen + ItemsTotal(snap'.items)
    <3>1. ItemsTotal(snap.items) \in Int /\ snap.keysLen \in Int
          /\ unpacker.at = 8 + snap.keysLen + ItemsTotal(snap.items)
      BY <1>1, SMT DEF Loop
    <3>2. unpacker'.at = unpacker.at + ItemSize(d.item) /\ ItemSize(d.item) \in Int
      BY <1>2, <1>3, <1>7
    <3>3. ItemsTotal(snap'.items) = ItemsTotal(snap.items) + ItemSize(d.item) /\ snap'.keysLen = snap.keysLen
      BY <2>2, <2>4
    <3> DEFINE T == ItemsTotal(snap.items)
               U == ItemsTotal(snap'.items)
               n == ItemSize(d.item)
    <3>4. /\ T \in Int /\ n \in Int /\ snap.keysLen \in Int /\ U = T + n
          /\ unpacker.at = 8 + snap.keysLen + T /\ unpacker'.at = unpacker.at + n
      BY <3>1, <3>2, <3>3
    <3> HIDE DEF T, U, n
    <3>5. U \in Int /\ unpacker'.at = 8 + snap.keysLen + U
      BY <3>4, SMT
    <3> QED
      BY <3>3, <3>5 DEF U
  <2>7. heap' \subseteq {"keys", "items"}
    BY <1>1, <1>2
  <2>8. CASE MoreItems(Len(snap.items) + 1)
    <3>1. phase' = "items" /\ kind' = kind
      BY <1>7, <2>8
    <3>2. Loop'
      BY <1>1, <1>2, <1>3, <1>7, <2>4, <2>6 DEF Loop
    <3>3. (Len(snap.items) <= ItemsBound)'
      <4>1. Len(snap.items) + 1 < snap.itemsLen
        BY <2>8 DEF MoreItems
      <4> QED
        BY <1>1, <1>4, <2>2, <2>4, <3>1, <4>1, SMT DEF ItemsBound
    <3> QED
      BY <1>1, <1>5, <2>5, <2>7, <3>1, <3>2, <3>3, SnapStepKeeps
  <2>9. CASE ~MoreItems(Len(snap.items) + 1)
    <3>1. phase' = "decoded" /\ kind' = "SNAPSINGLE" /\ kind' \in Kinds \cup {"UNKNOWN"}
      BY <1>7, <2>9, ReturnSnap
    <3>2. Len(snap'.items) = snap'.itemsLen
      <4>1. ~(Len(snap.items) + 1 < snap.itemsLen)
        BY <2>9 DEF MoreItems
      <4> QED
        BY <1>1, <1>4, <2>2, <2>4, <4>1, SMT
    <3>3. (Len(snap.items) <= ItemsBound)'
      BY <1>1, <2>4, <3>1, <3>2, SMT DEF ItemsBound, Loop
    <3>4. SnapHandedOut'
      <4>1. snap'.itemsLen > 0 /\ snap'.itemsLen # 0
        BY <1>1, <2>4, SMT DEF Loop
      <4>2. snap'.keysData = Allocated(snap'.keysLen) /\ snap'.itemsData = Allocated(snap'.itemsLen)
        BY <1>1, <2>4, <4>1 DEF Loop, Allocated
      <4>3. heap' = {a \in {"keys"} : snap'.keysLen > 0} \cup {a \in {"items"} : snap'.itemsLen > 0}
        BY <1>1, <1>2, <2>4, <4>1 DEF Loop
      <4>4. Len(snap'.keys) = snap'.keysLen
        BY <1>1, <2>4 DEF Loop
      <4>5. unpacker'.at = SnapSize(snap')
        BY <2>6 DEF SnapSize, ItemsTotal
      <4> QED
        BY <3>2, <4>2, <4>3, <4>4, <4>5 DEF SnapHandedOut
    <3> QED
      BY <1>5, <2>5, <2>7, <3>1, <3>3, <3>4, SnapStepKeeps
  <2> QED
    BY <2>8, <2>9
<1> QED
  BY <1>2, <1>6, <1>7

LEMMA FreeKeeps ==
    ASSUME MInv, Free
    PROVE  MInv'
<1>1. /\ phase = "decoded" /\ Kept /\ kind = "SNAPSINGLE" /\ phase' = "freed"
      /\ UNCHANGED <<wire, behind, unpacker, kind>> /\ FreeSnapshot
  BY DEF Free
<1>2. /\ snap.keysData = Allocated(snap.keysLen) /\ snap.itemsData = Allocated(snap.itemsLen)
      /\ heap = {a \in {"keys"} : snap.keysLen > 0} \cup {a \in {"items"} : snap.itemsLen > 0}
  BY <1>1 DEF MInv, SnapHandedOut
<1>3. heap' = {}
  <2>1. snap.keysLen > 0 => snap.keysData = "array"
    <3>1. snap.keysLen > 0 => snap.keysLen # 0
      BY SMT
    <3> QED
      BY <1>2, <3>1 DEF Allocated
  <2>2. snap.itemsLen > 0 => snap.itemsData = "array"
    <3>1. snap.itemsLen > 0 => snap.itemsLen # 0
      BY SMT
    <3> QED
      BY <1>2, <3>1 DEF Allocated
  <2>3. heap' = heap \ ((IF snap.itemsData = "array" THEN {"items"} ELSE {})
                          \cup (IF snap.keysData = "array" THEN {"keys"} ELSE {}))
    BY <1>1 DEF FreeSnapshot
  <2> QED
    BY <1>2, <2>1, <2>2, <2>3
<1>4. snap' = [keysLen |-> 0, keysData |-> "NULL", keys |-> <<>>,
               itemsLen |-> 0, itemsData |-> "NULL", items |-> <<>>]
  <2> DEFINE w == [NoSnap EXCEPT !.keysData = "NULL"]
  <2>1. w = [keysLen |-> 0, keysData |-> "NULL", keys |-> <<>>,
             itemsLen |-> 0, itemsData |-> "unset", items |-> <<>>]
    BY DEF NoSnap
  <2>2. snap' = [w EXCEPT !.itemsData = "NULL"]
    BY <1>1 DEF FreeSnapshot
  <2> HIDE DEF w
  <2> QED
    BY <2>1, <2>2
<1>5. /\ snap'.keysLen = 0 /\ snap'.keysData = "NULL" /\ snap'.itemsLen = 0
      /\ snap'.itemsData = "NULL" /\ snap'.items = <<>> /\ SnapShape'
  BY <1>4 DEF SnapShape
<1>6. IsSequence(snap'.items) /\ Len(snap'.items) = 0
  <2>1. <<>> \in Seq({}) /\ Len(<<>>) = 0
    OBVIOUS
  <2> QED
    BY <1>5, <2>1 DEF IsSequence
<1>7. (Len(snap.items) <= ItemsBound)' /\ snap'.itemsLen \in Int
  BY <1>1, <1>5, <1>6, SMT DEF ItemsBound
<1>8. WireOK' /\ Typed(unpacker)'
  BY <1>1 DEF MInv, WireOK, Typed
<1>9. phase' \in Phases /\ phase' \notin Before \cup {"snapshot", "items", "decoded"}
      /\ kind' \in Kinds \cup {"UNKNOWN"}
  BY <1>1 DEF Phases, Before, MInv
<1>10. SnapHandedOut' /\ SnapIsFreed'
  BY <1>1, <1>3, <1>5 DEF SnapHandedOut, SnapIsFreed
<1> QED
  BY <1>1, <1>3, <1>5, <1>6, <1>7, <1>8, <1>9, <1>10 DEF MInv, IsSequence

LEMMA StepKeeps == MInv /\ [Next]_vars => MInv'
<1> SUFFICES ASSUME MInv, [Next]_vars PROVE MInv'
  OBVIOUS
<1>1. ASSUME phase = "idle", NEW k \in Kinds, NEW m \in Payloads[k], Encode(k, m) PROVE MInv'
  BY <1>1, EncodeKeeps
<1>2. CASE /\ phase = "idle"
           /\ \/ \E k \in Kinds : \E m \in Payloads[k] : EncodeFails(k, m)
              \/ \E w \in UnknownWires : EncodeUnknown(w)
              \/ \E s \in Snapshots : SendSnapshot(s)
              \/ \E ints \in ForeignInts : SendForeign(ints)
  BY <1>2, OtherSendsKeep
<1>3. ASSUME NEW n \in 0 .. Len(wire), Cut(n) PROVE MInv'
  BY <1>3, CutKeeps
<1>4. CASE DecodeKnown
  BY <1>4, DecodeKnownKeeps
<1>5. CASE DecodeSnapSingle
  BY <1>5, DecodeSnapSingleKeeps
<1>6. CASE DecodeUnknown
  BY <1>6, DecodeUnknownKeeps
<1>7. CASE DecodeSnapshot
  BY <1>7, SnapBeginKeeps, SnapItemKeeps DEF DecodeSnapshot
<1>8. CASE Free
  BY <1>8, FreeKeeps
<1>9. CASE UNCHANGED vars
  <2>1. UNCHANGED <<phase, wire, behind, unpacker, err, kind, snap, heap>>
    BY <1>9 DEF vars
  <2>2. WireOK' /\ Typed(unpacker)' /\ Good(unpacker)' = Good(unpacker) /\ Loop' = Loop
        /\ SnapShape' /\ (Len(snap.items) <= ItemsBound)' /\ SnapHandedOut' /\ SnapIsFreed'
    BY <2>1 DEF MInv, WireOK, Typed, Good, Loop, SnapShape, ItemsBound, SnapHandedOut, Kept, SnapIsFreed
  <2> QED
    BY <2>1, <2>2 DEF MInv, IsSequence
<1> QED
  BY <1>1, <1>2, <1>3, <1>4, <1>5, <1>6, <1>7, <1>8, <1>9 DEF Next

LEMMA MInvAlways == Spec => []MInv
<1>1. Init => MInv
  BY MInitKeeps
<1>2. MInv /\ [Next]_vars => MInv'
  BY StepKeeps
<1> QED
  BY <1>1, <1>2, PTL DEF Spec

\* Whatever arrives, no more items of a snapshot are decoded than were counted,
\* and as long as a snapshot is decoded, integer by integer, the cursor stays
\* in the message.  Of the other messages nothing like that is said: a string
\* may take the cursor behind the message, and Behind is all that is known of
\* what is there (ddproto_decode_message, ddproto_decode_snapshot).
THEOREM MessagesTypes == Spec => []TypeOK
<1>1. MInv => TypeOK
  <2> SUFFICES ASSUME MInv PROVE TypeOK
    OBVIOUS
  <2>1. CASE phase \in {"snapshot", "items"}
    <3> DEFINE n == Len(wire)
    <3>1. unpacker.at \in 0 .. n /\ n \in Nat
      BY <2>1, LenProperties DEF MInv, Good, WireOK
    <3> HIDE DEF n
    <3>2. unpacker.at \in 0 .. n + 0
      BY <3>1, SMT
    <3> QED
      BY <2>1, <3>2 DEF MInv, TypeOK, Phases, ItemsBound, n
  <2>2. CASE phase \notin {"snapshot", "items"}
    BY <2>2 DEF MInv, TypeOK, Phases, Typed, ItemsBound
  <2> QED
    BY <2>1, <2>2
<1> QED
  BY <1>1, MInvAlways, PTL

\* A chunk that is handed out (without an error, or unknown) and says it is a
\* snapshot, whatever its kind was before, can be read and freed: the arrays
\* are allocated with the announced lengths and all entries were decoded, from
\* integers one after the other (ddproto_decode_snapshot).
THEOREM SnapshotsHandedOut == Spec => []SnapHandedOut
<1>1. MInv => SnapHandedOut
  BY DEF MInv
<1> QED
  BY <1>1, MInvAlways, PTL

\* Freeing a packet with a snapshot leaves nothing allocated and nothing
\* referred to (ddproto_free_snapshot).
THEOREM SnapshotsFreed == Spec => []SnapIsFreed
<1>1. MInv => SnapIsFreed
  BY DEF MInv
<1> QED
  BY <1>1, MInvAlways, PTL

-----------------------------------------------------------------------------
(* A message of this library, as it is read back *)

\* The value with which a field is on the wire.
ValueOf(k, m, j) == Packed(k, m, Encodes[k][j]).value

\* The value as which it is read.
GotOf(k, m, j) ==
    IF Encodes[k][j][1] = "string" THEN Sanitize(ValueOf(k, m, j)) ELSE ValueOf(k, m, j)

\* m was sent as a message of kind k, and what is left of it has come.
SentAs(k, m) ==
    /\ k \in DOMAIN Encodes /\ k \in Kinds /\ Settable(k, m) /\ ~ReadsUnset(k, m)
    /\ CutOf(wire, MessageOf(k, m)) /\ behind \in Seq(Int)

\* The members of the first i fields have come with their values, and no other.
MembersAre(k, m, got, i) ==
    /\ DOMAIN got = {Encodes[k][j][2] : j \in 1 .. i}
    /\ \A j \in 1 .. i : got[Encodes[k][j][2]] = GotOf(k, m, j)

\* The message ended before one of the first i fields, a string, and only the
\* members before it have come.
Lost(k, m, got, i) ==
    \E n \in 1 .. i :
       /\ n = Len(wire) /\ wire[n].whole = TRUE /\ Encodes[k][n][1] = "string"
       /\ \A j \in 1 .. n - 1 :
             Encodes[k][j][2] \in DOMAIN got /\ got[Encodes[k][j][2]] = GotOf(k, m, j)

\* The first i fields have come, and the unpacker is behind them.  Raw data of
\* no bytes, the last field, is not read.
Still(k, m, st, i) ==
    /\ i < Len(Encodes[k]) => Good(st.u) /\ st.u.at = i + 1 /\ wire[i + 1].whole = TRUE
    /\ MembersAre(k, m, st.msg, i)

\* One of the two, if there was no error; and there is none in a message that
\* is whole.
Came(k, m, st, i) ==
    /\ Unpacking(st)
    /\ st.u.err = "NONE" /\ st.u.outside = FALSE => Lost(k, m, st.msg, i) \/ Still(k, m, st, i)
    /\ wire = MessageOf(k, m) => st.u.err = "NONE" /\ st.u.outside = FALSE

LEMMA EncodesLength ==
    ASSUME NEW k \in DOMAIN Encodes
    PROVE  Len(Encodes[k]) \in Nat /\ DOMAIN Encodes[k] = 1 .. Len(Encodes[k])
  BY TablesAssumption, LenProperties

LEMMA SentWireOK ==
    ASSUME NEW k, NEW m, SentAs(k, m)
    PROVE  WireOK
  BY WireTyped DEF SentAs, CutOf

LEMMA PackedIs ==
    ASSUME NEW k, NEW m, NEW f
    PROVE  Packed(k, m, f).type = f[1] /\ Packed(k, m, f).whole = TRUE
<1> DEFINE v == IF f[2] = "buildinfo" THEN 1
                ELSE IF BehindOptions(k, m, f[2]) THEN 0
                ELSE IF k = "SV_TUNEPARAMS" THEN Scaled(m[f[2]]) ELSE m[f[2]]
<1>1. Packed(k, m, f) = Field(f[1], v)
  BY DEF Packed
<1> HIDE DEF v
<1>2. Packed(k, m, f) = [type |-> f[1], value |-> v, whole |-> TRUE]
  BY <1>1 DEF Field
<1> QED
  BY <1>2

\* What stands where the jth member is read.
Stands(k, m, j, u) ==
    /\ ~AtEnd(u) => /\ Here(u).type = Encodes[k][j][1] /\ Here(u).value = ValueOf(k, m, j)
                    /\ ~AtPart(u) => wire[j + 1].whole = TRUE
    /\ wire = MessageOf(k, m) => ~AtEnd(u) /\ ~AtPart(u)

LEMMA FieldHere ==
    ASSUME NEW k, NEW m, SentAs(k, m), NEW j \in 1 .. Len(Encodes[k]),
           NEW u, Good(u), u.at = j
    PROVE  Stands(k, m, j, u)
<1> DEFINE M == MessageOf(k, m)
<1>1. /\ Len(Encodes[k]) \in Nat /\ Len(M) = 1 + Len(Encodes[k])
      /\ M[j + 1] = Packed(k, m, Encodes[k][j])
  BY EncodesLength, MessageTyped DEF SentAs
<1>2. M[j + 1].type = Encodes[k][j][1] /\ M[j + 1].value = ValueOf(k, m, j) /\ M[j + 1].whole = TRUE
  <2> DEFINE p == Packed(k, m, Encodes[k][j])
  <2>1. p.type = Encodes[k][j][1] /\ p.whole = TRUE /\ p.value = ValueOf(k, m, j)
    <3>1. Packed(k, m, Encodes[k][j]).type = Encodes[k][j][1] /\ Packed(k, m, Encodes[k][j]).whole = TRUE
      BY PackedIs, Zenon
    <3> QED
      BY <3>1, Zenon DEF ValueOf
  <2>2. M[j + 1] = p
    BY <1>1
  <2> HIDE DEF M, p
  <2> QED
    BY <2>1, <2>2
<1>3. CutOf(wire, M) /\ Len(wire) \in Nat /\ j \in 0 .. Len(wire)
  BY SentWireOK, LenProperties DEF SentAs, WireOK, Good
<1> HIDE DEF M
<1>4. ASSUME ~AtEnd(u)
      PROVE  /\ Here(u).type = Encodes[k][j][1] /\ Here(u).value = ValueOf(k, m, j)
             /\ ~AtPart(u) => wire[j + 1].whole = TRUE
  <2>1. j + 1 \in 1 .. Len(wire)
    <3>1. j # Len(wire)
      BY <1>4 DEF AtEnd
    <3> QED
      BY <1>3, <3>1, SMT
  <2>2. /\ wire[j + 1].type = M[j + 1].type /\ wire[j + 1].value = M[j + 1].value
        /\ wire[j + 1].whole = M[j + 1].whole \/ wire[j + 1].whole = FALSE
    BY <1>3, <2>1 DEF CutOf
  <2>3. Here(u) = wire[j + 1] /\ (AtPart(u) <=> ~Here(u).whole)
    BY <1>4, SentWireOK, Inside
  <2> QED
    BY <1>2, <2>2, <2>3
<1>5. ASSUME wire = M
      PROVE  ~AtEnd(u) /\ ~AtPart(u)
  <2>1. ~AtEnd(u)
    BY <1>1, <1>5, SMT DEF AtEnd
  <2>2. Here(u).whole = TRUE /\ (AtPart(u) <=> ~Here(u).whole)
    BY <1>2, <1>5, <2>1, SentWireOK, Inside
  <2> QED
    BY <2>1, <2>2
<1> QED
  BY <1>4, <1>5 DEF M, Stands

\* What the jth field is read as, if there is no error: itself, unless it is a
\* string that begins behind the message.  There is no error if the message is
\* whole.
ReadAs(k, m, j, u, v, raw) ==
    /\ v.err = "NONE" /\ v.outside = FALSE =>
         \/ AtEnd(u) /\ Encodes[k][j][1] = "string"
         \/ v.value = GotOf(k, m, j) /\ (raw \/ (Good(v) /\ v.at = j + 1 /\ wire[j + 1].whole = TRUE))
    /\ wire = MessageOf(k, m) => v.err = "NONE" /\ v.outside = FALSE

LEMMA IntAs ==
    ASSUME NEW k, NEW m, SentAs(k, m), NEW j \in 1 .. Len(Encodes[k]), Encodes[k][j][1] = "int",
           NEW u, Good(u), u.outside = FALSE, u.err = "NONE", u.at = j,
           NEW v, v = GetInt(u)
    PROVE  ReadAs(k, m, j, u, v, FALSE)
<1>0. Stands(k, m, j, u)
  BY FieldHere
<1>1. Good(v) /\ v.outside = FALSE
  BY SentWireOK, GetIntReads DEF Reads
<1>2. CASE AtEnd(u) \/ AtPart(u)
  <2>1. v.err # "NONE"
    BY <1>2, SentWireOK, IntMissing
  <2>2. wire # MessageOf(k, m)
    BY <1>0, <1>2 DEF Stands
  <2> QED
    BY <2>1, <2>2 DEF ReadAs
<1>3. CASE ~AtEnd(u) /\ ~AtPart(u)
  <2>1. Here(u).type = "int" /\ Here(u).value = GotOf(k, m, j) /\ wire[j + 1].whole = TRUE
    BY <1>0, <1>3 DEF Stands, GotOf
  <2>2. v.at = u.at + 1 /\ v.err = u.err /\ v.value = Here(u).value
    BY <1>3, <2>1, SentWireOK, IntTaken
  <2> QED
    BY <1>1, <2>1, <2>2 DEF ReadAs
<1> QED
  BY <1>2, <1>3

LEMMA BoolAs ==
    ASSUME NEW k, NEW m, SentAs(k, m), NEW j \in 1 .. Len(Encodes[k]), Encodes[k][j][1] = "int",
           ValueOf(k, m, j) \in {0, 1},
           NEW u, Good(u), u.outside = FALSE, u.err = "NONE", u.at = j,
           NEW v, v = GetBool(u)
    PROVE  ReadAs(k, m, j, u, v, FALSE)
<1> DEFINE i == GetInt(u)
<1>1. ReadAs(k, m, j, u, i, FALSE)
  BY IntAs
<1>2. i.outside = FALSE
  BY SentWireOK, GetIntReads DEF Reads
<1>3. /\ v.outside = u.outside
      /\ i.value \in {0, 1} => v = i
      /\ i.value \notin {0, 1} => v.err # "NONE"
  BY SentWireOK, BoolRead
<1> HIDE DEF i
<1>4. CASE i.value \in {0, 1}
  BY <1>1, <1>3, <1>4
<1>5. CASE i.value \notin {0, 1}
  <2>1. i.err # "NONE"
    BY <1>1, <1>2, <1>5 DEF ReadAs, GotOf
  <2>2. wire # MessageOf(k, m)
    BY <1>1, <2>1 DEF ReadAs
  <2> QED
    BY <1>3, <1>5, <2>2 DEF ReadAs
<1> QED
  BY <1>4, <1>5

LEMMA StringAs ==
    ASSUME NEW k, NEW m, SentAs(k, m), NEW j \in 1 .. Len(Encodes[k]), Encodes[k][j][1] = "string",
           NEW u, Good(u), u.outside = FALSE, u.err = "NONE", u.at = j,
           NEW v, v = GetString(u)
    PROVE  ReadAs(k, m, j, u, v, FALSE)
<1>0. Stands(k, m, j, u)
  BY FieldHere
<1>1. CASE AtEnd(u)
  <2>1. wire # MessageOf(k, m)
    BY <1>0, <1>1 DEF Stands
  <2> QED
    BY <1>1, <2>1 DEF ReadAs
<1>2. CASE ~AtEnd(u) /\ AtPart(u)
  <2>1. v.err # "NONE"
    BY <1>2, SentWireOK, StringMissing
  <2>2. wire # MessageOf(k, m)
    BY <1>0, <1>2 DEF Stands
  <2> QED
    BY <2>1, <2>2 DEF ReadAs
<1>3. CASE ~AtEnd(u) /\ ~AtPart(u)
  <2>1. Here(u).type = "string" /\ Here(u).value = ValueOf(k, m, j) /\ wire[j + 1].whole = TRUE
    BY <1>0, <1>3 DEF Stands
  <2>2. v.at = u.at + 1 /\ v.err = u.err /\ v.value = Sanitize(Here(u).value) /\ v.outside = u.outside
    BY <1>3, <2>1, SentWireOK, StringTaken
  <2>3. v.value = GotOf(k, m, j)
    BY <2>1, <2>2 DEF GotOf
  <2>4. Good(v)
    <3>1. Typed(v)
      BY SentWireOK, GoodIsTyped, GetStringFollows DEF Follows
    <3>2. v.at \in 0 .. Len(wire)
      BY <1>3, <2>2, SentWireOK, HereIsField
    <3> QED
      BY <3>1, <3>2 DEF Typed, Good
  <2> QED
    BY <2>1, <2>2, <2>3, <2>4 DEF ReadAs
<1> QED
  BY <1>1, <1>2, <1>3

LEMMA RawAs ==
    ASSUME NEW k, NEW m, SentAs(k, m), NEW j \in 1 .. Len(Encodes[k]), Encodes[k][j][1] = "raw",
           NEW u, Good(u), u.outside = FALSE, u.err = "NONE", u.at = j,
           NEW n, n = ValueOf(k, m, j), n \in Nat,
           NEW v, v = GetRaw(u, n)
    PROVE  ReadAs(k, m, j, u, v, TRUE)
<1>0. Stands(k, m, j, u)
  BY FieldHere
<1>1. /\ v.outside = u.outside
      /\ v.err = "NONE" => v.value = n
      /\ n \in Nat /\ ~AtEnd(u) /\ ~AtPart(u) /\ Here(u).value = n => v.err = u.err
  BY SentWireOK, RawRead
<1>2. wire = MessageOf(k, m) => v.err = "NONE"
  BY <1>0, <1>1 DEF Stands
<1> QED
  BY <1>1, <1>2 DEF ReadAs, GotOf

LEMMA PackedValue ==
    ASSUME NEW k, NEW m, NEW f
    PROVE  Packed(k, m, f).value = IF f[2] = "buildinfo" THEN 1
                                   ELSE IF BehindOptions(k, m, f[2]) THEN 0
                                   ELSE IF k = "SV_TUNEPARAMS" THEN Scaled(m[f[2]]) ELSE m[f[2]]
<1> DEFINE v == IF f[2] = "buildinfo" THEN 1
                ELSE IF BehindOptions(k, m, f[2]) THEN 0
                ELSE IF k = "SV_TUNEPARAMS" THEN Scaled(m[f[2]]) ELSE m[f[2]]
<1>1. Packed(k, m, f) = Field(f[1], v)
  BY DEF Packed
<1> HIDE DEF v
<1>2. Packed(k, m, f) = [type |-> f[1], value |-> v, whole |-> TRUE]
  BY <1>1 DEF Field
<1>3. Packed(k, m, f).value = v
  BY <1>2
<1> QED
  BY <1>3 DEF v

\* A member that is not of the kind's own making was set.
LEMMA ValueIs ==
    ASSUME NEW k, NEW m, SentAs(k, m), NEW j \in 1 .. Len(Encodes[k]), NEW name, name = Encodes[k][j][2]
    PROVE  \/ name = "buildinfo" /\ ValueOf(k, m, j) = 1
           \/ BehindOptions(k, m, name) /\ ValueOf(k, m, j) = 0
           \/ /\ name # "buildinfo" /\ ~BehindOptions(k, m, name) /\ name \in DOMAIN m
              /\ ValueOf(k, m, j) = IF k = "SV_TUNEPARAMS" THEN Scaled(m[name]) ELSE m[name]
<1> DEFINE f == Encodes[k][j]
<1>1. f \in ToSet(Encodes[k])
  BY EncodesLength DEF ToSet, SentAs
<1>2. f[2] \in DOMAIN m \/ f[2] = "buildinfo" \/ BehindOptions(k, m, f[2])
  BY <1>1 DEF SentAs, ReadsUnset
<1>3. ValueOf(k, m, j) = IF f[2] = "buildinfo" THEN 1
                         ELSE IF BehindOptions(k, m, f[2]) THEN 0
                         ELSE IF k = "SV_TUNEPARAMS" THEN Scaled(m[f[2]]) ELSE m[f[2]]
  <2>1. ValueOf(k, m, j) = Packed(k, m, f).value
    BY DEF ValueOf
  <2> HIDE DEF f
  <2> QED
    BY <2>1, PackedValue
<1> HIDE DEF f
<1>4. f[2] = name
  BY DEF f
<1> QED
  BY <1>2, <1>3, <1>4

\* What is read as a bool was set as one.
LEMMA BoolValue ==
    ASSUME NEW k, NEW m, SentAs(k, m), NEW j \in 1 .. Len(Encodes[k]),
           NEW f \in ToSet(Decodes[k]), f[1] = "bool", f[2] = Encodes[k][j][2]
    PROVE  ValueOf(k, m, j) \in {0, 1}
<1>1. f[2] \in DOMAIN m => m[f[2]] \in {0, 1}
  BY DEF SentAs, Settable
<1> DEFINE name == f[2]
<1>2. \/ ValueOf(k, m, j) = 1
      \/ ValueOf(k, m, j) = 0
      \/ /\ name \in DOMAIN m
         /\ ValueOf(k, m, j) = IF k = "SV_TUNEPARAMS" THEN Scaled(m[name]) ELSE m[name]
  BY ValueIs
<1>3. \A n \in {0, 1} : Scaled(n) \in {0, 1}
  <2> TAKE n \in {0, 1}
  <2>1. n \in Int /\ -MaxTuneParam <= n /\ n <= MaxTuneParam
    BY SMT DEF MaxTuneParam
  <2>2. Scaled(n) = n \/ (n # 0 /\ Scaled(n) = n - (IF n > 0 THEN 1 ELSE -1))
    BY <2>1, ScaledNear
  <2> QED
    BY <2>2, SMT
<1> HIDE DEF name
<1>4. name \in DOMAIN m => m[name] \in {0, 1}
  BY <1>1 DEF name
<1> QED
  BY <1>2, <1>3, <1>4

\* Raw data is as long as the member before it says.
LEMMA RawValue ==
    ASSUME NEW k, NEW m, SentAs(k, m), NEW j \in 1 .. Len(Encodes[k]), Encodes[k][j][1] = "raw",
           NEW got, MembersAre(k, m, got, j - 1)
    PROVE  j = Len(Encodes[k]) /\ got.chunk_size = ValueOf(k, m, j) /\ ValueOf(k, m, j) \in Nat
<1>1. k = "MAP_DATA" /\ j = Len(Encodes[k])
  BY EncodesLength, TablesAssumption DEF SentAs
<1>2. /\ Len(Encodes["MAP_DATA"]) = 5
      /\ Encodes["MAP_DATA"][4][2] = "chunk_size" /\ Encodes["MAP_DATA"][5][2] = "data"
      /\ Encodes["MAP_DATA"][4][1] = "int"
  <2>1. Encodes["MAP_DATA"] = AllInts(<<"last", "map_crc", "chunk", "chunk_size">>) \o <<RawData("data")>>
    <3>1. "MAP_DATA" \in DOMAIN SystemEncodes
      BY DEF SystemEncodes
    <3>2. SystemEncodes["MAP_DATA"] = AllInts(<<"last", "map_crc", "chunk", "chunk_size">>) \o <<RawData("data")>>
      BY DEF SystemEncodes
    <3> QED
      BY <3>1, <3>2 DEF Encodes, Either
  <2> DEFINE a == AllInts(<<"last", "map_crc", "chunk", "chunk_size">>)
             b == <<RawData("data")>>
             S == {<<"int", "last">>, <<"int", "map_crc">>, <<"int", "chunk">>, <<"int", "chunk_size">>,
                   <<"raw", "data">>}
  <2>2. a = << <<"int", "last">>, <<"int", "map_crc">>, <<"int", "chunk">>, <<"int", "chunk_size">> >>
    BY SMT DEF AllInts, AnInt
  <2>3. Len(a) = 4 /\ a[4] = <<"int", "chunk_size">> /\ a \in Seq(S)
    <3> HIDE DEF a
    <3> QED
      BY <2>2
  <2>4. Len(b) = 1 /\ b[1] = <<"raw", "data">> /\ b \in Seq(S)
    BY DEF RawData
  <2> HIDE DEF a, b, S
  <2>5. /\ Len(a \o b) = Len(a) + Len(b)
        /\ \A i \in 1 .. Len(a) + Len(b) : (a \o b)[i] = IF i <= Len(a) THEN a[i] ELSE b[i - Len(a)]
    BY <2>3, <2>4, ConcatProperties
  <2>6. 4 \in 1 .. 4 + 1 /\ 5 \in 1 .. 4 + 1 /\ 4 <= 4 /\ ~(5 <= 4) /\ 5 - 4 = 1 /\ 4 + 1 = 5
    BY SMT
  <2>7. Len(a \o b) = 5 /\ (a \o b)[4] = <<"int", "chunk_size">> /\ (a \o b)[5] = <<"raw", "data">>
    BY <2>3, <2>4, <2>5, <2>6
  <2> QED
    BY <2>1, <2>7 DEF a, b
<1>3. j = 5 /\ 4 \in 1 .. Len(Encodes[k]) /\ 5 \in 1 .. Len(Encodes[k]) /\ 4 \in 1 .. j - 1
  BY <1>1, <1>2, SMT
<1>4. ~BehindOptions(k, m, "chunk_size") /\ ~BehindOptions(k, m, "data") /\ k # "SV_TUNEPARAMS"
  BY <1>1 DEF BehindOptions
<1>5. "chunk_size" \in DOMAIN m /\ ValueOf(k, m, 4) = m.chunk_size
  BY <1>1, <1>2, <1>3, <1>4, ValueIs
<1>6. "data" \in DOMAIN m /\ ValueOf(k, m, 5) = m.data
  BY <1>1, <1>2, <1>3, <1>4, ValueIs
<1>7. m.chunk_size \in Nat /\ m.data = m.chunk_size
  BY <1>1, <1>5, <1>6 DEF SentAs, Settable
<1>8. got.chunk_size = ValueOf(k, m, 4)
  <2>1. got[Encodes[k][4][2]] = GotOf(k, m, 4)
    BY <1>3 DEF MembersAre
  <2>2. GotOf(k, m, 4) = ValueOf(k, m, 4)
    BY <1>1, <1>2 DEF GotOf
  <2> QED
    BY <1>1, <1>2, <2>1, <2>2
<1> QED
  BY <1>1, <1>3, <1>5, <1>6, <1>7, <1>8

LEMMA MembersGrow ==
    ASSUME NEW k \in DOMAIN Encodes, NEW m, NEW j \in 1 .. Len(Encodes[k]),
           NEW got, MembersAre(k, m, got, j - 1), NEW name, name = Encodes[k][j][2]
    PROVE  MembersAre(k, m, Setting(got, name, GotOf(k, m, j)), j)
<1> DEFINE more == Setting(got, name, GotOf(k, m, j))
<1>1. Len(Encodes[k]) \in Nat /\ DOMAIN Encodes[k] = 1 .. Len(Encodes[k])
  BY EncodesLength
<1>2. 1 .. j = 1 .. j - 1 \cup {j} /\ j \notin 1 .. j - 1 /\ 1 .. j \subseteq DOMAIN Encodes[k]
  BY <1>1, SMT
<1>3. \A i \in 1 .. j - 1 : Encodes[k][i][2] # name
  <2>1. \A i \in DOMAIN Encodes[k] : Encodes[k][i][2] = Encodes[k][j][2] => i = j
    BY <1>1, TablesAssumption
  <2> QED
    BY <1>2, <2>1
<1>4. DOMAIN more = DOMAIN got \cup {name} /\ more[name] = GotOf(k, m, j)
      /\ \A i \in DOMAIN got : i # name => more[i] = got[i]
  BY DEF Setting
<1> HIDE DEF more
<1>5. DOMAIN more = {Encodes[k][i][2] : i \in 1 .. j}
  BY <1>2, <1>4 DEF MembersAre
<1>6. ASSUME NEW i \in 1 .. j PROVE more[Encodes[k][i][2]] = GotOf(k, m, i)
  <2>1. CASE i = j
    BY <1>4, <2>1
  <2>2. CASE i # j
    <3>1. i \in 1 .. j - 1
      BY <1>2, <2>2
    <3>2. Encodes[k][i][2] \in DOMAIN got /\ got[Encodes[k][i][2]] = GotOf(k, m, i)
      BY <3>1 DEF MembersAre
    <3> QED
      BY <1>3, <1>4, <3>1, <3>2
  <2> QED
    BY <2>1, <2>2
<1> QED
  BY <1>5, <1>6 DEF MembersAre, more

\* What was lost stays lost, and the members before it stay as they are.
LEMMA LostStays ==
    ASSUME NEW k \in DOMAIN Encodes, NEW m, NEW j \in 1 .. Len(Encodes[k]),
           NEW got, Lost(k, m, got, j - 1), NEW name, name = Encodes[k][j][2], NEW value
    PROVE  Lost(k, m, Setting(got, name, value), j)
<1> DEFINE more == Setting(got, name, value)
<1>1. Len(Encodes[k]) \in Nat /\ DOMAIN Encodes[k] = 1 .. Len(Encodes[k])
  BY EncodesLength
<1>2. PICK n \in 1 .. j - 1 :
         /\ n = Len(wire) /\ wire[n].whole = TRUE /\ Encodes[k][n][1] = "string"
         /\ \A i \in 1 .. n - 1 :
               Encodes[k][i][2] \in DOMAIN got /\ got[Encodes[k][i][2]] = GotOf(k, m, i)
  BY Zenon DEF Lost
<1>3. n \in 1 .. j /\ \A i \in 1 .. n - 1 : i \in DOMAIN Encodes[k] /\ i # j
  BY <1>1, SMT
<1>4. \A i \in 1 .. n - 1 : Encodes[k][i][2] # name
  <2>1. \A i \in DOMAIN Encodes[k] : Encodes[k][i][2] = Encodes[k][j][2] => i = j
    BY <1>1, TablesAssumption
  <2> QED
    BY <1>3, <2>1
<1>5. DOMAIN more = DOMAIN got \cup {name} /\ \A i \in DOMAIN got : i # name => more[i] = got[i]
  BY DEF Setting
<1> HIDE DEF more
<1>6. \A i \in 1 .. n - 1 : Encodes[k][i][2] \in DOMAIN more /\ more[Encodes[k][i][2]] = GotOf(k, m, i)
  BY <1>2, <1>4, <1>5
<1>7. Lost(k, m, more, j)
  BY <1>2, <1>3, <1>6, Zenon DEF Lost
<1> QED
  BY <1>7 DEF more

LEMMA LostIsCut ==
    ASSUME NEW k, NEW m, SentAs(k, m), NEW i \in Int, i <= Len(Encodes[k]), NEW got, Lost(k, m, got, i)
    PROVE  wire # MessageOf(k, m)
<1>1. Len(MessageOf(k, m)) = 1 + Len(Encodes[k]) /\ Len(Encodes[k]) \in Nat
  BY EncodesLength, MessageTyped DEF SentAs
<1>2. PICK n \in 1 .. i : n = Len(wire)
  BY DEF Lost
<1>3. n # 1 + Len(Encodes[k])
  BY <1>1, SMT
<1> QED
  BY <1>1, <1>2, <1>3

\* Unpacking the jth member where the unpacker is.
ReadHere(k, m, j, f, st, after) ==
    /\ ReadAs(k, m, j, st.u, after.u, Encodes[k][j][1] = "raw")
    /\ Encodes[k][j][1] = "raw" => j = Len(Encodes[k])
    /\ after.msg = Setting(st.msg, f[2], after.u.value)

LEMMA UnpackHere ==
    ASSUME NEW k, NEW m, SentAs(k, m), NEW j \in 1 .. Len(Encodes[k]),
           NEW f, f[2] = Encodes[k][j][2], SameType(Encodes[k][j][1], f[1]),
           f[1] = "bool" => f \in ToSet(Decodes[k]),
           NEW st, Good(st.u), st.u.at = j, st.u.err = "NONE", st.u.outside = FALSE,
           MembersAre(k, m, st.msg, j - 1)
    PROVE  ReadHere(k, m, j, f, st, Unpack(st, f))
<1> DEFINE type == Encodes[k][j][1]
           v == CASE f[1] = "int"    -> GetInt(st.u)
                  [] f[1] = "bool"   -> GetBool(st.u)
                  [] f[1] = "string" -> GetString(st.u)
                  [] OTHER           -> GetRaw(st.u, st.msg.chunk_size)
           w == [u |-> v, msg |-> Setting(st.msg, f[2], v.value)]
<1>1. Unpack(st, f) = w
  BY DEF Unpack
<1>2. w.u = v /\ w.msg = Setting(st.msg, f[2], v.value)
  OBVIOUS
<1>3. type \in FieldTypes
  <2>1. Len(Encodes[k]) \in Nat /\ k \in DOMAIN Encodes
    BY EncodesLength DEF SentAs
  <2>2. Encodes[k][j] \in FieldTypes \X STRING
    BY <2>1, TablesAssumption, ElementOfSeq
  <2> QED
    BY <2>2, SMT
<1>4. ReadAs(k, m, j, st.u, v, type = "raw") /\ (type = "raw" => j = Len(Encodes[k]))
  <2>1. CASE type = "int" /\ f[1] = "int"
    <3>1. v = GetInt(st.u)
      BY <2>1
    <3> HIDE DEF v
    <3>2. ReadAs(k, m, j, st.u, v, FALSE)
      BY <2>1, <3>1, IntAs
    <3> QED
      BY <2>1, <3>2 DEF ReadAs
  <2>2. CASE type = "int" /\ f[1] = "bool"
    <3>1. v = GetBool(st.u)
      BY <2>2
    <3>2. ValueOf(k, m, j) \in {0, 1}
      BY <2>2, BoolValue
    <3> HIDE DEF v
    <3>3. ReadAs(k, m, j, st.u, v, FALSE)
      BY <2>2, <3>1, <3>2, BoolAs
    <3> QED
      BY <2>2, <3>3 DEF ReadAs
  <2>3. CASE type = "string" /\ f[1] = "string"
    <3>1. v = GetString(st.u)
      BY <2>3
    <3> HIDE DEF v
    <3>2. ReadAs(k, m, j, st.u, v, FALSE)
      BY <2>3, <3>1, StringAs
    <3> QED
      BY <2>3, <3>2 DEF ReadAs
  <2>4. CASE type = "raw" /\ f[1] = "raw"
    <3>1. v = GetRaw(st.u, st.msg.chunk_size)
      BY <2>4
    <3>2. j = Len(Encodes[k]) /\ st.msg.chunk_size = ValueOf(k, m, j) /\ ValueOf(k, m, j) \in Nat
      BY <2>4, RawValue
    <3> HIDE DEF v
    <3>3. ReadAs(k, m, j, st.u, v, TRUE)
      BY <2>4, <3>1, <3>2, RawAs
    <3> QED
      BY <2>4, <3>2, <3>3 DEF ReadAs
  <2> QED
    BY <1>3, <2>1, <2>2, <2>3, <2>4 DEF SameType, FieldTypes
<1> HIDE DEF v, w
<1> QED
  BY <1>1, <1>2, <1>4 DEF ReadHere

\* Unpacking the jth member.
LEMMA UnpackStep ==
    ASSUME NEW k, NEW m, SentAs(k, m), NEW j \in 1 .. Len(Encodes[k]),
           NEW f, f[2] = Encodes[k][j][2], SameType(Encodes[k][j][1], f[1]),
           f[1] = "bool" => f \in ToSet(Decodes[k]),
           NEW st, Came(k, m, st, j - 1)
    PROVE  Came(k, m, Unpack(st, f), j)
<1> DEFINE w == Unpack(st, f)
<1>1. Unpacking(w) /\ (w.u.err = "NONE" => st.u.err = "NONE")
  BY SentWireOK, UnpackFollows DEF Came
<1>2. st.u.outside \in BOOLEAN /\ k \in DOMAIN Encodes /\ Len(Encodes[k]) \in Nat
  BY EncodesLength DEF Came, Unpacking, Typed, SentAs
<1>3. CASE st.u.outside = TRUE
  <2>1. w = st
    BY <1>3 DEF Unpack
  <2> HIDE DEF w
  <2> QED
    BY <1>1, <1>3, <2>1 DEF Came, w
<1>4. CASE st.u.err # "NONE"
  <2> HIDE DEF w
  <2> QED
    BY <1>1, <1>4 DEF Came, w
<1>5. CASE st.u.outside = FALSE /\ st.u.err = "NONE" /\ Lost(k, m, st.msg, j - 1)
  <2>1. \E value : w.msg = Setting(st.msg, f[2], value)
    BY <1>5 DEF Unpack
  <2>2. j - 1 \in Int /\ j - 1 <= Len(Encodes[k])
    BY <1>2, SMT
  <2> HIDE DEF w
  <2>3. Lost(k, m, w.msg, j)
    BY <1>2, <1>5, <2>1, LostStays
  <2>4. wire # MessageOf(k, m)
    BY <1>5, <2>2, LostIsCut
  <2> QED
    BY <1>1, <2>3, <2>4 DEF Came, w
<1>6. CASE st.u.outside = FALSE /\ st.u.err = "NONE" /\ Still(k, m, st, j - 1)
  <2>1. Good(st.u) /\ st.u.at = j /\ wire[j].whole = TRUE /\ MembersAre(k, m, st.msg, j - 1)
    <3>1. j - 1 < Len(Encodes[k]) /\ (j - 1) + 1 = j
      BY <1>2, SMT
    <3> QED
      BY <1>6, <3>1 DEF Still
  <2>2. /\ ReadAs(k, m, j, st.u, w.u, Encodes[k][j][1] = "raw")
        /\ Encodes[k][j][1] = "raw" => j = Len(Encodes[k])
        /\ w.msg = Setting(st.msg, f[2], w.u.value)
    <3>1. ReadHere(k, m, j, f, st, Unpack(st, f))
      BY <1>6, <2>1, UnpackHere
    <3> QED
      BY <3>1 DEF ReadHere
  <2> HIDE DEF w
  <2>3. ASSUME AtEnd(st.u), Encodes[k][j][1] = "string"
        PROVE  Lost(k, m, w.msg, j)
    <3>1. j = Len(wire) /\ j \in 1 .. j
      BY <2>1, <2>3, SMT DEF AtEnd
    <3>2. \A i \in 1 .. j - 1 :
             Encodes[k][i][2] \in DOMAIN st.msg /\ st.msg[Encodes[k][i][2]] = GotOf(k, m, i)
      BY <2>1 DEF MembersAre
    <3>3. Lost(k, m, st.msg, j)
      BY <2>1, <2>3, <3>1, <3>2, Zenon DEF Lost
    <3>4. \A i \in 1 .. j - 1 : Encodes[k][i][2] # f[2]
      <4>1. \A i \in DOMAIN Encodes[k] : Encodes[k][i][2] = Encodes[k][j][2] => i = j
        BY <1>2, EncodesLength, TablesAssumption
      <4>2. \A i \in 1 .. j - 1 : i \in DOMAIN Encodes[k] /\ i # j
        BY <1>2, EncodesLength, SMT
      <4> QED
        BY <4>1, <4>2
    <3>5. /\ DOMAIN w.msg = DOMAIN st.msg \cup {f[2]}
          /\ \A i \in DOMAIN st.msg : i # f[2] => w.msg[i] = st.msg[i]
      BY <2>2 DEF Setting
    <3>6. \A i \in 1 .. j - 1 :
             Encodes[k][i][2] \in DOMAIN w.msg /\ w.msg[Encodes[k][i][2]] = GotOf(k, m, i)
      BY <3>2, <3>4, <3>5
    <3> QED
      BY <2>1, <2>3, <3>1, <3>6, Zenon DEF Lost
  <2>4. ASSUME w.u.value = GotOf(k, m, j),
               Encodes[k][j][1] = "raw" \/ (Good(w.u) /\ w.u.at = j + 1 /\ wire[j + 1].whole = TRUE)
        PROVE  Still(k, m, w, j)
    <3>1. MembersAre(k, m, w.msg, j)
      BY <1>2, <2>1, <2>2, <2>4, MembersGrow
    <3>2. Encodes[k][j][1] = "raw" => ~(j < Len(Encodes[k]))
      BY <1>2, <2>2, SMT
    <3> QED
      BY <2>4, <3>1, <3>2 DEF Still
  <2> QED
    BY <1>1, <2>2, <2>3, <2>4 DEF Came, ReadAs, w
<1> QED
  BY <1>2, <1>3, <1>4, <1>5, <1>6 DEF Came

\* Unpacking the members behind the first o.
LEMMA UnpackAllCame ==
    ASSUME NEW k, NEW m, SentAs(k, m), NEW o \in Nat, NEW s, Len(s) \in Nat,
           o + Len(s) <= Len(Encodes[k]),
           \A i \in 1 .. Len(s) :
              /\ s[i][2] = Encodes[k][o + i][2] /\ SameType(Encodes[k][o + i][1], s[i][1])
              /\ s[i][1] = "bool" => s[i] \in ToSet(Decodes[k]),
           NEW st, Came(k, m, st, o)
    PROVE  Came(k, m, UnpackAll(st, s), o + Len(s))
<1> DEFINE n == Len(s)
<1>1. PICK g : Unpacks(g, st, s, n) /\ UnpackAll(st, s) = g[n]
  BY UnpackAllLast
<1>2. n \in Nat /\ o + n <= Len(Encodes[k]) /\ Len(Encodes[k]) \in Nat
  BY EncodesLength DEF SentAs
<1>3. \A i \in 1 .. n : /\ s[i][2] = Encodes[k][o + i][2] /\ SameType(Encodes[k][o + i][1], s[i][1])
                        /\ s[i][1] = "bool" => s[i] \in ToSet(Decodes[k])
  OBVIOUS
<1> HIDE DEF n
<1> DEFINE H == {i \in Nat : i \in 0 .. n => Came(k, m, g[i], o + i)}
<1>4. 0 \in H
  <2>1. 0 \in 0 .. n /\ o + 0 = o
    BY <1>2, SMT
  <2>2. g[0] = st
    BY <1>1, <2>1 DEF Unpacks
  <2> QED
    BY <2>1, <2>2
<1>5. ASSUME NEW i \in Nat, i \in H PROVE i + 1 \in H
  <2> SUFFICES ASSUME i + 1 \in 0 .. n PROVE Came(k, m, g[i + 1], o + (i + 1))
    OBVIOUS
  <2>1. /\ i \in 0 .. n /\ (i + 1) - 1 = i /\ i + 1 # 0 /\ i + 1 \in 1 .. n
        /\ o + (i + 1) \in 1 .. Len(Encodes[k]) /\ (o + (i + 1)) - 1 = o + i
    BY <1>2, SMT
  <2>2. g[i + 1] = Unpack(g[i], s[i + 1])
    BY <1>1, <2>1 DEF Unpacks
  <2>3. Came(k, m, g[i], (o + (i + 1)) - 1)
    BY <1>5, <2>1
  <2> DEFINE j == o + (i + 1)
             f == s[i + 1]
  <2>4. f[2] = Encodes[k][j][2] /\ SameType(Encodes[k][j][1], f[1]) /\ (f[1] = "bool" => f \in ToSet(Decodes[k]))
    BY <1>3, <2>1
  <2>5. j \in 1 .. Len(Encodes[k]) /\ Came(k, m, g[i], j - 1)
    BY <2>1, <2>3
  <2>6. g[i + 1] = Unpack(g[i], f)
    BY <2>2
  <2> HIDE DEF j, f
  <2>7. Came(k, m, Unpack(g[i], f), j)
    BY <2>4, <2>5, UnpackStep
  <2> QED
    BY <2>6, <2>7 DEF j
<1> HIDE DEF H
<1>6. n \in H
  BY <1>2, <1>4, <1>5, Induction
<1>7. n \in 0 .. n
  BY <1>2, SMT
<1> QED
  BY <1>1, <1>6, <1>7 DEF H, n

-----------------------------------------------------------------------------
(* The ids *)

LEMMA SystemIdsAreNat ==
    ASSUME NEW k \in DOMAIN SystemId
    PROVE  SystemId[k] \in Nat
  BY SMT DEF SystemId

LEMMA GameIdsAreNat ==
    ASSUME NEW k \in DOMAIN GameId
    PROVE  GameId[k] \in Nat /\ GameId[k] # 0
  BY SMT DEF GameId

LEMMA DecodedHaveIds ==
    /\ DOMAIN SystemDecodes \cup {"SNAPSINGLE"} \subseteq DOMAIN SystemId
    /\ DOMAIN GameDecodes \subseteq DOMAIN GameId
<1>1. DOMAIN SystemDecodes \cup {"SNAPSINGLE"} \subseteq DOMAIN SystemId
  BY DEF SystemDecodes, SystemId
<1>2. DOMAIN GameDecodes \subseteq DOMAIN GameId
  BY DEF GameDecodes, GameId
<1> QED
  BY <1>1, <1>2

LEMMA EncodedKinds ==
    ASSUME NEW k \in DOMAIN Encodes
    PROVE  k \in DOMAIN Decodes /\ k \in Kinds /\ k # "SNAPSINGLE" /\ k # "UNKNOWN"
<1>1. k \in DOMAIN Decodes
  BY TablesAssumption
<1>2. k \in DOMAIN SystemEncodes \cup DOMAIN GameEncodes
  BY DEF Encodes, Either
<1>3. DOMAIN SystemEncodes \cap {"SNAPSINGLE", "UNKNOWN"} = {}
  BY DEF SystemEncodes
<1>4. DOMAIN GameEncodes \cap {"SNAPSINGLE", "UNKNOWN"} = {}
  BY DEF GameEncodes
<1>5. k \in Kinds
  BY <1>1, DecodedHaveIds DEF Decodes, Either, Kinds
<1> QED
  BY <1>1, <1>2, <1>3, <1>4, <1>5

\* An id belongs to one message.
LEMMA NamedById ==
    ASSUME NEW k \in DOMAIN Encodes
    PROVE  Named(IdField(k).value) = {k}
<1> DEFINE v == IF k \in DOMAIN SystemId THEN 2 * SystemId[k] + 1 ELSE 2 * GameId[k]
<1>1. IdField(k).value = v
  <2> HIDE DEF v
  <2>1. IdField(k) = Field("int", v)
    BY DEF IdField, v
  <2>2. IdField(k) = [type |-> "int", value |-> v, whole |-> TRUE]
    BY <2>1 DEF Field
  <2> QED
    BY <2>2
<1>2. k \in DOMAIN SystemDecodes \cup DOMAIN GameDecodes
  BY EncodedKinds DEF Decodes, Either
<1>3. CASE k \in DOMAIN SystemId
  <2> DEFINE id == SystemId[k]
  <2>1. v = 2 * id + 1 /\ id \in Nat
    BY <1>3, SystemIdsAreNat
  <2> HIDE DEF v, id
  <2>2. v % 2 = 1 /\ v \div 2 = id
    BY <2>1, SMT
  <2>3. k \in DOMAIN SystemDecodes
    BY <1>2, <1>3, DecodedHaveIds, TablesAssumption
  <2>4. Named(v) = {j \in DOMAIN SystemDecodes \cup {"SNAPSINGLE"} : SystemId[j] = id}
    BY <2>2 DEF Named
  <2>5. \A j \in DOMAIN SystemDecodes \cup {"SNAPSINGLE"} : SystemId[j] = id <=> j = k
    BY <1>3, DecodedHaveIds, TablesAssumption DEF id
  <2>6. Named(v) = {k}
    BY <2>3, <2>4, <2>5
  <2> QED
    BY <1>1, <2>6
<1>4. CASE k \notin DOMAIN SystemId
  <2> DEFINE id == GameId[k]
  <2>1. k \in DOMAIN GameDecodes
    BY <1>2, <1>4, DecodedHaveIds
  <2>2. v = 2 * id /\ id \in Nat
    BY <1>4, <2>1, DecodedHaveIds, GameIdsAreNat
  <2> HIDE DEF v, id
  <2>3. v % 2 # 1 /\ v \div 2 = id
    BY <2>2, SMT
  <2>4. Named(v) = {j \in DOMAIN GameDecodes : GameId[j] = id}
    BY <2>3 DEF Named
  <2>5. \A j \in DOMAIN GameDecodes : GameId[j] = id <=> j = k
    BY <2>1, DecodedHaveIds, TablesAssumption DEF id
  <2>6. Named(v) = {k}
    BY <2>1, <2>4, <2>5
  <2> QED
    BY <1>1, <2>6
<1> QED
  BY <1>3, <1>4

\* What an integer that is missing, or no integer, is read as names no message.
LEMMA NothingNamed == Named(0) = {} /\ Named(Garbage) = {}
<1>1. 0 % 2 # 1 /\ 0 \div 2 = 0
  BY SMT
<1>2. Garbage % 2 # 1 /\ ~(Garbage \div 2 \in Nat)
  BY SMT DEF Garbage
<1>3. Named(0) = {k \in DOMAIN GameDecodes : GameId[k] = 0}
  BY <1>1 DEF Named
<1>4. Named(Garbage) = {k \in DOMAIN GameDecodes : GameId[k] = Garbage \div 2}
  BY <1>2 DEF Named
<1>5. \A k \in DOMAIN GameDecodes : GameId[k] \in Nat /\ GameId[k] # 0
  BY DecodedHaveIds, GameIdsAreNat
<1> QED
  BY <1>2, <1>3, <1>4, <1>5

-----------------------------------------------------------------------------
(* The id of a message that was sent, as it is read *)

Id == GetInt(Unpacker)

LEMMA StartIs == Start = [u |-> Id, msg |-> <<>>] /\ Start.u = Id /\ Start.msg = <<>>
<1> DEFINE v == GetInt(Unpacker)
<1>1. Start = [u |-> v, msg |-> <<>>]
  BY DEF Start
<1> HIDE DEF v
<1>2. Start.u = v /\ Start.msg = <<>>
  BY <1>1
<1> QED
  BY <1>1, <1>2 DEF v, Id

LEMMA UnpackerIs ==
    ASSUME WireOK
    PROVE  Good(Unpacker) /\ Unpacker.at = 0 /\ Unpacker.err = "NONE" /\ Unpacker.outside = FALSE
<1>1. Unpacker.at = 0 /\ Unpacker.err = "NONE" /\ Unpacker.outside = FALSE
  BY DEF Unpacker
<1> QED
  BY <1>1, UnpackerGood

\* The first field is there, or nothing is.
LEMMA IdRead ==
    ASSUME WireOK
    PROVE  /\ AtEnd(Unpacker) \/ AtPart(Unpacker) => Id.err # "NONE" /\ Id.value = 0
           /\ ~AtEnd(Unpacker) /\ ~AtPart(Unpacker) =>
                /\ 1 \in 1 .. Len(wire) /\ wire[1].whole
                /\ Id.value = IF wire[1].type = "int" THEN wire[1].value ELSE Garbage
                /\ Id.err = "NONE" /\ Id.at = 1
<1>0. Good(Unpacker) /\ Unpacker.at = 0 /\ Unpacker.err = "NONE"
  BY UnpackerIs
<1>1. CASE AtEnd(Unpacker) \/ AtPart(Unpacker)
  BY <1>0, <1>1, IntMissing DEF Id
<1>2. CASE ~AtEnd(Unpacker) /\ ~AtPart(Unpacker)
  <2>1. Id = Takes(Unpacker, "int")
    BY <1>0, <1>2, GetIntIs DEF Id
  <2>2. Here(Unpacker) = wire[1] /\ Unpacker.at + 1 = 1 /\ (AtPart(Unpacker) <=> ~wire[1].whole)
    <3>1. Unpacker.at + 1 = 1
      BY <1>0, SMT
    <3> QED
      BY <1>0, <1>2, <3>1, Inside
  <2> DEFINE value == IF wire[1].type = "int" THEN wire[1].value ELSE Garbage
  <2>4. 1 \in 1 .. Len(wire)
    BY <1>0, <1>2, <2>2, HereIsField
  <2>7. wire[1].type # "any"
    <3>1. wire[1] \in WireField
      BY <2>4, ElementOfSeq, WireTyped
    <3> QED
      BY <3>1 DEF WireField, FieldTypes
  <2>3. Takes(Unpacker, "int") =
           [at |-> 1, err |-> Unpacker.err, value |-> value, outside |-> Unpacker.outside]
    BY <1>0, <2>2, <2>7, TakesIs DEF Good
  <2>5. wire[1].whole
    BY <1>2, <2>2
  <2> HIDE DEF value
  <2>6. Id.at = 1 /\ Id.err = Unpacker.err /\ Id.value = value
    BY <2>1, <2>3, RecordShape
  <2> QED
    BY <1>0, <1>2, <2>4, <2>5, <2>6 DEF value
<1> QED
  BY <1>1, <1>2

\* The id was read.
Started(k, m) ==
    Came(k, m, Start, 0) /\ Good(Start.u) /\ Start.u.err = "NONE" /\ Start.u.outside = FALSE

\* Of a message of this library the id is read as it was sent, or it is missing.
LEMMA SentIdRead ==
    ASSUME NEW k, NEW m, SentAs(k, m)
    PROVE  \/ /\ Named(Id.value) = {} /\ Id.err # "NONE" /\ wire # MessageOf(k, m)
           \/ Named(Id.value) = {k} /\ Started(k, m)
<1> DEFINE M == MessageOf(k, m)
<1>1. WireOK /\ k \in DOMAIN Encodes
  BY SentWireOK DEF SentAs
<1>2. /\ M \in Seq(WireField) /\ Len(M) = 1 + Len(Encodes[k]) /\ M[1] = IdField(k)
      /\ Len(Encodes[k]) \in Nat
  BY <1>1, MessageTyped, EncodesLength DEF SentAs
<1>3. IdField(k).type = "int" /\ IdField(k).whole = TRUE
  <2> DEFINE v == IF k \in DOMAIN SystemId THEN 2 * SystemId[k] + 1 ELSE 2 * GameId[k]
  <2>1. IdField(k) = Field("int", v)
    BY DEF IdField
  <2> HIDE DEF v
  <2>2. IdField(k) = [type |-> "int", value |-> v, whole |-> TRUE]
    BY <2>1 DEF Field
  <2> QED
    BY <2>2
<1>4. CutOf(wire, M)
  BY DEF SentAs
<1> HIDE DEF M
<1>5. CASE AtEnd(Unpacker) \/ AtPart(Unpacker)
  <2>1. Named(Id.value) = {} /\ Id.err # "NONE"
    BY <1>1, <1>5, IdRead, NothingNamed
  <2>2. wire # M
    <3> SUFFICES ASSUME wire = M PROVE FALSE
      OBVIOUS
    <3>1. Unpacker.at # Len(wire) /\ Unpacker.at + 1 = 1
      BY <1>1, <1>2, UnpackerIs, SMT
    <3>2. ~AtEnd(Unpacker)
      BY <3>1 DEF AtEnd
    <3>3. Here(Unpacker) = wire[1] /\ (AtPart(Unpacker) <=> ~Here(Unpacker).whole)
      BY <1>1, <3>1, <3>2, UnpackerIs, Inside
    <3> QED
      BY <1>2, <1>3, <1>5, <3>2, <3>3
  <2> QED
    BY <2>1, <2>2 DEF M
<1>6. CASE ~AtEnd(Unpacker) /\ ~AtPart(Unpacker)
  <2>1. /\ 1 \in 1 .. Len(wire) /\ Id.err = "NONE" /\ Id.at = 1 /\ wire[1].whole
        /\ Id.value = IF wire[1].type = "int" THEN wire[1].value ELSE Garbage
    BY <1>1, <1>6, IdRead
  <2>2. /\ wire[1].type = M[1].type /\ wire[1].value = M[1].value
        /\ wire[1].whole = M[1].whole \/ wire[1].whole = FALSE
    BY <1>4, <2>1 DEF CutOf
  <2>3. Named(Id.value) = {k}
    BY <1>1, <1>2, <1>3, <2>1, <2>2, NamedById
  <2>4. /\ Unpacking(Start) /\ Good(Start.u) /\ Start.u.outside = FALSE /\ Start.u.err = "NONE"
        /\ Start.u.at = 0 + 1 /\ wire[0 + 1].whole = TRUE
    <3>1. 0 + 1 = 1
      BY SMT
    <3>2. wire[1].whole = TRUE
      BY <1>2, <1>3, <2>1, <2>2
    <3>3. Unpacking(Start) /\ Good(Start.u) /\ Start.u.outside = FALSE
      BY <1>1, StartGood DEF Reads
    <3>4. Start.u.err = "NONE" /\ Start.u.at = 1
      BY <2>1, StartIs
    <3> QED
      BY <3>1, <3>2, <3>3, <3>4
  <2>5. MembersAre(k, m, Start.msg, 0)
    <3>1. Start.msg = <<>> /\ DOMAIN <<>> = {}
      BY StartIs
    <3>2. 1 .. 0 = {}
      BY SMT
    <3> QED
      BY <3>1, <3>2 DEF MembersAre
  <2>6. Started(k, m)
    BY <2>4, <2>5 DEF Came, Still, Started
  <2> QED
    BY <2>3, <2>6
<1> QED
  BY <1>5, <1>6
-----------------------------------------------------------------------------
(* A message of this library is read as it was sent *)

LEMMA NothingUnpacked ==
    ASSUME NEW st, NEW s, Len(s) = 0
    PROVE  UnpackAll(st, s) = st
<1>1. Len(s) \in Nat
  BY SMT
<1>2. PICK g : Unpacks(g, st, s, 0) /\ UnpackAll(st, s) = g[0]
  BY <1>1, UnpackAllLast
<1>3. 0 \in 0 .. 0
  BY SMT
<1> QED
  BY <1>2, <1>3 DEF Unpacks

\* Behind the number of options there are their descriptions.
LEMMA OptionsPacked ==
    ASSUME NEW k, k = "SV_VOTEOPTIONLISTADD", k \in DOMAIN Encodes
    PROVE  /\ Len(Encodes[k]) = 15 /\ Encodes[k][1][2] = "num_options"
           /\ Encodes[k][1][1] = "int"
           /\ \A i \in 1 .. 14 : Encodes[k][1 + i][2] = Descriptions[i]
                                 /\ Encodes[k][1 + i][1] = "string"
<1> DEFINE a == AllInts(<<"num_options">>)
           b == AllStrings(Descriptions)
           S == {AString(Descriptions[i]) : i \in 1 .. 14} \cup {<<"int", "num_options">>}
<1>1. Len(a) = 1 /\ a[1] = <<"int", "num_options">> /\ a \in Seq(S)
  <2>1. a = << <<"int", "num_options">> >>
    BY SMT DEF AllInts, AnInt
  <2> HIDE DEF a
  <2>2. <<"int", "num_options">> \in S
    OBVIOUS
  <2> HIDE DEF S
  <2> QED
    BY <2>1, <2>2
<1>2. b \in Seq(S) /\ Len(b) = 14 /\ \A i \in 1 .. 14 : b[i] = <<"string", Descriptions[i]>>
  <2> DEFINE D(i) == AString(Descriptions[i])
  <2>1. b = [i \in 1 .. 14 |-> D(i)]
    BY DescriptionsLength DEF AllStrings
  <2>2. b \in Seq({D(i) : i \in 1 .. 14}) /\ Len(b) = 14
    <3> HIDE DEF b, D
    <3>1. 14 \in Nat
      BY SMT
    <3>2. b \in Seq({D(i) : i \in 1 .. 14})
      BY <2>1, <3>1, IsASeq
    <3>3. DOMAIN b = 1 .. 14
      BY <2>1
    <3> QED
      BY <3>2, <3>3, LenProperties, SMT
  <2>3. {D(i) : i \in 1 .. 14} \subseteq S
    OBVIOUS
  <2>4. \A i \in 1 .. 14 : b[i] = <<"string", Descriptions[i]>>
    BY <2>1 DEF AString
  <2> HIDE DEF b, D, S
  <2>5. b \in Seq(S)
    <3>1. Len(b) \in Nat /\ DOMAIN b = 1 .. Len(b) /\ \A i \in 1 .. Len(b) : b[i] \in S
      BY <2>2, <2>3, LenProperties, ElementOfSeq
    <3>2. b = [i \in 1 .. Len(b) |-> b[i]]
      BY <2>1, <3>1
    <3> QED
      BY <3>1, <3>2, IsASeq
  <2> QED
    BY <2>2, <2>4, <2>5
<1> HIDE DEF a, b, S
<1>3. /\ Len(a \o b) = 15
      /\ (a \o b)[1] = <<"int", "num_options">>
      /\ \A i \in 1 .. 14 : (a \o b)[1 + i] = <<"string", Descriptions[i]>>
  <2>1. /\ Len(a \o b) = Len(a) + Len(b)
        /\ \A i \in 1 .. Len(a) + Len(b) : (a \o b)[i] = IF i <= Len(a) THEN a[i] ELSE b[i - Len(a)]
    BY <1>1, <1>2, ConcatProperties
  <2>2. 1 + 14 = 15 /\ 1 \in 1 .. 15 /\ 1 <= 1
        /\ \A i \in 1 .. 14 : 1 + i \in 1 .. 15 /\ ~(1 + i <= 1) /\ (1 + i) - 1 = i
    BY SMT
  <2>3. /\ Len(a \o b) = 15
        /\ \A i \in 1 .. 15 : (a \o b)[i] = IF i <= 1 THEN a[i] ELSE b[i - 1]
    BY <1>1, <1>2, <2>1, <2>2
  <2>4. (a \o b)[1] = a[1]
    BY <2>2, <2>3
  <2>5. ASSUME NEW i \in 1 .. 14 PROVE (a \o b)[1 + i] = b[i]
    <3>1. (a \o b)[1 + i] = b[(1 + i) - 1]
      BY <2>2, <2>3
    <3> QED
      BY <2>2, <3>1
  <2> QED
    BY <1>1, <1>2, <2>3, <2>4, <2>5
<1>4. Encodes[k] = a \o b
  <2>1. k \in DOMAIN GameEncodes /\ k \notin DOMAIN SystemEncodes
    BY DEF GameEncodes, SystemEncodes
  <2>2. GameEncodes["SV_VOTEOPTIONLISTADD"] = AllInts(<<"num_options">>) \o AllStrings(Descriptions)
    BY DEF GameEncodes
  <2> QED
    BY <2>1, <2>2 DEF Encodes, Either, a, b
<1> DEFINE c == a \o b
<1>5. Len(c) = 15 /\ c[1] = <<"int", "num_options">> /\ \A i \in 1 .. 14 : c[1 + i] = <<"string", Descriptions[i]>>
  BY <1>3
<1> HIDE DEF c
<1>6. c[1][1] = "int" /\ c[1][2] = "num_options"
      /\ \A i \in 1 .. 14 : c[1 + i][1] = "string" /\ c[1 + i][2] = Descriptions[i]
  BY <1>5
<1> QED
  BY <1>4, <1>5, <1>6 DEF c

\* A sender that sets what is packed packs members of the message itself.
LEMMA SentOwnMembers ==
    ASSUME NEW k, NEW m, SentAs(k, m)
    PROVE  OwnMembers(k)
<1> SUFFICES ASSUME NEW i \in DOMAIN Encodes[k], Encodes[k][i][2] = "unset" PROVE FALSE
  BY DEF OwnMembers
<1>1. Encodes[k][i] \in ToSet(Encodes[k])
  BY DEF ToSet
<1>2. "unset" \in DOMAIN m \/ BehindOptions(k, m, "unset")
  BY <1>1 DEF SentAs, ReadsUnset
<1>3. "unset" \notin DOMAIN m
  BY DEF SentAs, Settable
<1>4. \A n \in DOMAIN Descriptions : Descriptions[n] # "unset"
  BY TablesAssumption
<1>5. ~BehindOptions(k, m, "unset")
  BY <1>4, Zenon DEF BehindOptions
<1> QED
  BY <1>2, <1>3, <1>5

\* The last field that is read.
LastRead(k, m) ==
    IF k = "SV_VOTEOPTIONLISTADD" THEN 1 + (IF m.num_options > 0 THEN m.num_options ELSE 0)
    ELSE IF k = "ENTERGAME" THEN 0 ELSE Len(Encodes[k])

\* What decode_system_message and decode_game_message make of it.
ReadOf(k) ==
    LET read == UnpackAll(Start, Decodes[k])
    IN  IF k = "SV_VOTEOPTIONLISTADD" THEN Options(read) ELSE read

LEMMA MemberValue ==
    ASSUME NEW k, NEW m, SentAs(k, m), NEW j \in 1 .. Len(Encodes[k]), NEW name, Encodes[k][j][2] = name,
           name # "buildinfo", ~BehindOptions(k, m, name), k # "SV_TUNEPARAMS"
    PROVE  ValueOf(k, m, j) = m[name]
  BY ValueIs

LEMMA NumOptions ==
    ASSUME NEW k, k = "SV_VOTEOPTIONLISTADD", NEW m, SentAs(k, m)
    PROVE  ValueOf(k, m, 1) = m.num_options /\ m.num_options \in Int
<1>1. Encodes[k][1][2] = "num_options" /\ 1 \in 1 .. Len(Encodes[k])
      /\ Len(Encodes[k]) = 15 /\ \A i \in 1 .. 14 : Encodes[k][1 + i][2] = Descriptions[i]
  <2>1. 1 \in 1 .. 15
    BY SMT
  <2> QED
    BY <2>1, OptionsPacked DEF SentAs
<1>2. ~BehindOptions(k, m, "num_options")
  <2> SUFFICES ASSUME NEW i \in 1 .. 14, "num_options" = Descriptions[i] PROVE FALSE
    BY DescriptionsLength DEF BehindOptions
  <2>1. Encodes[k][1 + i][2] = Encodes[k][1][2]
    BY <1>1
  <2>2. 1 + i \in 1 .. 15 /\ 1 + i # 1
    BY SMT
  <2>3. DOMAIN Encodes[k] = 1 .. 15 /\ 1 \in 1 .. 15
    BY <1>1, EncodesLength DEF SentAs
  <2>4. k \in DOMAIN Encodes
    BY DEF SentAs
  <2>5. \A a, b \in DOMAIN Encodes[k] : Encodes[k][a][2] = Encodes[k][b][2] => a = b
    BY <2>4, TablesAssumption
  <2> QED
    BY <2>1, <2>2, <2>3, <2>5
<1>3. m.num_options \in Int
  BY DEF SentAs, Settable
<1>4. ValueOf(k, m, 1) = m.num_options
  <2>1. "num_options" # "buildinfo" /\ k # "SV_TUNEPARAMS"
    OBVIOUS
  <2> QED
    <3>1. 1 \in 1 .. Len(Encodes[k])
      BY <1>1
    <3>2. Encodes[k][1][2] = "num_options"
      BY <1>1
    <3>3. ASSUME NEW j \in 1 .. Len(Encodes[k]), Encodes[k][j][2] = "num_options"
          PROVE ValueOf(k, m, j) = m["num_options"]
      <4> DEFINE name == "num_options"
      <4>1. Encodes[k][j][2] = name /\ name # "buildinfo" /\ ~BehindOptions(k, m, name)
        BY <3>3, <1>2, <2>1
      <4> HIDE DEF name
      <4>2. ValueOf(k, m, j) = m[name]
        BY <4>1, <2>1, MemberValue
      <4> QED
        BY <4>2 DEF name
    <3>4. ValueOf(k, m, 1) = m["num_options"]
      BY <3>1, <3>2, <3>3
    <3> QED
      BY <3>4
<1> QED
  BY <1>3, <1>4

\* What is decoded of a message: its fields, or of too many options none.
AsRead(k, m) ==
    IF k = "SV_VOTEOPTIONLISTADD" /\ m.num_options > 14
    THEN /\ ReadOf(k).u.outside \in BOOLEAN
         /\ ReadOf(k).u.err = "NONE" => ReadOf(k).u.outside = TRUE
         /\ wire = MessageOf(k, m) => ReadOf(k).u.outside = TRUE
    ELSE Came(k, m, ReadOf(k), LastRead(k, m))

LEMMA DescriptionsAre ==
    ASSUME NEW n \in Nat, n <= 14, NEW t, t = AllStrings(SubSeq(Descriptions, 1, n))
    PROVE  Len(t) = n /\ \A i \in 1 .. n : t[i][1] = "string" /\ t[i][2] = Descriptions[i]
<1> DEFINE p == SubSeq(Descriptions, 1, n)
<1>1. Len(p) = n /\ DOMAIN p = 1 .. n /\ \A i \in 1 .. n : p[i] = Descriptions[i]
  <2>1. Descriptions \in Seq({Descriptions[i] : i \in 1 .. 14})
    BY DescriptionsLength, IsASeq, SMT DEF Descriptions
  <2>2. p \in Seq({Descriptions[i] : i \in 1 .. 14}) /\ Len(p) = n /\ \A i \in 1 .. n : p[i] = Descriptions[i]
    BY <2>1, DescriptionsLength, SubSeqProperties, SMT
  <2> HIDE DEF p
  <2> QED
    BY <2>2, LenProperties
<1> HIDE DEF p
<1>2. t = [i \in 1 .. n |-> <<"string", p[i]>>]
  BY <1>1 DEF AllStrings, AString, p
<1> DEFINE D(i) == <<"string", p[i]>>
<1>3. t \in Seq({D(i) : i \in 1 .. n})
  <2>1. t = [i \in 1 .. n |-> D(i)]
    BY <1>2
  <2> HIDE DEF D
  <2> QED
    BY <2>1, IsASeq
<1>4. DOMAIN t = 1 .. n /\ \A i \in 1 .. n : t[i] = <<"string", p[i]>>
  BY <1>2
<1> HIDE DEF D
<1>5. Len(t) = n
  BY <1>3, <1>4, LenProperties, SMT
<1>6. \A i \in 1 .. n : t[i][1] = "string" /\ t[i][2] = Descriptions[i]
  BY <1>1, <1>4
<1> QED
  BY <1>5, <1>6

\* As many options as there are, or none.
LEMMA NoDescriptions ==
    ASSUME NEW n \in Int, n <= 0
    PROVE  Len(AllStrings(SubSeq(Descriptions, 1, n))) = 0
<1>1. SubSeq(Descriptions, 1, n) = <<>>
  <2>1. Descriptions \in Seq({Descriptions[i] : i \in 1 .. 14})
    BY DescriptionsLength, IsASeq, SMT DEF Descriptions
  <2> QED
    BY <2>1, SubSeqProperties, SMT
<1>2. AllStrings(<<>>) = <<>>
  BY SMT DEF AllStrings
<1>3. Len(<<>>) = 0
  BY SMT
<1> QED
  BY <1>1, <1>2, <1>3

\* The loop over the descriptions reads those that are there.
LEMMA OptionsCame ==
    ASSUME NEW k, k = "SV_VOTEOPTIONLISTADD", NEW m, SentAs(k, m), Started(k, m)
    PROVE  AsRead(k, m)
<1> DEFINE s == Decodes[k]
           read == UnpackAll(Start, s)
           v == GetInt(Start.u)
<1>1. /\ Len(Encodes[k]) = 15 /\ Encodes[k][1][2] = "num_options" /\ Encodes[k][1][1] = "int"
      /\ \A i \in 1 .. 14 : Encodes[k][1 + i][2] = Descriptions[i]
                            /\ Encodes[k][1 + i][1] = "string"
  BY OptionsPacked DEF SentAs
<1>2. WireOK /\ Good(Start.u) /\ Start.u.outside = FALSE /\ Start.u.err = "NONE" /\ Came(k, m, Start, 0)
  BY SentWireOK DEF Started
<1>3. s = AllInts(<<"num_options">>) /\ Len(s) = 1 /\ s[1][1] = "int" /\ s[1][2] = "num_options"
  <2>1. s = AllInts(<<"num_options">>)
    BY VoteOptions
  <2>2. AllInts(<<"num_options">>) = << <<"int", "num_options">> >>
    BY SMT DEF AllInts, AnInt
  <2> HIDE DEF s
  <2> QED
    BY <2>1, <2>2
<1> HIDE DEF s
<1>4. read = [u |-> v, msg |-> Setting(Start.msg, "num_options", v.value)]
  BY <1>2, <1>3, OneIntIs
<1>5. Came(k, m, read, 1)
  <2>1. /\ 0 \in Nat /\ Len(s) \in Nat /\ 0 + Len(s) <= Len(Encodes[k]) /\ 0 + Len(s) = 1
        /\ \A i \in 1 .. Len(s) : i = 1 /\ 0 + i = 1
    <3>1. Len(s) = 1 /\ Len(Encodes[k]) = 15
      BY <1>1, <1>3
    <3>2. 0 \in Nat /\ 1 \in Nat /\ 0 + 1 <= 15 /\ 0 + 1 = 1 /\ \A i \in 1 .. 1 : i = 1
      BY SMT
    <3> QED
      BY <3>1, <3>2
  <2>2. \A i \in 1 .. Len(s) :
           /\ s[i][2] = Encodes[k][0 + i][2] /\ SameType(Encodes[k][0 + i][1], s[i][1])
           /\ s[i][1] = "bool" => s[i] \in ToSet(Decodes[k])
    BY <1>1, <1>3, <2>1 DEF SameType
  <2>3. Came(k, m, UnpackAll(Start, s), 0 + Len(s))
    BY <1>2, <2>1, <2>2, UnpackAllCame
  <2> QED
    BY <2>1, <2>3
<1>6. v.err # "NONE" => v.value = 0
  <2>1. CASE AtEnd(Start.u) \/ AtPart(Start.u)
    BY <1>2, <2>1, IntMissing
  <2>2. CASE ~AtEnd(Start.u) /\ ~AtPart(Start.u)
    <3> DEFINE w == Takes(Start.u, "int")
    <3>1. v = w
      BY <1>2, <2>2, GetIntIs
    <3>2. w = [at |-> Start.u.at + 1, err |-> Start.u.err,
               value |-> IF Here(Start.u).type \in {"int", "any"} THEN Here(Start.u).value ELSE Garbage,
               outside |-> Start.u.outside]
      BY <1>2, TakesIs DEF Good
    <3> HIDE DEF w
    <3>3. w.err = "NONE"
      BY <1>2, <3>2, RecordShape
    <3> HIDE DEF v
    <3> QED
      BY <3>1, <3>3
  <2> HIDE DEF v
  <2> QED
    BY <2>1, <2>2
<1>7. Good(v) /\ v.outside = FALSE
  BY <1>2, GetIntReads DEF Reads
<1> HIDE DEF v
<1>8. read.u = v /\ read.msg.num_options = v.value /\ MsgShape(read)
  <2> DEFINE got == Setting(Start.msg, "num_options", v.value)
  <2>1. got["num_options"] = v.value
    BY DEF Setting
  <2> HIDE DEF got
  <2>2. read.u = v /\ read.msg = got /\ MsgShape(read)
    BY <1>4 DEF got, MsgShape
  <2> QED
    BY <2>1, <2>2
<1> HIDE DEF read
<1>9. m.num_options \in Int /\ ValueOf(k, m, 1) = m.num_options
  BY NumOptions
<1>10. ReadOf(k) = Options(read)
  BY DEF ReadOf, read, s
<1>11. CASE v.err # "NONE"
  <2>1. read.msg.num_options = 0 /\ 0 \in Int /\ 0 <= 0
    BY <1>6, <1>8, <1>11, SMT
  <2> DEFINE t == AllStrings(SubSeq(Descriptions, 1, 0))
  <2>2. Len(t) = 0
    BY <2>1, NoDescriptions
  <2>3. ~(0 > Len(Descriptions))
    BY DescriptionsLength, SMT
  <2>4. Options(read) = UnpackAll(read, t)
    BY <2>1, <2>3 DEF Options
  <2> HIDE DEF t
  <2>5. Options(read) = read
    BY <2>2, <2>4, NothingUnpacked
  <2>6. wire # MessageOf(k, m)
    BY <1>5, <1>8, <1>11 DEF Came
  <2> QED
    BY <1>5, <1>7, <1>8, <1>10, <1>11, <2>5, <2>6 DEF Came, AsRead
<1>12. ASSUME v.err = "NONE" PROVE read.msg.num_options = m.num_options /\ Still(k, m, read, 1)
  <2>1. Lost(k, m, read.msg, 1) \/ Still(k, m, read, 1)
    BY <1>5, <1>7, <1>8, <1>12 DEF Came
  <2>2. ~Lost(k, m, read.msg, 1)
    <3>1. \A i \in 1 .. 1 : i = 1
      BY SMT
    <3> QED
      BY <1>1, <3>1 DEF Lost
  <2>3. MembersAre(k, m, read.msg, 1)
    BY <2>1, <2>2 DEF Still
  <2>4. 1 \in 1 .. 1
    BY SMT
  <2>5. read.msg["num_options"] = GotOf(k, m, 1) /\ GotOf(k, m, 1) = m.num_options
    BY <1>1, <1>9, <2>3, <2>4 DEF MembersAre, GotOf
  <2> QED
    BY <2>1, <2>2, <2>5
<1>13. CASE v.err = "NONE" /\ m.num_options > 14
  <2> DEFINE u == [v EXCEPT !.outside = TRUE]
  <2>1. read.msg.num_options > Len(Descriptions)
    BY <1>12, <1>13, DescriptionsLength
  <2>2. Options(read) = [read EXCEPT !.u.outside = TRUE]
    BY <2>1 DEF Options
  <2>3. [read EXCEPT !.u.outside = TRUE] = [read EXCEPT !.u = u]
    BY <1>8
  <2>4. u.outside = TRUE
    BY <1>7, GoodIs, OutsideSet, RecordShape
  <2> HIDE DEF u
  <2>5. [read EXCEPT !.u = u] = [u |-> u, msg |-> read.msg]
    BY <1>8, UnpackerSet
  <2> DEFINE w == [u |-> u, msg |-> read.msg]
  <2>6. w.u = u
    OBVIOUS
  <2> HIDE DEF w
  <2>7. ReadOf(k) = w
    BY <1>10, <2>2, <2>3, <2>5 DEF w
  <2> QED
    BY <1>13, <2>4, <2>6, <2>7 DEF AsRead
<1>14. CASE v.err = "NONE" /\ ~(m.num_options > 14)
  <2> DEFINE o == m.num_options
             n == IF o > 0 THEN o ELSE 0
             t == AllStrings(SubSeq(Descriptions, 1, o))
  <2>1. read.msg.num_options = o /\ o \in Int /\ ~(o > 14)
    BY <1>9, <1>12, <1>14
  <2>2. LastRead(k, m) = 1 + n
    BY DEF LastRead
  <2> HIDE DEF o
  <2>3. n \in Nat /\ n <= 14 /\ 1 \in Nat /\ 1 + n <= 15
    BY <2>1, SMT
  <2>4. ~(o > Len(Descriptions))
    BY <2>1, DescriptionsLength, SMT
  <2>5. Options(read) = UnpackAll(read, t)
    BY <2>1, <2>4 DEF Options
  <2>6. Len(t) = n /\ \A i \in 1 .. n : t[i][1] = "string" /\ t[i][2] = Descriptions[i]
    <3>1. CASE o > 0
      BY <2>3, <3>1, DescriptionsAre
    <3>2. CASE ~(o > 0)
      <4>1. o <= 0 /\ n = 0 /\ \A i \in 1 .. 0 : FALSE
        BY <2>1, <3>2, SMT
      <4> QED
        BY <2>1, <4>1, NoDescriptions
    <3> QED
      BY <3>1, <3>2
  <2> HIDE DEF t, n
  <2>7. \A i \in 1 .. Len(t) :
           /\ t[i][2] = Encodes[k][1 + i][2] /\ SameType(Encodes[k][1 + i][1], t[i][1])
           /\ t[i][1] = "bool" => t[i] \in ToSet(Decodes[k])
    <3>1. \A i \in 1 .. n : i \in 1 .. 14
      BY <2>3, SMT
    <3> QED
      BY <1>1, <2>6, <3>1 DEF SameType
  <2>8. Len(t) \in Nat /\ 1 + Len(t) <= Len(Encodes[k])
    BY <1>1, <2>3, <2>6
  <2>9. Came(k, m, UnpackAll(read, t), 1 + Len(t))
    BY <1>5, <2>3, <2>7, <2>8, UnpackAllCame
  <2> QED
    BY <1>10, <1>14, <2>2, <2>5, <2>6, <2>9 DEF AsRead
<1> QED
  BY <1>11, <1>13, <1>14

\* All kinds of messages.
LEMMA AllCame ==
    ASSUME NEW k, NEW m, SentAs(k, m), Started(k, m)
    PROVE  AsRead(k, m)
<1>1. CASE k = "SV_VOTEOPTIONLISTADD"
  BY <1>1, OptionsCame
<1>2. CASE k = "ENTERGAME"
  <2>1. Decodes[k] = <<>> /\ k # "SV_VOTEOPTIONLISTADD"
    BY <1>2, TablesAssumption DEF SentAs
  <2>2. Len(<<>>) = 0
    BY SMT
  <2>3. ReadOf(k) = Start
    BY <2>1, <2>2, NothingUnpacked DEF ReadOf
  <2>4. LastRead(k, m) = 0
    BY <1>2, <2>1 DEF LastRead
  <2> QED
    BY <2>1, <2>3, <2>4 DEF AsRead, Started
<1>3. CASE k # "SV_VOTEOPTIONLISTADD" /\ k # "ENTERGAME"
  <2> DEFINE s == Decodes[k]
             n == Len(Encodes[k])
  <2>1. Unpacked(k) = s
    BY <1>3 DEF Unpacked
  <2>2. /\ Len(s) = n /\ n \in Nat /\ DOMAIN Encodes[k] = 1 .. n /\ k \in DOMAIN Decodes
        /\ \A i \in 1 .. n : s[i][2] = Encodes[k][i][2] /\ SameType(Encodes[k][i][1], s[i][1])
    BY <1>3, <2>1, EncodesLength, SentOwnMembers, TablesAssumption DEF SentAs
  <2>3. \A i \in 1 .. n : s[i] \in ToSet(Decodes[k])
    <3>1. DOMAIN Decodes[k] = 1 .. Len(Decodes[k])
      BY <2>2, TablesAssumption, LenProperties
    <3> QED
      BY <2>2, <3>1 DEF ToSet
  <2>4. ReadOf(k) = UnpackAll(Start, s) /\ LastRead(k, m) = n
    BY <1>3 DEF ReadOf, LastRead
  <2> HIDE DEF s
  <2>5. 0 \in Nat /\ Len(s) \in Nat /\ 0 + Len(s) <= n /\ 0 + Len(s) = n
        /\ \A i \in 1 .. Len(s) : i \in 1 .. n /\ 0 + i = i
    <3> HIDE DEF n
    <3> QED
      BY <2>2, SMT
  <2>6. \A i \in 1 .. Len(s) :
           /\ s[i][2] = Encodes[k][0 + i][2] /\ SameType(Encodes[k][0 + i][1], s[i][1])
           /\ s[i][1] = "bool" => s[i] \in ToSet(Decodes[k])
    BY <2>2, <2>3, <2>5
  <2>7. Came(k, m, UnpackAll(Start, s), 0 + Len(s))
    BY <2>5, <2>6, UnpackAllCame DEF Started
  <2> QED
    BY <1>3, <2>4, <2>5, <2>7 DEF AsRead
<1> QED
  BY <1>1, <1>2, <1>3

\* The fields that are read are among those that were packed.
LEMMA LastIsPacked ==
    ASSUME NEW k, NEW m, SentAs(k, m), ~(k = "SV_VOTEOPTIONLISTADD" /\ m.num_options > 14)
    PROVE  LastRead(k, m) \in Nat /\ LastRead(k, m) <= Len(Encodes[k]) /\ Len(Encodes[k]) \in Nat
<1>1. Len(Encodes[k]) \in Nat
  BY EncodesLength DEF SentAs
<1>2. CASE k = "SV_VOTEOPTIONLISTADD"
  <2> DEFINE o == m.num_options
             l == Len(Encodes[k])
  <2>1. o \in Int /\ ~(o > 14) /\ l = 15
    BY <1>2, NumOptions, OptionsPacked DEF SentAs
  <2>2. LastRead(k, m) = 1 + (IF o > 0 THEN o ELSE 0)
    BY <1>2 DEF LastRead
  <2> HIDE DEF o, l
  <2>3. LastRead(k, m) \in Nat /\ LastRead(k, m) <= l
    BY <2>1, <2>2, SMT
  <2> QED
    BY <1>1, <2>3 DEF l
<1>3. CASE k = "ENTERGAME"
  <2>1. LastRead(k, m) = 0
    BY <1>3 DEF LastRead
  <2> DEFINE l == Len(Encodes[k])
  <2>2. l \in Nat
    BY <1>1
  <2> HIDE DEF l
  <2>3. 0 \in Nat /\ 0 <= l
    BY <2>2, SMT
  <2> QED
    BY <1>1, <2>1, <2>3 DEF l
<1>4. CASE k # "SV_VOTEOPTIONLISTADD" /\ k # "ENTERGAME"
  <2> DEFINE l == Len(Encodes[k])
  <2>1. LastRead(k, m) = l /\ l \in Nat
    BY <1>1, <1>4 DEF LastRead
  <2> HIDE DEF l
  <2>2. l <= l
    BY <2>1, SMT
  <2> QED
    BY <2>1, <2>2 DEF l
<1> QED
  BY <1>2, <1>3, <1>4

\* Arrived of the members got.
ArrivedIn(got, member) ==
    IF AString(member) \in ToSet(Encodes[sent.kind]) THEN got[member] = Sanitize(sent.msg[member])
    ELSE SameValue(sent.msg[member], got[member])

LEMMA StringFields ==
    ASSUME NEW k \in DOMAIN Encodes, NEW j \in 1 .. Len(Encodes[k])
    PROVE  AString(Encodes[k][j][2]) \in ToSet(Encodes[k]) <=> Encodes[k][j][1] = "string"
<1>1. j \in DOMAIN Encodes[k] /\ Encodes[k] \in Seq(FieldTypes \X STRING)
      /\ \A i \in DOMAIN Encodes[k] : Encodes[k][i][2] = Encodes[k][j][2] => i = j
  BY EncodesLength, TablesAssumption
<1>2. Encodes[k][j] \in FieldTypes \X STRING
  BY <1>1, EncodesLength, ElementOfSeq
<1>3. ASSUME Encodes[k][j][1] = "string" PROVE AString(Encodes[k][j][2]) \in ToSet(Encodes[k])
  <2> DEFINE e == Encodes[k][j]
  <2>1. e \in FieldTypes \X STRING /\ e[1] = "string" /\ e \in ToSet(Encodes[k])
    BY <1>1, <1>2, <1>3 DEF ToSet
  <2> HIDE DEF e
  <2>2. e = <<"string", e[2]>>
    BY <2>1
  <2> QED
    BY <2>1, <2>2 DEF AString, e
<1>4. ASSUME AString(Encodes[k][j][2]) \in ToSet(Encodes[k]) PROVE Encodes[k][j][1] = "string"
  <2> DEFINE name == Encodes[k][j][2]
  <2>1. PICK i \in DOMAIN Encodes[k] : Encodes[k][i] = <<"string", name>>
    BY <1>4, Zenon DEF ToSet, AString
  <2> HIDE DEF name
  <2>2. Encodes[k][i][1] = "string" /\ Encodes[k][i][2] = name
    BY <2>1
  <2>3. i = j
    BY <1>1, <2>2 DEF name
  <2> QED
    BY <2>2, <2>3
<1> QED
  BY <1>3, <1>4

LEMMA TuneInts ==
    ASSUME NEW j \in DOMAIN Encodes["SV_TUNEPARAMS"]
    PROVE  Encodes["SV_TUNEPARAMS"][j][1] = "int"
<1>1. "SV_TUNEPARAMS" \in DOMAIN GameEncodes /\ "SV_TUNEPARAMS" \notin DOMAIN SystemEncodes
  BY DEF GameEncodes, SystemEncodes
<1>2. GameEncodes["SV_TUNEPARAMS"] = AllInts(TuneParams)
  BY DEF GameEncodes
<1>3. Encodes["SV_TUNEPARAMS"] = AllInts(TuneParams)
  BY <1>1, <1>2 DEF Encodes, Either
<1> DEFINE t == AllInts(TuneParams)
<1>4. \A i \in DOMAIN t : t[i] = <<"int", TuneParams[i]>>
  BY DEF AllInts, AnInt
<1> HIDE DEF t
<1>5. Encodes["SV_TUNEPARAMS"] = t
  BY <1>3 DEF t
<1>6. j \in DOMAIN t
  BY <1>5
<1>7. t[j][1] = "int"
  BY <1>4, <1>6
<1> QED
  BY <1>5, <1>7

\* A member that was read is the one that was set.
LEMMA ArrivedAt ==
    ASSUME NEW k, NEW m, SentAs(k, m), sent.kind = k, sent.msg = m,
           ~(k = "SV_VOTEOPTIONLISTADD" /\ m.num_options > 14),
           NEW j \in 1 .. LastRead(k, m), NEW member, member = Encodes[k][j][2],
           NEW got, got[member] = GotOf(k, m, j)
    PROVE  ArrivedIn(got, member)
<1> DEFINE n == LastRead(k, m)
<1>1. Len(Encodes[k]) \in Nat /\ DOMAIN Encodes[k] = 1 .. Len(Encodes[k]) /\ k \in DOMAIN Encodes
  BY EncodesLength DEF SentAs
<1>2. j \in 1 .. Len(Encodes[k]) /\ j \in DOMAIN Encodes[k] /\ j \in 1 .. n
  <2> DEFINE l == Len(Encodes[k])
  <2>1. n \in Nat /\ n <= l /\ l \in Nat /\ j \in 1 .. n
    BY LastIsPacked
  <2> HIDE DEF n, l
  <2>2. j \in 1 .. l
    BY <2>1, SMT
  <2> QED
    BY <1>1, <2>1, <2>2 DEF l
<1> HIDE DEF n
<1>3. member # "buildinfo"
  <2> SUFFICES ASSUME Encodes[k][j][2] = "buildinfo" PROVE FALSE
    OBVIOUS
  <2>1. k = "ENTERGAME"
    BY <1>1, <1>2, TablesAssumption
  <2>2. n = 0
    BY <2>1 DEF n, LastRead
  <2> QED
    BY <1>2, <2>2, SMT
<1>4. ~BehindOptions(k, m, member)
  <2> SUFFICES ASSUME k = "SV_VOTEOPTIONLISTADD",
                      NEW i \in 1 .. 14, member = Descriptions[i], i - 1 > m.num_options
               PROVE  FALSE
    BY DescriptionsLength DEF BehindOptions
  <2>1. Len(Encodes[k]) = 15 /\ \A h \in 1 .. 14 : Encodes[k][1 + h][2] = Descriptions[h]
    BY OptionsPacked DEF SentAs
  <2>2. 1 + i \in 1 .. 15
    BY SMT
  <2>3. 1 + i = j
    <3>1. Encodes[k][1 + i][2] = Encodes[k][j][2] /\ 1 + i \in DOMAIN Encodes[k]
      BY <1>1, <2>1, <2>2
    <3>2. \A a, b \in DOMAIN Encodes[k] : Encodes[k][a][2] = Encodes[k][b][2] => a = b
      BY <1>1, TablesAssumption
    <3> QED
      BY <1>2, <3>1, <3>2
  <2> DEFINE a == m.num_options
  <2>4. n = 1 + (IF a > 0 THEN a ELSE 0) /\ a \in Int /\ i - 1 > a
    BY NumOptions DEF n, LastRead
  <2> HIDE DEF a
  <2> QED
    BY <1>2, <2>3, <2>4, SMT
<1>5. member \in DOMAIN m /\ ValueOf(k, m, j) = IF k = "SV_TUNEPARAMS" THEN Scaled(m[member]) ELSE m[member]
  BY <1>2, <1>3, <1>4, ValueIs
<1>6. AString(member) \in ToSet(Encodes[k]) <=> Encodes[k][j][1] = "string"
  BY <1>1, <1>2, StringFields
<1>7. CASE Encodes[k][j][1] = "string"
  <2>1. k # "SV_TUNEPARAMS"
    <3> SUFFICES ASSUME k = "SV_TUNEPARAMS" PROVE FALSE
      OBVIOUS
    <3>1. Encodes[k][j][1] = "int"
      BY <1>2, TuneInts
    <3> QED
      BY <1>7, <3>1
  <2>2. got[member] = Sanitize(m[member])
    BY <1>5, <1>7, <2>1 DEF GotOf
  <2> QED
    BY <1>6, <1>7, <2>2 DEF ArrivedIn
<1>8. CASE Encodes[k][j][1] # "string"
  <2>1. got[member] = IF k = "SV_TUNEPARAMS" THEN Scaled(m[member]) ELSE m[member]
    BY <1>5, <1>8 DEF GotOf
  <2>2. SameValue(m[member], got[member])
    <3>1. CASE k # "SV_TUNEPARAMS"
      BY <2>1, <3>1 DEF SameValue
    <3>2. CASE k = "SV_TUNEPARAMS"
      <4> DEFINE a == m[member]
                 b == got[member]
      <4>1. a \in Int /\ a \in -MaxTuneParam .. MaxTuneParam /\ b = Scaled(a)
        BY <1>5, <2>1, <3>2 DEF SentAs, Settable
      <4>2. MaxTuneParam \in Int
        BY SMT DEF MaxTuneParam
      <4> HIDE DEF a, b
      <4>3. -MaxTuneParam <= a /\ a <= MaxTuneParam
        BY <4>1, <4>2, SMT
      <4>4. b = a \/ (a # 0 /\ b = a - (IF a > 0 THEN 1 ELSE -1))
        BY <4>1, <4>3, ScaledNear
      <4>5. SameValue(a, b)
        BY <3>2, <4>4 DEF SameValue
      <4> QED
        BY <4>5 DEF a, b
    <3> QED
      BY <3>1, <3>2
  <2> QED
    BY <1>6, <1>8, <2>2 DEF ArrivedIn
<1> QED
  BY <1>7, <1>8

\* A member that is needed is one that is read.
LEMMA NeededAreRead ==
    ASSUME NEW k, NEW m, SentAs(k, m), sent.kind = k, sent.msg = m,
           ~(k = "SV_VOTEOPTIONLISTADD" /\ m.num_options > 14), NEW member \in Needed
    PROVE  \E j \in 1 .. LastRead(k, m) : member = Encodes[k][j][2]
<1> DEFINE n == LastRead(k, m)
<1>1. Len(Encodes[k]) \in Nat /\ DOMAIN Encodes[k] = 1 .. Len(Encodes[k]) /\ k \in DOMAIN Encodes
  BY EncodesLength DEF SentAs
<1>2. CASE k = "SV_VOTEOPTIONLISTADD"
  <2> DEFINE a == m.num_options
  <2>1. n = 1 + (IF a > 0 THEN a ELSE 0) /\ a \in Int /\ ~(a > 14)
    BY <1>2, NumOptions DEF LastRead
  <2>2. member \in {"num_options"} \cup {Descriptions[i] : i \in 1 .. a}
    BY <1>2 DEF Needed
  <2>3. Encodes[k][1][2] = "num_options" /\ \A i \in 1 .. 14 : Encodes[k][1 + i][2] = Descriptions[i]
    BY <1>2, OptionsPacked DEF SentAs
  <2> HIDE DEF a, n
  <2>4. CASE member = "num_options"
    <3>1. 1 \in 1 .. n
      BY <2>1, SMT
    <3> QED
      BY <2>3, <2>4, <3>1 DEF n
  <2>5. ASSUME NEW i \in 1 .. a, member = Descriptions[i]
        PROVE  \E j \in 1 .. LastRead(k, m) : member = Encodes[k][j][2]
    <3>1. 1 + i \in 1 .. n /\ i \in 1 .. 14
      BY <2>1, SMT
    <3>2. member = Encodes[k][1 + i][2]
      BY <2>3, <2>5, <3>1
    <3> QED
      BY <3>1, <3>2 DEF n
  <2> QED
    BY <2>2, <2>4, <2>5
<1>3. CASE k # "SV_VOTEOPTIONLISTADD"
  <2>1. member \in {f[2] : f \in ToSet(Encodes[k])} \ {"buildinfo", "unset"}
    BY <1>3 DEF Needed, SentAs, Settable
  <2>2. PICK j \in 1 .. Len(Encodes[k]) : member = Encodes[k][j][2]
    BY <1>1, <2>1 DEF ToSet
  <2>3. k # "ENTERGAME"
    <3> SUFFICES ASSUME k = "ENTERGAME" PROVE FALSE
      OBVIOUS
    <3>1. Encodes["ENTERGAME"] = <<AString("buildinfo")>>
      <4>1. "ENTERGAME" \in DOMAIN SystemEncodes
        BY DEF SystemEncodes
      <4>2. SystemEncodes["ENTERGAME"] = <<AString("buildinfo")>>
        BY DEF SystemEncodes
      <4> QED
        BY <4>1, <4>2 DEF Encodes, Either
    <3>2. AString("buildinfo")[2] = "buildinfo"
      BY DEF AString
    <3> DEFINE f == AString("buildinfo")
    <3> HIDE DEF f
    <3>3. Len(<<f>>) = 1 /\ <<f>>[1] = f
      OBVIOUS
    <3>4. \A i \in 1 .. 1 : i = 1
      BY SMT
    <3>5. Encodes[k] = <<f>>
      BY <3>1 DEF f
    <3>6. j = 1 /\ Encodes[k][j] = f
      BY <3>3, <3>4, <3>5
    <3>7. member = "buildinfo"
      BY <2>2, <3>2, <3>6 DEF f
    <3> QED
      BY <2>1, <3>7
  <2>4. LastRead(k, m) = Len(Encodes[k])
    BY <1>3, <2>3 DEF LastRead
  <2> QED
    BY <2>2, <2>4
<1> QED
  BY <1>2, <1>3

\* The members that were read are those that were set.
LEMMA MembersAsSent ==
    ASSUME NEW k, NEW m, SentAs(k, m), sent.kind = k, sent.msg = m,
           ~(k = "SV_VOTEOPTIONLISTADD" /\ m.num_options > 14),
           NEW got, MembersAre(k, m, got, LastRead(k, m))
    PROVE  Needed \subseteq DOMAIN got /\ \A member \in DOMAIN got : ArrivedIn(got, member)
<1> DEFINE n == LastRead(k, m)
<1>1. /\ DOMAIN got = {Encodes[k][j][2] : j \in 1 .. n}
      /\ \A j \in 1 .. n : got[Encodes[k][j][2]] = GotOf(k, m, j)
  BY DEF MembersAre
<1>2. ASSUME NEW member \in DOMAIN got PROVE ArrivedIn(got, member)
  <2>1. PICK j \in 1 .. n : member = Encodes[k][j][2] /\ got[member] = GotOf(k, m, j)
    BY <1>1
  <2> QED
    BY <2>1, ArrivedAt
<1>3. ASSUME NEW member \in Needed PROVE member \in DOMAIN got
  BY <1>1, NeededAreRead
<1> QED
  BY <1>2, <1>3

-----------------------------------------------------------------------------
(* The invariant *)

\* What of a message of this library is on the wire: that message, or what is
\* left of it; an id that names none stays one.
OnTheWire ==
    phase = "sent" /\ sent.by = "us" =>
        \/ sent.kind = "UNKNOWN" /\ (1 \in 1 .. Len(wire) => Named(wire[1].value) = {})
        \/ /\ SentAs(sent.kind, sent.msg)
           /\ ~sent.cut => wire = MessageOf(sent.kind, sent.msg)

SentShape == sent = [by |-> sent.by, kind |-> sent.kind, msg |-> sent.msg, cut |-> sent.cut]

FInv ==
    /\ SentShape /\ OnTheWire
    /\ phase \in {"snapshot", "items"} => sent.by # "us"
    /\ FieldsReadBack /\ CutIsNoticed

\* A step that is no decoding of a message of this library.
LEMMA NotDecoded ==
    ASSUME SentShape', OnTheWire', phase' \in {"snapshot", "items"} => sent'.by # "us",
           phase' \in {"decoded", "outside"} => sent'.by # "us"
    PROVE  FInv'
  BY DEF FInv, FieldsReadBack, CutIsNoticed

LEMMA SentIs ==
    ASSUME NEW by, NEW k, NEW m, NEW c, sent' = [by |-> by, kind |-> k, msg |-> m, cut |-> c]
    PROVE  SentShape' /\ sent'.by = by /\ sent'.kind = k /\ sent'.msg = m /\ sent'.cut = c
<1>1. sent'.by = by /\ sent'.kind = k /\ sent'.msg = m /\ sent'.cut = c
  OBVIOUS
<1> QED
  BY <1>1 DEF SentShape

LEMMA WholeIsCut ==
    ASSUME NEW w \in Seq(WireField)
    PROVE  CutOf(w, w)
<1>1. Len(w) \in Nat
  BY LenProperties
<1> QED
  BY <1>1, SMT DEF CutOf

LEMMA FInitKeeps == Init => FInv
<1> SUFFICES ASSUME Init PROVE FInv
  OBVIOUS
<1>1. phase = "idle" /\ SentShape
  BY DEF Init, Nothing, SentShape
<1> QED
  BY <1>1 DEF FInv, OnTheWire, FieldsReadBack, CutIsNoticed

LEMMA EncodeReadable ==
    ASSUME MInv, NEW k \in Kinds, NEW m \in Payloads[k], Encode(k, m)
    PROVE  FInv'
<1>1. k \in DOMAIN Encodes /\ phase' \in {"sent", "undefined"}
      /\ sent' = [by |-> "us", kind |-> k, msg |-> m, cut |-> FALSE]
  BY DEF Encode, Sending
<1>2. SentShape' /\ sent'.kind = k /\ sent'.msg = m
  BY <1>1, SentIs
<1>3. Settable(k, m) /\ behind' \in Seq(Int)
  BY <1>1, MessagesAssumption DEF Encode, Sending, MInv, WireOK
<1>4. ASSUME phase' = "sent" PROVE SentAs(k, m)' /\ wire' = MessageOf(k, m)
  <2>1. ~ReadsUnset(k, m) /\ wire' = MessageOf(k, m)
    BY <1>4 DEF Encode, MessageOf
  <2>2. MessageOf(k, m) \in Seq(WireField)
    BY <1>1, <1>3, <2>1, MessageTyped
  <2>3. CutOf(wire', MessageOf(k, m))
    BY <2>1, <2>2, WholeIsCut
  <2> QED
    BY <1>1, <1>3, <2>1, <2>3 DEF SentAs
<1>5. OnTheWire'
  BY <1>2, <1>4 DEF OnTheWire
<1> QED
  BY <1>1, <1>2, <1>5, NotDecoded

LEMMA OthersReadable ==
    ASSUME /\ phase = "idle"
           /\ \/ \E k \in Kinds : \E m \in Payloads[k] : EncodeFails(k, m)
              \/ \E w \in UnknownWires : EncodeUnknown(w)
              \/ \E s \in Snapshots : SendSnapshot(s)
              \/ \E ints \in ForeignInts : SendForeign(ints)
    PROVE  FInv'
<1>1. ASSUME NEW k \in Kinds, NEW m \in Payloads[k], EncodeFails(k, m) PROVE FInv'
  <2>1. phase' = "failed" /\ SentShape'
    BY <1>1, SentIs DEF EncodeFails, Sending
  <2> QED
    BY <2>1, NotDecoded DEF OnTheWire
<1>2. ASSUME NEW w \in UnknownWires, EncodeUnknown(w) PROVE FInv'
  <2>1. phase' = "sent" /\ wire' = w /\ SentShape' /\ sent'.kind = "UNKNOWN"
    BY <1>2, SentIs DEF EncodeUnknown, Sending
  <2>2. w \in Wires /\ w # <<>> /\ Named(w[1].value) = {}
    BY MessagesAssumption
  <2>5. OnTheWire'
    BY <2>1, <2>2, Zenon DEF OnTheWire
  <2> QED
    BY <2>1, <2>5, NotDecoded
<1>3. ASSUME NEW s \in Snapshots, SendSnapshot(s) PROVE FInv'
  <2>1. phase' = "sent" /\ sent'.by = "server" /\ SentShape'
    BY <1>3, SentIs DEF SendSnapshot, Sending
  <2> QED
    BY <2>1, NotDecoded DEF OnTheWire
<1>4. ASSUME NEW ints \in ForeignInts, SendForeign(ints) PROVE FInv'
  <2>1. phase' = "sent" /\ sent'.by = "anyone" /\ SentShape'
    BY <1>4, SentIs DEF SendForeign, Sending
  <2> QED
    BY <2>1, NotDecoded DEF OnTheWire
<1> QED
  BY <1>1, <1>2, <1>3, <1>4

LEMMA CutReadable ==
    ASSUME MInv, FInv, NEW n \in 0 .. Len(wire), Cut(n)
    PROVE  FInv'
<1>1. /\ wire \in Seq(WireField) /\ phase = "sent" /\ phase' = "sent" /\ ~sent.cut
      /\ sent' = [sent EXCEPT !.cut = TRUE]
  BY WireTyped DEF MInv, Cut
<1>5. SentShape' /\ sent'.by = sent.by /\ sent'.kind = sent.kind /\ sent'.msg = sent.msg /\ sent'.cut = TRUE
  <2>1. sent' = [by |-> sent.by, kind |-> sent.kind, msg |-> sent.msg, cut |-> TRUE]
    BY <1>1 DEF FInv, SentShape
  <2> QED
    BY <2>1, SentIs
<1>2. CutOf(wire', wire) /\ behind' = behind
  BY <1>1, CutIsCut DEF Cut
<1>3. ASSUME sent'.by = "us"
      PROVE  \/ sent'.kind = "UNKNOWN" /\ (1 \in 1 .. Len(wire') => Named(wire'[1].value) = {})
             \/ SentAs(sent.kind, sent.msg)' /\ sent'.cut
  <2>1. CASE sent.by = "us" /\ sent.kind = "UNKNOWN" /\ (1 \in 1 .. Len(wire) => Named(wire[1].value) = {})
    <3>1. sent'.kind = "UNKNOWN"
      BY <1>5, <2>1
    <3>2. 1 \in 1 .. Len(wire') => 1 \in 1 .. Len(wire) /\ wire'[1].value = wire[1].value
      <4>1. Len(wire') \in Nat /\ Len(wire) \in Nat /\ Len(wire') <= Len(wire)
        BY <1>1, <1>2, LenProperties DEF CutOf
      <4>2. 1 \in 1 .. Len(wire') => 1 \in 1 .. Len(wire)
        BY <4>1, SMT
      <4> QED
        BY <1>2, <4>2 DEF CutOf
    <3> QED
      BY <2>1, <3>1, <3>2
  <2>2. CASE sent.by = "us" /\ SentAs(sent.kind, sent.msg) /\ wire = MessageOf(sent.kind, sent.msg)
    <3>1. sent'.kind = sent.kind /\ sent'.msg = sent.msg /\ sent'.cut
      BY <1>5
    <3>2. CutOf(wire', MessageOf(sent'.kind, sent'.msg))
      BY <1>2, <2>2, <3>1
    <3>3. behind' \in Seq(Int)
      BY <1>2, <2>2 DEF SentAs
    <3> QED
      BY <2>2, <3>1, <3>2, <3>3 DEF SentAs
  <2>3. sent.by = "us"
    BY <1>5, <1>3
  <2> QED
    BY <1>1, <2>1, <2>2, <2>3 DEF FInv, OnTheWire
<1>4. OnTheWire'
  BY <1>3 DEF OnTheWire
<1> QED
  BY <1>1, <1>4, <1>5, NotDecoded

\* An id that names none, as it is read.
LEMMA UnknownId ==
    ASSUME WireOK, 1 \in 1 .. Len(wire) => Named(wire[1].value) = {}
    PROVE  Named(Id.value) = {}
  BY IdRead, NothingNamed

LEMMA KnownReadable ==
    ASSUME MInv, FInv, DecodeKnown
    PROVE  FInv'
<1>1. PICK k \in Named(Id.value) \ {"SNAPSINGLE"} :
         /\ msg' = ReadOf(k).msg /\ kind' = KindSet(k) /\ err' = ReadOf(k).u.err
         /\ phase' = IF ReadOf(k).u.outside THEN "outside" ELSE "decoded"
  BY DEF DecodeKnown, ReadOf, Start, Id
<1>2. phase = "sent" /\ wire' = wire /\ sent' = sent /\ WireOK
  BY DEF DecodeKnown, MInv
<1> DEFINE st == ReadOf(k)
<1> HIDE DEF st
<1>3. /\ msg' = st.msg /\ kind' = KindSet(k) /\ err' = st.u.err
      /\ phase' = IF st.u.outside THEN "outside" ELSE "decoded"
  BY <1>1 DEF st
<1>4. phase' \in {"decoded", "outside"}
  BY <1>3
<1>5. OnTheWire' /\ SentShape'
  BY <1>2, <1>4 DEF OnTheWire, FInv, SentShape
<1>6. CASE sent.by # "us"
  BY <1>2, <1>5, <1>6, NotDecoded
<1>7. CASE sent.by = "us"
  <2> DEFINE K == sent.kind
             M == sent.msg
  <2>1. SentAs(K, M) /\ (~sent.cut => wire = MessageOf(K, M))
    <3>1. ~(1 \in 1 .. Len(wire) => Named(wire[1].value) = {})
      BY <1>1, <1>2, UnknownId
    <3> QED
      BY <1>2, <1>7, <3>1 DEF FInv, OnTheWire
  <2> HIDE DEF K, M
  <2>2. k = K /\ Started(K, M)
    BY <1>1, <2>1, SentIdRead
  <2>3. AsRead(K, M) /\ st = ReadOf(K)
    BY <2>1, <2>2, AllCame DEF st
  <2>4. K # "UNKNOWN" /\ sent'.by = "us" /\ sent'.cut = sent.cut /\ sent'.kind = K
    BY <1>2, <1>7, <2>1, EncodedKinds DEF SentAs, K
  <2> DEFINE tooMany == K = "SV_VOTEOPTIONLISTADD" /\ M.num_options > 14
  <2>5. TooManyOptions' <=> tooMany
    BY <1>2, DescriptionsLength DEF TooManyOptions, K, M
  <2> HIDE DEF tooMany
  <2>6. CASE tooMany
    <3>1. /\ st.u.outside \in BOOLEAN
          /\ st.u.err = "NONE" => st.u.outside = TRUE
          /\ wire = MessageOf(K, M) => st.u.outside = TRUE
      BY <2>3, <2>6 DEF AsRead, tooMany
    <3>2. CutIsNoticed'
      BY <1>3, <3>1 DEF CutIsNoticed
    <3>3. FieldsReadBack'
      <4> SUFFICES ASSUME ~sent.cut PROVE FieldsReadBack'
        BY <2>4 DEF FieldsReadBack
      <4>1. phase' = "outside"
        BY <1>3, <2>1, <3>1
      <4> QED
        BY <2>4, <2>5, <2>6, <4>1 DEF FieldsReadBack
    <3> QED
      BY <1>4, <1>5, <3>2, <3>3 DEF FInv
  <2>7. CASE ~tooMany
    <3> DEFINE got == st.msg
               n == LastRead(K, M)
    <3>1. Came(K, M, st, n)
      BY <2>3, <2>7 DEF AsRead, tooMany
    <3>2. st.u.outside \in BOOLEAN
      BY <3>1 DEF Came, Unpacking, Typed
    <3>3. /\ n \in Nat /\ n <= Len(Encodes[K]) /\ Len(Encodes[K]) \in Nat
          /\ sent.kind = K /\ sent.msg = M
      BY <2>1, <2>7, LastIsPacked DEF tooMany, K, M
    <3>4. wire = MessageOf(K, M) => st.u.err = "NONE" /\ st.u.outside = FALSE
      BY <3>1 DEF Came
    <3>5. msg' = got /\ wire' = wire /\ sent' = sent
      BY <1>2, <1>3
    <3>6. st.u.err = "NONE" /\ st.u.outside = FALSE => Lost(K, M, got, n) \/ MembersAre(K, M, got, n)
      BY <3>1 DEF Came, Still
    <3> HIDE DEF got
    <3>7. \A member : ArrivedIn(got, member) => Arrived(member)'
      BY <3>5 DEF ArrivedIn, Arrived, SameValue
    <3>8. ASSUME MembersAre(K, M, got, n) PROVE MembersCame'
      <4>1. Needed \subseteq DOMAIN got /\ \A member \in DOMAIN got : ArrivedIn(got, member)
        BY <2>1, <2>7, <3>3, <3>8, MembersAsSent DEF tooMany
      <4>2. Needed' = Needed
        BY <3>5 DEF Needed
      <4> QED
        BY <3>5, <3>7, <4>1, <4>2 DEF MembersCame
    <3>9. ASSUME Lost(K, M, got, n) PROVE EndsBeforeString'
      <4>1. PICK i \in 1 .. n :
               /\ i = Len(wire) /\ wire[i].whole = TRUE /\ Encodes[K][i][1] = "string"
               /\ \A j \in 1 .. i - 1 :
                     Encodes[K][j][2] \in DOMAIN got /\ got[Encodes[K][j][2]] = GotOf(K, M, j)
        BY <3>9, Zenon DEF Lost
      <4>2. /\ i \in 1 .. Len(Encodes[K]) /\ DOMAIN Encodes[K] = 1 .. Len(Encodes[K])
            /\ \A j \in 1 .. i - 1 : j \in 1 .. n
        <5> DEFINE l == Len(Encodes[K])
        <5>1. DOMAIN Encodes[K] = 1 .. l /\ n \in Nat /\ n <= l /\ l \in Nat
          BY <2>1, <3>3, EncodesLength DEF SentAs
        <5> HIDE DEF n, l
        <5>2. i \in 1 .. l /\ \A j \in 1 .. i - 1 : j \in 1 .. n
          BY <5>1, SMT
        <5> QED
          BY <5>1, <5>2 DEF l
      <4>3. ASSUME NEW j \in 1 .. i - 1, NEW member, member = Encodes[K][j][2]
            PROVE  member \in DOMAIN msg' /\ Arrived(member)'
        <5>1. j \in 1 .. n /\ member \in DOMAIN got /\ got[member] = GotOf(K, M, j)
          BY <4>1, <4>2, <4>3
        <5>2. SentAs(K, M) /\ sent.kind = K /\ sent.msg = M
              /\ ~(K = "SV_VOTEOPTIONLISTADD" /\ M.num_options > 14)
          BY <2>1, <2>7, <3>3 DEF tooMany
        <5>3. ArrivedIn(got, member)
          BY <4>3, <5>1, <5>2, ArrivedAt
        <5> QED
          BY <3>5, <3>7, <5>1, <5>3
      <4>4. /\ Len(wire') = i /\ wire'[i].whole = TRUE /\ Encodes[sent'.kind][i][1] = "string"
            /\ i \in DOMAIN Encodes[sent'.kind]
        BY <2>4, <3>5, <4>1, <4>2
      <4>5. ASSUME NEW j \in 1 .. i - 1 
            PROVE  (LET member == Encodes[sent.kind][j][2] IN member \in DOMAIN msg /\ Arrived(member))'
        <5>1. Encodes[K][j][2] = Encodes[sent'.kind][j][2]
          BY <2>4
        <5> QED
          BY <4>3, <5>1 DEF Arrived, SameValue
      <4> QED
        BY <4>4, <4>5 DEF EndsBeforeString, Arrived, SameValue
    <3>10. CutIsNoticed'
      <4> SUFFICES ASSUME phase' = "decoded", err' = "NONE" PROVE MembersCame' \/ EndsBeforeString'
        BY DEF CutIsNoticed
      <4>1. st.u.err = "NONE" /\ st.u.outside = FALSE
        BY <1>3, <3>2
      <4> QED
        BY <3>6, <3>8, <3>9, <4>1
    <3>11. FieldsReadBack'
      <4> SUFFICES ASSUME ~sent.cut PROVE FieldsReadBack'
        BY <2>4 DEF FieldsReadBack
      <4>1. wire = MessageOf(K, M)
        BY <2>1
      <4>2. st.u.err = "NONE" /\ st.u.outside = FALSE
        BY <3>4, <4>1
      <4>3. ~Lost(K, M, got, n)
        <5>1. n \in Int
          BY <3>3
        <5> QED
          BY <2>1, <3>3, <4>1, <5>1, LostIsCut
      <4>4. phase' = "decoded" /\ err' = "NONE" /\ kind' = KindSet(sent'.kind) /\ MembersCame'
        BY <1>3, <2>2, <2>4, <3>6, <3>8, <4>2, <4>3
      <4> QED
        BY <2>4, <2>5, <2>7, <4>4 DEF FieldsReadBack
    <3> QED
      BY <1>4, <1>5, <3>10, <3>11 DEF FInv
  <2> QED
    BY <2>6, <2>7
<1> QED
  BY <1>6, <1>7

LEMMA UnknownReadable ==
    ASSUME MInv, FInv, DecodeUnknown
    PROVE  FInv'
<1>1. /\ Named(Id.value) = {} /\ phase = "sent" /\ wire' = wire /\ sent' = sent /\ WireOK
      /\ phase' = "decoded" /\ err' = "UNKNOWN_MESSAGE" /\ kind' = "UNKNOWN"
  BY DEF DecodeUnknown, MInv, Id
<1>2. msg'.unknown = Len(wire')
  <2> DEFINE n == Len(wire)
  <2>1. msg' = [unknown |-> n] /\ Len(wire') = n
    BY <1>1 DEF DecodeUnknown
  <2> HIDE DEF n
  <2> QED
    BY <2>1
<1>3. OnTheWire' /\ SentShape' /\ CutIsNoticed'
  BY <1>1 DEF OnTheWire, CutIsNoticed, FInv, SentShape
<1>4. FieldsReadBack'
  <2> SUFFICES ASSUME sent.by = "us", ~sent.cut PROVE sent.kind = "UNKNOWN"
    BY <1>1, <1>2 DEF FieldsReadBack, TooManyOptions
  <2> SUFFICES ASSUME SentAs(sent.kind, sent.msg), wire = MessageOf(sent.kind, sent.msg) PROVE FALSE
    BY <1>1 DEF FInv, OnTheWire
  <2> DEFINE K == sent.kind
             M == sent.msg
  <2>1. SentAs(K, M) /\ wire = MessageOf(K, M)
    OBVIOUS
  <2> HIDE DEF K, M
  <2>2. Named(Id.value) = {K}
    BY <2>1, SentIdRead
  <2> QED
    BY <1>1, <2>2
<1> QED
  BY <1>1, <1>3, <1>4 DEF FInv

LEMMA SnapSingleReadable ==
    ASSUME MInv, FInv, DecodeSnapSingle
    PROVE  FInv'
<1>1. /\ "SNAPSINGLE" \in Named(Id.value) /\ phase = "sent" /\ sent' = sent /\ WireOK
      /\ phase' = "snapshot"
  BY DEF DecodeSnapSingle, MInv, Id
<1>2. sent.by # "us"
  <2> SUFFICES ASSUME sent.by = "us" PROVE FALSE
    OBVIOUS
  <2>1. ~(1 \in 1 .. Len(wire) => Named(wire[1].value) = {})
    BY <1>1, UnknownId
  <2> DEFINE K == sent.kind
             M == sent.msg
  <2>2. SentAs(K, M)
    BY <1>1, <2>1 DEF FInv, OnTheWire
  <2> HIDE DEF K, M
  <2>3. Named(Id.value) = {K}
    BY <1>1, <2>2, SentIdRead
  <2>4. K # "SNAPSINGLE"
    BY <2>2, EncodedKinds DEF SentAs
  <2> QED
    BY <1>1, <2>3, <2>4
<1>3. OnTheWire' /\ SentShape'
  BY <1>1 DEF OnTheWire, FInv, SentShape
<1> QED
  BY <1>1, <1>2, <1>3, NotDecoded

LEMMA FStepKeeps == MInv /\ FInv /\ [Next]_vars => FInv'
<1> SUFFICES ASSUME MInv, FInv, [Next]_vars PROVE FInv'
  OBVIOUS
<1>1. ASSUME phase = "idle", NEW k \in Kinds, NEW m \in Payloads[k], Encode(k, m) PROVE FInv'
  BY <1>1, EncodeReadable
<1>2. CASE /\ phase = "idle"
           /\ \/ \E k \in Kinds : \E m \in Payloads[k] : EncodeFails(k, m)
              \/ \E w \in UnknownWires : EncodeUnknown(w)
              \/ \E s \in Snapshots : SendSnapshot(s)
              \/ \E ints \in ForeignInts : SendForeign(ints)
  BY <1>2, OthersReadable
<1>3. ASSUME NEW n \in 0 .. Len(wire), Cut(n) PROVE FInv'
  BY <1>3, CutReadable
<1>4. CASE DecodeKnown
  BY <1>4, KnownReadable
<1>5. CASE DecodeSnapSingle
  BY <1>5, SnapSingleReadable
<1>6. CASE DecodeUnknown
  BY <1>6, UnknownReadable
<1>7. CASE DecodeSnapshot
  <2>1. phase \in {"snapshot", "items"} /\ sent' = sent
    BY <1>7 DEF DecodeSnapshot, SnapBegin, SnapItem
  <2>2. sent'.by # "us"
    BY <2>1 DEF FInv
  <2>3. OnTheWire' /\ SentShape'
    BY <2>1, <2>2 DEF OnTheWire, FInv, SentShape
  <2> QED
    BY <2>2, <2>3, NotDecoded
<1>8. CASE Free
  <2>1. phase' = "freed" /\ SentShape'
    BY <1>8 DEF Free, FInv, SentShape
  <2> QED
    BY <2>1, NotDecoded DEF OnTheWire
<1>9. CASE UNCHANGED vars
  <2>1. UNCHANGED <<phase, wire, behind, err, kind, msg, sent>>
    BY <1>9 DEF vars
  <2>2. OnTheWire' /\ SentShape'
    BY <2>1 DEF FInv, OnTheWire, SentAs, SentShape
  <2>3. MembersCame' = MembersCame /\ TooManyOptions' = TooManyOptions /\ EndsBeforeString' = EndsBeforeString
    BY <2>1 DEF MembersCame, Needed, Arrived, SameValue, TooManyOptions, EndsBeforeString
  <2>4. FieldsReadBack' /\ CutIsNoticed'
    BY <2>1, <2>3 DEF FInv, FieldsReadBack, CutIsNoticed
  <2> QED
    BY <2>1, <2>2, <2>4 DEF FInv
<1> QED
  BY <1>1, <1>2, <1>3, <1>4, <1>5, <1>6, <1>7, <1>8, <1>9 DEF Next

LEMMA FInvAlways == Spec => []FInv
<1>1. Init => FInv
  BY FInitKeeps
<1>2. MInv /\ FInv /\ [Next]_vars => FInv'
  BY FStepKeeps
<1> QED
  BY <1>1, <1>2, MInvAlways, PTL DEF Spec

\* A message of this library, of whatever kind and with whatever members, is
\* decoded without an error with every member as it was set, its strings
\* without their control characters; only a number of options above 14 makes
\* the decoder leave its message (ddproto_encode_message against
\* ddproto_decode_message, ddproto_unpacker_get_string).
THEOREM FieldsAlwaysReadBack == Spec => []FieldsReadBack
<1>1. FInv => FieldsReadBack
  BY DEF FInv
<1> QED
  BY <1>1, FInvAlways, PTL

\* A message that was cut off is not decoded without an error as one with other
\* members, unless it was cut right before a string: then that string and what
\* follows are read from whatever memory is behind the message, without an
\* error, and only the members before it are those that were sent
\* (decode_system_message, decode_game_message, ddproto_unpacker_get_string).
THEOREM CutAlwaysNoticed == Spec => []CutIsNoticed
<1>1. FInv => CutIsNoticed
  BY DEF FInv
<1> QED
  BY <1>1, FInvAlways, PTL

\* The id of a snapshot and the four integers before it.
Heading == <<15, 1, 2, 3, 4>>

\* As Lies, of a message that is not on the wire yet.
LiesIn(w, ints, a, cut) ==
    /\ ints \in Seq(Int) /\ a \in Nat
    /\ \A i \in 1 .. Len(ints) :
          /\ a + i \in 1 .. Len(w) => w[a + i].type = "int" /\ w[a + i].value = ints[i]
          /\ ~cut => a + i \in 1 .. Len(w) /\ w[a + i].whole

LEMMA HeadingIs ==
    /\ Heading \in Seq(Int) /\ Len(Heading) = 5 /\ Heading[1] = 15
    /\ \A i \in 2 .. 5 : Heading[i] = i - 1
  BY SMT DEF Heading

LEMMA IntFieldIs ==
    ASSUME NEW v
    PROVE  /\ Field("int", v).type = "int" /\ Field("int", v).value = v /\ Field("int", v).whole = TRUE
<1> DEFINE f == Field("int", v)
<1>1. f = [type |-> "int", value |-> v, whole |-> TRUE]
  BY DEF Field
<1> HIDE DEF f
<1>2. f.type = "int" /\ f.value = v /\ f.whole = TRUE
  BY <1>1
<1> QED
  BY <1>2 DEF f

\* The fields of a snapshot's message, by their places.
LEMMA SnapFields ==
    ASSUME NEW ints \in Seq(Int), NEW w, w = SnapWire(ints)
    PROVE  /\ Len(w) = 5 + Len(ints) /\ Len(ints) \in Nat
           /\ \A i \in 1 .. 5 : w[i] = Field("int", Heading[i])
           /\ \A i \in 1 .. Len(ints) : w[5 + i] = Field("int", ints[i])
<1> DEFINE n == Len(ints)
           a == <<IdField("SNAPSINGLE")>>
           b == [i \in 1 .. 4 |-> Field("int", i)]
           c == [i \in DOMAIN ints |-> Field("int", ints[i])]
<1>1. n \in Nat /\ DOMAIN ints = 1 .. n /\ \A i \in 1 .. n : ints[i] \in Int
  BY LenProperties, ElementOfSeq
<1>2. IdField("SNAPSINGLE") = Field("int", 15) /\ IdField("SNAPSINGLE") \in WireField
  <2>1. "SNAPSINGLE" \in DOMAIN SystemId /\ SystemId["SNAPSINGLE"] = 7
    BY SMT DEF SystemId
  <2>2. 2 * 7 + 1 = 15 /\ 15 \in Int
    BY SMT
  <2> QED
    BY <2>1, <2>2, IntFieldTyped DEF IdField
<1>3. a \in Seq(WireField) /\ Len(a) = 1 /\ a[1] = Field("int", 15)
  <2> DEFINE f == IdField("SNAPSINGLE")
  <2>1. f \in WireField /\ f = Field("int", 15)
    BY <1>2
  <2> HIDE DEF f
  <2>2. <<f>> \in Seq(WireField) /\ Len(<<f>>) = 1 /\ <<f>>[1] = f
    BY <2>1
  <2> QED
    BY <2>1, <2>2 DEF f
<1>4. b \in Seq(WireField) /\ Len(b) = 4 /\ \A i \in 1 .. 4 : b[i] = Field("int", i)
  <2>1. b \in [1 .. 4 -> WireField]
    <3>1. \A i \in 1 .. 4 : Field("int", i) \in WireField
      BY IntFieldTyped, SMT
    <3> QED
      BY <3>1
  <2>2. \A i \in 1 .. 4 : b[i] = Field("int", i)
    OBVIOUS
  <2> DEFINE m == 4
  <2>4. b \in [1 .. m -> WireField] /\ m \in Nat
    BY <2>1
  <2> HIDE DEF b, m
  <2>5. b \in Seq(WireField) /\ Len(b) = m
    BY <2>4, SMT
  <2>3. b \in Seq(WireField) /\ Len(b) = 4
    BY <2>5 DEF m
  <2> QED
    BY <2>2, <2>3
<1>5. c \in Seq(WireField) /\ Len(c) = n /\ \A i \in 1 .. n : c[i] = Field("int", ints[i])
  <2>1. c \in [1 .. n -> WireField]
    BY <1>1, IntFieldTyped
  <2>2. \A i \in 1 .. n : c[i] = Field("int", ints[i])
    BY <1>1
  <2> HIDE DEF c
  <2>3. c \in Seq(WireField) /\ Len(c) = n
    BY <1>1, <2>1, SMT
  <2> QED
    BY <2>2, <2>3
<1>6. w = (a \o b) \o c
  BY DEF SnapWire
<1> HIDE DEF n, a, b, c
<1> DEFINE h == a \o b
<1>7. /\ h \in Seq(WireField) /\ Len(h) = 5
      /\ \A i \in 1 .. 5 : h[i] = IF i <= 1 THEN a[i] ELSE b[i - 1]
  <2>1. /\ h \in Seq(WireField) /\ Len(h) = Len(a) + Len(b)
        /\ \A i \in 1 .. Len(a) + Len(b) : h[i] = IF i <= Len(a) THEN a[i] ELSE b[i - Len(a)]
    BY <1>3, <1>4, ConcatProperties
  <2>2. Len(a) + Len(b) = 5 /\ Len(a) = 1
    BY <1>3, <1>4, SMT
  <2> QED
    BY <2>1, <2>2
<1>8. \A i \in 1 .. 5 : h[i] = Field("int", Heading[i])
  <2> SUFFICES ASSUME NEW i \in 1 .. 5 PROVE h[i] = Field("int", Heading[i])
    OBVIOUS
  <2> HIDE DEF h
  <2>1. CASE i = 1
    <3>1. i <= 1 /\ i \in 1 .. 5
      BY <2>1, SMT
    <3> QED
      BY <1>3, <1>7, <2>1, <3>1, HeadingIs
  <2>2. CASE i # 1
    <3>1. ~(i <= 1) /\ i \in 2 .. 5 /\ i - 1 \in 1 .. 4
      BY <2>2, SMT
    <3> QED
      BY <1>4, <1>7, <3>1, HeadingIs
  <2> QED
    BY <2>1, <2>2
<1>12. w = h \o c
  BY <1>6
<1> HIDE DEF h
<1>9. /\ Len(h \o c) = 5 + n
      /\ \A i \in 1 .. 5 + n : (h \o c)[i] = IF i <= 5 THEN h[i] ELSE c[i - 5]
  <2>1. /\ Len(h \o c) = Len(h) + Len(c)
        /\ \A i \in 1 .. Len(h) + Len(c) : (h \o c)[i] = IF i <= Len(h) THEN h[i] ELSE c[i - Len(h)]
    BY <1>5, <1>7, ConcatProperties
  <2> QED
    BY <1>5, <1>7, <2>1
<1>10. \A i \in 1 .. 5 : w[i] = h[i]
  <2>1. \A i \in 1 .. 5 : i \in 1 .. 5 + n /\ i <= 5
    BY <1>1, SMT
  <2> QED
    BY <1>9, <1>12, <2>1
<1>11. \A i \in 1 .. n : w[5 + i] = c[i]
  <2>1. \A i \in 1 .. n : 5 + i \in 1 .. 5 + n /\ ~(5 + i <= 5) /\ (5 + i) - 5 = i
    BY <1>1, SMT
  <2> QED
    BY <1>9, <1>12, <2>1
<1> QED
  BY <1>1, <1>5, <1>6, <1>8, <1>9, <1>10, <1>11 DEF n, h

LEMMA SnapWireLies ==
    ASSUME NEW ints \in Seq(Int), NEW w, w = SnapWire(ints)
    PROVE  LiesIn(w, Heading, 0, FALSE) /\ LiesIn(w, ints, 5, FALSE)
<1>1. /\ Len(w) = 5 + Len(ints) /\ Len(ints) \in Nat
      /\ \A i \in 1 .. 5 : w[i] = Field("int", Heading[i])
      /\ \A i \in 1 .. Len(ints) : w[5 + i] = Field("int", ints[i])
  BY SnapFields
<1>2. ASSUME NEW i \in 1 .. 5
      PROVE  0 + i \in 1 .. Len(w) /\ w[0 + i].type = "int" /\ w[0 + i].value = Heading[i] /\ w[0 + i].whole
  <2> DEFINE z == 0 + i
  <2>1. z = i /\ i \in 1 .. Len(w)
    BY <1>1, SMT
  <2> HIDE DEF z
  <2>2. z \in 1 .. Len(w) /\ w[z].type = "int" /\ w[z].value = Heading[i] /\ w[z].whole
    BY <1>1, <2>1, IntFieldIs
  <2> QED
    BY <2>2 DEF z
<1>3. ASSUME NEW i \in 1 .. Len(ints)
      PROVE  5 + i \in 1 .. Len(w) /\ w[5 + i].type = "int" /\ w[5 + i].value = ints[i] /\ w[5 + i].whole
  <2>1. 5 + i \in 1 .. Len(w)
    BY <1>1, SMT
  <2> QED
    BY <1>1, <2>1, IntFieldIs
<1>4. 0 \in Nat /\ 5 \in Nat
  BY SMT
<1> QED
  BY <1>2, <1>3, <1>4, HeadingIs DEF LiesIn

\* What is left of a message that was cut off.
LEMMA CutLies ==
    ASSUME NEW w \in Seq(WireField), NEW short, CutOf(short, w),
           NEW ints, NEW a, NEW cut, LiesIn(w, ints, a, cut)
    PROVE  LiesIn(short, ints, a, TRUE)
<1>1. /\ short \in Seq(WireField) /\ Len(short) <= Len(w)
      /\ \A i \in 1 .. Len(short) : short[i].type = w[i].type /\ short[i].value = w[i].value
  BY DEF CutOf
<1>2. Len(short) \in Nat /\ Len(w) \in Nat
  BY <1>1, LenProperties
<1>3. \A i \in 1 .. Len(short) : i \in 1 .. Len(w)
  BY <1>1, <1>2, SMT
<1> QED
  BY <1>1, <1>3 DEF LiesIn

LEMMA NamedSnapSingle == Named(15) = {"SNAPSINGLE"}
<1>1. 15 % 2 = 1 /\ 15 \div 2 = 7
  BY SMT
<1>2. Named(15) = {k \in DOMAIN SystemDecodes \cup {"SNAPSINGLE"} : SystemId[k] = 7}
  BY <1>1 DEF Named
<1>3. "SNAPSINGLE" \in DOMAIN SystemId /\ SystemId["SNAPSINGLE"] = 7
  BY SMT DEF SystemId
<1>4. \A k \in DOMAIN SystemDecodes \cup {"SNAPSINGLE"} : SystemId[k] = 7 <=> k = "SNAPSINGLE"
  BY <1>3, DecodedHaveIds, TablesAssumption
<1> QED
  BY <1>2, <1>4

\* The id of a snapshot is read as it was sent, or it is missing.
LEMMA SnapIdRead ==
    ASSUME WireOK, NEW cut, Lies(Heading, 0, cut)
    PROVE  /\ Named(Id.value) \subseteq {"SNAPSINGLE"}
           /\ ~cut => Id.err = "NONE" /\ Named(Id.value) = {"SNAPSINGLE"}
<1>1. Good(Unpacker) /\ Unpacker.at = 0 /\ Unpacker.err = "NONE"
  BY UnpackerIs
<1>2. Lies(<<15>>, 0, cut)
  <2>1. 1 \in 1 .. Len(Heading) /\ 0 = (0 + 1) - 1 /\ 15 = Heading[1]
    BY HeadingIs, SMT
  <2> QED
    BY <2>1, LieOne
<1> DEFINE u == Unpacker
           v == Id
<1>3. v = GetInt(u) /\ Good(u) /\ u.err = "NONE" /\ Coming(<<15>>, u, cut)
  BY <1>1, <1>2 DEF Coming, Id
<1> HIDE DEF u, v
<1>4. (v.err = "NONE" => v.value = 15) /\ (~cut => v.err = "NONE")
  BY <1>3, IntCame
<1>5. v.err # "NONE" => v.value = 0
  BY IdRead DEF v
<1> QED
  BY <1>4, <1>5, NamedSnapSingle, NothingNamed DEF v

\* Integers that are all there are unpacked without an error.
LEMMA UnpackAllThere ==
    ASSUME WireOK, NEW st, Unpacking(st), Good(st.u), st.u.outside = FALSE, st.u.err = "NONE", NEW a, st.u.at = a,
           NEW s, NEW n \in Nat, Len(s) = n, \A i \in 1 .. n : s[i][1] = "int",
           NEW ints, \A i \in 1 .. n : Lies(<<ints[i]>>, (a + i) - 1, FALSE)
    PROVE  UnpackAll(st, s).u.err = "NONE"
<1>1. PICK g : Unpacks(g, st, s, n) /\ UnpackAll(st, s) = g[n]
  BY UnpackAllLast
<1>2. a \in Nat
  BY LenProperties, SMT DEF Good, WireOK
<1> DEFINE P(k) == /\ Unpacking(g[k]) /\ Good(g[k].u) /\ g[k].u.outside = FALSE
                   /\ g[k].u.err = "NONE" /\ g[k].u.at = a + k
           H == {k \in Nat : k \in 0 .. n => P(k)}
<1>3. 0 \in H
  <2>1. 0 \in 0 .. n /\ a + 0 = a
    BY <1>2, SMT
  <2>2. g[0] = st
    BY <1>1, <2>1 DEF Unpacks
  <2> QED
    BY <2>1, <2>2
<1>4. ASSUME NEW k \in Nat, k \in 0 .. n => P(k), k + 1 \in 0 .. n PROVE P(k + 1)
  <2>1. k \in 0 .. n /\ (k + 1) - 1 = k /\ k + 1 # 0 /\ k + 1 \in 1 .. n
    BY <1>4, SMT
  <2>2. P(k)
    BY <1>4, <2>1
  <2> DEFINE st1 == g[k]
             st2 == g[k + 1]
             u == g[k].u
             v == GetInt(u)
             x == ints[k + 1]
  <2>3. st2 = Unpack(st1, s[k + 1])
    BY <1>1, <2>1 DEF Unpacks
  <2>4. Unpacking(st2)
    BY <2>2, <2>3, UnpackFollows
  <2>5. s[k + 1][1] = "int" /\ u.outside = FALSE
    BY <2>1, <2>2
  <2>6. st2.u = v
    <3>1. Unpack(st1, s[k + 1]) = [u |-> v, msg |-> Setting(st1.msg, s[k + 1][2], v.value)]
      BY <2>5, Zenon DEF Unpack
    <3> QED
      BY <2>3, <3>1
  <2>7. Good(u) /\ u.err = "NONE" /\ u.at = a + k
    BY <2>2
  <2>8. Lies(<<x>>, u.at, FALSE)
    <3>1. (a + (k + 1)) - 1 = a + k
      BY <1>2, SMT
    <3>2. Lies(<<x>>, (a + (k + 1)) - 1, FALSE)
      BY <2>1
    <3> QED
      BY <2>7, <3>1, <3>2
  <2>9. v = GetInt(u)
    OBVIOUS
  <2> DEFINE cut == FALSE
  <2>14. Lies(<<x>>, u.at, cut) /\ ~cut
    BY <2>8
  <2> HIDE DEF u, v, x, st1, st2, cut
  <2>10. v.err = "NONE"
    <3>1. Coming(<<x>>, u, cut)
      BY <2>14 DEF Coming
    <3> QED
      BY <2>7, <2>9, <2>14, <3>1, IntCame
  <2>11. Reads(u, v, 1)
    BY <2>7, <2>9, GetIntReads
  <2>12. Good(v) /\ v.outside = FALSE /\ v.at = (a + k) + 1
    BY <2>5, <2>7, <2>10, <2>11 DEF Reads
  <2>13. (a + k) + 1 = a + (k + 1)
    BY <1>2, SMT
  <2> QED
    BY <2>4, <2>6, <2>10, <2>12, <2>13 DEF st2
<1>8. \A k \in Nat : k \in H => k + 1 \in H
  <2> SUFFICES ASSUME NEW k \in Nat, k \in H PROVE k + 1 \in H
    OBVIOUS
  <2>1. (k \in 0 .. n => P(k)) /\ k + 1 \in Nat
    OBVIOUS
  <2> HIDE DEF P
  <2> QED
    BY <1>4, <2>1
<1> HIDE DEF H, P
<1>5. n \in H
  BY <1>3, <1>8, Induction
<1>6. n \in 0 .. n
  BY SMT
<1>7. P(n)
  BY <1>5, <1>6 DEF H
<1> QED
  BY <1>1, <1>7 DEF P

HeadFields == AllInts(<<"game_tick", "delta_tick", "crc", "part_size">>)

LEMMA HeadUnpacked ==
    ASSUME WireOK, Lies(Heading, 0, FALSE)
    PROVE  UnpackAll(Start, HeadFields).u.err = "NONE"
<1>1. Id.err = "NONE"
  BY SnapIdRead
<1>2. Unpacking(Start) /\ Good(Start.u) /\ Start.u.outside = FALSE /\ Start.u = Id
  BY StartGood, StartIs DEF Reads
<1>3. Id.at = 1
  BY <1>1, IdRead
<1>4. Len(HeadFields) = 4 /\ \A i \in 1 .. 4 : HeadFields[i][1] = "int"
  BY SMT DEF HeadFields, AllInts, AnInt
<1> DEFINE ints == [i \in 1 .. 4 |-> Heading[i + 1]]
<1>5. \A i \in 1 .. 4 : Lies(<<ints[i]>>, (1 + i) - 1, FALSE)
  <2> SUFFICES ASSUME NEW i \in 1 .. 4 PROVE Lies(<<ints[i]>>, (1 + i) - 1, FALSE)
    OBVIOUS
  <2>1. ints[i] = Heading[i + 1]
    OBVIOUS
  <2> HIDE DEF ints
  <2>2. i + 1 \in 1 .. Len(Heading) /\ (1 + i) - 1 = (0 + (i + 1)) - 1
    BY HeadingIs, SMT
  <2> QED
    BY <2>1, <2>2, LieOne
<1> HIDE DEF ints
<1>6. 4 \in Nat
  BY SMT
<1> DEFINE st == Start
           s == HeadFields
<1>7. Unpacking(st) /\ Good(st.u) /\ st.u.outside = FALSE /\ st.u.err = "NONE" /\ st.u.at = 1
      /\ Len(s) = 4 /\ \A i \in 1 .. 4 : s[i][1] = "int"
  BY <1>1, <1>2, <1>3, <1>4
<1> HIDE DEF st, s
<1>8. UnpackAll(st, s).u.err = "NONE"
  BY <1>5, <1>6, <1>7, UnpackAllThere
<1> QED
  BY <1>8 DEF st, s

-----------------------------------------------------------------------------
(* A snapshot on its way *)

\* The message of a snapshot, or what is left of it.
OnWire(w, s, cut) ==
    SnapSendable(s) /\ LiesIn(w, Heading, 0, cut) /\ LiesIn(w, SnapInts(s), 5, cut)

LEMMA OnWireLies ==
    ASSUME NEW s, NEW cut, OnWire(wire, s, cut)
    PROVE  Lies(Heading, 0, cut) /\ SnapLies(s, cut)
<1>1. Lies(Heading, 0, cut) /\ Lies(SnapInts(s), 5, cut)
  BY DEF OnWire, LiesIn, Lies
<1> QED
  BY <1>1, SnapLiesApart DEF OnWire

LEMMA SentOnWire ==
    ASSUME NEW s, SnapSendable(s), NEW w, w = SnapWire(SnapInts(s))
    PROVE  OnWire(w, s, FALSE)
  BY SnapIntsTyped, SnapWireLies DEF OnWire

LEMMA CutOnWire ==
    ASSUME NEW w \in Seq(WireField), NEW short, CutOf(short, w), NEW s, NEW cut, OnWire(w, s, cut)
    PROVE  OnWire(short, s, TRUE)
  BY CutLies DEF OnWire

\* The counts of a snapshot and its removed keys, as they are read from u.
CountsRead(s, cut, removed, count, zero) ==
    /\ zero.err = "NONE" => removed.value = Len(s.keys) /\ count.value = Len(s.items) /\ zero.at = 8
    /\ ~cut => zero.err = "NONE"

LEMMA CountsCame ==
    ASSUME WireOK, NEW s, NEW cut, SnapLies(s, cut),
           NEW u, Good(u), u.err = "NONE" => u.at = 5, ~cut => u.err = "NONE",
           NEW removed, removed = GetInt(u), NEW count, count = GetInt(removed),
           NEW zero, zero = GetInt(count)
    PROVE  CountsRead(s, cut, removed, count, zero)
<1> DEFINE ints == Counts(s)
           x == Len(s.keys)
           y == Len(s.items)
           z == 0
<1>1. SnapSendable(s) /\ Lies(ints, 5, cut)
  BY DEF SnapLies
<1>2. Len(ints) = 3 /\ ints[1] = x /\ ints[2] = y /\ ints[3] = z
  BY <1>1, CountsTyped
<1> HIDE DEF ints, x, y, z
<1>3. Lies(<<x>>, 5, cut)
  <2>1. 1 \in 1 .. Len(ints) /\ 5 = (5 + 1) - 1
    BY <1>2, SMT
  <2> QED
    BY <1>1, <1>2, <2>1, LieOne
<1>4. Lies(<<y>>, 6, cut)
  <2>1. 2 \in 1 .. Len(ints) /\ 6 = (5 + 2) - 1
    BY <1>2, SMT
  <2> QED
    BY <1>1, <1>2, <2>1, LieOne
<1>5. Lies(<<z>>, 7, cut)
  <2>1. 3 \in 1 .. Len(ints) /\ 7 = (5 + 3) - 1
    BY <1>2, SMT
  <2> QED
    BY <1>1, <1>2, <2>1, LieOne
<1>6. Reads(u, removed, 1)
  BY GetIntReads
<1>7. Good(removed)
  BY <1>6 DEF Reads
<1>8. Reads(removed, count, 1)
  BY <1>7, GetIntReads
<1>9. Good(count)
  BY <1>8 DEF Reads
<1>10. Reads(count, zero, 1)
  BY <1>9, GetIntReads
<1>11. removed.err = "NONE" => removed.at = 6
  <2>1. removed.err = "NONE" => removed.at = 5 + 1
    BY <1>6 DEF Reads
  <2>2. 5 + 1 = 6
    BY SMT
  <2> QED
    BY <2>1, <2>2
<1>12. count.err = "NONE" => removed.err = "NONE" /\ count.at = 7
  <2>1. count.err = "NONE" => removed.err = "NONE" /\ count.at = 6 + 1
    BY <1>8, <1>11 DEF Reads
  <2>2. 6 + 1 = 7
    BY SMT
  <2> QED
    BY <2>1, <2>2
<1>13. zero.err = "NONE" => count.err = "NONE" /\ zero.at = 8
  <2>1. zero.err = "NONE" => count.err = "NONE" /\ zero.at = 7 + 1
    BY <1>10, <1>12 DEF Reads
  <2>2. 7 + 1 = 8
    BY SMT
  <2> QED
    BY <2>1, <2>2
<1>14. (removed.err = "NONE" => removed.value = x) /\ (~cut => removed.err = "NONE")
  <2>1. Coming(<<x>>, u, cut)
    BY <1>3 DEF Coming
  <2> QED
    BY <2>1, IntCame
<1>15. (count.err = "NONE" => count.value = y) /\ (~cut => count.err = "NONE")
  <2>1. Coming(<<y>>, removed, cut)
    BY <1>4, <1>11 DEF Coming
  <2> QED
    BY <1>7, <1>14, <2>1, IntCame
<1>16. ~cut => zero.err = "NONE"
  <2>1. Coming(<<z>>, count, cut)
    BY <1>5, <1>12 DEF Coming
  <2> QED
    BY <1>9, <1>15, <2>1, IntCame
<1> QED
  BY <1>12, <1>13, <1>14, <1>15, <1>16 DEF CountsRead, x, y

\* The removed keys as they are read behind the counts.
KeysRead(s, cut, zero, keys) ==
    /\ keys.err = "NONE" =>
         /\ keys.at = 8 + Len(s.keys)
         /\ [i \in 1 .. keys.at - zero.at |-> wire[zero.at + i].value] = s.keys
    /\ ~cut => keys.err = "NONE"

LEMMA KeysCame ==
    ASSUME WireOK, NEW s, NEW cut, SnapLies(s, cut), NEW zero, Good(zero), zero.err = "NONE", zero.at = 8,
           NEW n, n = Len(s.keys), NEW keys, keys = GetInts(zero, n)
    PROVE  KeysRead(s, cut, zero, keys)
<1> DEFINE ints == s.keys
<1>1. ints \in Seq(Int) /\ Lies(ints, 8, cut) /\ n = Len(ints)
  BY DEF SnapLies, SnapSendable
<1>4. ints = s.keys
  OBVIOUS
<1> HIDE DEF ints
<1>2. Coming(ints, zero, cut)
  BY <1>1 DEF Coming
<1>3. /\ Reads(zero, keys, n)
      /\ keys.err = "NONE" => \A i \in 1 .. n : wire[zero.at + i].value = ints[i]
      /\ ~cut => keys.err = "NONE"
  BY <1>1, <1>2, IntsCame
<1>5. ASSUME keys.err = "NONE"
      PROVE  /\ keys.at = 8 + Len(ints)
             /\ [i \in 1 .. keys.at - zero.at |-> wire[zero.at + i].value] = ints
  <2>1. keys.at = 8 + n
    BY <1>3, <1>5 DEF Reads
  <2>2. keys.at - zero.at = n /\ n \in Nat
    BY <1>1, <2>1, LenProperties, SMT
  <2>3. ints = [i \in 1 .. n |-> ints[i]]
    <3>1. DOMAIN ints = 1 .. n /\ ints = [i \in DOMAIN ints |-> ints[i]]
      BY <1>1, LenProperties
    <3> QED
      BY <3>1
  <2>4. [i \in 1 .. n |-> wire[zero.at + i].value] = [i \in 1 .. n |-> ints[i]]
    BY <1>3, <1>5
  <2> QED
    BY <1>1, <2>1, <2>2, <2>3, <2>4
<1> QED
  BY <1>3, <1>4, <1>5 DEF KeysRead

\* The items that were decoded are the first that were sent.
ItemsCame(items, got) == \A i \in DOMAIN got : ItemCame(items[i], got[i])

\* So much of a snapshot has been read, and what follows comes next.
SoFar(s, sn, u) ==
    /\ sn.keys = s.keys /\ sn.itemsLen = Len(s.items)
    /\ u.at = ItemsAt(s, Len(sn.items)) /\ ItemsCame(s.items, sn.items)

SnapOnItsWay ==
    sent.by = "server" =>
        /\ phase \in {"sent", "snapshot", "items"} => OnWire(wire, sent.msg, sent.cut)
        /\ phase = "snapshot" /\ ~sent.cut => unpacker.err = "NONE"
        /\ phase = "items" => SoFar(sent.msg, snap, unpacker)

SInv == SnapOnItsWay /\ SnapReadsBack

\* A step of another message, or one behind which no snapshot is on its way.
LEMMA NoSnapshot ==
    ASSUME \/ sent'.by # "server"
           \/ phase' \notin {"sent", "snapshot", "items", "decoded", "outside"}
    PROVE  SInv'
  BY DEF SInv, SnapOnItsWay, SnapReadsBack

\* A step that returns an error.
LEMMA ErrorReturned ==
    ASSUME phase' = "decoded", err' # "NONE", sent'.by = "server" => sent'.cut
    PROVE  SInv'
  BY DEF SInv, SnapOnItsWay, SnapReadsBack

\* A step that returns the snapshot.
LEMMA SnapshotReturned ==
    ASSUME phase' = "decoded", err' = "NONE", sent' = sent,
           NEW s, s = sent.msg, snap'.keys = s.keys, Len(snap'.items) = Len(s.items),
           ItemsCame(s.items, snap'.items)
    PROVE  SInv'
  BY DEF SInv, SnapOnItsWay, SnapReadsBack, ItemsCame

LEMMA SInitKeeps == Init => SInv
<1> SUFFICES ASSUME Init PROVE SInv
  OBVIOUS
<1>1. phase = "idle"
  BY DEF Init
<1> QED
  BY <1>1 DEF SInv, SnapOnItsWay, SnapReadsBack

LEMMA SendsOnWire ==
    ASSUME \/ \E k \in Kinds : \E m \in Payloads[k] : Encode(k, m) \/ EncodeFails(k, m)
           \/ \E w \in UnknownWires : EncodeUnknown(w)
           \/ \E s \in Snapshots : SendSnapshot(s)
           \/ \E ints \in ForeignInts : SendForeign(ints)
    PROVE  SInv'
<1>1. ASSUME NEW k \in Kinds, NEW m \in Payloads[k], Encode(k, m) \/ EncodeFails(k, m) PROVE SInv'
  <2>1. sent' = [by |-> "us", kind |-> k, msg |-> m, cut |-> FALSE]
    BY <1>1 DEF Encode, EncodeFails, Sending
  <2> QED
    BY <2>1, SentIs, NoSnapshot
<1>2. ASSUME NEW w \in UnknownWires, EncodeUnknown(w) PROVE SInv'
  <2>1. sent'.by = "us"
    BY <1>2, SentIs DEF EncodeUnknown, Sending
  <2> QED
    BY <2>1, NoSnapshot
<1>3. ASSUME NEW s \in Snapshots, SendSnapshot(s) PROVE SInv'
  <2>1. sent' = [by |-> "server", kind |-> "SNAPSINGLE", msg |-> s, cut |-> FALSE]
        /\ wire' = SnapWire(SnapInts(s)) /\ phase' = "sent"
    BY <1>3 DEF SendSnapshot, Sending
  <2>2. sent'.msg = s /\ sent'.cut = FALSE
    BY <2>1, SentIs
  <2>3. OnWire(wire', s, FALSE)
    BY <2>1, MessagesAssumption, SentOnWire
  <2>4. SnapOnItsWay'
    BY <2>1, <2>2, <2>3 DEF SnapOnItsWay
  <2> QED
    BY <2>1, <2>4 DEF SInv, SnapReadsBack
<1>4. ASSUME NEW ints \in ForeignInts, SendForeign(ints) PROVE SInv'
  <2>1. sent'.by = "anyone"
    BY <1>4, SentIs DEF SendForeign, Sending
  <2> QED
    BY <2>1, NoSnapshot
<1> QED
  BY <1>1, <1>2, <1>3, <1>4

LEMMA CutLeavesOnWire ==
    ASSUME MInv, FInv, SInv, NEW n \in 0 .. Len(wire), Cut(n)
    PROVE  SInv'
<1>1. /\ wire \in Seq(WireField) /\ phase = "sent" /\ phase' = "sent"
      /\ sent' = [sent EXCEPT !.cut = TRUE]
  BY WireTyped DEF MInv, Cut
<1>2. sent'.by = sent.by /\ sent'.msg = sent.msg /\ sent'.cut = TRUE
  <2>1. sent' = [by |-> sent.by, kind |-> sent.kind, msg |-> sent.msg, cut |-> TRUE]
    BY <1>1 DEF FInv, SentShape
  <2> QED
    BY <2>1, SentIs
<1>3. CutOf(wire', wire)
  BY <1>1, CutIsCut DEF Cut
<1>4. ASSUME sent.by = "server" PROVE OnWire(wire', sent.msg, TRUE)
  <2>1. OnWire(wire, sent.msg, sent.cut)
    BY <1>1, <1>4 DEF SInv, SnapOnItsWay
  <2> QED
    BY <1>1, <1>3, <2>1, CutOnWire
<1>5. SnapOnItsWay'
  BY <1>1, <1>2, <1>4 DEF SnapOnItsWay
<1> QED
  BY <1>1, <1>5 DEF SInv, SnapReadsBack

\* The id of a snapshot, as every decoding begins.
LEMMA ServerId ==
    ASSUME MInv, SInv, phase = "sent", sent.by = "server"
    PROVE  /\ Named(Id.value) \subseteq {"SNAPSINGLE"}
           /\ ~sent.cut => Named(Id.value) = {"SNAPSINGLE"}
<1>1. OnWire(wire, sent.msg, sent.cut) /\ WireOK
  BY DEF SInv, SnapOnItsWay, MInv
<1> QED
  BY <1>1, OnWireLies, SnapIdRead

LEMMA KnownIsNoSnapshot ==
    ASSUME MInv, SInv, DecodeKnown
    PROVE  SInv'
<1>1. phase = "sent" /\ sent' = sent /\ \E k : k \in Named(Id.value) \ {"SNAPSINGLE"}
  BY DEF DecodeKnown, Id
<1>2. sent.by # "server"
  BY <1>1, ServerId
<1> QED
  BY <1>1, <1>2, NoSnapshot

LEMMA UnknownIsCut ==
    ASSUME MInv, SInv, DecodeUnknown
    PROVE  SInv'
<1>1. /\ phase = "sent" /\ sent' = sent /\ Named(Id.value) = {}
      /\ phase' = "decoded" /\ err' = "UNKNOWN_MESSAGE"
  BY DEF DecodeUnknown, Id
<1>2. sent.by = "server" => sent.cut
  BY <1>1, ServerId
<1> QED
  BY <1>1, <1>2, ErrorReturned

LEMMA SnapshotBehindHead ==
    ASSUME MInv, SInv, DecodeSnapSingle
    PROVE  SInv'
<1> DEFINE head == UnpackAll(Start, HeadFields)
<1>1. /\ phase = "sent" /\ UNCHANGED <<wire, sent>> /\ phase' = "snapshot"
      /\ unpacker' = head.u
  BY DEF DecodeSnapSingle, Start, HeadFields
<1>2. ASSUME sent.by = "server"
      PROVE  OnWire(wire, sent.msg, sent.cut) /\ (~sent.cut => head.u.err = "NONE")
  <2>1. OnWire(wire, sent.msg, sent.cut) /\ WireOK
    BY <1>1, <1>2 DEF SInv, SnapOnItsWay, MInv
  <2> DEFINE cut == sent.cut
             z == FALSE
  <2>2. Lies(Heading, 0, cut)
    BY <2>1, OnWireLies
  <2>3. ~cut => Lies(Heading, 0, FALSE)
    BY <2>2 DEF Lies
  <2> QED
    BY <2>1, <2>3, HeadUnpacked
<1> HIDE DEF head
<1>3. SnapOnItsWay'
  BY <1>1, <1>2 DEF SnapOnItsWay
<1> QED
  BY <1>1, <1>3 DEF SInv, SnapReadsBack

\* The snapshot with its counts and keys, and with the array of its items.
LEMMA KeyedSnap ==
    ASSUME NEW kl, NEW kd, NEW il, NEW id, NEW a, NEW read,
           NEW counted, counted = [keysLen |-> kl, keysData |-> kd, keys |-> <<>>,
                                   itemsLen |-> il, itemsData |-> id, items |-> <<>>],
           NEW keyed, keyed = [counted EXCEPT !.keysData = a, !.keys = read],
           NEW ready, ready = [keyed EXCEPT !.itemsData = "array"]
    PROVE  /\ keyed.keys = read /\ keyed.itemsLen = il /\ keyed.items = <<>>
           /\ ready.keys = read /\ ready.itemsLen = il /\ ready.items = <<>>
<1>1. /\ counted.keysLen = kl /\ counted.itemsLen = il
      /\ counted.itemsData = id /\ counted.items = <<>>
  BY SnapRecord
<1>2. counted = [keysLen |-> counted.keysLen, keysData |-> counted.keysData, keys |-> counted.keys,
                 itemsLen |-> counted.itemsLen, itemsData |-> counted.itemsData, items |-> counted.items]
  BY SnapRecord
<1>3. keyed = [keysLen |-> kl, keysData |-> a, keys |-> read,
               itemsLen |-> il, itemsData |-> id, items |-> <<>>]
  BY <1>1, <1>2, KeysSet
<1>4. keyed.keysLen = kl /\ keyed.keysData = a /\ keyed.keys = read
      /\ keyed.itemsLen = il /\ keyed.itemsData = id /\ keyed.items = <<>>
  BY <1>3, SnapRecord
<1>5. ready = [keysLen |-> kl, keysData |-> a, keys |-> read,
               itemsLen |-> il, itemsData |-> "array", items |-> <<>>]
  BY <1>3, <1>4, SnapSet
<1>6. ready.keys = read /\ ready.itemsLen = il /\ ready.items = <<>>
  BY <1>5, SnapRecord
<1> QED
  BY <1>4, <1>6

LEMMA CountsAndKeysCame ==
    ASSUME MInv, SInv, SnapBegin, UNCHANGED <<wire, sent>>
    PROVE  SInv'
<1> SUFFICES ASSUME sent.by = "server" PROVE SInv'
  BY NoSnapshot
<1> DEFINE removed == GetInt(unpacker)
           count   == GetInt(removed)
           zero    == GetInt(count)
           keys    == GetInts(zero, removed.value)
           counted == [keysLen  |-> removed.value, keysData  |-> Pointer(removed.value), keys  |-> <<>>,
                       itemsLen |-> count.value,   itemsData |-> Pointer(count.value),   items |-> <<>>]
           read    == [i \in 1 .. keys.at - zero.at |-> wire[zero.at + i].value]
           keyed   == [counted EXCEPT !.keysData = Allocated(removed.value), !.keys = read]
           ready   == [keyed EXCEPT !.itemsData = "array"]
           s       == sent.msg
           cut     == sent.cut
<1>1. phase = "snapshot" /\ WireOK /\ Good(unpacker) /\ (unpacker.err = "NONE" => unpacker.at = 5)
  BY DEF MInv, SnapBegin
<1>2. OnWire(wire, s, cut) /\ (~cut => unpacker.err = "NONE")
  BY <1>1 DEF SInv, SnapOnItsWay
<1>3. SnapLies(s, cut)
  BY <1>2, OnWireLies
<1>4. \/ zero.err # "NONE" /\ ReturnTo(zero.err)
      \/ zero.err = "NONE" /\ (removed.value < 0 \/ (count.value < 0 /\ keys.err = "NONE"))
      \/ zero.err = "NONE" /\ keys.err # "NONE" /\ ReturnTo(keys.err)
      \/ keys.err = "NONE" /\ count.value = 0 /\ snap' = keyed /\ ReturnTo("NONE")
      \/ keys.err = "NONE" /\ unpacker' = keys /\ snap' = ready /\ phase' = "items"
  BY DEF SnapBegin
<1>5. keyed.keys = read /\ keyed.itemsLen = count.value /\ keyed.items = <<>>
      /\ ready.keys = read /\ ready.itemsLen = count.value /\ ready.items = <<>>
  <2> DEFINE kl == removed.value
             kd == Pointer(removed.value)
             il == count.value
             id == Pointer(count.value)
             a == Allocated(removed.value)
  <2>1. /\ counted = [keysLen |-> kl, keysData |-> kd, keys |-> <<>>,
                      itemsLen |-> il, itemsData |-> id, items |-> <<>>]
        /\ keyed = [counted EXCEPT !.keysData = a, !.keys = read]
        /\ ready = [keyed EXCEPT !.itemsData = "array"]
    OBVIOUS
  <2> HIDE DEF kl, kd, il, id, a, read, counted, keyed, ready
  <2>2. keyed.keys = read /\ keyed.itemsLen = il /\ keyed.items = <<>>
        /\ ready.keys = read /\ ready.itemsLen = il /\ ready.items = <<>>
    BY <2>1, KeyedSnap
  <2> QED
    BY <2>2 DEF il
<1>6. s = sent.msg /\ cut = sent.cut /\ removed = GetInt(unpacker) /\ count = GetInt(removed)
      /\ zero = GetInt(count) /\ keys = GetInts(zero, removed.value)
      /\ read = [i \in 1 .. keys.at - zero.at |-> wire[zero.at + i].value]
  OBVIOUS
<1> HIDE DEF removed, count, zero, keys, counted, read, keyed, ready, s, cut
<1>7. CountsRead(s, cut, removed, count, zero)
  BY <1>1, <1>2, <1>3, <1>6, CountsCame
<1>8. Good(zero)
  <2>1. Good(removed)
    BY <1>1, <1>6, GetIntReads DEF Reads
  <2>2. Good(count)
    BY <1>1, <1>6, <2>1, GetIntReads DEF Reads
  <2> QED
    BY <1>1, <1>6, <2>2, GetIntReads DEF Reads
<1>9. zero.err = "NONE" => KeysRead(s, cut, zero, keys) /\ removed.value = Len(s.keys)
  <2> SUFFICES ASSUME zero.err = "NONE" PROVE KeysRead(s, cut, zero, keys) /\ removed.value = Len(s.keys)
    OBVIOUS
  <2>1. removed.value = Len(s.keys) /\ zero.at = 8
    BY <1>7 DEF CountsRead
  <2> QED
    BY <1>1, <1>3, <1>6, <1>8, <2>1, KeysCame
<1>10. keys.err = "NONE" => zero.err = "NONE"
  <2>1. removed.value \in Int
    <3>1. Good(removed)
      BY <1>1, <1>6, GetIntReads DEF Reads
    <3> QED
      BY <3>1 DEF Good
  <2>2. Reads(zero, keys, IF removed.value > 0 THEN removed.value ELSE 0)
    BY <1>1, <1>6, <1>8, <2>1, GetIntsReads
  <2> QED
    BY <2>2 DEF Reads
<1>11. Len(s.keys) \in Nat /\ Len(s.items) \in Nat
  BY <1>3, SnapPartsTyped DEF PartsOK, SnapLies
<1>12. CASE zero.err # "NONE" /\ ReturnTo(zero.err)
  <2>1. phase' = "decoded" /\ err' # "NONE" /\ sent'.cut
    BY <1>6, <1>7, <1>12 DEF ReturnTo, CountsRead
  <2> QED
    BY <2>1, ErrorReturned
<1>13. CASE zero.err = "NONE" /\ (removed.value < 0 \/ (count.value < 0 /\ keys.err = "NONE"))
  <2>1. removed.value = Len(s.keys) /\ count.value = Len(s.items)
    BY <1>7, <1>13 DEF CountsRead
  <2>2. ~(removed.value < 0) /\ ~(count.value < 0)
    BY <1>11, <2>1, SMT
  <2> QED
    BY <1>13, <2>2
<1>14. CASE zero.err = "NONE" /\ keys.err # "NONE" /\ ReturnTo(keys.err)
  <2>1. phase' = "decoded" /\ err' # "NONE" /\ sent'.cut
    BY <1>6, <1>9, <1>14 DEF ReturnTo, KeysRead
  <2> QED
    BY <2>1, ErrorReturned
<1>15. ASSUME keys.err = "NONE"
       PROVE  read = s.keys /\ count.value = Len(s.items) /\ keys.at = 8 + Len(s.keys)
  BY <1>6, <1>7, <1>9, <1>10, <1>15 DEF KeysRead, CountsRead
<1>16. ItemsCame(s.items, <<>>) /\ Len(<<>>) = 0
  BY DEF ItemsCame
<1>17. CASE keys.err = "NONE" /\ count.value = 0 /\ snap' = keyed /\ ReturnTo("NONE")
  <2>1. phase' = "decoded" /\ err' = "NONE"
    BY <1>17 DEF ReturnTo
  <2>2. snap'.keys = s.keys /\ snap'.items = <<>> /\ Len(s.items) = 0
    BY <1>5, <1>15, <1>17
  <2> QED
    BY <1>6, <1>16, <2>1, <2>2, SnapshotReturned
<1>18. CASE keys.err = "NONE" /\ unpacker' = keys /\ snap' = ready /\ phase' = "items"
  <2>1. snap'.keys = s.keys /\ snap'.itemsLen = Len(s.items) /\ snap'.items = <<>>
    BY <1>5, <1>15, <1>18
  <2>2. unpacker'.at = ItemsAt(s, 0)
    BY <1>3, <1>15, <1>18 DEF SnapLies
  <2>3. SoFar(s, snap', unpacker')
    BY <1>16, <2>1, <2>2 DEF SoFar
  <2>4. SnapOnItsWay'
    BY <1>2, <1>6, <1>18, <2>3 DEF SnapOnItsWay
  <2> QED
    BY <1>18, <2>4 DEF SInv, SnapReadsBack
<1> QED
  BY <1>4, <1>12, <1>13, <1>14, <1>17, <1>18

LEMMA ItemCameNext ==
    ASSUME MInv, SInv, SnapItem, UNCHANGED <<wire, sent>>
    PROVE  SInv'
<1> SUFFICES ASSUME sent.by = "server" PROVE SInv'
  BY NoSnapshot
<1> DEFINE d == DecodeItem(unpacker)
           s == sent.msg
           cut == sent.cut
           n == Len(snap.items)
           item == s.items[n + 1]
           a == ItemsAt(s, n)
<1>1. /\ phase = "items" /\ WireOK /\ Good(unpacker) /\ unpacker.err = "NONE" /\ SnapShape
      /\ IsSequence(snap.items) /\ n <= snap.itemsLen - 1
  BY DEF MInv, SnapItem, ItemsBound, Loop
<1>2. OnWire(wire, s, cut) /\ SoFar(s, snap, unpacker)
  BY <1>1 DEF SInv, SnapOnItsWay
<1>3. /\ unpacker' = d.u
      /\ \/ d.err # "NONE" /\ ReturnTo(d.err)
         \/ /\ d.err = "NONE" /\ snap' = [snap EXCEPT !.items = Append(@, d.item)]
            /\ IF MoreItems(n + 1) THEN phase' = "items" ELSE ReturnTo("NONE")
  BY DEF SnapItem
<1>4. SnapLies(s, cut)
  BY <1>2, OnWireLies
<1>5. snap.keys = s.keys /\ snap.itemsLen = Len(s.items) /\ unpacker.at = a /\ ItemsCame(s.items, snap.items)
  BY <1>2 DEF SoFar
<1>6. n \in Nat /\ Len(s.items) \in Nat /\ n + 1 \in 1 .. Len(s.items) /\ (n + 1) - 1 = n
  <2>1. n \in Nat /\ Len(s.items) \in Nat
    BY <1>1, <1>4, SequenceLength, SnapPartsTyped DEF PartsOK, SnapLies
  <2>2. n <= Len(s.items) - 1
    BY <1>1, <1>5
  <2> HIDE DEF n
  <2> QED
    BY <2>1, <2>2, SMT
<1>7. Lies(ItemInts(item), a, cut) /\ ItemsAt(s, n + 1) = a + Len(ItemInts(item)) /\ ItemSendable(item)
  <2>1. ItemSendable(item)
    BY <1>4, <1>6, SnapPartsTyped DEF PartsOK, SnapLies
  <2> QED
    BY <1>4, <1>6, <2>1 DEF SnapLies
<1>8. s = sent.msg /\ cut = sent.cut /\ d = DecodeItem(unpacker) /\ item = s.items[n + 1] /\ n = Len(snap.items)
  OBVIOUS
<1> HIDE DEF d, s, cut, n, item, a
<1>9. ItemRead(item, a, cut, d)
  BY <1>1, <1>5, <1>7, <1>8, DecodeItemCame
<1>10. CASE d.err # "NONE" /\ ReturnTo(d.err)
  <2>1. phase' = "decoded" /\ err' # "NONE" /\ sent'.cut
    BY <1>8, <1>9, <1>10 DEF ReturnTo, ItemRead
  <2> QED
    BY <2>1, ErrorReturned
<1>11. CASE /\ d.err = "NONE" /\ snap' = [snap EXCEPT !.items = Append(@, d.item)]
            /\ IF MoreItems(n + 1) THEN phase' = "items" ELSE ReturnTo("NONE")
  <2> DEFINE items == Append(snap.items, d.item)
  <2>1. snap' = [snap EXCEPT !.items = items]
    BY <1>11
  <2>2. IsSequence(items) /\ Len(items) = n + 1 /\ items[n + 1] = d.item
        /\ \A i \in 1 .. n : items[i] = snap.items[i]
    BY <1>1, <1>8, SequenceLength
  <2> HIDE DEF items
  <2>3. snap' = [keysLen  |-> snap.keysLen,  keysData  |-> snap.keysData,  keys  |-> snap.keys,
                 itemsLen |-> snap.itemsLen, itemsData |-> snap.itemsData, items |-> items]
    BY <1>1, <2>1, SnapSet DEF SnapShape
  <2>4. snap'.keys = s.keys /\ snap'.itemsLen = Len(s.items) /\ snap'.items = items
    BY <1>5, <2>3, SnapRecord
  <2>5. d.u.at = ItemsAt(s, n + 1) /\ ItemCame(item, d.item)
    BY <1>7, <1>9, <1>11 DEF ItemRead
  <2>6. ItemsCame(s.items, items)
    <3>1. DOMAIN items = 1 .. n + 1 /\ DOMAIN snap.items = 1 .. n
      BY <1>1, <1>8, <2>2, LenProperties DEF IsSequence
    <3>2. ASSUME NEW i \in 1 .. n + 1 PROVE ItemCame(s.items[i], items[i])
      <4>1. CASE i = n + 1
        BY <1>8, <2>2, <2>5, <4>1
      <4>2. CASE i # n + 1
        <5>1. i \in 1 .. n
          BY <1>6, <4>2, SMT
        <5> QED
          BY <1>5, <2>2, <3>1, <5>1 DEF ItemsCame
      <4> QED
        BY <4>1, <4>2
    <3> QED
      BY <3>1, <3>2 DEF ItemsCame
  <2>7. CASE MoreItems(n + 1)
    <3>1. phase' = "items"
      BY <1>11, <2>7
    <3>2. SoFar(s, snap', unpacker')
      BY <1>3, <2>2, <2>4, <2>5, <2>6 DEF SoFar
    <3>3. SnapOnItsWay'
      BY <1>2, <1>8, <3>1, <3>2 DEF SnapOnItsWay
    <3> QED
      BY <3>1, <3>3 DEF SInv, SnapReadsBack
  <2>8. CASE ~MoreItems(n + 1)
    <3>1. phase' = "decoded" /\ err' = "NONE"
      BY <1>11, <2>8 DEF ReturnTo
    <3>2. Len(snap'.items) = Len(s.items)
      <4>1. ~(n + 1 < Len(s.items))
        BY <1>5, <2>8 DEF MoreItems
      <4>2. n + 1 = Len(s.items)
        BY <1>6, <4>1, SMT
      <4> QED
        BY <2>2, <2>4, <4>2
    <3> QED
      BY <1>8, <2>4, <2>6, <3>1, <3>2, SnapshotReturned
  <2> QED
    BY <2>7, <2>8
<1> QED
  BY <1>3, <1>10, <1>11

LEMMA SStepKeeps == MInv /\ FInv /\ SInv /\ [Next]_vars => SInv'
<1> SUFFICES ASSUME MInv, FInv, SInv, [Next]_vars PROVE SInv'
  OBVIOUS
<1>1. CASE \/ \E k \in Kinds : \E m \in Payloads[k] : Encode(k, m) \/ EncodeFails(k, m)
           \/ \E w \in UnknownWires : EncodeUnknown(w)
           \/ \E s \in Snapshots : SendSnapshot(s)
           \/ \E ints \in ForeignInts : SendForeign(ints)
  BY <1>1, SendsOnWire
<1>2. ASSUME NEW n \in 0 .. Len(wire), Cut(n) PROVE SInv'
  BY <1>2, CutLeavesOnWire
<1>3. CASE DecodeKnown
  BY <1>3, KnownIsNoSnapshot
<1>4. CASE DecodeSnapSingle
  BY <1>4, SnapshotBehindHead
<1>5. CASE DecodeUnknown
  BY <1>5, UnknownIsCut
<1>6. CASE DecodeSnapshot
  <2>1. UNCHANGED <<wire, sent>> /\ (SnapBegin \/ SnapItem)
    BY <1>6 DEF DecodeSnapshot
  <2> QED
    BY <2>1, CountsAndKeysCame, ItemCameNext
<1>7. CASE Free
  <2>1. phase' = "freed"
    BY <1>7 DEF Free
  <2> QED
    BY <2>1, NoSnapshot
<1>8. CASE UNCHANGED vars
  BY <1>8 DEF vars, SInv, SnapOnItsWay, SnapReadsBack, OnWire, LiesIn, SoFar
<1> QED
  BY <1>1, <1>2, <1>3, <1>4, <1>5, <1>6, <1>7, <1>8 DEF Next

LEMMA SInvAlways == Spec => []SInv
<1>1. Init => SInv
  BY SInitKeeps
<1>2. MInv /\ FInv /\ SInv /\ [Next]_vars => SInv'
  BY SStepKeeps
<1> QED
  BY <1>1, <1>2, MInvAlways, FInvAlways, PTL DEF Spec

\* A snapshot of a server, with however many keys and items of whatever types,
\* is decoded without an error into its keys and its items, every member as it
\* was (the carriers of the flags apart, and the last character of a string
\* that fills its integers); a snapshot that was cut off is never taken for a
\* shorter one (ddproto_decode_snapshot, ddproto_decode_snap_item).
THEOREM SnapshotsReadBack == Spec => []SnapReadsBack
<1>1. SInv => SnapReadsBack
  BY DEF SInv
<1> QED
  BY <1>1, SInvAlways, PTL

=============================================================================
