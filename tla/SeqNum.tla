------------------------------- MODULE SeqNum -------------------------------
(***************************************************************************)
(* The sequence arithmetic of the teeworlds reliability layer:             *)
(* src/src/session.c and the sequence bits of the chunk header,            *)
(* src/src/chunk.c.                                                        *)
(***************************************************************************)
EXTENDS Integers

CONSTANT MaxSequence      \* DDPROTO_MAX_SEQUENCE, 1024 in chunk.h

ASSUME MaxSequenceAssumption ==
    MaxSequence \in Nat /\ MaxSequence >= 4 /\ MaxSequence % 2 = 0

Half == MaxSequence \div 2

\* The numbers a vital chunk header can carry.
SeqNumbers == 0 .. MaxSequence - 1

\* Variants of NextSeq and SeqInBackroom with an error in them.  Each is there
\* to show that a property of Connection fails with it.

\* The number is not wrapped.
NextSeqUnwrapped(s) == s + 1

\* The part of the past that lies before the wrap is forgotten.
BackroomBeforeWrapForgotten(sequence, ack) ==
    sequence <= ack /\ sequence >= ack - Half

\* Every smaller number is taken for the past, those after the wrap too.
BackroomWithoutBottom(sequence, ack) ==
    sequence <= ack \/ sequence >= ack - Half + MaxSequence

\* The number after ack is taken for the past.
BackroomOneTooMany(sequence, ack) ==
    LET bottom == ack - Half
    IN  IF bottom < 0
          THEN sequence <= ack + 1 \/ sequence >= bottom + MaxSequence
          ELSE sequence <= ack + 1 /\ sequence >= bottom

\* The number expected after s.
NextSeq(s) == (s + 1) % MaxSequence

\* ddproto_seq_in_backroom: is this number one of those at or shortly before
\* ack?  The branches are those of the code.
SeqInBackroom(sequence, ack) ==
    LET bottom == ack - Half
    IN  IF bottom < 0
          THEN sequence <= ack \/ sequence >= bottom + MaxSequence
          ELSE sequence <= ack /\ sequence >= bottom

\* The number d places after s (before it when d is negative) on the circle,
\* for s in SeqNumbers and -MaxSequence < d < MaxSequence.  Used to state and
\* to prove things about SeqInBackroom, not part of the code.
Shift(s, d) ==
    IF s + d >= MaxSequence THEN s + d - MaxSequence
    ELSE IF s + d < 0 THEN s + d + MaxSequence
    ELSE s + d
=============================================================================
