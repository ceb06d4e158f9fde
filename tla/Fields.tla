------------------------------- MODULE Fields -------------------------------
(***************************************************************************)
(* What message.c and snapshot.c see of an unpacker.  A message on the     *)
(* wire is a sequence of fields: integers, strings and raw data.  Packer   *)
(* has the bytes of a field and shows that it reads back; here a string is *)
(* a number that stands for it, and raw data is its size.  A message may   *)
(* end in the middle of its last field, which is then not whole.  A        *)
(* negative string has control characters in it, and its absolute value is *)
(* that string without them.                                               *)
(*                                                                         *)
(* An unpacker is a record: where it is (at), its error (err), the value   *)
(* it returned last, and whether it went on where nothing is known of the  *)
(* memory (outside).  A string of which nothing is left in the message is  *)
(* read from the memory behind it, with everything that follows.           *)
(***************************************************************************)
EXTENDS Integers, Sequences

VARIABLES
    wire,     \* the fields between unpacker.buf and unpacker.buf_end
    behind    \* what the reads behind buf_end find, whatever they look for

Field(type, value) == [type |-> type, value |-> value, whole |-> TRUE]

Unpacker == [at |-> 0, err |-> "NONE", value |-> 0, outside |-> FALSE]

AtEnd(u) == u.at = Len(wire)

\* Of the memory behind the message nothing more is known.
Exhausted(u) == u.at = Len(wire) + Len(behind)

Here(u) == IF u.at < Len(wire) THEN wire[u.at + 1] ELSE Field("any", behind[u.at + 1 - Len(wire)])

\* The message ends in the middle of the field that is read.
AtPart(u) == u.at < Len(wire) /\ ~Here(u).whole

\* members, with a value set; and what is in one of two tables.
Setting(members, member, value) ==
    [m \in DOMAIN members \cup {member} |-> IF m = member THEN value ELSE members[m]]

Either(f, g) == [k \in DOMAIN f \cup DOMAIN g |-> IF k \in DOMAIN f THEN f[k] ELSE g[k]]

Fails(u, error) == [u EXCEPT !.err = error, !.value = 0]

\* The bytes of a field of another type have some value; it is none that a
\* sender uses.
Garbage == -1000000

Takes(u, type) ==
    [u EXCEPT !.at = @ + 1,
              !.value = IF Here(u).type \in {type, "any"} THEN Here(u).value ELSE Garbage]

\* A variant of GetInt with an error: what is missing is 0, and no error.
GetIntOrZero(u) ==
    CASE AtEnd(u)                    -> [u EXCEPT !.value = 0]
      [] AtPart(u)                   -> Fails(u, "END_OF_BUFFER")
      [] ~AtEnd(u) /\ Exhausted(u)   -> [u EXCEPT !.outside = TRUE]
      [] OTHER                       -> Takes(u, "int")

\* ddproto_unpacker_get_int.  An integer cut off keeps the cursor on its last
\* byte, where every later read finds it again.  Past buf_end the difference
\* that is to be the space left is a huge size_t.
GetInt(u) ==
    CASE AtEnd(u)                    -> Fails(u, "EMPTY_BUFFER")
      [] AtPart(u)                   -> Fails(u, "END_OF_BUFFER")
      [] ~AtEnd(u) /\ Exhausted(u)   -> [u EXCEPT !.outside = TRUE]
      [] OTHER                       -> Takes(u, "int")

\* n integers one after the other, as far as they are there: a read that fails
\* fails again.  No string is before them, so they are looked for in the wire.
GetInts(u, n) ==
    LET there == IF wire # <<>> /\ ~wire[Len(wire)].whole THEN Len(wire) - 1 ELSE Len(wire)
    IN  IF n <= 0 THEN u
        ELSE GetInt([u EXCEPT !.at = IF @ + n <= there THEN @ + n - 1 ELSE there])

\* ddproto_unpacker_get_bool.
GetBool(u) ==
    LET v == GetInt(u) IN
    IF v.value \in {0, 1} THEN v ELSE [v EXCEPT !.err = "INVALID_BOOL", !.value = 0]

\* ddproto_str_sanitize.
Sanitize(string) == IF string < 0 THEN -string ELSE string

\* ddproto_unpacker_get_string.  The first byte is read before the end of the
\* data is looked at, and the loop ends at no other place than just there: with
\* nothing left the string is one of the memory behind, and there is no error.
GetString(u) ==
    IF u.err # "NONE" THEN [u EXCEPT !.value = 0]
    ELSE CASE Exhausted(u)   -> [u EXCEPT !.outside = TRUE]
           [] AtPart(u)      -> Fails([u EXCEPT !.at = @ + 1], "STR_UNEXPECTED_EOF")
           [] OTHER          -> [Takes(u, "string") EXCEPT !.value = Sanitize(@)]

\* ddproto_unpacker_get_raw of n bytes; a negative n is a huge size_t.
GetRaw(u, n) ==
    LET room == IF AtEnd(u) \/ AtPart(u) THEN 0 ELSE Here(u).value
    IN  IF ~AtEnd(u) /\ Exhausted(u) THEN [u EXCEPT !.outside = TRUE]
        ELSE CASE n = 0            -> [u EXCEPT !.value = 0]
               [] n \in 1 .. room  -> [Takes(u, "raw") EXCEPT !.value = n]
               [] OTHER            -> Fails(u, "END_OF_BUFFER")
=============================================================================
