----------------------------- MODULE MCHeaders -----------------------------
(* Headers for model checking: every number and every ack of ten bits, and *)
(* some above.                                                             *)
EXTENDS Headers

MCSequences == 0 .. 1100 \cup {2047, 2048, 32768, 65535}
MCAcks == 0 .. 1030 \cup {65535}
=============================================================================
