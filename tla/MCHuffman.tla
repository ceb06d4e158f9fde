----------------------------- MODULE MCHuffman -----------------------------
(* Huffman for model checking, with the frequency table of the code. *)
EXTENDS Huffman

\* A byte for each length of a code, and the neighbours of the end symbol.
Some == {0, 1, 2, 4, 5, 128, 3, 15, 21, 52, 53, 54, 108, 119, 255}

Edge == {0, 1, 119, 128}

MCPlains ==
    {<<>>} \cup {<<a>> : a \in Bytes} \cup {<<a, b>> : a, b \in Some}
      \cup {<<a, b, c>> : a, b, c \in Edge} \cup {<<a, b, c, d>> : a, b, c, d \in {0, 119}}
=============================================================================
