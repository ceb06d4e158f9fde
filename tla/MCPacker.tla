------------------------------ MODULE MCPacker ------------------------------
(***************************************************************************)
(* Packer for model checking: integers at the limits of each length,       *)
(* strings with spaces and control characters, foreign bytes with and      *)
(* without the extend bit, and several kinds of memory behind the data.    *)
(***************************************************************************)
EXTENDS Packer

MCInts == {0, 1, 63, 64, -64, -65, 8191, 8192, -8193, 1048576, 134217727, 134217728,
           2147483647, -2147483647 - 1}
MCStrings == {<<>>, <<65>>, <<32, 65, 32, 32, 66, 32>>, <<7, 9, 65>>}
MCRaws == {<<255>>, <<0, 128>>}
MCSanitizing == SUBSET {"SANITIZE", "SANITIZE_CC", "SKIP_START_WHITESPACES"}
MCBytes == {0, 1, 65, 128, 255}
MCForeignData == UNION {[1 .. n -> MCBytes] : n \in 0 .. 3}
                   \cup {<<255, 255, 255, 255, 255>>, <<128, 128, 128, 128, 255, 1>>,
                         <<255, 255, 255, 255>>}

\* Behind the data: a string or an empty one, an integer that is no bool, and
\* integers that what is known of the memory ends in.
MCBehind == {<<65, 0, 2, 255>>, <<0, 128, 1>>}
=============================================================================
