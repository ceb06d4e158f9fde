----------------------------- MODULE MCMessages -----------------------------
(***************************************************************************)
(* Messages for model checking: every kind of message and every type of    *)
(* item, and what the headers say of messages and snapshots that the code  *)
(* does not do.                                                            *)
(***************************************************************************)
EXTENDS Messages

\* Each member has a value of its own, a bool both of its, and the strings are
\* with control characters or without.
Numbered(k) ==
    LET fields == Encodes[k]
        place(m) == CHOOSE i \in DOMAIN fields : fields[i][2] = m
        members == {fields[i][2] : i \in DOMAIN fields} \ {"buildinfo", "unset"}
        bools == {m \in members : \E d \in ToSet(Decodes[k]) : d = ABool(m)}
        strings == {m \in members : AString(m) \in ToSet(fields)}
    IN  {[m \in members |-> CASE m \in bools -> b[m]
                              [] m \in strings -> sign * (10 + place(m))
                              [] OTHER -> 10 + place(m)] :
            b \in [bools -> {0, 1}], sign \in IF strings = {} THEN {1} ELSE {1, -1}}

MCPayloads ==
    [k \in Kinds |->
        CASE k \notin DOMAIN Encodes -> {<<>>}
          [] k = "MAP_DATA" -> {[m EXCEPT !.chunk_size = n, !.data = n] : m \in Numbered(k), n \in {0, 1, 5}}
          [] k = "SV_TUNEPARAMS" ->
                {[m \in ToSet(TuneParams) |-> from + 7 * (CHOOSE i \in 1 .. 33 : TuneParams[i] = m)] :
                    from \in {-130, 0, 12, 2900, 131070, -131070, 8000000}}
          [] k = "SV_VOTEOPTIONLISTADD" ->
                {[m \in {"num_options"} \cup {Descriptions[i] : i \in 1 .. set} |->
                    IF m = "num_options" THEN n
                    ELSE LET i == CHOOSE i \in 1 .. 14 : Descriptions[i] = m
                         IN  IF i % 3 = 0 THEN -i ELSE i] :
                    n \in {-1, 0, 1, 2, 13, 14, 15}, set \in {1, 2, 3, 13, 14}}
          [] OTHER -> Numbered(k)]

MCUnknownWires == {<<Field("int", 14)>>, <<Field("int", 25), Field("string", 7)>>, <<Field("int", 1)>>}

\* Nothing, too little for most messages, and enough for the longest: once with
\* only valid bools, and once without any.
MCBehind == {<<>>, <<5>>, [i \in 1 .. 15 |-> i % 2], [i \in 1 .. 15 |-> -40 - i]}

MCStaleKinds == {"SNAPSINGLE", "UNKNOWN"}

\* Strings of any length up to the one that fills the integers.
Names(n) == {<<>>, <<65>>, [i \in 1 .. 4 * n - 1 |-> 60 + i], [i \in 1 .. 4 * n |-> ((100 + 9 * i) % 255) + 1]}

Item(k, i, local, s) ==
    [kind |-> k, id |-> i,
     members |-> [m \in ToSet(Struct[k]) |->
        CASE m \in Bools -> local
          [] m = "name"  -> s
          [] m = "clan"  -> SubSeq(s, 1, IF Len(s) < 12 THEN Len(s) ELSE 12)
          [] m = "skin"  -> IF Len(s) <= 12 THEN s \o s ELSE s
          [] OTHER       -> 100 * i + (CHOOSE j \in DOMAIN Struct[k] : Struct[k][j] = m)]]

Unknown(t, i, n) ==
    [kind |-> "UNKNOWN", id |-> i, members |-> [type_id |-> t, size |-> n, data_len |-> n]]

Items(i) ==
    {Item(k, i, i % 2, <<66>>) : k \in DOMAIN Struct}
      \cup {Unknown(t, i, n) : t \in {-1, 0, 3000, 32767}, n \in {0, 2}}

Snap(k, i) == [keys |-> k, items |-> i]

MCSnapshots ==
    {Snap(<<>>, <<>>), Snap(<<7, 8>>, <<>>)}
      \cup {Snap(<<9>>, <<a>>) : a \in Items(1)}
      \cup {Snap(<<>>, <<Item("CLIENT_INFO", 1, 1, s)>>) : s \in Names(3) \cup Names(4)}
      \cup {Snap(<<>>, <<a, b>>) : a \in Items(1), b \in Items(2)}

\* Counts that are not those of the items, unknown types of vanilla and bools
\* that are none.
MCForeignInts ==
    {<<n, k, 0>> \o rest : n \in {-1, 0, 1, 3}, k \in {-1, 0, 1, 2},
        rest \in {<<>>, <<5, 1, 2, 3, 4>>, <<14, 1, 2, 3>>, <<13, 1, 2, 3>>, <<1, 1, 2>>,
                  <<10, 1, 2, 3, 4, 5, 6>>, <<0, 1, 5, 2>>, <<0, 1, -5, 14, 1, 2, 3>>, <<5, 6, 16, 1, 2, 3>>}}

(* msg_system.h:68-69: a request for map data is answered with             *)
(* MSG_KIND_MAP_DATA.  So the kind of a message is that of its sender.     *)
KindReadsBack ==
    sent.by = "us" /\ ~sent.cut /\ phase = "decoded" => kind = sent.kind

(* snap_items.h:185-199: the carrier of the red flag, then that of the     *)
(* blue one.  So every member of an item is what its struct calls it.      *)
CarriersReadBack ==
    sent.by = "server" /\ phase = "decoded" /\ err = "NONE" =>
        \A i \in DOMAIN snap.items :
            snap.items[i].kind = "GAME_DATA" =>
                \A c \in Carriers : snap.items[i].members[c] = sent.msg.items[i].members[c]
=============================================================================
