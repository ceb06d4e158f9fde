------------------------------ MODULE Messages ------------------------------
(***************************************************************************)
(* ddproto_encode_message and ddproto_decode_message of src/src/message.c: *)
(* one message is encoded, by this library or by another, perhaps cut off  *)
(* on its way, and decoded into a chunk; a snapshot in it is decoded item  *)
(* by item (Snapshot) and freed.                                           *)
(***************************************************************************)
EXTENDS Snapshot

CONSTANTS
    Payloads,      \* Payloads[k]: the members a sender gives to a message of kind k
    UnknownWires,  \* messages of which neither side knows the id
    Snapshots,     \* snapshots of another sender
    ForeignInts,   \* and what else may come in place of one
    Behind,        \* what may be behind a message in memory
    StaleKinds,    \* what the kind of a chunk on the stack may be
    PointerSize    \* sizeof(const char *)

VARIABLES
    msg,     \* chunk.payload.msg: the members set
    sent     \* history: whose message it is, its kind and its members

vars == <<phase, wire, behind, unpacker, err, kind, msg, snap, heap, sent>>

Nothing == [by |-> "nobody", kind |-> "UNKNOWN", msg |-> <<>>, cut |-> FALSE]

\* The chunk is a local variable of ddproto_fetch_chunks that nobody sets: its
\* kind may be that of a chunk before.
Init ==
    /\ phase = "idle" /\ wire = <<>> /\ behind \in Behind
    /\ unpacker = Unpacker /\ err = "NONE" /\ kind \in StaleKinds
    /\ msg = <<>> /\ snap = NoSnap /\ heap = {} /\ sent = Nothing

----------------------------------------------------------------------------
(* The tables *)

\* The system and the game messages of ddproto_packer_init_msg with their ids.
SystemId ==
    [INFO |-> 1, MAP_CHANGE |-> 2, MAP_DATA |-> 3, CON_READY |-> 4, SNAP |-> 5, SNAPEMPTY |-> 6,
     SNAPSINGLE |-> 7, SNAPSMALL |-> 8, INPUTTIMING |-> 9, RCON_AUTH_STATUS |-> 10,
     RCON_LINE |-> 11, READY |-> 14, ENTERGAME |-> 15, INPUT |-> 16, RCON_CMD |-> 17,
     RCON_AUTH |-> 18, REQUEST_MAP_DATA |-> 19, PING |-> 22, PING_REPLY |-> 23,
     RCON_CMD_ADD |-> 25, RCON_CMD_REM |-> 26]

GameId ==
    [SV_MOTD |-> 1, SV_BROADCAST |-> 2, SV_CHAT |-> 3, SV_KILLMSG |-> 4, SV_SOUNDGLOBAL |-> 5,
     SV_TUNEPARAMS |-> 6, SV_READYTOENTER |-> 8, SV_WEAPONPICKUP |-> 9, SV_EMOTICON |-> 10,
     SV_VOTECLEAROPTIONS |-> 11, SV_VOTEOPTIONLISTADD |-> 12, SV_VOTEOPTIONADD |-> 13,
     SV_VOTEOPTIONREMOVE |-> 14, SV_VOTESET |-> 15, CL_SAY |-> 17, CL_STARTINFO |-> 20]

Kinds == DOMAIN SystemId \cup DOMAIN GameId

\* A variant of IdField with an error: the category is left out.
IdFieldGame(k) ==
    Field("int", 2 * (IF k \in DOMAIN SystemId THEN SystemId[k] ELSE GameId[k]))

\* What ddproto_packer_init_msg packs: the id, and the category in the last bit.
IdField(k) ==
    Field("int", IF k \in DOMAIN SystemId THEN 2 * SystemId[k] + 1 ELSE 2 * GameId[k])

AnInt(member) == <<"int", member>>
ABool(member) == <<"bool", member>>
AString(member) == <<"string", member>>
RawData(member) == <<"raw", member>>
AllInts(members) == [i \in DOMAIN members |-> AnInt(members[i])]
AllStrings(members) == [i \in DOMAIN members |-> AString(members[i])]

\* DDProtoMsgSvTuneParams.
TuneParams ==
    <<"ground_control_speed", "ground_control_accel", "ground_friction", "ground_jump_impulse",
      "air_jump_impulse", "air_control_speed", "air_control_accel", "air_friction",
      "hook_length", "hook_fire_speed", "hook_drag_accel", "hook_drag_speed", "gravity",
      "velramp_start", "velramp_range", "velramp_curvature", "gun_curvature", "gun_speed",
      "gun_lifetime", "shotgun_curvature", "shotgun_speed", "shotgun_speeddiff",
      "shotgun_lifetime", "grenade_curvature", "grenade_speed", "grenade_lifetime",
      "laser_reach", "laser_bounce_delay", "laser_bounce_num", "laser_bounce_cost",
      "laser_damage", "player_collision", "player_hooking">>

\* DDProtoMsgInput.
InputMembers ==
    <<"ack_game_tick", "prediction_tick", "size", "direction", "target_x", "target_y", "jump",
      "fire", "hook", "player_flags", "wanted_weapon", "next_weapon", "prev_weapon">>

\* DDProtoMsgSvVoteOptionListAdd.descriptions.
Descriptions == [i \in 1 .. 14 |-> "descriptions" \o ToString(i - 1)]

\* Where the members of DDProtoMsgSvChat and of DDProtoMsgClSay are in the
\* union of the messages: integers of four bytes, and an aligned pointer.
Aligned(n) == PointerSize * ((n + PointerSize - 1) \div PointerSize)
ChatAt == [team |-> 0, client_id |-> 4, message |-> Aligned(8)]
SayAt == [team |-> 0, message |-> Aligned(4)]

\* The member of a CL_SAY that is where a chat has the given one, if it has one.
InSay(member) ==
    IF \E m \in DOMAIN SayAt : SayAt[m] = ChatAt[member]
    THEN CHOOSE m \in DOMAIN SayAt : SayAt[m] = ChatAt[member] ELSE "unset"

\* The members ddproto_encode_message packs, in its order.  A bool is packed as
\* an integer.  Of vote options the number comes first (Options); ENTERGAME
\* packs a string of its own, and CL_SAY what a chat has in its place.
SystemEncodes ==
    [INFO |-> AllStrings(<<"version", "password">>),
     MAP_CHANGE |-> <<AString("name"), AnInt("crc"), AnInt("size")>>,
     MAP_DATA |-> AllInts(<<"last", "map_crc", "chunk", "chunk_size">>) \o <<RawData("data")>>,
     ENTERGAME |-> <<AString("buildinfo")>>,
     CON_READY |-> <<>>, READY |-> <<>>,
     INPUTTIMING |-> AllInts(<<"intended_tick", "time_left">>),
     RCON_AUTH_STATUS |-> AllInts(<<"authed", "cmdlist">>),
     RCON_LINE |-> AllStrings(<<"line">>),
     INPUT |-> AllInts(InputMembers),
     RCON_CMD |-> AllStrings(<<"command">>),
     RCON_AUTH |-> <<AString("name"), AString("password"), AnInt("send_rcon_cmds")>>,
     REQUEST_MAP_DATA |-> AllInts(<<"chunk">>),
     RCON_CMD_ADD |-> AllStrings(<<"name", "help", "params">>),
     RCON_CMD_REM |-> AllStrings(<<"name">>)]

GameEncodes ==
    [SV_READYTOENTER |-> <<>>, SV_VOTECLEAROPTIONS |-> <<>>,
     SV_MOTD |-> AllStrings(<<"message">>),
     SV_BROADCAST |-> AllStrings(<<"message">>),
     SV_CHAT |-> <<AnInt("team"), AnInt("client_id"), AString("message")>>,
     SV_KILLMSG |-> AllInts(<<"killer_id", "victim_id", "weapon", "mode_special">>),
     SV_SOUNDGLOBAL |-> AllInts(<<"sound_id">>),
     SV_TUNEPARAMS |-> AllInts(TuneParams),
     SV_WEAPONPICKUP |-> AllInts(<<"weapon">>),
     SV_EMOTICON |-> AllInts(<<"client_id", "emoticon">>),
     SV_VOTEOPTIONLISTADD |-> AllInts(<<"num_options">>) \o AllStrings(Descriptions),
     SV_VOTEOPTIONADD |-> AllStrings(<<"description">>),
     SV_VOTEOPTIONREMOVE |-> AllStrings(<<"description">>),
     SV_VOTESET |-> <<AnInt("timeout"), AString("description"), AString("reason")>>,
     CL_SAY |-> <<AnInt(InSay("team")), AString(InSay("message"))>>,
     CL_STARTINFO |-> <<AString("name"), AString("clan"), AnInt("country"), AString("skin"),
                        AnInt("use_custom_color"), AnInt("color_body"), AnInt("color_feet")>>]

Encodes == Either(SystemEncodes, GameEncodes)

\* The members decode_system_message and decode_game_message unpack, in their
\* order.  Those without an entry are unknown to them, but SNAPSINGLE.
SystemDecodes ==
    [INFO |-> AllStrings(<<"version", "password">>),
     MAP_CHANGE |-> <<AString("name"), AnInt("crc"), AnInt("size")>>,
     MAP_DATA |-> <<ABool("last"), AnInt("map_crc"), AnInt("chunk"), AnInt("chunk_size"), RawData("data")>>,
     CON_READY |-> <<>>,
     INPUTTIMING |-> AllInts(<<"intended_tick", "time_left">>),
     RCON_AUTH_STATUS |-> <<ABool("authed"), ABool("cmdlist")>>,
     RCON_LINE |-> AllStrings(<<"line">>),
     READY |-> <<>>, ENTERGAME |-> <<>>,
     INPUT |-> AllInts(InputMembers),
     RCON_CMD |-> AllStrings(<<"command">>),
     RCON_AUTH |-> <<AString("name"), AString("password"), ABool("send_rcon_cmds")>>,
     REQUEST_MAP_DATA |-> AllInts(<<"chunk">>),
     RCON_CMD_ADD |-> AllStrings(<<"name", "help", "params">>),
     RCON_CMD_REM |-> AllStrings(<<"name">>)]

GameDecodes ==
    [SV_MOTD |-> AllStrings(<<"message">>),
     SV_BROADCAST |-> AllStrings(<<"message">>),
     SV_CHAT |-> <<AnInt("team"), AnInt("client_id"), AString("message")>>,
     SV_KILLMSG |-> AllInts(<<"killer_id", "victim_id", "weapon", "mode_special">>),
     SV_SOUNDGLOBAL |-> AllInts(<<"sound_id">>),
     SV_TUNEPARAMS |-> AllInts(TuneParams),
     SV_READYTOENTER |-> <<>>,
     SV_WEAPONPICKUP |-> AllInts(<<"weapon">>),
     SV_EMOTICON |-> AllInts(<<"client_id", "emoticon">>),
     SV_VOTECLEAROPTIONS |-> <<>>,
     SV_VOTEOPTIONLISTADD |-> AllInts(<<"num_options">>),
     SV_VOTEOPTIONADD |-> AllStrings(<<"description">>),
     SV_VOTEOPTIONREMOVE |-> AllStrings(<<"description">>),
     SV_VOTESET |-> <<AnInt("timeout"), AString("description"), AString("reason")>>,
     CL_SAY |-> <<AnInt("team"), AString("message")>>,
     CL_STARTINFO |-> <<AString("name"), AString("clan"), AnInt("country"), AString("skin"),
                        ABool("use_custom_color"), AnInt("color_body"), AnInt("color_feet")>>]

Decodes == Either(SystemDecodes, GameDecodes)

----------------------------------------------------------------------------
(* Tune parameters are floats in the message and hundredths on the wire *)

\* n \div d for positive n and d, rounded to the nearest, of two to the even one.
Rounded(n, d) ==
    LET q == n \div d
        r == 2 * (n % d)
    IN  IF r > d \/ (r = d /\ q % 2 = 1) THEN q + 1 ELSE q

\* The 24 bits of a float end at the place e for n / 100, and at s for p.
InFloat(n, e) == 838860800 <= n * 2^e /\ n * 2^e < 1677721600
Fits(p, s) == (s = 0 \/ 8388608 <= p \div 2^s) /\ p \div 2^s < 16777216
Exponent(n) == CHOOSE e \in 0 .. 31 : InFloat(n, e)
Shift(p) == CHOOSE s \in 0 .. 7 : Fits(p, s)

\* (int32_t)(f * 100) for the float f = n / 100: both are rounded to 24 bits,
\* and the cast cuts off what is behind the point.
Scaled(n) ==
    LET a == IF n < 0 THEN -n ELSE n
        e == Exponent(a)
        p == 100 * Rounded(a * 2^e, 100)
        s == Shift(p)
        v == (Rounded(p, 2^s) * 2^s) \div 2^e
    IN  CASE n = 0 -> 0 [] n > 0 -> v [] OTHER -> -v

----------------------------------------------------------------------------
(* ddproto_encode_message *)

Sending(by, k, m) ==
    /\ sent' = [by |-> by, kind |-> k, msg |-> m, cut |-> FALSE]
    /\ UNCHANGED <<behind, unpacker, kind, msg, snap, heap>>

\* The options after the last are packed as empty strings: all with an index
\* above num_options, so the one at num_options is still read.
BehindOptions(k, m, member) ==
    k = "SV_VOTEOPTIONLISTADD" /\ \E i \in DOMAIN Descriptions :
        member = Descriptions[i] /\ i - 1 > m.num_options

Packed(k, m, f) ==
    Field(f[1], IF f[2] = "buildinfo" THEN 1
                ELSE IF BehindOptions(k, m, f[2]) THEN 0
                ELSE IF k = "SV_TUNEPARAMS" THEN Scaled(m[f[2]]) ELSE m[f[2]])

\* Some member that is packed was never set.
ReadsUnset(k, m) ==
    \E f \in ToSet(Encodes[k]) :
        f[2] \notin DOMAIN m /\ f[2] # "buildinfo" /\ ~BehindOptions(k, m, f[2])

\* A message that is encoded.
Encode(k, m) ==
    /\ k \in DOMAIN Encodes /\ Sending("us", k, m)
    /\ \/ /\ ~ReadsUnset(k, m)
          /\ wire' = <<IdField(k)>> \o [i \in DOMAIN Encodes[k] |-> Packed(k, m, Encodes[k][i])]
          /\ phase' = "sent" /\ UNCHANGED err
       \/ /\ ReadsUnset(k, m) /\ phase' = "undefined" /\ UNCHANGED <<wire, err>>

\* It does not fit into the packer, or there is no encoding of its kind: the
\* caller sees the error and sends nothing.
EncodeFails(k, m) ==
    /\ Sending("us", k, m) /\ UNCHANGED wire
    /\ err' = IF k \in DOMAIN Encodes THEN "BUFFER_FULL" ELSE "UNKNOWN_MESSAGE"
    /\ phase' = "failed"

\* An unknown message is copied as it is.
EncodeUnknown(w) == Sending("us", "UNKNOWN", <<>>) /\ wire' = w /\ phase' = "sent" /\ UNCHANGED err

----------------------------------------------------------------------------
(* Another sender, and the way *)

\* The members of the items in the order of their structs, that of the network
\* objects.
Objects ==
    [PROJECTILE |-> <<"x", "y", "vel_x", "vel_y", "type", "start_tick">>,
     LASER |-> <<"x", "y", "from_x", "from_y", "start_tick">>,
     PICKUP |-> <<"x", "y", "type", "subtype">>,
     FLAG |-> <<"x", "y", "team">>,
     GAME_INFO |-> <<"game_flags", "game_state_flags", "round_start_tick", "warmup_timer",
                     "score_limit", "time_limit", "round_num", "round_current">>,
     GAME_DATA |-> <<"teamscore_red", "teamscore_blue", "flag_carrier_red", "flag_carrier_blue">>,
     CHARACTER |-> <<"tick", "x", "y", "vel_x", "vel_y", "angle", "direction", "jumped",
                     "hooked_player", "hook_state", "hook_tick", "hook_x", "hook_y", "hook_dx",
                     "hook_dy", "player_flags", "health", "armor", "ammo_count", "weapon",
                     "emote", "attack_tick">>,
     PLAYER_INFO |-> <<"local", "client_id", "team", "score", "latency">>,
     CLIENT_INFO |-> <<"name", "clan", "country", "skin", "use_custom_color", "color_body",
                       "color_feet">>,
     SPECTATOR_INFO |-> <<"spectator_id", "x", "y">>]

Events ==
    [EXPLOSION |-> <<"x", "y">>, SPAWN |-> <<"x", "y">>, HAMMER_HIT |-> <<"x", "y">>,
     DEATH |-> <<"x", "y", "client_id">>,
     SOUND_GLOBAL |-> <<"x", "y", "sound_id">>, SOUND_WORLD |-> <<"x", "y", "sound_id">>,
     DAMAGE_INDICATOR |-> <<"x", "y", "angle">>]

Struct == Either(Objects, Events)

\* An item as integers: type, id, members; strings are packed into several.
ItemInts(item) ==
    LET ints(m) == IF m \in DOMAIN NumInts THEN StrToInts(item.members[m], NumInts[m])
                   ELSE <<item.members[m]>>
    IN  IF item.kind = "UNKNOWN"
        THEN <<item.members.type_id, item.id, item.members.size>> \o [i \in 1 .. item.members.size |-> i]
        ELSE <<ItemType[item.kind], item.id>>
               \o FlattenSeq([i \in DOMAIN Struct[item.kind] |-> ints(Struct[item.kind][i])])

SnapInts(s) ==
    <<Len(s.keys), Len(s.items), 0>> \o s.keys
        \o FlattenSeq([i \in DOMAIN s.items |-> ItemInts(s.items[i])])

SnapWire(ints) ==
    <<IdField("SNAPSINGLE")>> \o [i \in 1 .. 4 |-> Field("int", i)]
        \o [i \in DOMAIN ints |-> Field("int", ints[i])]

SendSnapshot(s) ==
    /\ Sending("server", "SNAPSINGLE", s)
    /\ wire' = SnapWire(SnapInts(s)) /\ phase' = "sent" /\ UNCHANGED err

SendForeign(ints) ==
    /\ Sending("anyone", "SNAPSINGLE", <<>>)
    /\ wire' = SnapWire(ints) /\ phase' = "sent" /\ UNCHANGED err

\* The size in the chunk header is smaller than the message: the message ends
\* behind n fields, or in the middle of the last of them.
Cut(n) ==
    /\ phase = "sent" /\ ~sent.cut /\ n < Len(wire)
    /\ \/ wire' = SubSeq(wire, 1, n)
       \/ wire' = [SubSeq(wire, 1, n + 1) EXCEPT ![n + 1].whole = FALSE]
    /\ sent' = [sent EXCEPT !.cut = TRUE]
    /\ UNCHANGED <<phase, behind, unpacker, err, kind, msg, snap, heap>>

----------------------------------------------------------------------------
(* ddproto_decode_message *)

\* The message with the id and the category of v, if there is one.
Named(v) ==
    IF v % 2 = 1 THEN {k \in DOMAIN SystemDecodes \cup {"SNAPSINGLE"} : SystemId[k] = v \div 2}
    ELSE {k \in DOMAIN GameDecodes : GameId[k] = v \div 2}

\* One assignment of decode_system_message or decode_game_message.
Unpack(st, f) ==
    LET v == CASE f[1] = "int"    -> GetInt(st.u)
               [] f[1] = "bool"   -> GetBool(st.u)
               [] f[1] = "string" -> GetString(st.u)
               [] OTHER           -> GetRaw(st.u, st.msg.chunk_size)
    IN  IF st.u.outside THEN st ELSE [u |-> v, msg |-> Setting(st.msg, f[2], v.value)]

\* The assignments of a message, one after the other.
UnpackAll(st, fields) ==
    LET after[i \in 0 .. Len(fields)] ==
            IF i = 0 THEN st ELSE Unpack(after[i - 1], fields[i])
    IN  after[Len(fields)]

\* The loop over the descriptions, of which the message has room for 14.
Options(st) ==
    IF st.msg.num_options > Len(Descriptions) THEN [st EXCEPT !.u.outside = TRUE]
    ELSE UnpackAll(st, AllStrings(SubSeq(Descriptions, 1, st.msg.num_options)))

\* MAP_DATA is given the kind of MAP_CHANGE.
KindSet(k) == IF k = "MAP_DATA" THEN "MAP_CHANGE" ELSE k

DecodeKnown ==
    LET id == GetInt(Unpacker) IN
    /\ phase = "sent"
    /\ \E k \in Named(id.value) \ {"SNAPSINGLE"} :
          LET read == UnpackAll([u |-> id, msg |-> <<>>], Decodes[k])
              st   == IF k = "SV_VOTEOPTIONLISTADD" THEN Options(read) ELSE read
          IN  /\ unpacker' = st.u /\ msg' = st.msg /\ kind' = KindSet(k) /\ err' = st.u.err
              /\ phase' = IF st.u.outside THEN "outside" ELSE "decoded"
    /\ UNCHANGED <<wire, behind, snap, heap, sent>>

\* The four integers before the snapshot.
DecodeSnapSingle ==
    LET id   == GetInt(Unpacker)
        head == UnpackAll([u |-> id, msg |-> <<>>],
                         AllInts(<<"game_tick", "delta_tick", "crc", "part_size">>))
    IN  /\ phase = "sent" /\ "SNAPSINGLE" \in Named(id.value)
        /\ unpacker' = head.u /\ msg' = head.msg /\ phase' = "snapshot"
        /\ UNCHANGED <<wire, behind, err, kind, snap, heap, sent>>

\* Without a kind of its own the message is kept as it is, whatever its length.
DecodeUnknown ==
    LET id == GetInt(Unpacker) IN
    /\ phase = "sent" /\ Named(id.value) = {}
    /\ unpacker' = id /\ phase' = "decoded" /\ err' = "UNKNOWN_MESSAGE" /\ kind' = "UNKNOWN"
    /\ msg' = [unknown |-> Len(wire)]
    /\ UNCHANGED <<wire, behind, snap, heap, sent>>

DecodeSnapshot == (SnapBegin \/ SnapItem) /\ UNCHANGED <<wire, behind, msg, sent>>

\* The errors with which ddproto_fetch_chunks goes on, so that the chunk is one
\* of the packet its user gets.
Kept == err \in {"NONE", "UNKNOWN_MESSAGE"}

\* ddproto_free_packet of a packet with this chunk.
Free ==
    /\ phase = "decoded" /\ Kept /\ kind = "SNAPSINGLE"
    /\ FreeSnapshot /\ phase' = "freed"
    /\ UNCHANGED <<wire, behind, unpacker, err, kind, msg, sent>>

Next ==
    \/ /\ phase = "idle"
       /\ \/ \E k \in Kinds : \E m \in Payloads[k] : Encode(k, m) \/ EncodeFails(k, m)
          \/ \E w \in UnknownWires : EncodeUnknown(w)
          \/ \E s \in Snapshots : SendSnapshot(s)
          \/ \E ints \in ForeignInts : SendForeign(ints)
    \/ \E n \in 0 .. Len(wire) : Cut(n)
    \/ DecodeKnown \/ DecodeSnapSingle \/ DecodeUnknown \/ DecodeSnapshot \/ Free

Spec == Init /\ [][Next]_vars

----------------------------------------------------------------------------
(* What the constants are, and what can be read off the tables *)

FieldTypes == {"int", "string", "raw"}
Wires == Seq([type : FieldTypes, value : Int, whole : {TRUE}])

\* The hundredths up to which a float keeps them.
MaxTuneParam == 13107199

\* What a sender may set of a message: some of its members, as the struct has
\* them, the number of options included.
Settable(k, m) ==
    /\ m \in [DOMAIN m -> Int]
    /\ DOMAIN m \subseteq {f[2] : f \in ToSet(Encodes[k])} \ {"buildinfo", "unset"}
    /\ \A f \in ToSet(Decodes[k]) :
          f[1] = "bool" /\ f[2] \in DOMAIN m => m[f[2]] \in {0, 1}
    /\ k = "MAP_DATA" /\ {"chunk_size", "data"} \subseteq DOMAIN m =>
          m.chunk_size \in Nat /\ m.data = m.chunk_size
    /\ k = "SV_TUNEPARAMS" => \A member \in DOMAIN m : m[member] \in -MaxTuneParam .. MaxTuneParam
    /\ k = "SV_VOTEOPTIONLISTADD" => "num_options" \in DOMAIN m

\* What a server may put into an item: strings that fit in their integers, and,
\* of a type the client does not know, as many integers as it says.
ItemSendable(item) ==
    /\ item.id \in Int
    /\ IF item.kind = "UNKNOWN"
       THEN /\ DOMAIN item.members = {"type_id", "size", "data_len"}
            /\ item.members.type_id \in Int /\ item.members.type_id \notin Vanilla
            /\ item.members.size \in Nat /\ item.members.data_len = item.members.size
       ELSE /\ item.kind \in DOMAIN ItemType /\ DOMAIN item.members = ToSet(Struct[item.kind])
            /\ \A m \in DOMAIN item.members :
                  IF m \in DOMAIN NumInts
                  THEN item.members[m] \in Seq(1 .. 255) /\ Accepts(item.members[m], NumInts[m])
                  ELSE item.members[m] \in IF m \in Bools THEN {0, 1} ELSE Int

SnapSendable(s) ==
    /\ s.keys \in Seq(Int) /\ s.items \in Seq(ToSet(s.items))
    /\ \A i \in DOMAIN s.items : ItemSendable(s.items[i])

\* What is unpacked of a message of kind k, the options included.
Unpacked(k) ==
    IF k = "SV_VOTEOPTIONLISTADD" THEN Decodes[k] \o AllStrings(Descriptions) ELSE Decodes[k]

SameType(packed, unpacked) == unpacked = packed \/ (packed = "int" /\ unpacked = "bool")

\* What is packed are members of the message itself.
OwnMembers(k) == \A i \in DOMAIN Encodes[k] : Encodes[k][i][2] # "unset"

ASSUME PointerAssumption == PointerSize \in {4, 8}

\* The tables: a message is unpacked as it is packed, member by member, and
\* raw data comes last.  Nothing is unpacked of ENTERGAME.
ASSUME TablesAssumption ==
    /\ \A k \in DOMAIN Decodes : Decodes[k] \in Seq((FieldTypes \cup {"bool"}) \X STRING)
    /\ \A k \in DOMAIN Encodes :
          /\ k \in DOMAIN Decodes
          /\ Encodes[k] \in Seq(FieldTypes \X STRING)
          /\ \A i, j \in DOMAIN Encodes[k] : Encodes[k][i][2] = Encodes[k][j][2] => i = j
          /\ \A i \in DOMAIN Encodes[k] : Encodes[k][i][1] = "raw" => k = "MAP_DATA" /\ i = Len(Encodes[k])
          /\ \A i \in DOMAIN Encodes[k] : Encodes[k][i][2] = "buildinfo" => k = "ENTERGAME"
          /\ k = "ENTERGAME" => Decodes[k] = <<>>
          /\ k # "ENTERGAME" /\ OwnMembers(k) =>
                /\ Len(Unpacked(k)) = Len(Encodes[k])
                /\ \A i \in DOMAIN Encodes[k] :
                      /\ Unpacked(k)[i][2] = Encodes[k][i][2]
                      /\ SameType(Encodes[k][i][1], Unpacked(k)[i][1])
    /\ \A i \in DOMAIN Descriptions : Descriptions[i] # "unset"
    /\ \A j, k \in DOMAIN SystemId : SystemId[j] = SystemId[k] => j = k
    /\ \A j, k \in DOMAIN GameId : GameId[j] = GameId[k] => j = k
    /\ DOMAIN SystemId \cap DOMAIN GameId = {}

ASSUME MessagesAssumption ==
    /\ \A k \in DOMAIN Encodes : \A m \in Payloads[k] : Settable(k, m)
    /\ \A w \in UnknownWires : w \in Wires /\ w # <<>> /\ Named(w[1].value) = {}
    /\ \A s \in Snapshots : SnapSendable(s)
    /\ \A ints \in ForeignInts : ints \in Seq(Int)
    /\ Behind \subseteq Seq(Int) /\ StaleKinds \subseteq Kinds \cup {"UNKNOWN"}

----------------------------------------------------------------------------
TypeOK ==
    /\ phase \in {"idle", "failed", "undefined", "sent", "snapshot", "items", "decoded",
                  "outside", "freed"}
    /\ unpacker.at \in 0 .. Len(wire) + IF phase \in {"snapshot", "items"} THEN 0 ELSE Len(behind)
    /\ kind \in Kinds \cup {"UNKNOWN"}
    /\ heap \subseteq {"keys", "items"}
    /\ Len(snap.items) <= IF phase = "items" THEN snap.itemsLen - 1
                          ELSE IF snap.itemsLen > 0 THEN snap.itemsLen ELSE 0

\* The members a receiver needs: of vote options those that are there.
Needed ==
    IF sent.kind # "SV_VOTEOPTIONLISTADD" THEN DOMAIN sent.msg
    ELSE {"num_options"} \cup {Descriptions[i] : i \in 1 .. sent.msg.num_options}

\* A tune parameter may lose a hundredth, towards zero.
SameValue(a, b) ==
    \/ a = b
    \/ sent.kind = "SV_TUNEPARAMS" /\ a # 0 /\ b = a - (IF a > 0 THEN 1 ELSE -1)

\* A string comes without its control characters.
Arrived(member) ==
    IF AString(member) \in ToSet(Encodes[sent.kind]) THEN msg[member] = Sanitize(sent.msg[member])
    ELSE SameValue(sent.msg[member], msg[member])

MembersCame ==
    /\ Needed \subseteq DOMAIN msg
    /\ \A member \in DOMAIN msg : Arrived(member)

\* More options than the message has room for.
TooManyOptions ==
    sent.kind = "SV_VOTEOPTIONLISTADD" /\ sent.msg.num_options > Len(Descriptions)

(* A message of this library is decoded without an error, as the message   *)
(* it was (the kind of MAP_DATA apart), with every member as it was set,   *)
(* the strings without control characters; a message with an unknown id is *)
(* kept whole.  Only a number of options that is larger than the array of  *)
(* them makes the decoder leave its message (ddproto_encode_message        *)
(* against ddproto_decode_message, ddproto_packer_init_msg).               *)
FieldsReadBack ==
    sent.by = "us" /\ ~sent.cut /\ phase \in {"decoded", "outside"} =>
        /\ phase = "outside" <=> TooManyOptions
        /\ CASE sent.kind = "UNKNOWN" ->
                   err = "UNKNOWN_MESSAGE" /\ kind = "UNKNOWN" /\ msg.unknown = Len(wire)
             [] sent.kind # "UNKNOWN" /\ phase = "decoded" ->
                   err = "NONE" /\ kind = KindSet(sent.kind) /\ MembersCame
             [] OTHER -> TRUE

\* The message ends exactly where a string should begin, and what is before
\* that has come.
EndsBeforeString ==
    /\ Len(wire) \in DOMAIN Encodes[sent.kind] /\ wire[Len(wire)].whole
    /\ Encodes[sent.kind][Len(wire)][1] = "string"
    /\ \A i \in 1 .. Len(wire) - 1 :
          LET member == Encodes[sent.kind][i][2] IN member \in DOMAIN msg /\ Arrived(member)

(* A message that was cut off and is decoded without an error has lost     *)
(* nothing that a member needs: of the reads of message.c, of which none   *)
(* looks at the error, the last returns what any of them missed.  There is *)
(* one place where a cut is not noticed, right before a string: that       *)
(* string and what follows are then read from the memory behind the        *)
(* message, and only the members before it are those that were sent        *)
(* (decode_system_message, decode_game_message,                            *)
(* ddproto_unpacker_get_string).                                           *)
CutIsNoticed ==
    sent.by = "us" /\ sent.cut /\ phase = "decoded" /\ err = "NONE" =>
        MembersCame \/ EndsBeforeString

Carriers == {"flag_carrier_red", "flag_carrier_blue"}

\* Of a string that fills its integers the last character is lost.
MemberCame(value, member, got) ==
    got = IF member \in DOMAIN NumInts /\ Len(value) = 4 * NumInts[member]
          THEN SubSeq(value, 1, Len(value) - 1) ELSE value

ItemCame(item, got) ==
    /\ got.kind = item.kind /\ got.id = item.id
    /\ \A member \in DOMAIN item.members \ Carriers :
          /\ member \in DOMAIN got.members
          /\ MemberCame(item.members[member], member, got.members[member])

(* A snapshot of a server is decoded without an error into its removed     *)
(* keys and its items, every member in its place but for the carriers of   *)
(* the flags, strings included; one that was cut off is not taken for a    *)
(* shorter one (ddproto_decode_snapshot, ddproto_decode_snap_item).        *)
SnapReadsBack ==
    sent.by = "server" /\ phase \in {"decoded", "outside"} =>
        /\ phase = "decoded" /\ (~sent.cut => err = "NONE")
        /\ err = "NONE" =>
              /\ snap.keys = sent.msg.keys /\ Len(snap.items) = Len(sent.msg.items)
              /\ \A i \in DOMAIN snap.items : ItemCame(sent.msg.items[i], snap.items[i])

Total(sizes) ==
    LET upTo[i \in 0 .. Len(sizes)] == IF i = 0 THEN 0 ELSE upTo[i - 1] + sizes[i]
    IN  upTo[Len(sizes)]

\* The integers that members take, an item, and a message with the items of a
\* snapshot.
MembersSize(members) ==
    Total([i \in 1 .. Len(members) |-> IF members[i] \in DOMAIN NumInts THEN NumInts[members[i]] ELSE 1])

ItemSize(item) ==
    IF item.kind = "UNKNOWN" THEN 3 + item.members.data_len
    ELSE 2 + MembersSize(Struct[item.kind])

\* The tables: the members of an item are read in the order of its struct, but
\* for the carriers of the flags, after the two that all events begin with.
ASSUME ItemsAssumption ==
    \A k \in DOMAIN ItemType :
        LET common == IF k \in DOMAIN Events THEN <<"x", "y">> ELSE <<>> IN
        /\ k \in DOMAIN Struct /\ ItemReads[k] \in Seq(STRING) /\ Struct[k] \in Seq(STRING)
        /\ MembersSize(Struct[k]) = MembersSize(ItemReads[k]) + Len(common)
        /\ Len(Struct[k]) = Len(ItemReads[k]) + Len(common)
        /\ \A i \in DOMAIN common : Struct[k][i] = common[i] /\ common[i] \notin ToSet(ItemReads[k])
        /\ \A i \in DOMAIN ItemReads[k] :
              \/ ItemReads[k][i] = Struct[k][i + Len(common)]
              \/ {ItemReads[k][i], Struct[k][i + Len(common)]} \subseteq Carriers
        /\ \A i, j \in DOMAIN ItemReads[k] : ItemReads[k][i] = ItemReads[k][j] => i = j
        /\ ItemType[k] \in IF k \in DOMAIN Events THEN 14 .. 20 ELSE 1 .. 12

SnapSize(s) == 8 + s.keysLen + Total([i \in 1 .. Len(s.items) |-> ItemSize(s.items[i])])

(* A chunk that is handed out and says it is a snapshot, whatever was sent *)
(* and whatever the kind of the chunk was before, is one that its user can *)
(* read and free: the arrays have the announced lengths and every entry    *)
(* was decoded, from integers that lie one after the other from the        *)
(* beginning of the message (snapshot.h says of the items that data        *)
(* matches len, otherwise you might run into segfaults).                   *)
SnapHandedOut ==
    kind = "SNAPSINGLE" /\ phase = "decoded" /\ Kept =>
        /\ snap.keysData = Allocated(snap.keysLen) /\ snap.itemsData = Allocated(snap.itemsLen)
        /\ heap = {a \in {"keys"} : snap.keysLen > 0} \cup {a \in {"items"} : snap.itemsLen > 0}
        /\ Len(snap.keys) = snap.keysLen /\ Len(snap.items) = snap.itemsLen
        /\ unpacker.at = SnapSize(snap)

(* After ddproto_free_packet of a chunk with a snapshot nothing of it is   *)
(* allocated and nothing refers to it any more.                            *)
SnapIsFreed ==
    phase = "freed" => heap = {} /\ "array" \notin {snap.keysData, snap.itemsData}
=============================================================================
