------------------------------ MODULE Snapshot ------------------------------
(***************************************************************************)
(* Snapshots, src/src/snapshot.c: decoding the counts, the removed keys    *)
(* and the items from an unpacker, with the two arrays that are allocated, *)
(* and freeing them.  A round of the loop over the items is a step.        *)
(***************************************************************************)
EXTENDS Fields, IntString, SequencesExt

VARIABLES
    phase,     \* where the call is
    unpacker,  \* the unpacker
    err,       \* what ddproto_decode_message returned
    kind,      \* chunk.payload.kind
    snap,      \* chunk.payload.msg.snap_single.snapshot
    heap       \* the arrays that are allocated

NoSnap == [keysLen  |-> 0, keysData  |-> "unset", keys  |-> <<>>,
           itemsLen |-> 0, itemsData |-> "unset", items |-> <<>>]

----------------------------------------------------------------------------
(* Items *)

\* DDProtoSnapItemTypeId.
ItemType ==
    [PROJECTILE |-> 2, LASER |-> 3, PICKUP |-> 4, FLAG |-> 5, GAME_INFO |-> 6, GAME_DATA |-> 7,
     CHARACTER |-> 9, PLAYER_INFO |-> 10, CLIENT_INFO |-> 11, SPECTATOR_INFO |-> 12,
     EXPLOSION |-> 14, SPAWN |-> 15, HAMMER_HIT |-> 16, DEATH |-> 17, SOUND_GLOBAL |-> 18,
     SOUND_WORLD |-> 19, DAMAGE_INDICATOR |-> 20]

\* A variant of EventCommon with an error: the first event is left out.
EventCommonBehindFirst == 15

\* Where the range of the events begins.
EventCommon == 13

\* The members of an item in the order in which they are read.
ItemReads ==
    [PROJECTILE |-> <<"x", "y", "vel_x", "vel_y", "type", "start_tick">>,
     LASER |-> <<"x", "y", "from_x", "from_y", "start_tick">>,
     PICKUP |-> <<"x", "y", "type", "subtype">>,
     FLAG |-> <<"x", "y", "team">>,
     GAME_INFO |-> <<"game_flags", "game_state_flags", "round_start_tick", "warmup_timer",
                     "score_limit", "time_limit", "round_num", "round_current">>,
     GAME_DATA |-> <<"teamscore_red", "teamscore_blue", "flag_carrier_blue", "flag_carrier_red">>,
     CHARACTER |-> <<"tick", "x", "y", "vel_x", "vel_y", "angle", "direction", "jumped",
                     "hooked_player", "hook_state", "hook_tick", "hook_x", "hook_y", "hook_dx",
                     "hook_dy", "player_flags", "health", "armor", "ammo_count", "weapon",
                     "emote", "attack_tick">>,
     PLAYER_INFO |-> <<"local", "client_id", "team", "score", "latency">>,
     CLIENT_INFO |-> <<"name", "clan", "country", "skin", "use_custom_color", "color_body",
                       "color_feet">>,
     SPECTATOR_INFO |-> <<"spectator_id", "x", "y">>,
     EXPLOSION |-> <<>>, SPAWN |-> <<>>, HAMMER_HIT |-> <<>>,
     DEATH |-> <<"client_id">>, SOUND_GLOBAL |-> <<"sound_id">>, SOUND_WORLD |-> <<"sound_id">>,
     DAMAGE_INDICATOR |-> <<"angle">>]

\* The integers a string is packed in.
NumInts == [name |-> 4, clan |-> 3, skin |-> 6]

Bools == {"local", "use_custom_color"}

\* ddproto_unpack_int_array_as_str.
GetStr(st, member) ==
    LET n == NumInts[member]
        v == GetInts(st.u, n)
    IN  IF v.err # "NONE" THEN [st EXCEPT !.u = v, !.stop = TRUE]
        ELSE [st EXCEPT !.u = v,
                        !.members = Setting(@, member,
                            IntsToStr([i \in 1 .. n |-> wire[st.u.at + i].value]))]

\* One assignment of ddproto_decode_snap_item.  Only a string that fails ends it.
GetMember(st, member) ==
    LET v == IF member \in Bools THEN GetBool(st.u) ELSE GetInt(st.u) IN
    IF st.stop THEN st
    ELSE IF member \in DOMAIN NumInts THEN GetStr(st, member)
    ELSE [st EXCEPT !.u = v, !.members = Setting(@, member, v.value)]

\* The members of an item, one after the other.
GetMembers(st, members) ==
    LET after[i \in 0 .. Len(members)] ==
            IF i = 0 THEN st ELSE GetMember(after[i - 1], members[i])
    IN  after[Len(members)]

\* The item type ids below which an unknown one is an error.
Vanilla == 1 .. 2999

\* ddproto_decode_snap_item: what it returns, and the item.
DecodeItem(u) ==
    LET type   == GetInt(u)
        id     == GetInt(type)
        common == IF type.value \in EventCommon .. ItemType.DAMAGE_INDICATOR THEN <<"x", "y">> ELSE <<>>
        names  == {name \in DOMAIN ItemType : ItemType[name] = type.value}
        name   == CHOOSE n \in names : TRUE
        begun  == GetMembers([u |-> id, members |-> <<>>, stop |-> FALSE], common)
        st     == GetMembers(begun, ItemReads[name])
        len    == GetInt(id)
        skip   == GetInts(len, len.value)
    IN  CASE names # {} ->
               [u |-> st.u, err |-> st.u.err,
                item |-> [kind |-> name, id |-> id.value, members |-> st.members]]
          [] names = {} /\ type.value \in Vanilla ->
               [u |-> begun.u, err |-> "UNKNOWN_SNAP_ITEM", item |-> <<>>]
          [] OTHER ->
               [u |-> skip, err |-> skip.err,
                item |-> [kind |-> "UNKNOWN", id |-> id.value,
                          members |-> [type_id |-> type.value, size |-> len.value,
                                       data_len |-> skip.at - len.at]]]

----------------------------------------------------------------------------
(* ddproto_decode_snapshot *)

\* A variant of ReturnTo with an error: it goes on whatever happened, and the
\* error of the unpacker is returned.
ReturnToAnyway(error) ==
    phase' = "decoded" /\ err' = unpacker'.err /\ kind' = "SNAPSINGLE"

\* decode_system_message gets the error, and sets the kind if there is none.
ReturnTo(error) ==
    /\ phase' = "decoded" /\ err' = error
    /\ kind' = IF error = "NONE" THEN "SNAPSINGLE" ELSE kind

\* A count of 0 gives NULL; of another count the pointer is not set yet.
Pointer(len) == IF len = 0 THEN "NULL" ELSE "unset"

Allocated(len) == IF len = 0 THEN "NULL" ELSE "array"

\* The counts, the removed keys, and the array of the items.  A negative count
\* is a huge size_t, for which there is no array.
SnapBegin ==
    LET removed == GetInt(unpacker)
        count   == GetInt(removed)
        zero    == GetInt(count)
        keys    == GetInts(zero, removed.value)
        counted == [keysLen  |-> removed.value, keysData  |-> Pointer(removed.value), keys  |-> <<>>,
                    itemsLen |-> count.value,   itemsData |-> Pointer(count.value),   items |-> <<>>]
        keyed   == [counted EXCEPT !.keysData = Allocated(removed.value),
                                   !.keys = [i \in 1 .. keys.at - zero.at |-> wire[zero.at + i].value]]
        keysIn  == IF removed.value = 0 THEN {} ELSE {"keys"}
    IN  /\ phase = "snapshot"
        /\ \/ /\ zero.err # "NONE"
              /\ unpacker' = zero /\ snap' = counted /\ UNCHANGED heap
              /\ ReturnTo(zero.err)
           \/ /\ zero.err = "NONE" /\ (removed.value < 0 \/ (count.value < 0 /\ keys.err = "NONE"))
              /\ phase' = "outside" /\ UNCHANGED <<unpacker, snap, heap, err, kind>>
           \/ /\ zero.err = "NONE" /\ removed.value >= 0 /\ keys.err # "NONE"
              /\ unpacker' = keys /\ snap' = keyed /\ heap' = heap \cup keysIn
              /\ ReturnTo(keys.err)
           \/ /\ keys.err = "NONE" /\ removed.value >= 0 /\ count.value = 0
              /\ unpacker' = keys /\ snap' = keyed /\ heap' = heap \cup keysIn
              /\ ReturnTo("NONE")
           \/ /\ keys.err = "NONE" /\ removed.value >= 0 /\ count.value > 0
              /\ unpacker' = keys /\ snap' = [keyed EXCEPT !.itemsData = "array"]
              /\ heap' = heap \cup keysIn \cup {"items"}
              /\ phase' = "items" /\ UNCHANGED <<err, kind>>

\* A variant of MoreItems with an error: the loop goes one round too far.
MoreItemsAndOne(n) == n <= snap.itemsLen

MoreItems(n) == n < snap.itemsLen

\* One round of the loop over the items.
SnapItem ==
    LET d == DecodeItem(unpacker) IN
    /\ phase = "items"
    /\ unpacker' = d.u /\ UNCHANGED heap
    /\ \/ /\ d.err # "NONE"
          /\ UNCHANGED snap /\ ReturnTo(d.err)
       \/ /\ d.err = "NONE"
          /\ snap' = [snap EXCEPT !.items = Append(@, d.item)]
          /\ IF MoreItems(Len(snap.items) + 1) THEN phase' = "items" /\ UNCHANGED <<err, kind>>
             ELSE ReturnTo("NONE")

\* A variant of FreeSnapshot with an error: the removed keys are forgotten.
FreeSnapshotItemsOnly ==
    /\ heap' = heap \ {"items"}
    /\ snap' = [NoSnap EXCEPT !.keysData = "NULL", !.itemsData = "NULL"]

\* ddproto_free_snapshot.  free does nothing with NULL.
FreeSnapshot ==
    /\ heap' = heap \ ((IF snap.itemsData = "array" THEN {"items"} ELSE {})
                         \cup (IF snap.keysData = "array" THEN {"keys"} ELSE {}))
    /\ snap' = [NoSnap EXCEPT !.keysData = "NULL", !.itemsData = "NULL"]
=============================================================================
