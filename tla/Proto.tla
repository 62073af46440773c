--------------------------------- MODULE Proto ---------------------------------
(***************************************************************************)
(* WebClient/proto.js: the browser's side of the wire.  It is a second     *)
(* writing of Protocol.h by hand, with every place as a number: a type     *)
(* number, a width or a place that is off by one reads other bytes and     *)
(* says nothing.                                                           *)
(*                                                                         *)
(* The reads of decodePacket and the writes of the encoders are kept as    *)
(* the code has them: the byte they start at and the width they take.      *)
(***************************************************************************)
EXTENDS Protocol

\* MSG: the type numbers.
MSG == [
  C2S_MOVE_START |-> 1000, C2S_MOVE_STOP |-> 1001, S2C_MOVE_START |-> 1002,
  S2C_MOVE_STOP |-> 1003, S2C_CREATE_MY_PLAYER |-> 1004, S2C_CREATE_OTHER_PLAYER |-> 1005,
  S2C_DELETE_PLAYER |-> 1006, C2S_CHAT |-> 1007, S2C_CHAT |-> 1008,
  S2C_SYNC_POSITION |-> 1009, S2C_ZONE_INFO |-> 1010, C2S_ZONE_CHANGE |-> 1011,
  S2C_ZONE_CHANGE_OK |-> 1012, S2C_ZONE_CHANGE_FAIL |-> 1013, C2S_HEARTBEAT |-> 1014,
  C2S_ADMIN_LOGIN |-> 1015, S2C_ADMIN_LOGIN_OK |-> 1016, S2C_ADMIN_LOGIN_FAIL |-> 1017,
  S2C_ERROR |-> 1018, S2C_SECTOR_UPDATES |-> 1019, S2C_CREATE_PLAYER_BATCH |-> 1020,
  S2C_DELETE_PLAYER_BATCH |-> 1021, C2S_ATTACK |-> 1022, S2C_ATTACK |-> 1023,
  S2C_DAMAGE |-> 1024, S2C_DEATH |-> 1025, S2C_RESPAWN |-> 1026, S2C_ACTOR_STATS |-> 1027,
  C2S_ENTER_GAME |-> 1028, S2C_EXP |-> 1029, S2C_INVENTORY |-> 1030,
  S2C_INVENTORY_SLOT |-> 1031, C2S_USE_ITEM |-> 1032, S2C_USE_ITEM_FAIL |-> 1033,
  S2C_GROUND_ITEM_CREATE |-> 1034, S2C_GROUND_ITEM_DELETE |-> 1035, C2S_PICKUP |-> 1036,
  S2C_PICKUP_FAIL |-> 1037, S2C_MY_STATS |-> 1038, C2S_EQUIP |-> 1039,
  C2S_UNEQUIP |-> 1040, S2C_EQUIP_FAIL |-> 1041, C2S_USE_SKILL |-> 1042,
  S2C_SKILL_CAST |-> 1043, S2C_SKILL_FAIL |-> 1044, S2C_ACTOR_MP |-> 1045,
  S2C_ACTOR_BUFF |-> 1046, C2S_PORTAL_USE |-> 1047, S2C_SKILL_COOLDOWN_REMAIN |-> 1048,
  S2C_ACTOR_SPEED |-> 1049, C2S_PARTY_REQUEST |-> 1050, C2S_PARTY_ANSWER |-> 1051,
  C2S_PARTY_LEAVE |-> 1052, C2S_PARTY_KICK |-> 1053, C2S_PARTY_LEADER |-> 1054,
  C2S_PARTY_DISBAND |-> 1055, S2C_PARTY_ASK |-> 1056, S2C_PARTY_ASK_END |-> 1057,
  S2C_PARTY_NOTICE |-> 1058, S2C_PARTY_INFO |-> 1059, S2C_PARTY_MEMBER |-> 1060,
  C2S_SHOP_BUY |-> 1061, C2S_SHOP_SELL |-> 1062, S2C_SHOP_FAIL |-> 1063,
  S2C_MONEY |-> 1064, C2S_TRADE_REQUEST |-> 1065, C2S_TRADE_ANSWER |-> 1066,
  C2S_TRADE_OFFER |-> 1067, C2S_TRADE_MONEY |-> 1068, C2S_TRADE_COMMIT |-> 1069,
  C2S_TRADE_CANCEL |-> 1070, S2C_TRADE_ASK |-> 1071, S2C_TRADE_ASK_END |-> 1072,
  S2C_TRADE_STATE |-> 1073, S2C_TRADE_END |-> 1074, S2C_TRADE_FAIL |-> 1075 ]

\* NAME[type]: what the page calls a packet of this number.
NAME(number) == CHOOSE k \in DOMAIN MSG : MSG[k] = number

\* The page's own copies of the server's numbers.
PARTY_MAX_MEMBERS == 8
PARTY_MEMBER_BYTES == 22
TRADE_SIDE_BYTES == 210
CREATE_ENTRY_BYTES == 31

\* The names the page has for the values of the enumerated bytes.
PARTY_NOTICE == <<
  "SENT_INVITE", "SENT_APPLY", "SENT_SUGGEST", "NO_TARGET", "SELF", "SAME_PARTY",
  "BOTH_IN_PARTY", "FULL", "NOT_LEADER", "NOT_IN_PARTY", "NOT_MEMBER", "TARGET_BUSY",
  "SELF_BUSY", "NO_REQUEST", "DECLINED", "EXPIRED", "CANCELLED", "JOINED", "LEFT",
  "KICKED", "LEADER", "DISBANDED", "ROOM_NOT_GATHERED", "ROOM_DEAD", "ROOM_LOCKED" >>
TRADE_END == <<
  "DONE", "CANCELLED", "DECLINED", "EXPIRED", "LEFT", "DEAD", "NOT_IN_REACH",
  "BAG_FULL", "MONEY_FULL", "CHANGED", "SAVE_DELAY" >>

Names == [
  S2C_ZONE_CHANGE_FAIL |->
    <<"NOT_FOUND", "FULL", "SAME_ZONE", "NOT_ALLOWED", "TOO_FAR", "NO_PORTAL">>,
  S2C_USE_ITEM_FAIL |->
    <<"BAD_SLOT", "EMPTY", "NOT_USABLE", "DEAD", "COOLDOWN", "FULL_HP", "FULL_MP",
      "IN_TRADE">>,
  S2C_GROUND_ITEM_CREATE |-> <<"SEEN", "DROP">>,
  S2C_GROUND_ITEM_DELETE |-> <<"OUT_OF_SIGHT", "PICKED", "EXPIRED">>,
  S2C_PICKUP_FAIL |-> <<"DEAD", "NO_ITEM", "NOT_OWNER", "TAB_FULL", "MONEY_FULL">>,
  S2C_EQUIP_FAIL |->
    <<"BAD_SLOT", "EMPTY", "NOT_EQUIPPABLE", "DEAD", "COOLDOWN", "TAB_FULL", "IN_TRADE">>,
  S2C_SKILL_FAIL |->
    <<"BAD_SKILL", "DEAD", "COOLDOWN", "LOW_HP", "NO_TARGET", "LOW_MP">>,
  S2C_ACTOR_BUFF |-> <<"attack_mul">>,
  S2C_PARTY_ASK |-> <<"INVITE", "APPLY", "SUGGEST">>,
  S2C_PARTY_ASK_END |-> PARTY_NOTICE,
  S2C_PARTY_NOTICE |-> PARTY_NOTICE,
  S2C_SHOP_FAIL |->
    <<"DEAD", "NO_NPC", "NOT_IN_REACH", "NOT_SOLD_HERE", "NOT_BOUGHT_HERE", "BAD_SLOT",
      "BAD_COUNT", "NOT_ENOUGH_MONEY", "BAG_FULL", "MONEY_FULL", "IN_TRADE">>,
  S2C_TRADE_ASK_END |-> TRADE_END,
  S2C_TRADE_END |-> TRADE_END,
  S2C_TRADE_FAIL |->
    <<"NO_TARGET", "SELF", "NOT_IN_REACH", "DEAD", "TARGET_DEAD", "TARGET_BUSY",
      "SELF_BUSY", "NO_REQUEST", "NOT_IN_TRADE", "CLOSED", "BAD_SLOT", "ALREADY_OFFERED",
      "NOT_TRADABLE", "BAD_COUNT", "ITEMS_FULL", "NOT_ENOUGH_MONEY", "NOT_HERE">> ]

\* Lookups outside a table give "?" and the number.
NameIn(kind, v) == IF v + 1 \in DOMAIN Names[kind] THEN Names[kind][v + 1] ELSE "?"

-----------------------------------------------------------------------------
(* decodePacket.  A read is <<of, i, name, at, type>>: where the page keeps   *)
(* the value, and from which byte after the header and how wide it takes it. *)

Smaller(a, b) == IF a < b THEN a ELSE b

readSnap(o) == Lay(o, i32(<<"hp">>)) \cup Lay(o + 4, i32(<<"maxHp">>))

\* MUTANT of readCreateEntry: the entry before it had a snapshot.
readOldCreateEntry(of, i, o) ==
  LayAt(of, i, o, i32(<<"playerId">>))
    \cup LayAt(of, i, o + 4,
           u8(<<"direction", "moveState", "displayChar", "colorIndex", "spawnReason">>))
    \cup LayAt(of, i, o + 9, f32(<<"x", "y">>)) \cup LayAt(of, i, o + 17, i32(<<"speed">>))
    \cup LayAt(of, i, o + 21, u16(<<"defId">>))

\* One actor, as line i of the part "of".
readCreateEntry(of, i, o) ==
  LayAt(of, i, o, i32(<<"playerId">>))
    \cup LayAt(of, i, o + 4,
           u8(<<"direction", "moveState", "displayChar", "colorIndex", "spawnReason">>))
    \cup LayAt(of, i, o + 9, f32(<<"x">>)) \cup LayAt(of, i, o + 13, f32(<<"y">>))
    \cup LayAt(of, i, o + 17, i32(<<"speed">>))
    \cup { <<of, i, f[3], f[4], f[5]>> : f \in readSnap(o + 21) }
    \cup LayAt(of, i, o + 29, u16(<<"defId">>))

readPartyPerson(of, i, o) ==
  LayAt(of, i, o, i32(<<"actorId">>)) \cup LayAt(of, i, o + 4, u8(<<"displayChar">>))
    \cup LayAt(of, i, o + 5, u8(<<"colorIndex">>)) \cup LayAt(of, i, o + 6, i32(<<"level">>))

readPartyMember(of, i, o) ==
  readPartyPerson(of, i, o) \cup LayAt(of, i, o + 10, i32(<<"hp">>))
    \cup LayAt(of, i, o + 14, i32(<<"maxHp">>)) \cup LayAt(of, i, o + 18, i32(<<"mapId">>))

readSlot(of, i, o) ==
  LayAt(of, i, o, u16(<<"slot">>)) \cup LayAt(of, i, o + 2, i32(<<"itemId">>))
    \cup LayAt(of, i, o + 6, i32(<<"count">>))

\* count is what its byte says; more than the window has is not read.
readTradeSide(of, count, o) ==
  LayAt(of, 0, o, i64(<<"money">>)) \cup LayAt(of, 0, o + 8, u8(<<"closed">>))
    \cup LayAt(of, 0, o + 9, u8(<<"count">>))
    \cup UNION { readSlot(TradeLines[of], i, o + 10 + (i - 1) * 10)
                   : i \in 1 .. Smaller(count, TRADE_MAX_ITEMS) }

\* Where each plain field of a packet is read: <<type, first byte, names>>; names
\* of one entry are read one behind the other.
PlainReads == [
  S2C_ZONE_INFO |-> <<
    <<"i32", 0, <<"mapId", "channelIndex", "mapWidth", "mapHeight", "sectorSize">>>> >>,
  S2C_ZONE_CHANGE_OK |-> <<
    <<"i32", 0, <<"mapId", "channelIndex", "playerId">>>>,
    <<"u8", 12, <<"displayChar", "colorIndex", "direction">>>>,
    <<"f32", 15, <<"x", "y">>>> >>,
  S2C_ZONE_CHANGE_FAIL |-> << <<"u8", 0, <<"reason">>>> >>,
  S2C_CREATE_MY_PLAYER |-> <<
    <<"i32", 0, <<"playerId">>>>, <<"u8", 4, <<"direction", "displayChar", "colorIndex">>>>,
    <<"f32", 7, <<"x", "y">>>>, <<"i32", 15, <<"speed">>>> >>,
  S2C_DELETE_PLAYER |-> << <<"i32", 0, <<"playerId">>>> >>,
  S2C_MOVE_START |-> <<
    <<"i32", 0, <<"playerId">>>>, <<"u8", 4, <<"direction">>>>, <<"f32", 5, <<"x", "y">>>> >>,
  S2C_MOVE_STOP |-> <<
    <<"i32", 0, <<"playerId">>>>, <<"u8", 4, <<"direction">>>>, <<"f32", 5, <<"x", "y">>>> >>,
  S2C_SYNC_POSITION |-> << <<"i32", 0, <<"playerId">>>>, <<"f32", 4, <<"x", "y">>>> >>,
  S2C_CHAT |-> << <<"i32", 0, <<"playerId">>>>, <<"u8", 4, <<"displayChar", "colorIndex">>>> >>,
  S2C_ATTACK |-> << <<"i32", 0, <<"attackerId">>>>, <<"u8", 4, <<"direction">>>> >>,
  S2C_DAMAGE |-> << <<"i32", 0, <<"targetId", "attackerId", "damage", "remainHp">>>> >>,
  S2C_DEATH |-> << <<"i32", 0, <<"targetId">>>> >>,
  S2C_RESPAWN |-> <<
    <<"i32", 0, <<"targetId">>>>, <<"f32", 4, <<"x", "y">>>>, <<"i32", 12, <<"hp">>>> >>,
  S2C_ACTOR_STATS |-> << <<"i32", 0, <<"actorId", "hp", "maxHp">>>> >>,
  S2C_EXP |-> <<
    <<"i32", 0, <<"level">>>>, <<"i64", 4, <<"exp">>>>, <<"i64", 12, <<"levelBaseExp">>>>,
    <<"i64", 20, <<"nextLevelExp">>>> >>,
  S2C_USE_ITEM_FAIL |-> << <<"u16", 0, <<"slot">>>>, <<"u8", 2, <<"reason">>>> >>,
  S2C_GROUND_ITEM_CREATE |-> <<
    <<"i32", 0, <<"groundId", "itemId", "count">>>>, <<"f32", 12, <<"x", "y">>>>,
    <<"u8", 20, <<"reason">>>> >>,
  S2C_GROUND_ITEM_DELETE |-> <<
    <<"i32", 0, <<"groundId">>>>, <<"u8", 4, <<"reason">>>>, <<"i32", 5, <<"pickerId">>>> >>,
  S2C_PICKUP_FAIL |-> << <<"u8", 0, <<"reason">>>>, <<"i32", 1, <<"itemId">>>> >>,
  S2C_MY_STATS |-> << <<"i32", 0, <<"attack", "defense">>>> >>,
  S2C_EQUIP_FAIL |-> << <<"u16", 0, <<"slot">>>>, <<"u8", 2, <<"reason">>>> >>,
  S2C_SKILL_CAST |-> << <<"i32", 0, <<"casterId">>>>, <<"u8", 4, <<"skillId", "direction">>>> >>,
  S2C_SKILL_FAIL |-> << <<"u8", 0, <<"skillId", "reason">>>> >>,
  S2C_ACTOR_MP |-> << <<"i32", 0, <<"actorId", "mp", "maxMp">>>> >>,
  S2C_ACTOR_BUFF |-> <<
    <<"i32", 0, <<"actorId">>>>, <<"u8", 4, <<"kind">>>>, <<"i32", 5, <<"value">>>>,
    <<"u32", 9, <<"remainMs">>>> >>,
  S2C_SKILL_COOLDOWN_REMAIN |-> <<
    <<"i32", 0, <<"actorId">>>>, <<"u8", 4, <<"skillId">>>>, <<"u32", 5, <<"remainMs">>>> >>,
  S2C_ACTOR_SPEED |-> << <<"i32", 0, <<"actorId", "speed">>>> >>,
  S2C_PARTY_ASK_END |-> << <<"u32", 0, <<"requestId">>>>, <<"u8", 4, <<"reason">>>> >>,
  S2C_PARTY_NOTICE |-> << <<"u8", 0, <<"code">>>>, <<"i32", 1, <<"actorId">>>> >>,
  S2C_SHOP_FAIL |-> << <<"u8", 0, <<"reason">>>> >>,
  S2C_MONEY |-> << <<"i64", 0, <<"money">>>> >>,
  S2C_TRADE_ASK_END |-> << <<"u32", 0, <<"requestId">>>>, <<"u8", 4, <<"reason">>>> >>,
  S2C_TRADE_END |-> << <<"u8", 0, <<"reason">>>>, <<"i32", 1, <<"actorId">>>> >>,
  S2C_TRADE_FAIL |-> << <<"u8", 0, <<"reason">>>> >> ]

\* The entries of a list start after the count, step bytes apart.
entryAt(i, first, step) == first + (i - 1) * step

readSectorUpdate(i, o) ==
  LayAt("entries", i, o, i32(<<"playerId">>)) \cup LayAt("entries", i, o + 4, u16(<<"x">>))
    \cup LayAt("entries", i, o + 6, u16(<<"y">>))
    \cup LayAt("entries", i, o + 8, u8(<<"dirState">>))

\* The lists of the bag and the party are also held to what the size has room for.
BagLines(n, size)   == Smaller(n, (size - 6) \div 10)
PartyLines(n, size) ==
  Smaller(Smaller(n, (size - 13) \div PARTY_MEMBER_BYTES), PARTY_MAX_MEMBERS)

\* All the reads of decodePacket, by the name the number has; what has no case
\* there (ADMIN_LOGIN_OK and _FAIL) reads nothing.
Reads(name, p, size) ==
  (IF name \in DOMAIN PlainReads
   THEN UNION { Lay(r[2], F(r[1], r[3])) : r \in Range(PlainReads[name]) }
   ELSE {})
  \cup
  CASE name = "S2C_CREATE_MY_PLAYER" -> readSnap(19)
    [] name = "S2C_CREATE_OTHER_PLAYER" -> readCreateEntry("", 0, 0)
    [] name = "S2C_CHAT" -> LayText("message", size - 10, 6, "utf16")
    [] name = "S2C_ERROR" -> LayText("message", size - 4, 0, "utf8")
    [] name = "S2C_SECTOR_UPDATES" ->
         Lay(0, u16(<<"count">>)) \cup
           UNION { readSectorUpdate(i, entryAt(i, 2, 9)) : i \in 1 .. p.n }
    [] name = "S2C_CREATE_PLAYER_BATCH" ->
         Lay(0, u16(<<"count">>)) \cup
           UNION { readCreateEntry("entries", i, entryAt(i, 2, CREATE_ENTRY_BYTES)) :
                   i \in 1 .. p.n }
    [] name = "S2C_DELETE_PLAYER_BATCH" ->
         Lay(0, u16(<<"count">>)) \cup
           UNION { LayAt("entries", i, entryAt(i, 2, 4), i32(<<"playerId">>)) :
                   i \in 1 .. p.n }
    [] name = "S2C_INVENTORY" ->
         Lay(0, u16(<<"count">>)) \cup
           UNION { readSlot("entries", i, entryAt(i, 2, 10)) :
                   i \in 1 .. BagLines(p.n, size) }
    [] name = "S2C_INVENTORY_SLOT" -> readSlot("", 0, 0)
    [] name = "S2C_PARTY_ASK" ->
         Lay(0, u32(<<"requestId">>)) \cup Lay(4, u8(<<"kind">>))
           \cup readPartyPerson("from", 0, 5) \cup readPartyPerson("about", 0, 15)
           \cup Lay(25, u32(<<"remainMs">>))
    [] name = "S2C_PARTY_INFO" ->
         Lay(0, i32(<<"partyId", "leaderId">>)) \cup Lay(8, u8(<<"count">>)) \cup
           UNION { readPartyMember("entries", i, entryAt(i, 9, PARTY_MEMBER_BYTES)) :
                   i \in 1 .. PartyLines(p.n, size) }
    [] name = "S2C_PARTY_MEMBER" -> readPartyMember("", 0, 0)
    [] name = "S2C_TRADE_ASK" ->
         Lay(0, u32(<<"requestId">>)) \cup readPartyPerson("from", 0, 4)
           \cup Lay(14, u32(<<"remainMs">>))
    [] name = "S2C_TRADE_STATE" ->
         Lay(0, u32(<<"tradeId">>)) \cup readPartyPerson("partner", 0, 4)
           \cup readTradeSide("mine", p.n, 14)
           \cup readTradeSide("theirs", TRADE_MAX_ITEMS - p.n, 14 + TRADE_SIDE_BYTES)
    [] OTHER -> {}

\* Texts carry their bytes where lines carry their number; all widths else.
EndOf(f) == f[4] + (IF f[5] \in DOMAIN Width THEN Width[f[5]] ELSE f[2])

\* What the values of the enumerated bytes become: a name, or direction and
\* moveState out of the two halves of one byte.
Shows(name, p) ==
  CASE name \in DOMAIN Names -> {<<"code", NameIn(name, p.v)>>}
    [] name = "S2C_SECTOR_UPDATES" ->
         LET ds == PackDirState(DirOf(p.v), MoveOf(p.v)) IN
         {<<"direction", ToString(ds % 16)>>, <<"moveState", ToString(ds \div 16)>>}
    [] OTHER -> {}

\* decodePacket on the packet p of which "there" bytes are in the buffer (those
\* behind it included).  Reading past the end throws, and the packet is skipped.
decodePacket(p, there) ==
  LET name   == NAME(NumberOf[p.kind])
      fields == Reads(name, p, SizeOf(p)) IN
  IF \E f \in fields : Header + EndOf(f) > there
  THEN <<>>
  ELSE << [name |-> name, fields |-> fields, shows |-> Shows(name, p)] >>

-----------------------------------------------------------------------------
(* enc: the size of each request and what is written where, counted from the *)
(* first byte of the packet.                                                 *)

Msg(size, puts) == [size |-> size, puts |-> puts]

\* adminLogin also copies its key to byte 4; the ticket of enterGame stays zero.
enc == [
  C2S_HEARTBEAT     |-> Msg(4, <<>>),
  C2S_ENTER_GAME    |-> Msg(76, << <<"i64", 4, "accountId">> >>),
  C2S_ATTACK        |-> Msg(4, <<>>),
  C2S_ADMIN_LOGIN   |-> Msg(68, <<>>),
  C2S_USE_ITEM      |-> Msg(6, << <<"u16", 4, "slot">> >>),
  C2S_PICKUP        |-> Msg(4, <<>>),
  C2S_EQUIP         |-> Msg(6, << <<"u16", 4, "slot">> >>),
  C2S_UNEQUIP       |-> Msg(6, << <<"u16", 4, "slot">> >>),
  C2S_USE_SKILL     |-> Msg(5, << <<"u8", 4, "skillId">> >>),
  C2S_PORTAL_USE    |-> Msg(8, << <<"i32", 4, "portalId">> >>),
  C2S_PARTY_REQUEST |-> Msg(8, << <<"i32", 4, "targetId">> >>),
  C2S_SHOP_BUY      |-> Msg(16, << <<"i32", 4, "npcActorId">>, <<"i32", 8, "itemId">>,
                                   <<"i32", 12, "count">> >>),
  C2S_SHOP_SELL     |-> Msg(14, << <<"i32", 4, "npcActorId">>, <<"u16", 8, "slot">>,
                                   <<"i32", 10, "count">> >>),
  C2S_PARTY_ANSWER  |-> Msg(9, << <<"u32", 4, "requestId">>, <<"u8", 8, "accept">> >>),
  C2S_PARTY_LEAVE   |-> Msg(4, <<>>),
  C2S_PARTY_KICK    |-> Msg(8, << <<"i32", 4, "targetId">> >>),
  C2S_PARTY_LEADER  |-> Msg(8, << <<"i32", 4, "targetId">> >>),
  C2S_PARTY_DISBAND |-> Msg(4, <<>>),
  C2S_TRADE_REQUEST |-> Msg(8, << <<"i32", 4, "targetId">> >>),
  C2S_TRADE_ANSWER  |-> Msg(9, << <<"u32", 4, "requestId">>, <<"u8", 8, "accept">> >>),
  C2S_TRADE_OFFER   |-> Msg(10, << <<"u16", 4, "slot">>, <<"i32", 6, "count">> >>),
  C2S_TRADE_MONEY   |-> Msg(12, << <<"i64", 4, "amount">> >>),
  C2S_TRADE_COMMIT  |-> Msg(4, <<>>),
  C2S_TRADE_CANCEL  |-> Msg(4, <<>>),
  C2S_MOVE_START    |-> Msg(13, << <<"u8", 4, "direction">>, <<"f32", 5, "x">>,
                                   <<"f32", 9, "y">> >>),
  C2S_MOVE_STOP     |-> Msg(13, << <<"u8", 4, "direction">>, <<"f32", 5, "x">>,
                                   <<"f32", 9, "y">> >>) ]

\* MUTANT of chat: as long as it was typed.
chatUncut(length) == Msg(4 + (length + 1) * 2, <<>>)

\* chat: the text is cut to the server's buffer and ends in a NUL.
chat(length) == Msg(4 + (Smaller(length, 511) + 1) * 2, <<>>)

\* The request as it leaves: hdr writes the size and the number.
Request(u) ==
  LET e == IF u.kind = "C2S_CHAT" THEN chat(u.n) ELSE enc[u.kind] IN
  [size |-> e.size, number |-> MSG[u.kind],
   fields |-> UNION { Lay(w[2] - Header, F(w[1], <<w[3]>>)) : w \in Range(e.puts) },
   text |-> IF u.kind = "C2S_CHAT" THEN (e.size - 4) \div 2 - 1 ELSE 0]
===============================================================================
