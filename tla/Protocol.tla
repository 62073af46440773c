------------------------------- MODULE Protocol -------------------------------
(***************************************************************************)
(* Shared/Protocol/Protocol.h: what the game server puts on the wire and   *)
(* what it expects there.  Every struct is packed, so the place of a field *)
(* is the number of bytes before it; nothing but the type number and the   *)
(* size travels with the values.                                           *)
(*                                                                         *)
(* A packet is [kind, n, v]: n is the length of its list or text (0 when   *)
(* it has none), v the value of its enumerated byte.  A field is           *)
(*   <<of, i, name, at, type>>                                             *)
(* "of" is the part it belongs to ("" for the packet itself), i its line   *)
(* when that part is a list, "at" its first byte after the header.         *)
(***************************************************************************)
EXTENDS Integers, Sequences, FiniteSets, SequencesExt, TLC

Width == [u8 |-> 1, u16 |-> 2, i32 |-> 4, u32 |-> 4, f32 |-> 4, i64 |-> 8]

Header == 4              \* MsgHeader: size and type, two bytes each
MAX_PACKET_SIZE == 1458

(* Declarations in a struct: <<name, type>>, in order. *)
F(t, ns) == [i \in DOMAIN ns |-> <<ns[i], t>>]
u8(ns)  == F("u8", ns)
u16(ns) == F("u16", ns)
i32(ns) == F("i32", ns)
u32(ns) == F("u32", ns)
f32(ns) == F("f32", ns)
i64(ns) == F("i64", ns)

Bytes(struct) == FoldLeft(LAMBDA sum, f : sum + Width[f[2]], 0, struct)

\* The fields of a struct that starts at a byte: line i of the part "of".
LayAt(of, i, base, struct) ==
  { <<of, i, struct[k][1], base + Bytes(SubSeq(struct, 1, k - 1)), struct[k][2]>>
      : k \in DOMAIN struct }

Lay(base, struct) == LayAt("", 0, base, struct)

\* n lines of step bytes each.
LayLines(of, n, base, step, struct) ==
  UNION { LayAt(of, i, base + (i - 1) * step, struct) : i \in 1 .. n }

\* A text field carries its bytes in place of a line number.
LayText(name, bytes, base, encoding) == { <<"", bytes, name, base, encoding>> }

-----------------------------------------------------------------------------
(* enum class MsgType: numbered from 1000 (ECHO, 0, is another program's).   *)

MsgType == <<
  "C2S_MOVE_START", "C2S_MOVE_STOP", "S2C_MOVE_START", "S2C_MOVE_STOP",
  "S2C_CREATE_MY_PLAYER", "S2C_CREATE_OTHER_PLAYER", "S2C_DELETE_PLAYER", "C2S_CHAT",
  "S2C_CHAT", "S2C_SYNC_POSITION", "S2C_ZONE_INFO", "C2S_ZONE_CHANGE",
  "S2C_ZONE_CHANGE_OK", "S2C_ZONE_CHANGE_FAIL", "C2S_HEARTBEAT", "C2S_ADMIN_LOGIN",
  "S2C_ADMIN_LOGIN_OK", "S2C_ADMIN_LOGIN_FAIL", "S2C_ERROR", "S2C_SECTOR_UPDATES",
  "S2C_CREATE_PLAYER_BATCH", "S2C_DELETE_PLAYER_BATCH", "C2S_ATTACK", "S2C_ATTACK",
  "S2C_DAMAGE", "S2C_DEATH", "S2C_RESPAWN", "S2C_ACTOR_STATS", "C2S_ENTER_GAME",
  "S2C_EXP", "S2C_INVENTORY", "S2C_INVENTORY_SLOT", "C2S_USE_ITEM",
  "S2C_USE_ITEM_FAIL", "S2C_GROUND_ITEM_CREATE", "S2C_GROUND_ITEM_DELETE",
  "C2S_PICKUP", "S2C_PICKUP_FAIL", "S2C_MY_STATS", "C2S_EQUIP", "C2S_UNEQUIP",
  "S2C_EQUIP_FAIL", "C2S_USE_SKILL", "S2C_SKILL_CAST", "S2C_SKILL_FAIL",
  "S2C_ACTOR_MP", "S2C_ACTOR_BUFF", "C2S_PORTAL_USE", "S2C_SKILL_COOLDOWN_REMAIN",
  "S2C_ACTOR_SPEED", "C2S_PARTY_REQUEST", "C2S_PARTY_ANSWER", "C2S_PARTY_LEAVE",
  "C2S_PARTY_KICK", "C2S_PARTY_LEADER", "C2S_PARTY_DISBAND", "S2C_PARTY_ASK",
  "S2C_PARTY_ASK_END", "S2C_PARTY_NOTICE", "S2C_PARTY_INFO", "S2C_PARTY_MEMBER",
  "C2S_SHOP_BUY", "C2S_SHOP_SELL", "S2C_SHOP_FAIL", "S2C_MONEY", "C2S_TRADE_REQUEST",
  "C2S_TRADE_ANSWER", "C2S_TRADE_OFFER", "C2S_TRADE_MONEY", "C2S_TRADE_COMMIT",
  "C2S_TRADE_CANCEL", "S2C_TRADE_ASK", "S2C_TRADE_ASK_END", "S2C_TRADE_STATE",
  "S2C_TRADE_END", "S2C_TRADE_FAIL" >>

NumberOf == [k \in Range(MsgType) |-> 999 + (CHOOSE i \in DOMAIN MsgType : MsgType[i] = k)]

-----------------------------------------------------------------------------
(* The structs. *)

ActorSnapshot     == i32(<<"hp", "maxHp">>)
CreatePlayerEntry ==
  i32(<<"playerId">>)
    \o u8(<<"direction", "moveState", "displayChar", "colorIndex", "spawnReason">>)
    \o f32(<<"x", "y">>) \o i32(<<"speed">>) \o ActorSnapshot \o u16(<<"defId">>)
SectorUpdateEntry == i32(<<"playerId">>) \o u16(<<"qx", "qy">>) \o u8(<<"dirState">>)
InventoryEntry    == u16(<<"slot">>) \o i32(<<"itemId", "count">>)
PartyPerson       == i32(<<"actorId">>) \o u8(<<"displayChar", "colorIndex">>) \o i32(<<"level">>)
PartyMemberEntry  == PartyPerson \o i32(<<"hp", "maxHp", "mapId">>)

\* What follows the header in the structs of fixed parts, and the head of those
\* that end in a list or a text.
Struct == [
  C2S_MOVE_START |-> u8(<<"direction">>) \o f32(<<"x", "y">>),
  C2S_MOVE_STOP |-> u8(<<"direction">>) \o f32(<<"x", "y">>),
  S2C_MOVE_START |-> i32(<<"playerId">>) \o u8(<<"direction">>) \o f32(<<"x", "y">>),
  S2C_MOVE_STOP |-> i32(<<"playerId">>) \o u8(<<"direction">>) \o f32(<<"x", "y">>),
  S2C_CREATE_MY_PLAYER |->
    i32(<<"playerId">>) \o u8(<<"direction", "displayChar", "colorIndex">>)
      \o f32(<<"x", "y">>) \o i32(<<"speed">>) \o ActorSnapshot,
  S2C_CREATE_OTHER_PLAYER |-> CreatePlayerEntry,
  S2C_DELETE_PLAYER |-> i32(<<"playerId">>),
  C2S_CHAT |-> <<>>,
  S2C_CHAT |-> i32(<<"playerId">>) \o u8(<<"displayChar", "colorIndex">>),
  S2C_SYNC_POSITION |-> i32(<<"playerId">>) \o f32(<<"x", "y">>),
  S2C_ZONE_INFO |-> i32(<<"mapId", "channelIndex", "mapWidth", "mapHeight", "sectorSize">>),
  C2S_ZONE_CHANGE |-> i32(<<"targetMapId", "targetChannelIndex">>),
  S2C_ZONE_CHANGE_OK |->
    i32(<<"mapId", "channelIndex", "playerId">>)
      \o u8(<<"displayChar", "colorIndex", "direction">>) \o f32(<<"x", "y">>),
  S2C_ZONE_CHANGE_FAIL |-> u8(<<"reason">>),
  C2S_HEARTBEAT |-> <<>>,
  C2S_ADMIN_LOGIN |-> <<>>,
  S2C_ADMIN_LOGIN_OK |-> <<>>,
  S2C_ADMIN_LOGIN_FAIL |-> <<>>,
  S2C_ERROR |-> <<>>,
  S2C_SECTOR_UPDATES |-> u16(<<"count">>),
  S2C_CREATE_PLAYER_BATCH |-> u16(<<"count">>),
  S2C_DELETE_PLAYER_BATCH |-> u16(<<"count">>),
  C2S_ATTACK |-> <<>>,
  S2C_ATTACK |-> i32(<<"attackerId">>) \o u8(<<"direction">>),
  S2C_DAMAGE |-> i32(<<"targetId", "attackerId", "damage", "remainHp">>),
  S2C_DEATH |-> i32(<<"targetId">>),
  S2C_RESPAWN |-> i32(<<"targetId">>) \o f32(<<"x", "y">>) \o i32(<<"hp">>),
  S2C_ACTOR_STATS |-> i32(<<"actorId", "hp", "maxHp">>),
  C2S_ENTER_GAME |-> i64(<<"accountId">>),
  S2C_EXP |-> i32(<<"level">>) \o i64(<<"exp", "levelBaseExp", "nextLevelExp">>),
  S2C_INVENTORY |-> u16(<<"count">>),
  S2C_INVENTORY_SLOT |-> InventoryEntry,
  C2S_USE_ITEM |-> u16(<<"slot">>),
  S2C_USE_ITEM_FAIL |-> u16(<<"slot">>) \o u8(<<"reason">>),
  S2C_GROUND_ITEM_CREATE |->
    i32(<<"groundId", "itemId", "count">>) \o f32(<<"x", "y">>) \o u8(<<"reason">>),
  S2C_GROUND_ITEM_DELETE |-> i32(<<"groundId">>) \o u8(<<"reason">>) \o i32(<<"pickerId">>),
  C2S_PICKUP |-> <<>>,
  S2C_PICKUP_FAIL |-> u8(<<"reason">>) \o i32(<<"itemId">>),
  S2C_MY_STATS |-> i32(<<"attack", "defense">>),
  C2S_EQUIP |-> u16(<<"slot">>),
  C2S_UNEQUIP |-> u16(<<"slot">>),
  S2C_EQUIP_FAIL |-> u16(<<"slot">>) \o u8(<<"reason">>),
  C2S_USE_SKILL |-> u8(<<"skillId">>),
  S2C_SKILL_CAST |-> i32(<<"casterId">>) \o u8(<<"skillId", "direction">>),
  S2C_SKILL_FAIL |-> u8(<<"skillId", "reason">>),
  S2C_ACTOR_MP |-> i32(<<"actorId", "mp", "maxMp">>),
  S2C_ACTOR_BUFF |->
    i32(<<"actorId">>) \o u8(<<"kind">>) \o i32(<<"value">>) \o u32(<<"remainMs">>),
  C2S_PORTAL_USE |-> i32(<<"portalId">>),
  S2C_SKILL_COOLDOWN_REMAIN |-> i32(<<"actorId">>) \o u8(<<"skillId">>) \o u32(<<"remainMs">>),
  S2C_ACTOR_SPEED |-> i32(<<"actorId", "speed">>),
  C2S_PARTY_REQUEST |-> i32(<<"targetId">>),
  C2S_PARTY_ANSWER |-> u32(<<"requestId">>) \o u8(<<"accept">>),
  C2S_PARTY_LEAVE |-> <<>>,
  C2S_PARTY_KICK |-> i32(<<"targetId">>),
  C2S_PARTY_LEADER |-> i32(<<"targetId">>),
  C2S_PARTY_DISBAND |-> <<>>,
  S2C_PARTY_ASK |-> u32(<<"requestId">>) \o u8(<<"kind">>),
  S2C_PARTY_ASK_END |-> u32(<<"requestId">>) \o u8(<<"reason">>),
  S2C_PARTY_NOTICE |-> u8(<<"code">>) \o i32(<<"actorId">>),
  S2C_PARTY_INFO |-> i32(<<"partyId", "leaderId">>) \o u8(<<"count">>),
  S2C_PARTY_MEMBER |-> PartyMemberEntry,
  C2S_SHOP_BUY |-> i32(<<"npcActorId", "itemId", "count">>),
  C2S_SHOP_SELL |-> i32(<<"npcActorId">>) \o u16(<<"slot">>) \o i32(<<"count">>),
  S2C_SHOP_FAIL |-> u8(<<"reason">>),
  S2C_MONEY |-> i64(<<"money">>),
  C2S_TRADE_REQUEST |-> i32(<<"targetId">>),
  C2S_TRADE_ANSWER |-> u32(<<"requestId">>) \o u8(<<"accept">>),
  C2S_TRADE_OFFER |-> u16(<<"slot">>) \o i32(<<"count">>),
  C2S_TRADE_MONEY |-> i64(<<"amount">>),
  C2S_TRADE_COMMIT |-> <<>>,
  C2S_TRADE_CANCEL |-> <<>>,
  S2C_TRADE_ASK |-> u32(<<"requestId">>),
  S2C_TRADE_ASK_END |-> u32(<<"requestId">>) \o u8(<<"reason">>),
  S2C_TRADE_STATE |-> u32(<<"tradeId">>),
  S2C_TRADE_END |-> u8(<<"reason">>) \o i32(<<"actorId">>),
  S2C_TRADE_FAIL |-> u8(<<"reason">>) ]

\* The lists, and how many lines each may have.
Lines == [
  S2C_SECTOR_UPDATES |-> SectorUpdateEntry,
  S2C_CREATE_PLAYER_BATCH |-> CreatePlayerEntry,
  S2C_DELETE_PLAYER_BATCH |-> i32(<<"playerId">>),
  S2C_INVENTORY |-> InventoryEntry,
  S2C_PARTY_INFO |-> PartyMemberEntry ]

MostLines == [
  S2C_SECTOR_UPDATES |-> 100, S2C_CREATE_PLAYER_BATCH |-> 44,
  S2C_DELETE_PLAYER_BATCH |-> 350, S2C_INVENTORY |-> 61, S2C_PARTY_INFO |-> 8 ]

CHAT_MSG_MAX_LEN == 512
TRADE_MAX_ITEMS == 20

\* TradeSide: the money, the mark, the number of lines in use and all the lines.
TradeHead == i64(<<"money">>) \o u8(<<"closed", "count">>)
TradeSideBytes == Bytes(TradeHead) + TRADE_MAX_ITEMS * Bytes(InventoryEntry)
TradeLines == [mine |-> "mine.items", theirs |-> "theirs.items"]

LayTradeSide(of, used, base) ==
  LayAt(of, 0, base, TradeHead)
    \cup LayLines(TradeLines[of], used, base + Bytes(TradeHead), Bytes(InventoryEntry),
                  InventoryEntry)

\* The parts after the head.
PartsOf(p) ==
  LET base == Bytes(Struct[p.kind]) IN
  CASE p.kind \in DOMAIN Lines ->
         LayLines("entries", p.n, base, Bytes(Lines[p.kind]), Lines[p.kind])
    [] p.kind = "S2C_CHAT" -> LayText("message", 2 * (p.n + 1), base, "utf16")
    [] p.kind = "S2C_ERROR" -> LayText("message", 256, base, "utf8")
    [] p.kind = "S2C_PARTY_ASK" ->
         LayAt("from", 0, base, PartyPerson)
           \cup LayAt("about", 0, base + Bytes(PartyPerson), PartyPerson)
           \cup Lay(base + 2 * Bytes(PartyPerson), u32(<<"remainMs">>))
    [] p.kind = "S2C_TRADE_ASK" ->
         LayAt("from", 0, base, PartyPerson)
           \cup Lay(base + Bytes(PartyPerson), u32(<<"remainMs">>))
    [] p.kind = "S2C_TRADE_STATE" ->
         LayAt("partner", 0, base, PartyPerson)
           \cup LayTradeSide("mine", p.n, base + Bytes(PartyPerson))
           \cup LayTradeSide("theirs", TRADE_MAX_ITEMS - p.n,
                             base + Bytes(PartyPerson) + TradeSideBytes)
    [] OTHER -> {}

\* All the values the server puts on the wire (unused lines of a trade are
\* zeros and no values).
Wire(p) == Lay(0, Struct[p.kind]) \cup PartsOf(p)

\* header.size: the builders write it from the lengths.
SizeOf(p) ==
  Header + Bytes(Struct[p.kind]) +
  CASE p.kind \in DOMAIN Lines -> p.n * Bytes(Lines[p.kind])
    [] p.kind = "S2C_CHAT" -> 2 * (p.n + 1)
    [] p.kind = "S2C_ERROR" -> 256
    [] p.kind = "S2C_PARTY_ASK" -> 2 * Bytes(PartyPerson) + 4
    [] p.kind = "S2C_TRADE_ASK" -> Bytes(PartyPerson) + 4
    [] p.kind = "S2C_TRADE_STATE" -> Bytes(PartyPerson) + 2 * TradeSideBytes
    [] OTHER -> 0

-----------------------------------------------------------------------------
(* The enumerated bytes: the names behind the values, in the enums' order.   *)

PartyNotice == <<
  "SENT_INVITE", "SENT_APPLY", "SENT_SUGGEST", "NO_TARGET", "SELF", "SAME_PARTY",
  "BOTH_IN_PARTY", "FULL", "NOT_LEADER", "NOT_IN_PARTY", "NOT_MEMBER", "TARGET_BUSY",
  "SELF_BUSY", "NO_REQUEST", "DECLINED", "EXPIRED", "CANCELLED", "JOINED", "LEFT",
  "KICKED", "LEADER", "DISBANDED", "ROOM_NOT_GATHERED", "ROOM_DEAD", "ROOM_LOCKED" >>
TradeEnd == <<
  "DONE", "CANCELLED", "DECLINED", "EXPIRED", "LEFT", "DEAD", "NOT_IN_REACH",
  "BAG_FULL", "MONEY_FULL", "CHANGED", "SAVE_DELAY" >>

\* The enum of each kind's byte; ZONE_CHANGE_FAIL has no enum but a comment.
\* BuffKind by the name the skill table has for it.
EnumOf == [
  S2C_ZONE_CHANGE_FAIL |->
    <<"NOT_FOUND", "FULL", "SAME_ZONE", "NOT_ALLOWED", "TOO_FAR", "NO_PORTAL">>,
  S2C_USE_ITEM_FAIL |->
    <<"BAD_SLOT", "EMPTY", "NOT_USABLE", "DEAD", "COOLDOWN", "FULL_HP", "FULL_MP",
      "IN_TRADE">>,
  S2C_GROUND_ITEM_CREATE |-> <<"SEEN", "DROP">>,
  S2C_GROUND_ITEM_DELETE |-> <<"OUT_OF_SIGHT", "PICKED", "EXPIRED">>,
  S2C_PICKUP_FAIL |-> <<"DEAD", "NO_ITEM", "NOT_OWNER", "TAB_FULL", "MONEY_FULL">>,
  S2C_EQUIP_FAIL |->
    <<"BAD_SLOT", "EMPTY", "NOT_EQUIPPABLE", "DEAD", "COOLDOWN", "TAB_FULL", "IN_TRADE">>,
  S2C_SKILL_FAIL |->
    <<"BAD_SKILL", "DEAD", "COOLDOWN", "LOW_HP", "NO_TARGET", "LOW_MP">>,
  S2C_ACTOR_BUFF |-> <<"attack_mul">>,
  S2C_PARTY_ASK |-> <<"INVITE", "APPLY", "SUGGEST">>,
  S2C_PARTY_ASK_END |-> PartyNotice,
  S2C_PARTY_NOTICE |-> PartyNotice,
  S2C_SHOP_FAIL |->
    <<"DEAD", "NO_NPC", "NOT_IN_REACH", "NOT_SOLD_HERE", "NOT_BOUGHT_HERE", "BAD_SLOT",
      "BAD_COUNT", "NOT_ENOUGH_MONEY", "BAG_FULL", "MONEY_FULL", "IN_TRADE">>,
  S2C_TRADE_ASK_END |-> TradeEnd,
  S2C_TRADE_END |-> TradeEnd,
  S2C_TRADE_FAIL |->
    <<"NO_TARGET", "SELF", "NOT_IN_REACH", "DEAD", "TARGET_DEAD", "TARGET_BUSY",
      "SELF_BUSY", "NO_REQUEST", "NOT_IN_TRADE", "CLOSED", "BAD_SLOT", "ALREADY_OFFERED",
      "NOT_TRADABLE", "BAD_COUNT", "ITEMS_FULL", "NOT_ENOUGH_MONEY", "NOT_HERE">> ]

\* PackDirState: the low half of the byte is the direction (0..4), the high
\* half whether the actor moves.
PackDirState(direction, moveState) == (direction % 16) + 16 * moveState

\* The two as one number, for packets: v = 5 * moveState + direction.
DirOf(v) == v % 5
MoveOf(v) == v \div 5

\* What the packet's enumerated byte says; nothing when it has none.
Says(p) ==
  CASE p.kind \in DOMAIN EnumOf -> {<<"code", EnumOf[p.kind][p.v + 1]>>}
    [] p.kind = "S2C_SECTOR_UPDATES" ->
         {<<"direction", ToString(DirOf(p.v))>>, <<"moveState", ToString(MoveOf(p.v))>>}
    [] OTHER -> {}

-----------------------------------------------------------------------------
(* Requests. *)

\* RegisterRoutes of the handlers: the numbers that have a handler.
Routes == { k \in DOMAIN Struct : NumberOf[k] \in
  {1000, 1001, 1007, 1011, 1014, 1015, 1022, 1028, 1032, 1036, 1039, 1040, 1042, 1047}
    \cup (1050 .. 1055) \cup {1061, 1062} \cup (1065 .. 1070) }

\* The texts of fixed length at the end of two of them: key, ticket.
FixedText == [C2S_ADMIN_LOGIN |-> 64, C2S_ENTER_GAME |-> 64]

\* The smallest packet each handler takes; of C2S_CHAT, one character.
MinSize(kind) ==
  Header + Bytes(Struct[kind]) +
  (CASE kind = "C2S_CHAT" -> 2
     [] kind \in DOMAIN FixedText -> FixedText[kind]
     [] OTHER -> 0)

\* RecvChat: how many characters of a message of this size are kept.
ChatKept(size) ==
  LET room == (size - Header) \div 2 IN
  IF room > CHAT_MSG_MAX_LEN - 1 THEN CHAT_MSG_MAX_LEN - 1 ELSE room
===============================================================================
