------------------------------- MODULE MCWebLink -------------------------------
(* Every packet and every request there is, each with the extremes of its list  *)
(* or text and every value of its enumerated byte, over a line that holds; and  *)
(* short exchanges over lines that may be lost at any moment.                   *)
EXTENDS WebLink

Pack(k, n, v) == [kind |-> k, n |-> n, v |-> v]

LengthsOf(k) ==
  CASE k \in DOMAIN Lines -> {0, 1, MostLines[k]}
    [] k = "S2C_CHAT" -> {0, 1, CHAT_MSG_MAX_LEN - 1}
    [] k = "S2C_TRADE_STATE" -> {0, 1, TRADE_MAX_ITEMS}
    [] k = "C2S_CHAT" -> {1, 510, 511, 600}
    [] OTHER -> {0}

ValuesOf(k) ==
  CASE k \in DOMAIN EnumOf -> 0 .. Len(EnumOf[k]) - 1
    [] k = "S2C_SECTOR_UPDATES" -> 0 .. 9
    [] OTHER -> {0}

Packets(kinds) ==
  UNION { { Pack(k, n, v) : n \in LengthsOf(k), v \in ValuesOf(k) } : k \in kinds }

Answers == Packets(DOMAIN Struct \ Routes)

\* C2S_ZONE_CHANGE has a handler; the page has no use for it.
RequestsOfThePage == Packets(Routes \ {"C2S_ZONE_CHANGE", "C2S_ENTER_GAME"})

\* The packets a request waits for, after the character.
Setting(kind) ==
  SetToSeq({ Pack(k, 0, 0) : k \in Needs(kind) \ {"S2C_CREATE_MY_PLAYER"} })

Mine == Pack("S2C_CREATE_MY_PLAYER", 0, 0)
Seen == Pack("S2C_GROUND_ITEM_DELETE", 0, 1)
Walk == Pack("C2S_MOVE_START", 0, 0)

\* There is no stop without a walk before it.
Before(r) == IF Stops(r.kind) THEN <<Walk, r>> ELSE <<r>>

MCScript ==
  { [down |-> <<p>>, up |-> <<>>, rough |-> FALSE] : p \in Answers }
  \cup { [down |-> <<Mine>> \o Setting(r.kind), up |-> Before(r), rough |-> FALSE]
           : r \in RequestsOfThePage }
  \cup { [down |-> <<Mine>>, up |-> <<Walk>>, rough |-> TRUE] }

MCConn == 1 .. 2

\* The pieces' set, for the types.
MCUnit == [kind : DOMAIN Struct, n : 0 .. 600, v : 0 .. 30, part : 0 .. 3]
================================================================================
