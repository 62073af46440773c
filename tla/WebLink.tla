------------------------------- MODULE WebLink -------------------------------
(***************************************************************************)
(* The web client's line to the game server, end to end: the page          *)
(* (live.html) asks with the encoders of proto.js, the relay carries the   *)
(* bytes, the server answers with packets laid out by Protocol.h, and the  *)
(* page puts the bytes together again and decodes them.  TCP keeps no      *)
(* packet boundaries: a frame of the WebSocket ends wherever a 'data' of   *)
(* the relay ended.  When the line is lost the page connects again.        *)
(*                                                                         *)
(* A behaviour follows a script: what the server will say, what the player *)
(* will do, and whether the line may be lost on the way.                   *)
(***************************************************************************)
EXTENDS Relay, Proto

CONSTANT Script    \* records [down : packets, up : requests, rough : BOOLEAN]
                   \* Conn is 1 .. n: the lines are made one after the other

VARIABLES
  script,
  buf,      \* the page's Reassembler: pieces that are no whole packet yet
  given,    \* [Conn -> what onPacket was called with]
  holds,    \* the packets the page still has something from
  moving,   \* the page's mark that its last move was a start; no line clears it
  acts      \* how many of the script's requests the player has made, on any line

webVars == <<script, buf, given, holds, moving, acts>>
linkVars == <<relayVars, webVars>>

\* A packet on the wire: its size, its number and, if there is more, its body.
Piece(p, k) == [kind |-> p.kind, n |-> p.n, v |-> p.v, part |-> k]
Pieces(p)   == [k \in 1 .. (IF SizeOf(p) > Header THEN 3 ELSE 2) |-> Piece(p, k)]
Asked(p)    == Piece(p, 0)

Weight(u) == IF u.part = 3 THEN SizeOf(u) - Header ELSE 2
Weigh(us) == FoldLeft(LAMBDA sum, u : sum + Weight(u), 0, us)

LinkInit ==
  /\ RelayInit
  /\ script \in Script
  /\ buf = <<>> /\ given = [c \in Conn |-> <<>>] /\ holds = {}
  /\ moving = FALSE /\ acts = 0

-----------------------------------------------------------------------------
(* The page. *)

\* One round of Reassembler.push's loop on r = [left, out]: the pieces at hand
\* and what onPacket was called with.  Pieces that do not start a packet are read
\* as a size by chance; here they are dropped.
PushRound(r) ==
  LET us == r.left  size == SizeOf(us[1]) IN
  IF Weigh(us) < 4 THEN r
  ELSE IF us[1].part # 1 \/ size < 4 \/ size > 4096 THEN [r EXCEPT !.left = <<>>]
  ELSE IF Weigh(us) < size THEN r
  ELSE [left |-> Rest(us, Len(Pieces(us[1]))),
        out  |-> r.out \o decodePacket(us[1], Weigh(us))]

\* Reassembler.push.  A round that changes nothing ends the loop, and no loop
\* has more rounds than there are pieces.  (The one result is kept as a set of
\* one, which has TLC work out each round once.)
Reassemble(us) ==
  FoldLeft(LAMBDA rs, u : { PushRound(r) : r \in rs }, {[left |-> us, out |-> <<>>]}, us)

\* onPacket: the zone's info clears what belonged to the old zone.
OfTheZone == {"S2C_CREATE_OTHER_PLAYER", "S2C_TRADE_ASK", "S2C_TRADE_STATE"}

Keep(had, out) ==
  FoldLeft(LAMBDA h, g : (IF g.name = "S2C_ZONE_INFO" THEN h \ OfTheZone ELSE h) \cup {g.name},
           had, out)

\* Being moved to another zone ends the player's walk.
WalksOn(out) == moving /\ \A i \in DOMAIN out : out[i].name # "S2C_ZONE_CHANGE_OK"

\* onmessage
PageGets(c, n) ==
  /\ BrowserMessage(c, n)
  /\ \E r \in Reassemble(buf \o First(dnWire[c], n)) :
       /\ buf' = r.left
       /\ given' = [given EXCEPT ![c] = @ \o r.out]
       /\ holds' = Keep(holds, r.out)
       /\ moving' = WalksOn(r.out)
  /\ UNCHANGED <<script, acts>>

\* MUTANT of PageConnects: one Reassembler for all lines.
PageConnectsToTheSameEnd(c) ==
  /\ \A b \in Conn : b < c => bws[b] = "CLOSED"
  /\ Connect(c)
  /\ holds' = {}
  /\ UNCHANGED <<script, buf, given, moving, acts>>

\* MUTANT of PageConnects: the old character stays on the screen.
PageConnectsWithGhosts(c) ==
  /\ \A b \in Conn : b < c => bws[b] = "CLOSED"
  /\ Connect(c)
  /\ buf' = <<>>
  /\ UNCHANGED <<script, given, holds, moving, acts>>

\* connect(), on load and 1.5 s after onclose: of the last line nothing is kept but
\* the mark of a walk.
PageConnects(c) ==
  /\ \A b \in Conn : b < c => bws[b] = "CLOSED"
  /\ Connect(c)
  /\ buf' = <<>> /\ holds' = {}
  /\ UNCHANGED <<script, given, moving, acts>>

Entry == [kind |-> "C2S_ENTER_GAME", n |-> 0, v |-> 0]

\* onopen
PageOpens(c) == BrowserOpen(c, Asked(Entry)) /\ UNCHANGED webVars

\* What the page must have before it sends a request: a character, a bag, somebody
\* to talk to, a window to answer in.
Needs(kind) ==
  CASE kind = "C2S_HEARTBEAT" -> {}
    [] kind \in {"C2S_USE_ITEM", "C2S_EQUIP", "C2S_UNEQUIP"} -> {"S2C_INVENTORY"}
    [] kind = "C2S_SHOP_BUY" -> {"S2C_CREATE_OTHER_PLAYER"}
    [] kind = "C2S_SHOP_SELL" -> {"S2C_CREATE_OTHER_PLAYER", "S2C_INVENTORY"}
    [] kind = "C2S_PARTY_ANSWER" -> {"S2C_CREATE_MY_PLAYER", "S2C_PARTY_ASK"}
    [] kind = "C2S_TRADE_ANSWER" -> {"S2C_CREATE_MY_PLAYER", "S2C_TRADE_ASK"}
    [] kind = "C2S_TRADE_OFFER" ->
         {"S2C_CREATE_MY_PLAYER", "S2C_INVENTORY", "S2C_TRADE_STATE"}
    [] kind \in {"C2S_TRADE_MONEY", "C2S_TRADE_COMMIT", "C2S_TRADE_CANCEL"} ->
         {"S2C_CREATE_MY_PLAYER", "S2C_TRADE_STATE"}
    [] kind \in {"C2S_PARTY_REQUEST", "C2S_TRADE_REQUEST"} ->
         {"S2C_CREATE_MY_PLAYER", "S2C_CREATE_OTHER_PLAYER"}
    [] kind \in {"C2S_PARTY_KICK", "C2S_PARTY_LEADER"} ->
         {"S2C_CREATE_MY_PLAYER", "S2C_PARTY_INFO"}
    [] OTHER -> {"S2C_CREATE_MY_PLAYER"}

Walks(kind) == kind = "C2S_MOVE_START"
Stops(kind) == kind = "C2S_MOVE_STOP"
Stop == [kind |-> "C2S_MOVE_STOP", n |-> 0, v |-> 0]

\* What a script is made of: a session is told its own character before anything
\* that a request of the page waits for (PlayerPlacement, NotifyArrival).
Packet == [kind : STRING, n : Nat, v : Nat]

ASSUME LinkAssumption ==
  /\ Conn \subseteq Nat /\ Asked(Entry) \in Unit /\ Asked(Stop) \in Unit
  /\ \A s \in Script :
       /\ s.down \in Seq(Packet) /\ s.up \in Seq(Packet)
       /\ \A i \in DOMAIN s.down, k \in 1 .. 3 : Piece(s.down[i], k) \in Unit
       /\ \A i \in DOMAIN s.up : Asked(s.up[i]) \in Unit
       /\ \A j \in DOMAIN s.up, i \in DOMAIN s.down :
            s.down[i].kind \in Needs(s.up[j].kind) =>
              \E h \in 1 .. i : s.down[h].kind = "S2C_CREATE_MY_PLAYER"

\* The player's next request.  A key that is let go stops a walk, if there is one.
PageAsks(c) ==
  LET kind == script.up[acts + 1].kind IN
  /\ acts + 1 \in DOMAIN script.up
  /\ Needs(kind) \subseteq holds
  /\ Stops(kind) => moving
  /\ BrowserSend(c, Asked(script.up[acts + 1]))
  /\ moving' = (Walks(kind) \/ (moving /\ ~Stops(kind)))
  /\ acts' = acts + 1
  /\ UNCHANGED <<script, buf, given, holds>>

\* The player goes into the chat box: a walk stops, whether the line has a character
\* or not.
PageStopsToChat(c) ==
  /\ moving
  /\ BrowserSend(c, Asked(Stop))
  /\ moving' = FALSE
  /\ UNCHANGED <<script, buf, given, holds, acts>>

(* The game server: it loads the character when the entry request has come,  *)
(* and sends whole packets.                                                  *)

Told(c) == Cardinality({ i \in DOMAIN dnSent[c] : dnSent[c][i].part = 1 })

ServerTells(c) ==
  /\ upGot[c] # <<>>
  /\ Told(c) + 1 \in DOMAIN script.down
  /\ ServerSend(c, Pieces(script.down[Told(c) + 1]))
  /\ UNCHANGED webVars

-----------------------------------------------------------------------------

\* What the line, the relay and the page do of their own accord.
CarryOn(c) ==
  \/ /\ \/ Connection(c) \/ TcpConnected(c) \/ WsMessage(c) \/ UpArrives(c) \/ TcpData(c)
        \/ TcpEnd(c) \/ TcpClosed(c) \/ WsClosed(c) \/ WsCloseTimeout(c)
        \/ BrowserClosed(c) \/ ServerSeesEnd(c)
     /\ UNCHANGED webVars
  \/ PageOpens(c)
  \/ \E n \in 1 .. Len(dnWire[c]) : PageGets(c, n)

LineLost(c) ==
  /\ script.rough
  /\ TcpError(c) \/ WsBreaks(c) \/ ServerClose(c) \/ BrowserGone(c)
  /\ UNCHANGED webVars

LinkNext == \E c \in Conn : \/ CarryOn(c) \/ LineLost(c)
                            \/ PageConnects(c) \/ PageAsks(c) \/ PageStopsToChat(c)
                            \/ ServerTells(c)

\* Node's event loops, the browser's and the network get on; a 'close' follows
\* an ended socket, and the closing handshake has its own timeout.
LinkSpec == /\ LinkInit /\ [][LinkNext]_linkVars
            /\ \A c \in Conn : WF_linkVars(CarryOn(c))

-----------------------------------------------------------------------------
(* Properties. *)

\* The packets of which everything has come to the page over c.
Whole(c) ==
  Cardinality({ i \in DOMAIN dnGot[c] : dnGot[c][i].part = Len(Pieces(dnGot[c][i])) })

\* Protocol.h's values under the page's names for them.
ShownAs(name) == CASE name = "qx" -> "x" [] name = "qy" -> "y" [] OTHER -> name

\* What the page must make of a packet; it has no use for answers to ADMIN_LOGIN.
Meant(p) ==
  [name |-> p.kind,
   fields |-> { <<f[1], f[2], ShownAs(f[3]), f[4], f[5]>> : f \in Wire(p) },
   shows |-> Says(p)]

\* Taken by itself, with nothing behind it, a packet becomes what it means:
\* proto.js reads no byte behind the size in its header, and the Reassembler
\* (proto.js:342) does not take the size for a broken one.
ReadAlone(p) ==
  LET u == Piece(p, 1) IN
  /\ SizeOf(p) \in Header .. 4096
  /\ \A f \in Reads(NAME(NumberOf[u.kind]), u, SizeOf(u)) :
       EndOf(f) \in 0 .. SizeOf(p) - Header
  /\ decodePacket(u, SizeOf(p)) = <<Meant(p)>>

\* So does everything the server is about to say: what a packet is read as never
\* rests on the bytes of the packet behind it in the page's buffer.
ReadsAlone ==
  \A c \in Conn :
    srv[c] = "OPEN" /\ upGot[c] # <<>> /\ Told(c) + 1 \in DOMAIN script.down
      => ReadAlone(script.down[Told(c) + 1])

\* Protocol.h and proto.js say the same (proto.js:1, "ported 1:1"): whatever the
\* server sends, the page reads every value from where the server put it, as wide
\* as it is, under its name, and nothing else; lists with no line and full lists
\* included.  It gets the packets in the order they were sent, each one once.
DecodedAsSent ==
  \A c \in Conn : \A i \in DOMAIN given[c] : given[c][i] = Meant(script.down[i])

\* The Reassembler (proto.js:332) waits for what is missing and for no more: every
\* packet that has come whole was given to the page, and the buffer is the
\* beginning of the next one, also when the last line broke inside a packet.
NothingParked ==
  \A c \in Conn :
    /\ Len(given[c]) = Whole(c)
    /\ bws[c] = "OPEN" /\ buf # <<>> => IsStrictPrefix(buf, Pieces(buf[1]))

\* Every request the page sends is one the server takes: it has a handler, is not
\* smaller than the handler's packet (Router), carries every value where
\* the handler's struct has it, and a chat text comes through whole.
RequestsUnderstood ==
  \A c \in Conn : \A i \in DOMAIN upGot[c] :
    LET r == Request(upGot[c][i])
        taken == { k \in Routes : NumberOf[k] = r.number } IN
    \E kind \in taken :
      /\ kind = upGot[c][i].kind
      /\ r.size >= MinSize(kind) /\ r.size <= MAX_PACKET_SIZE
      /\ r.fields = Lay(0, Struct[kind])
      /\ r.text <= ChatKept(r.size)

\* Every message by itself: what the server is about to say is read as it is meant,
\* what the page asked for is understood.  The two languages hold the same tables.
MessagesAgree == ReadsAlone /\ RequestsUnderstood

\* The player's character is known on c.
InWorld(c) == "S2C_CREATE_MY_PLAYER" \in { given[c][i].name : i \in DOMAIN given[c] }

StopsOn(c) == { i \in DOMAIN upSent[c] : Stops(upSent[c][i].kind) }

\* The player was walking when c was lost.
LeftWalking(c) ==
  \E i \in DOMAIN upSent[c] : Walks(upSent[c][i].kind) /\ \A j \in StopsOn(c) : j < i

\* The server drops what a session without a character asks for (live.html, the
\* comment at S2C_CREATE_MY_PLAYER): whatever the page still had of the last line,
\* on a new one it asks for nothing before it has the character of that line.  The
\* one exception is the end of a walk that a lost line cut off: connect() keeps
\* moving, and the chat box (live.html:850) does not look at the character.  Such a
\* stop comes once for every walk cut off, and never out of nothing.
AsksInTheWorld ==
  \A c \in Conn : \A i \in DOMAIN upSent[c] :
    \/ InWorld(c)
    \/ upSent[c][i].kind \in {"C2S_ENTER_GAME", "C2S_HEARTBEAT"}
    \/ /\ StopsOn(c) = {i}
       /\ \E b \in Conn : /\ b < c /\ LeftWalking(b)
                         /\ \A a \in Conn : b < a /\ a < c => StopsOn(a) = {}
==============================================================================
