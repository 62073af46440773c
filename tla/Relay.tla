-------------------------------- MODULE Relay --------------------------------
(***************************************************************************)
(* relay.js: the program between the browsers and the game server.  Every  *)
(* WebSocket it accepts gets a TCP connection to the server of its own,    *)
(* and bytes go both ways between the two.  Each pair of sockets opens,    *)
(* fills and closes in an order nobody controls: the browser's first       *)
(* packet may come before the TCP connection is up, the server may hang up *)
(* while packets of either side are on their way, the page may be closed   *)
(* at any time, and what one socket still gives while the other is already *)
(* closing is dropped.                                                     *)
(*                                                                         *)
(* The relay's handlers are the actions under "relay.js".  The browser,    *)
(* the game server and the two sockets' own work are modelled from the     *)
(* way relay.js and live.html use them.                                    *)
(***************************************************************************)
EXTENDS Naturals, Sequences, SequencesExt

CONSTANTS
  Conn,     \* connections: one WebSocket of a page, and the TCP socket of its pair
  Unit      \* what is carried: a whole message of the browser upward, a piece of
            \* the server's byte stream downward

VARIABLES
  bws,      \* the browser's WebSocket (live.html)
  ws,       \* the relay's end of it: CLOSING once ws.close() was called
  tcp,      \* the relay's TCP socket: DESTROYED until its 'close' event has run
  srv,      \* the game server's session
  upSent, upWire, upPipe, upGot,   \* upward: sent by the browser, on its way to the
                                   \* relay, written to the TCP socket, at the server
  dnSent, dnPipe, dnWire, dnGot    \* downward: sent by the server, on its way to the
                                   \* relay, sent to the WebSocket, at the browser

ends == <<bws, ws, tcp, srv>>
up   == <<upSent, upWire, upPipe, upGot>>
down == <<dnSent, dnPipe, dnWire, dnGot>>
relayVars == <<bws, ws, tcp, srv, upSent, upWire, upPipe, upGot,
               dnSent, dnPipe, dnWire, dnGot>>

\* Nothing is there before the page calls connect().
RelayInit ==
  /\ bws = [c \in Conn |-> "NONE"] /\ ws = [c \in Conn |-> "NONE"]
  /\ tcp = [c \in Conn |-> "NONE"] /\ srv = [c \in Conn |-> "NONE"]
  /\ upSent = [c \in Conn |-> <<>>] /\ upWire = [c \in Conn |-> <<>>]
  /\ upPipe = [c \in Conn |-> <<>>] /\ upGot = [c \in Conn |-> <<>>]
  /\ dnSent = [c \in Conn |-> <<>>] /\ dnPipe = [c \in Conn |-> <<>>]
  /\ dnWire = [c \in Conn |-> <<>>] /\ dnGot = [c \in Conn |-> <<>>]

\* The first n units of a queue, and what is left without them.
First(q, n) == SubSeq(q, 1, n)
Rest(q, n)  == SubSeq(q, n + 1, Len(q))

-----------------------------------------------------------------------------
(* relay.js *)

\* tcp.writable: true from net.connect on, until the socket is destroyed.
Writable(c) == tcp[c] \in {"CONNECTING", "OPEN"}

\* ws.close(): the closing handshake starts, at most once.
WsClose(c) == ws' = IF ws[c] = "OPEN" THEN [ws EXCEPT ![c] = "CLOSING"] ELSE ws

\* tcp.destroy(): what Node still holds of the written bytes is lost, and no
\* 'data' comes any more.  What the kernel already has may still arrive.
TcpDestroy(c) ==
  /\ tcp' = IF Writable(c) THEN [tcp EXCEPT ![c] = "DESTROYED"] ELSE tcp
  /\ dnPipe' = [dnPipe EXCEPT ![c] = <<>>]
  /\ \E n \in 0 .. Len(upPipe[c]) :
       /\ tcp[c] = "CONNECTING" => n = 0
       /\ upPipe' = [upPipe EXCEPT ![c] = First(@, n)]

\* wss 'connection': a new pair; the TCP connection is only started.
Connection(c) ==
  /\ bws[c] = "CONNECTING" /\ ws[c] = "NONE"
  /\ ws' = [ws EXCEPT ![c] = "OPEN"]
  /\ tcp' = [tcp EXCEPT ![c] = "CONNECTING"]
  /\ UNCHANGED <<bws, srv, up, down>>

\* MUTANT of WsMessage: written only once the TCP connection is up.
WsMessageOnceUp(c) ==
  /\ ws[c] \in {"OPEN", "CLOSING"} /\ upWire[c] # <<>>
  /\ upWire' = [upWire EXCEPT ![c] = Tail(@)]
  /\ upPipe' = IF tcp[c] = "OPEN"
               THEN [upPipe EXCEPT ![c] = Append(@, Head(upWire[c]))]
               ELSE upPipe
  /\ UNCHANGED <<ends, upSent, upGot, down>>

\* ws 'message': written if the TCP socket takes it, dropped otherwise.  A
\* WebSocket that is closing still gives what the browser had sent.
WsMessage(c) ==
  /\ ws[c] \in {"OPEN", "CLOSING"} /\ upWire[c] # <<>>
  /\ upWire' = [upWire EXCEPT ![c] = Tail(@)]
  /\ upPipe' = IF Writable(c)
               THEN [upPipe EXCEPT ![c] = Append(@, Head(upWire[c]))]
               ELSE upPipe
  /\ UNCHANGED <<ends, upSent, upGot, down>>

\* MUTANT of TcpData: waits for a whole header each time.
TcpDataByHeaders(c) ==
  /\ tcp[c] = "OPEN"
  /\ \E n \in 2 .. Len(dnPipe[c]) :
       /\ dnPipe' = [dnPipe EXCEPT ![c] = Rest(@, n)]
       /\ dnWire' = [dnWire EXCEPT ![c] = @ \o First(dnPipe[c], n)]
  /\ UNCHANGED <<ends, up, dnSent, dnGot>>

\* tcp 'data': as many bytes as have come, sent on while the WebSocket is open.
TcpData(c) ==
  /\ tcp[c] = "OPEN"
  /\ \E n \in 1 .. Len(dnPipe[c]) :
       /\ dnPipe' = [dnPipe EXCEPT ![c] = Rest(@, n)]
       /\ dnWire' = IF ws[c] = "OPEN"
                    THEN [dnWire EXCEPT ![c] = @ \o First(dnPipe[c], n)]
                    ELSE dnWire
  /\ UNCHANGED <<ends, up, dnSent, dnGot>>

\* tcp 'error': no server, or the connection was reset.  The WebSocket is
\* closed; Node has destroyed the socket.
TcpError(c) ==
  /\ Writable(c)
  /\ tcp' = [tcp EXCEPT ![c] = "DESTROYED"]
  /\ WsClose(c)
  /\ upPipe' = [upPipe EXCEPT ![c] = <<>>] /\ dnPipe' = [dnPipe EXCEPT ![c] = <<>>]
  /\ UNCHANGED <<bws, srv, upSent, upWire, upGot, dnSent, dnWire, dnGot>>

\* MUTANT of TcpClosed: nobody tells the browser.
TcpClosedQuietly(c) ==
  /\ tcp[c] = "DESTROYED"
  /\ tcp' = [tcp EXCEPT ![c] = "CLOSED"]
  /\ UNCHANGED <<bws, ws, srv, up, down>>

\* tcp 'close': bye('tcp').
TcpClosed(c) ==
  /\ tcp[c] = "DESTROYED"
  /\ tcp' = [tcp EXCEPT ![c] = "CLOSED"]
  /\ WsClose(c)
  /\ UNCHANGED <<bws, srv, up, down>>

\* ws 'close' (after 'error' or not): bye('ws').
WsGone(c) ==
  /\ ws[c] \in {"OPEN", "CLOSING"}
  /\ ws' = [ws EXCEPT ![c] = "CLOSED"]
  /\ TcpDestroy(c)
  /\ upWire' = [upWire EXCEPT ![c] = <<>>]
  /\ UNCHANGED <<bws, srv, upSent, upGot, dnSent, dnWire, dnGot>>

\* ... after everything the browser had sent, when it has closed its end;
WsClosed(c) == bws[c] = "CLOSED" /\ upWire[c] = <<>> /\ WsGone(c)

\* ... when the browser does not answer the closing handshake in time;
WsCloseTimeout(c) == ws[c] = "CLOSING" /\ WsGone(c)

\* ... or when the connection breaks.
WsBreaks(c) == ws[c] = "OPEN" /\ WsGone(c)

-----------------------------------------------------------------------------
(* The two sockets, from the way relay.js uses them. *)

\* net.connect succeeds: the server has a session.
TcpConnected(c) ==
  /\ tcp[c] = "CONNECTING"
  /\ tcp' = [tcp EXCEPT ![c] = "OPEN"]
  /\ srv' = [srv EXCEPT ![c] = "OPEN"]
  /\ UNCHANGED <<bws, ws, up, down>>

\* Written bytes reach the server.
UpArrives(c) ==
  /\ srv[c] = "OPEN" /\ upPipe[c] # <<>>
  /\ upGot' = [upGot EXCEPT ![c] = Append(@, Head(upPipe[c]))]
  /\ upPipe' = [upPipe EXCEPT ![c] = Tail(@)]
  /\ UNCHANGED <<ends, upSent, upWire, down>>

\* The server has hung up and all it sent has come: Node ends its side too.
TcpEnd(c) ==
  /\ tcp[c] = "OPEN" /\ srv[c] = "CLOSED" /\ dnPipe[c] = <<>>
  /\ tcp' = [tcp EXCEPT ![c] = "DESTROYED"]
  /\ UNCHANGED <<bws, ws, srv, up, down>>

(* The game server. *)

ServerSend(c, us) ==
  /\ srv[c] = "OPEN" /\ us # <<>>
  /\ dnSent' = [dnSent EXCEPT ![c] = @ \o us]
  /\ dnPipe' = [dnPipe EXCEPT ![c] = @ \o us]
  /\ UNCHANGED <<ends, up, dnWire, dnGot>>

\* Logout, kick or shutdown; or the end of the connection is seen.
ServerClose(c) ==
  /\ srv[c] = "OPEN"
  /\ srv' = [srv EXCEPT ![c] = "CLOSED"]
  /\ UNCHANGED <<bws, ws, tcp, up, down>>

ServerSeesEnd(c) == tcp[c] \in {"DESTROYED", "CLOSED"} /\ ServerClose(c)

(* The browser: connect() of live.html. *)

Connect(c) ==
  /\ bws[c] = "NONE"
  /\ bws' = [bws EXCEPT ![c] = "CONNECTING"]
  /\ UNCHANGED <<ws, tcp, srv, up, down>>

\* onopen sends the first message, ENTER_GAME.
BrowserOpen(c, u) ==
  /\ bws[c] = "CONNECTING" /\ ws[c] # "NONE"
  /\ bws' = [bws EXCEPT ![c] = "OPEN"]
  /\ upSent' = [upSent EXCEPT ![c] = Append(@, u)]
  /\ upWire' = [upWire EXCEPT ![c] = IF ws[c] = "CLOSED" THEN @ ELSE Append(@, u)]
  /\ UNCHANGED <<ws, tcp, srv, upPipe, upGot, down>>

BrowserSend(c, u) ==
  /\ bws[c] = "OPEN"
  /\ upSent' = [upSent EXCEPT ![c] = Append(@, u)]
  /\ upWire' = [upWire EXCEPT ![c] = IF ws[c] = "CLOSED" THEN @ ELSE Append(@, u)]
  /\ UNCHANGED <<ends, upPipe, upGot, down>>

\* onmessage with the next n units: a frame is what one 'data' of the relay had.
BrowserMessage(c, n) ==
  /\ bws[c] = "OPEN" /\ n \in 1 .. Len(dnWire[c])
  /\ dnGot' = [dnGot EXCEPT ![c] = @ \o First(dnWire[c], n)]
  /\ dnWire' = [dnWire EXCEPT ![c] = Rest(@, n)]
  /\ UNCHANGED <<ends, up, dnSent, dnPipe>>

\* The relay is not there, or the page is left.
BrowserGone(c) ==
  /\ bws[c] \in {"CONNECTING", "OPEN"}
  /\ bws' = [bws EXCEPT ![c] = "CLOSED"]
  /\ UNCHANGED <<ws, tcp, srv, up, down>>

\* onclose: the relay closed, after all it had sent; or the connection broke.
BrowserClosed(c) ==
  /\ \/ bws[c] = "OPEN" /\ ws[c] = "CLOSING" /\ dnWire[c] = <<>>
     \/ ws[c] = "CLOSED"
  /\ BrowserGone(c)

-----------------------------------------------------------------------------
(* The relay as a whole.  The frames below are the game's and the page's     *)
(* to choose; WebLink says which.                                            *)

\* The relay and the sockets of one connection, whatever the others do.
RelayStep(c) ==
  \/ Connection(c) \/ WsMessage(c) \/ TcpData(c) \/ TcpError(c) \/ TcpClosed(c)
  \/ WsClosed(c) \/ WsCloseTimeout(c) \/ WsBreaks(c)
  \/ TcpConnected(c) \/ UpArrives(c) \/ TcpEnd(c)

EndsStep(c) ==
  \/ Connect(c) \/ BrowserGone(c) \/ BrowserClosed(c)
  \/ ServerClose(c) \/ ServerSeesEnd(c)
  \/ \E u \in Unit : BrowserOpen(c, u) \/ BrowserSend(c, u)
  \/ \E us \in Seq(Unit) : ServerSend(c, us)
  \/ \E n \in Nat : BrowserMessage(c, n)

RelayNext == \E c \in Conn : RelayStep(c) \/ EndsStep(c)

RelaySpec == RelayInit /\ [][RelayNext]_relayVars

-----------------------------------------------------------------------------
(* Properties. *)

\* The four ends and the eight queues have their types.
RelayTypeOK ==
  /\ bws \in [Conn -> {"NONE", "CONNECTING", "OPEN", "CLOSED"}]
  /\ ws \in [Conn -> {"NONE", "OPEN", "CLOSING", "CLOSED"}]
  /\ tcp \in [Conn -> {"NONE", "CONNECTING", "OPEN", "DESTROYED", "CLOSED"}]
  /\ srv \in [Conn -> {"NONE", "OPEN", "CLOSED"}]
  /\ upSent \in [Conn -> Seq(Unit)] /\ upWire \in [Conn -> Seq(Unit)]
  /\ upPipe \in [Conn -> Seq(Unit)] /\ upGot \in [Conn -> Seq(Unit)]
  /\ dnSent \in [Conn -> Seq(Unit)] /\ dnPipe \in [Conn -> Seq(Unit)]
  /\ dnWire \in [Conn -> Seq(Unit)] /\ dnGot \in [Conn -> Seq(Unit)]

\* Up (relay.js 'message', line 30): whatever is dropped because the TCP
\* socket cannot take it, nothing after it is ever written: the server has a
\* prefix of what the browser sent, and while the socket takes bytes nothing
\* is missing.
UpInOrder(c) ==
  /\ IsPrefix(upGot[c] \o upPipe[c], upSent[c])
  /\ Writable(c) \/ tcp[c] = "NONE" =>
       upSent[c] = (upGot[c] \o upPipe[c]) \o upWire[c]

\* Down (relay.js 'data', line 36): the same for what the browser gets while
\* the WebSocket is open and after it began to close.
DownInOrder(c) ==
  /\ IsPrefix(dnGot[c] \o dnWire[c], dnSent[c])
  /\ ws[c] \in {"NONE", "OPEN"} =>
       dnSent[c] = (dnGot[c] \o dnWire[c]) \o dnPipe[c]

\* Both streams of every connection arrive as far as they do without a gap.
NothingSkipped == \A c \in Conn : UpInOrder(c) /\ DownInOrder(c)

\* The pair of sockets is the connection that Pipe promises.
standing(c) ==
  IF bws[c] = "NONE" THEN "idle"
  ELSE IF \/ bws[c] = "CLOSED" \/ ws[c] \in {"CLOSING", "CLOSED"}
          \/ tcp[c] \in {"DESTROYED", "CLOSED"} \/ srv[c] = "CLOSED"
       THEN "ended"
       ELSE "open"

P == INSTANCE Pipe WITH
       state <- [c \in Conn |-> standing(c)],
       sent  <- [c \in Conn |-> [d \in {"up", "down"} |->
                   IF d = "up" THEN upSent[c] ELSE dnSent[c]]],
       got   <- [c \in Conn |-> [d \in {"up", "down"} |->
                   IF d = "up" THEN upGot[c] ELSE dnGot[c]]]

\* The relay carries both streams as Pipe says: in order and without gaps, and
\* all of it while both sides stay.
CarriesBoth == P!FairSpec

\* bye() (relay.js:39) and the two 'error' handlers leave no half-open pair:
\* when any of the four ends is gone, all of them go.
Over(c) == /\ bws[c] = "CLOSED" /\ ws[c] \in {"NONE", "CLOSED"}
           /\ tcp[c] \in {"NONE", "CLOSED"} /\ srv[c] # "OPEN"

NobodyLeftBehind == \A c \in Conn : standing(c) = "ended" ~> Over(c)
=============================================================================
