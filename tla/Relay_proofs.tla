----------------------------- MODULE Relay_proofs -----------------------------
(***************************************************************************)
(* Proofs about the relay, for every number of connections and every       *)
(* traffic: types, that neither stream ever has a gap, and that the relay  *)
(* implements the connection of Pipe (its safety part).                    *)
(***************************************************************************)
EXTENDS Relay, SequenceTheorems, TLAPS

-----------------------------------------------------------------------------
(* Prefixes and queues. *)

\* A prefix, element by element.
LEMMA PrefixElements ==
  ASSUME NEW S, NEW s \in Seq(S), NEW t \in Seq(S)
  PROVE  IsPrefix(s, t) <=> Len(s) <= Len(t) /\ \A i \in 1 .. Len(s) : s[i] = t[i]
  <1>1. CASE Len(s) <= Len(t)
    <2>1. /\ SubSeq(s, 1, Len(s)) \in Seq(S)
          /\ Len(SubSeq(s, 1, Len(s))) = Len(s)
          /\ \A i \in 1 .. Len(s) : SubSeq(s, 1, Len(s))[i] = s[i]
      OBVIOUS
    <2>2. /\ SubSeq(t, 1, Len(s)) \in Seq(S)
          /\ Len(SubSeq(t, 1, Len(s))) = Len(s)
          /\ \A i \in 1 .. Len(s) : SubSeq(t, 1, Len(s))[i] = t[i]
      BY <1>1
    <2>3. ASSUME \A i \in 1 .. Len(s) : s[i] = t[i]
          PROVE  SubSeq(s, 1, Len(s)) = SubSeq(t, 1, Len(s))
      BY <2>1, <2>2, <2>3, SeqEqual
    <2>4. QED
      BY <1>1, <2>1, <2>2, <2>3 DEF IsPrefix
  <1>2. CASE ~(Len(s) <= Len(t))
    BY <1>2 DEF IsPrefix
  <1>3. QED
    BY <1>1, <1>2

\* What is appended leaves a prefix a prefix.
LEMMA PrefixOfConcat ==
  ASSUME NEW S, NEW s \in Seq(S), NEW t \in Seq(S)
  PROVE  IsPrefix(s, s \o t)
  <1> DEFINE u == s \o t
  <1>1. u \in Seq(S) /\ Len(s) <= Len(u) /\ \A i \in 1 .. Len(s) : s[i] = u[i]
    BY ConcatProperties
  <1> HIDE DEF u
  <1>2. IsPrefix(s, u)
    BY <1>1, PrefixElements
  <1>3. QED
    BY <1>2 DEF u

\* Prefixes of prefixes are prefixes.
LEMMA PrefixTransitive ==
  ASSUME NEW S, NEW s \in Seq(S), NEW t \in Seq(S), NEW u \in Seq(S),
         IsPrefix(s, t), IsPrefix(t, u)
  PROVE  IsPrefix(s, u)
  <1>1. Len(s) <= Len(t) /\ \A i \in 1 .. Len(s) : s[i] = t[i]
    BY PrefixElements
  <1>2. Len(t) <= Len(u) /\ \A i \in 1 .. Len(t) : t[i] = u[i]
    BY PrefixElements
  <1>3. Len(s) <= Len(u) /\ \A i \in 1 .. Len(s) : s[i] = u[i]
    BY <1>1, <1>2
  <1>4. QED
    BY <1>3, PrefixElements

\* The front of a concatenation.
LEMMA PrefixOfFront ==
  ASSUME NEW S, NEW s \in Seq(S), NEW t \in Seq(S), NEW u \in Seq(S),
         IsPrefix(s \o t, u)
  PROVE  IsPrefix(s, u)
  <1>1. s \o t \in Seq(S)
    OBVIOUS
  <1>2. IsPrefix(s, s \o t)
    BY PrefixOfConcat
  <1>3. QED
    BY <1>1, <1>2, PrefixTransitive

\* A longer sequence has the prefix as a strict prefix.
LEMMA StrictPrefixOfConcat ==
  ASSUME NEW S, NEW s \in Seq(S), NEW t \in Seq(S), t # <<>>
  PROVE  IsStrictPrefix(s, s \o t)
  <1>1. IsPrefix(s, s \o t)
    BY PrefixOfConcat
  <1>2. Len(s \o t) # Len(s)
    BY EmptySeq
  <1>3. QED
    BY <1>1, <1>2 DEF IsStrictPrefix

\* A queue is its first n units and the rest.
LEMMA FirstAndRest ==
  ASSUME NEW S, NEW q \in Seq(S), NEW n \in 0 .. Len(q)
  PROVE  /\ First(q, n) \in Seq(S) /\ Rest(q, n) \in Seq(S)
         /\ q = First(q, n) \o Rest(q, n)
         /\ Len(First(q, n)) = n
  <1>1. First(q, n) \in Seq(S) /\ Len(First(q, n)) = n
    BY DEF First
  <1>2. Rest(q, n) \in Seq(S) /\ Len(Rest(q, n)) = Len(q) - n
    BY DEF Rest
  <1>3. \A i \in 1 .. Len(q) : (First(q, n) \o Rest(q, n))[i] = q[i]
    <2>1. /\ \A i \in 1 .. n : First(q, n)[i] = q[i]
          /\ \A i \in 1 .. Len(q) - n : Rest(q, n)[i] = q[n + i]
      BY SMTT(60), ZenonT(60) DEF First, Rest
    <2>2. \A i \in 1 .. Len(q) : (First(q, n) \o Rest(q, n))[i] =
            IF i <= n THEN First(q, n)[i] ELSE Rest(q, n)[i - n]
      BY SMTT(60), <1>1, <1>2, ConcatProperties
    <2>3. \A i \in 1 .. Len(q) : ~(i <= n) => i - n \in 1 .. Len(q) - n /\ n + (i - n) = i
      OBVIOUS
    <2>4. \A i \in 1 .. Len(q) : i <= n => i \in 1 .. n
      OBVIOUS
    <2>5. QED
      BY <2>1, <2>2, <2>3, <2>4
  <1>4. First(q, n) \o Rest(q, n) \in Seq(S)
        /\ Len(First(q, n) \o Rest(q, n)) = Len(q)
    BY <1>1, <1>2
  <1>5. QED
    BY <1>1, <1>2, <1>3, <1>4, SeqEqual

\* A queue is its head and its tail.
LEMMA HeadAndTail ==
  ASSUME NEW S, NEW q \in Seq(S), q # <<>>
  PROVE  /\ Head(q) \in S /\ Tail(q) \in Seq(S) /\ <<Head(q)>> \in Seq(S)
         /\ q = <<Head(q)>> \o Tail(q)
  <1>1. Head(q) \in S /\ Tail(q) \in Seq(S) /\ Len(Tail(q)) = Len(q) - 1
        /\ \A i \in 1 .. Len(Tail(q)) : Tail(q)[i] = q[i + 1]
    BY HeadTailProperties
  <1>2. <<Head(q)>> \in Seq(S) /\ Len(<<Head(q)>>) = 1 /\ <<Head(q)>>[1] = q[1]
    BY <1>1, EmptySeq
  <1>3. <<Head(q)>> \o Tail(q) \in Seq(S)
        /\ Len(<<Head(q)>> \o Tail(q)) = Len(q)
        /\ \A i \in 1 .. Len(q) : (<<Head(q)>> \o Tail(q))[i] = q[i]
    BY <1>1, <1>2, EmptySeq
  <1>4. QED
    BY <1>1, <1>2, <1>3, SeqEqual

-----------------------------------------------------------------------------
(* Concatenation as an operator of its own: expanded, it hides from the      *)
(* provers which sequences are joined.                                       *)

Cat(s, t) == s \o t

LEMMA CatIsSeq ==
  ASSUME NEW s \in Seq(Unit), NEW t \in Seq(Unit)
  PROVE  Cat(s, t) \in Seq(Unit)
  BY DEF Cat

LEMMA CatAssociative ==
  ASSUME NEW s \in Seq(Unit), NEW t \in Seq(Unit), NEW u \in Seq(Unit)
  PROVE  Cat(Cat(s, t), u) = Cat(s, Cat(t, u))
  BY SMTT(60), ConcatAssociative DEF Cat

LEMMA CatPrefix ==
  ASSUME NEW s \in Seq(Unit), NEW t \in Seq(Unit)
  PROVE  IsPrefix(s, Cat(s, t))
  BY PrefixOfConcat DEF Cat

LEMMA CatStrictPrefix ==
  ASSUME NEW s \in Seq(Unit), NEW t \in Seq(Unit), t # <<>>
  PROVE  IsStrictPrefix(s, Cat(s, t))
  BY StrictPrefixOfConcat DEF Cat

LEMMA CatFront ==
  ASSUME NEW s \in Seq(Unit), NEW t \in Seq(Unit), NEW u \in Seq(Unit),
         IsPrefix(Cat(s, t), u)
  PROVE  IsPrefix(s, u)
  BY CatIsSeq, CatPrefix, PrefixTransitive

LEMMA CatFirstRest ==
  ASSUME NEW q \in Seq(Unit), NEW n \in 0 .. Len(q)
  PROVE  /\ First(q, n) \in Seq(Unit) /\ Rest(q, n) \in Seq(Unit)
         /\ q = Cat(First(q, n), Rest(q, n))
         /\ Len(First(q, n)) = n
  BY FirstAndRest DEF Cat

LEMMA CatHeadTail ==
  ASSUME NEW q \in Seq(Unit), q # <<>>
  PROVE  /\ Head(q) \in Unit /\ Tail(q) \in Seq(Unit) /\ <<Head(q)>> \in Seq(Unit)
         /\ q = Cat(<<Head(q)>>, Tail(q))
  BY HeadAndTail DEF Cat

LEMMA CatAppend ==
  ASSUME NEW q \in Seq(Unit), NEW u \in Unit
  PROVE  /\ <<u>> \in Seq(Unit) /\ <<u>> # <<>>
         /\ Append(q, u) = Cat(q, <<u>>)
  <1>1. Append(q, u) = q \o <<u>>
    BY AppendIsConcat
  <1>2. <<u>> \in Seq(Unit) /\ <<u>> # <<>>
    OBVIOUS
  <1>3. QED
    BY <1>1, <1>2 DEF Cat

-----------------------------------------------------------------------------
(* What each action does to one of the streams: g has arrived, q and then r  *)
(* are on their way, s is what was sent.                                     *)

\* What is sent joins the queue behind all that is on its way.
LEMMA SentBehind ==
  ASSUME NEW g \in Seq(Unit), NEW q \in Seq(Unit), NEW r \in Seq(Unit),
         NEW s \in Seq(Unit), NEW us \in Seq(Unit), IsPrefix(Cat(g, q), s)
  PROVE  /\ IsPrefix(Cat(g, q), Cat(s, us))
         /\ s = Cat(Cat(g, q), r) => Cat(s, us) = Cat(Cat(g, q), Cat(r, us))
  <1>1. Cat(g, q) \in Seq(Unit) /\ Cat(s, us) \in Seq(Unit)
    BY CatIsSeq
  <1>2. IsPrefix(s, Cat(s, us))
    BY CatPrefix
  <1>3. IsPrefix(Cat(g, q), Cat(s, us))
    BY <1>1, <1>2, PrefixTransitive
  <1>4. Cat(Cat(Cat(g, q), r), us) = Cat(Cat(g, q), Cat(r, us))
    BY <1>1, CatAssociative
  <1>5. QED
    BY <1>3, <1>4

\* The front a of the outer queue moves to the end of the inner one.
LEMMA MovedIn ==
  ASSUME NEW g \in Seq(Unit), NEW q \in Seq(Unit), NEW a \in Seq(Unit),
         NEW b \in Seq(Unit), NEW s \in Seq(Unit), s = Cat(Cat(g, q), Cat(a, b))
  PROVE  /\ s = Cat(Cat(g, Cat(q, a)), b)
         /\ IsPrefix(Cat(g, Cat(q, a)), s)
  <1>1. Cat(q, a) \in Seq(Unit) /\ Cat(g, q) \in Seq(Unit) /\ Cat(g, Cat(q, a)) \in Seq(Unit)
    BY CatIsSeq
  <1>2. Cat(Cat(g, q), Cat(a, b)) = Cat(Cat(Cat(g, q), a), b)
    BY <1>1, CatAssociative
  <1>3. Cat(Cat(g, q), a) = Cat(g, Cat(q, a))
    BY CatAssociative
  <1>4. IsPrefix(Cat(g, Cat(q, a)), Cat(Cat(g, Cat(q, a)), b))
    BY <1>1, CatPrefix
  <1>5. QED
    BY <1>2, <1>3, <1>4

\* The front a of the inner queue arrives.
LEMMA Arrived ==
  ASSUME NEW g \in Seq(Unit), NEW a \in Seq(Unit), NEW b \in Seq(Unit)
  PROVE  Cat(Cat(g, a), b) = Cat(g, Cat(a, b))
  BY CatAssociative

\* The inner queue is cut short.
LEMMA CutShort ==
  ASSUME NEW g \in Seq(Unit), NEW q \in Seq(Unit), NEW s \in Seq(Unit),
         IsPrefix(Cat(g, q), s), NEW n \in 0 .. Len(q)
  PROVE  IsPrefix(Cat(g, First(q, n)), s)
  <1> DEFINE a == First(q, n)
             b == Rest(q, n)
  <1>1. a \in Seq(Unit) /\ b \in Seq(Unit) /\ q = Cat(a, b)
    BY CatFirstRest
  <1> HIDE DEF a, b
  <1>2. Cat(g, q) = Cat(Cat(g, a), b) /\ Cat(g, a) \in Seq(Unit)
    BY <1>1, CatAssociative, CatIsSeq
  <1>3. IsPrefix(Cat(g, a), s)
    BY <1>1, <1>2, CatFront
  <1>4. QED
    BY <1>3 DEF a

-----------------------------------------------------------------------------
(* The inductive invariant. *)

\* How the four ends of a pair depend on each other.
Linked(c) ==
  /\ bws[c] = "NONE" => ws[c] = "NONE"
  /\ bws[c] = "OPEN" => ws[c] # "NONE"
  /\ ws[c] = "NONE" <=> tcp[c] = "NONE"
  /\ tcp[c] \in {"NONE", "CONNECTING"} => srv[c] = "NONE"
  /\ ws[c] = "CLOSED" => tcp[c] \in {"DESTROYED", "CLOSED"}

\* The two order properties, with concatenation as Cat.
UpCat(c) ==
  /\ IsPrefix(Cat(upGot[c], upPipe[c]), upSent[c])
  /\ Writable(c) \/ tcp[c] = "NONE" =>
       upSent[c] = Cat(Cat(upGot[c], upPipe[c]), upWire[c])

DownCat(c) ==
  /\ IsPrefix(Cat(dnGot[c], dnWire[c]), dnSent[c])
  /\ ws[c] \in {"NONE", "OPEN"} =>
       dnSent[c] = Cat(Cat(dnGot[c], dnWire[c]), dnPipe[c])

LEMMA InOrderIsCat ==
  /\ NothingSkipped <=> \A c \in Conn : UpCat(c) /\ DownCat(c)
  /\ NothingSkipped' <=> \A c \in Conn : UpCat(c)' /\ DownCat(c)'
  BY DEF NothingSkipped, UpInOrder, DownInOrder, UpCat, DownCat, Cat

IInv == /\ RelayTypeOK
        /\ \A c \in Conn : Linked(c)
        /\ NothingSkipped

LEMMA InitIInv == RelayInit => IInv
  <1> SUFFICES ASSUME RelayInit PROVE IInv
    OBVIOUS
  <1>1. RelayTypeOK /\ \A c \in Conn : Linked(c)
    BY DEF RelayInit, RelayTypeOK, Linked
  <1>2. IsPrefix(<<>>, <<>>) /\ <<>> \o <<>> = <<>>
    <2>1. <<>> \in Seq(Unit) /\ <<>> \o <<>> = <<>>
      BY EmptySeq, ConcatEmptySeq
    <2>2. IsPrefix(<<>>, <<>> \o <<>>)
      BY <2>1, PrefixOfConcat
    <2>3. QED
      BY <2>1, <2>2
  <1>3. NothingSkipped
    BY <1>2 DEF RelayInit, NothingSkipped, UpInOrder, DownInOrder
  <1>4. QED
    BY <1>1, <1>3 DEF IInv

\* A step that only moves the ends, and makes no TCP socket writable and no
\* WebSocket open that was gone, keeps both streams.
LEMMA EndsMove ==
  ASSUME NothingSkipped, UNCHANGED <<up, down>>,
         \A d \in Conn : /\ tcp'[d] \in {"NONE", "CONNECTING", "OPEN"} =>
                              tcp[d] \in {"NONE", "CONNECTING", "OPEN"}
                         /\ ws'[d] \in {"NONE", "OPEN"} => ws[d] \in {"NONE", "OPEN"}
  PROVE  NothingSkipped'
  BY DEF NothingSkipped, UpInOrder, DownInOrder, Writable, up, down

LEMMA StepEnds ==
  ASSUME IInv, NEW c \in Conn,
         \/ Connection(c) \/ TcpClosed(c) \/ TcpConnected(c) \/ TcpEnd(c)
         \/ Connect(c) \/ BrowserGone(c) \/ BrowserClosed(c)
         \/ ServerClose(c) \/ ServerSeesEnd(c)
  PROVE  IInv'
  <1> USE DEF IInv, ServerSeesEnd, BrowserClosed
  <1>1. RelayTypeOK'
    BY ZenonT(60) DEF RelayTypeOK, Connection, TcpClosed, TcpConnected, TcpEnd, Connect,
           BrowserGone, ServerClose, WsClose, up, down
  <1>2. \A d \in Conn : Linked(d)'
    BY SMTT(120) DEF RelayTypeOK, Linked, Connection, TcpClosed, TcpConnected, TcpEnd, Connect,
           BrowserGone, ServerClose, WsClose
  <1>3. UNCHANGED <<up, down>>
    BY ZenonT(60), SMTT(60) DEF Connection, TcpClosed, TcpConnected, TcpEnd, Connect, BrowserGone,
           ServerClose
  <1>4. \A d \in Conn : /\ tcp'[d] \in {"NONE", "CONNECTING", "OPEN"} =>
                             tcp[d] \in {"NONE", "CONNECTING", "OPEN"}
                        /\ ws'[d] \in {"NONE", "OPEN"} => ws[d] \in {"NONE", "OPEN"}
    BY SMTT(120), ZenonT(120)
       DEF RelayTypeOK, Linked, Connection, TcpClosed, TcpConnected, TcpEnd, Connect,
           BrowserGone, ServerClose, WsClose
  <1>5. QED
    BY <1>1, <1>2, <1>3, <1>4, EndsMove

\* A stream whose queues and ends stay as they are stays in order.
LEMMA UpStays ==
  ASSUME NEW d \in Conn, UpCat(d), upSent'[d] = upSent[d], upGot'[d] = upGot[d],
         upPipe'[d] = upPipe[d], upWire'[d] = upWire[d],
         tcp'[d] \in {"NONE", "CONNECTING", "OPEN"} =>
           tcp[d] \in {"NONE", "CONNECTING", "OPEN"}
  PROVE  UpCat(d)'
  BY ZenonT(60), SMTT(60) DEF UpCat, Writable

LEMMA DownStays ==
  ASSUME NEW d \in Conn, DownCat(d), dnSent'[d] = dnSent[d], dnGot'[d] = dnGot[d],
         dnPipe'[d] = dnPipe[d], dnWire'[d] = dnWire[d],
         ws'[d] \in {"NONE", "OPEN"} => ws[d] \in {"NONE", "OPEN"}
  PROVE  DownCat(d)'
  BY DEF DownCat

\* The browser sends; a frame to a WebSocket that is gone is lost.
LEMMA StepBrowserSends ==
  ASSUME IInv, NEW c \in Conn, NEW u \in Unit, BrowserOpen(c, u) \/ BrowserSend(c, u)
  PROVE  IInv'
  <1> DEFINE us == <<u>>
  <1>1. /\ us \in Seq(Unit)
        /\ upSent' = [upSent EXCEPT ![c] = Cat(upSent[c], us)]
        /\ upWire' = [upWire EXCEPT ![c] =
                        IF ws[c] = "CLOSED" THEN upWire[c] ELSE Cat(upWire[c], us)]
        /\ upGot' = upGot /\ upPipe' = upPipe /\ down' = down
        /\ ws' = ws /\ tcp' = tcp /\ srv' = srv /\ ws[c] # "NONE"
        /\ bws' = bws \/ bws' = [bws EXCEPT ![c] = "OPEN"]
    <2>1. upSent[c] \in Seq(Unit) /\ upWire[c] \in Seq(Unit) /\ Linked(c)
      BY DEF IInv, RelayTypeOK
    <2>2. /\ us \in Seq(Unit)
          /\ Append(upSent[c], u) = Cat(upSent[c], us)
          /\ Append(upWire[c], u) = Cat(upWire[c], us)
      BY <2>1, CatAppend
    <2> HIDE DEF us
    <2>3. /\ upSent' = [upSent EXCEPT ![c] = Append(upSent[c], u)]
          /\ upWire' = [upWire EXCEPT ![c] =
                          IF ws[c] = "CLOSED" THEN upWire[c] ELSE Append(upWire[c], u)]
      BY DEF BrowserOpen, BrowserSend
    <2>4. /\ upGot' = upGot /\ upPipe' = upPipe /\ down' = down
          /\ ws' = ws /\ tcp' = tcp /\ srv' = srv
          /\ bws' = bws \/ bws' = [bws EXCEPT ![c] = "OPEN"]
      BY DEF BrowserOpen, BrowserSend, ends, down
    <2>5. ws[c] # "NONE"
      BY <2>1 DEF BrowserOpen, BrowserSend, Linked
    <2>6. QED
      BY <2>2, <2>3, <2>4, <2>5
  <1> HIDE DEF us
  <1>2. Cat(upSent[c], us) \in Seq(Unit) /\ Cat(upWire[c], us) \in Seq(Unit)
    BY <1>1, CatIsSeq DEF IInv, RelayTypeOK
  <1>3. RelayTypeOK'
    BY <1>1, <1>2 DEF IInv, RelayTypeOK, down
  <1>4. \A d \in Conn : Linked(d)'
    BY ZenonT(60), SMTT(60), <1>1 DEF IInv, RelayTypeOK, Linked
  <1>5. ASSUME NEW d \in Conn PROVE UpCat(d)'
    <2>1. UpCat(d) /\ Linked(d)
      BY InOrderIsCat DEF IInv
    <2>2. CASE d # c
      BY <1>1, <2>1, <2>2, UpStays DEF IInv, RelayTypeOK
    <2>3. CASE d = c
      <3>1. /\ upGot[c] \in Seq(Unit) /\ upPipe[c] \in Seq(Unit)
            /\ upWire[c] \in Seq(Unit) /\ upSent[c] \in Seq(Unit)
        BY DEF IInv, RelayTypeOK
      <3>2. /\ IsPrefix(Cat(upGot[c], upPipe[c]), Cat(upSent[c], us))
            /\ upSent[c] = Cat(Cat(upGot[c], upPipe[c]), upWire[c]) =>
                 Cat(upSent[c], us) = Cat(Cat(upGot[c], upPipe[c]), Cat(upWire[c], us))
        BY SMTT(60), <1>1, <2>1, <2>3, <3>1, SentBehind DEF UpCat
      <3>3. /\ upSent'[c] = Cat(upSent[c], us)
            /\ upWire'[c] = IF ws[c] = "CLOSED" THEN upWire[c] ELSE Cat(upWire[c], us)
        BY <1>1 DEF IInv, RelayTypeOK
      <3>4. QED
        BY <1>1, <2>1, <2>3, <3>2, <3>3 DEF UpCat, Writable, Linked
    <2>4. QED
      BY <2>2, <2>3
  <1>6. ASSUME NEW d \in Conn PROVE DownCat(d)'
    <2>1. DownCat(d)
      BY InOrderIsCat DEF IInv
    <2>2. QED
      BY <1>1, <2>1, DownStays DEF down
  <1>7. QED
    BY <1>3, <1>4, <1>5, <1>6, InOrderIsCat DEF IInv

\* ws 'message'.
LEMMA StepWsMessage ==
  ASSUME IInv, NEW c \in Conn, WsMessage(c)
  PROVE  IInv'
  <1> DEFINE h == <<Head(upWire[c])>>
             b == Tail(upWire[c])
  <1>1. /\ h \in Seq(Unit) /\ b \in Seq(Unit) /\ upWire[c] = Cat(h, b)
        /\ Append(upPipe[c], Head(upWire[c])) = Cat(upPipe[c], h)
    <2>1. upWire[c] \in Seq(Unit) /\ upWire[c] # <<>> /\ upPipe[c] \in Seq(Unit)
      BY DEF IInv, RelayTypeOK, WsMessage
    <2>2. Head(upWire[c]) \in Unit
      BY <2>1, CatHeadTail
    <2>3. QED
      BY ZenonT(60), SMTT(60), <2>1, <2>2, CatHeadTail, CatAppend
  <1>2. /\ upWire' = [upWire EXCEPT ![c] = b]
        /\ upPipe' = IF Writable(c) THEN [upPipe EXCEPT ![c] = Cat(upPipe[c], h)]
                     ELSE upPipe
        /\ upSent' = upSent /\ upGot' = upGot /\ UNCHANGED ends /\ UNCHANGED down
        /\ ws[c] \in {"OPEN", "CLOSING"}
    BY <1>1 DEF WsMessage
  <1> HIDE DEF h, b
  <1>3. Cat(upPipe[c], h) \in Seq(Unit)
    BY <1>1, CatIsSeq DEF IInv, RelayTypeOK
  <1>4. RelayTypeOK'
    BY <1>1, <1>2, <1>3 DEF IInv, RelayTypeOK, ends, down
  <1>5. \A d \in Conn : Linked(d)'
    BY <1>2 DEF IInv, Linked, ends
  <1>6. ASSUME NEW d \in Conn PROVE UpCat(d)'
    <2>1. UpCat(d) /\ Linked(d)
      BY InOrderIsCat DEF IInv
    <2>2. CASE d # c
      BY <1>2, <2>1, <2>2, UpStays DEF IInv, RelayTypeOK, ends
    <2>3. CASE d = c
      <3>1. upGot[c] \in Seq(Unit) /\ upPipe[c] \in Seq(Unit) /\ upSent[c] \in Seq(Unit)
        BY DEF IInv, RelayTypeOK
      <3>2. /\ upSent'[c] = upSent[c] /\ upGot'[c] = upGot[c] /\ tcp'[c] = tcp[c]
            /\ upWire'[c] = b
            /\ upPipe'[c] = IF Writable(c) THEN Cat(upPipe[c], h) ELSE upPipe[c]
        BY <1>2 DEF IInv, RelayTypeOK, ends
      <3>3. CASE Writable(c)
        <4>1. upSent[c] = Cat(Cat(upGot[c], upPipe[c]), Cat(h, b))
          BY <1>1, <2>1, <2>3, <3>3 DEF UpCat
        <4>2. /\ upSent[c] = Cat(Cat(upGot[c], Cat(upPipe[c], h)), b)
              /\ IsPrefix(Cat(upGot[c], Cat(upPipe[c], h)), upSent[c])
          BY <1>1, <3>1, <4>1, MovedIn
        <4>3. QED
          BY <2>3, <3>2, <3>3, <4>2 DEF UpCat
      <3>4. CASE ~Writable(c)
        BY <1>2, <2>1, <2>3, <3>2, <3>4 DEF UpCat, Writable, Linked
      <3>5. QED
        BY <3>3, <3>4
    <2>4. QED
      BY <2>2, <2>3
  <1>7. ASSUME NEW d \in Conn PROVE DownCat(d)'
    BY <1>2, DownStays, InOrderIsCat DEF IInv, down, ends
  <1>8. QED
    BY <1>4, <1>5, <1>6, <1>7, InOrderIsCat DEF IInv

\* Written bytes reach the server.
LEMMA StepUpArrives ==
  ASSUME IInv, NEW c \in Conn, UpArrives(c)
  PROVE  IInv'
  <1> DEFINE h == <<Head(upPipe[c])>>
             b == Tail(upPipe[c])
  <1>1. /\ h \in Seq(Unit) /\ b \in Seq(Unit) /\ upPipe[c] = Cat(h, b)
        /\ Append(upGot[c], Head(upPipe[c])) = Cat(upGot[c], h)
    <2>1. upPipe[c] \in Seq(Unit) /\ upPipe[c] # <<>> /\ upGot[c] \in Seq(Unit)
      BY DEF IInv, RelayTypeOK, UpArrives
    <2>2. Head(upPipe[c]) \in Unit
      BY <2>1, CatHeadTail
    <2>3. QED
      BY SMTT(60), ZenonT(60), <2>1, <2>2, CatHeadTail, CatAppend
  <1>2. /\ upPipe' = [upPipe EXCEPT ![c] = b]
        /\ upGot' = [upGot EXCEPT ![c] = Cat(upGot[c], h)]
        /\ upSent' = upSent /\ upWire' = upWire /\ UNCHANGED ends /\ UNCHANGED down
    BY <1>1 DEF UpArrives
  <1> HIDE DEF h, b
  <1>3. Cat(upGot[c], h) \in Seq(Unit)
    BY <1>1, CatIsSeq DEF IInv, RelayTypeOK
  <1>4. RelayTypeOK'
    BY <1>1, <1>2, <1>3 DEF IInv, RelayTypeOK, ends, down
  <1>5. \A d \in Conn : Linked(d)'
    BY <1>2 DEF IInv, Linked, ends
  <1>6. ASSUME NEW d \in Conn PROVE UpCat(d)'
    <2>1. UpCat(d)
      BY InOrderIsCat DEF IInv
    <2>2. CASE d # c
      BY <1>2, <2>1, <2>2, UpStays DEF IInv, RelayTypeOK, ends
    <2>3. CASE d = c
      <3>1. upGot[c] \in Seq(Unit)
        BY DEF IInv, RelayTypeOK
      <3>2. Cat(Cat(upGot[c], h), b) = Cat(upGot[c], upPipe[c])
        BY <1>1, <3>1, Arrived
      <3>3. /\ upSent'[c] = upSent[c] /\ upWire'[c] = upWire[c] /\ tcp'[c] = tcp[c]
            /\ upPipe'[c] = b /\ upGot'[c] = Cat(upGot[c], h)
        BY <1>2 DEF IInv, RelayTypeOK, ends
      <3>4. QED
        BY <2>1, <2>3, <3>2, <3>3 DEF UpCat, Writable
    <2>4. QED
      BY <2>2, <2>3
  <1>7. ASSUME NEW d \in Conn PROVE DownCat(d)'
    BY <1>2, DownStays, InOrderIsCat DEF IInv, down, ends
  <1>8. QED
    BY <1>4, <1>5, <1>6, <1>7, InOrderIsCat DEF IInv

\* The server sends.
LEMMA StepServerSend ==
  ASSUME IInv, NEW c \in Conn, NEW us \in Seq(Unit), ServerSend(c, us)
  PROVE  IInv'
  <1>1. /\ dnSent' = [dnSent EXCEPT ![c] = Cat(dnSent[c], us)]
        /\ dnPipe' = [dnPipe EXCEPT ![c] = Cat(dnPipe[c], us)]
        /\ dnWire' = dnWire /\ dnGot' = dnGot /\ UNCHANGED ends /\ UNCHANGED up
    BY DEF ServerSend, Cat
  <1>2. Cat(dnSent[c], us) \in Seq(Unit) /\ Cat(dnPipe[c], us) \in Seq(Unit)
    BY CatIsSeq DEF IInv, RelayTypeOK
  <1>3. RelayTypeOK'
    BY SMTT(60), ZenonT(60), <1>1, <1>2 DEF IInv, RelayTypeOK, ends, up
  <1>4. \A d \in Conn : Linked(d)'
    BY <1>1 DEF IInv, Linked, ends
  <1>5. ASSUME NEW d \in Conn PROVE DownCat(d)'
    <2>1. DownCat(d)
      BY InOrderIsCat DEF IInv
    <2>2. CASE d # c
      BY <1>1, <2>1, <2>2, DownStays DEF IInv, RelayTypeOK, ends
    <2>3. CASE d = c
      <3>1. /\ dnGot[c] \in Seq(Unit) /\ dnWire[c] \in Seq(Unit)
            /\ dnPipe[c] \in Seq(Unit) /\ dnSent[c] \in Seq(Unit)
        BY DEF IInv, RelayTypeOK
      <3>2. /\ IsPrefix(Cat(dnGot[c], dnWire[c]), Cat(dnSent[c], us))
            /\ dnSent[c] = Cat(Cat(dnGot[c], dnWire[c]), dnPipe[c]) =>
                 Cat(dnSent[c], us) = Cat(Cat(dnGot[c], dnWire[c]), Cat(dnPipe[c], us))
        BY <2>1, <2>3, <3>1, SentBehind DEF DownCat
      <3>3. /\ dnSent'[c] = Cat(dnSent[c], us) /\ dnPipe'[c] = Cat(dnPipe[c], us)
            /\ dnWire'[c] = dnWire[c] /\ dnGot'[c] = dnGot[c] /\ ws'[c] = ws[c]
        BY <1>1 DEF IInv, RelayTypeOK, ends
      <3>4. QED
        BY <2>1, <2>3, <3>2, <3>3 DEF DownCat
    <2>4. QED
      BY <2>2, <2>3
  <1>6. ASSUME NEW d \in Conn PROVE UpCat(d)'
    BY <1>1, UpStays, InOrderIsCat DEF IInv, up, ends
  <1>7. QED
    BY <1>3, <1>4, <1>5, <1>6, InOrderIsCat DEF IInv

\* tcp 'data'.
LEMMA StepTcpData ==
  ASSUME IInv, NEW c \in Conn, TcpData(c)
  PROVE  IInv'
  <1>1. PICK n \in 1 .. Len(dnPipe[c]) :
          /\ dnPipe' = [dnPipe EXCEPT ![c] = Rest(dnPipe[c], n)]
          /\ dnWire' = IF ws[c] = "OPEN"
                       THEN [dnWire EXCEPT ![c] = Cat(dnWire[c], First(dnPipe[c], n))]
                       ELSE dnWire
    BY DEF TcpData, Cat
  <1> DEFINE a == First(dnPipe[c], n)
             b == Rest(dnPipe[c], n)
  <1>2. a \in Seq(Unit) /\ b \in Seq(Unit) /\ dnPipe[c] = Cat(a, b)
    BY CatFirstRest DEF IInv, RelayTypeOK
  <1>3. /\ dnPipe' = [dnPipe EXCEPT ![c] = b]
        /\ dnWire' = IF ws[c] = "OPEN" THEN [dnWire EXCEPT ![c] = Cat(dnWire[c], a)]
                     ELSE dnWire
        /\ dnSent' = dnSent /\ dnGot' = dnGot /\ UNCHANGED ends /\ UNCHANGED up
        /\ tcp[c] = "OPEN"
    BY <1>1 DEF TcpData
  <1> HIDE DEF a, b
  <1>4. Cat(dnWire[c], a) \in Seq(Unit)
    BY <1>2, CatIsSeq DEF IInv, RelayTypeOK
  <1>5. RelayTypeOK'
    BY ZenonT(60), SMTT(60), <1>2, <1>3, <1>4 DEF IInv, RelayTypeOK, ends, up
  <1>6. \A d \in Conn : Linked(d)'
    BY <1>3 DEF IInv, Linked, ends
  <1>7. ASSUME NEW d \in Conn PROVE DownCat(d)'
    <2>1. DownCat(d) /\ Linked(d)
      BY InOrderIsCat DEF IInv
    <2>2. CASE d # c
      BY <1>3, <2>1, <2>2, DownStays DEF IInv, RelayTypeOK, ends
    <2>3. CASE d = c
      <3>1. dnGot[c] \in Seq(Unit) /\ dnWire[c] \in Seq(Unit) /\ dnSent[c] \in Seq(Unit)
        BY DEF IInv, RelayTypeOK
      <3>2. /\ dnSent'[c] = dnSent[c] /\ dnGot'[c] = dnGot[c] /\ ws'[c] = ws[c]
            /\ dnPipe'[c] = b
            /\ dnWire'[c] = IF ws[c] = "OPEN" THEN Cat(dnWire[c], a) ELSE dnWire[c]
        BY <1>3 DEF IInv, RelayTypeOK, ends
      <3>3. CASE ws[c] = "OPEN"
        <4>1. dnSent[c] = Cat(Cat(dnGot[c], dnWire[c]), Cat(a, b))
          BY <1>2, <2>1, <2>3, <3>3 DEF DownCat
        <4>2. /\ dnSent[c] = Cat(Cat(dnGot[c], Cat(dnWire[c], a)), b)
              /\ IsPrefix(Cat(dnGot[c], Cat(dnWire[c], a)), dnSent[c])
          BY <1>2, <3>1, <4>1, MovedIn
        <4>3. QED
          BY <2>3, <3>2, <3>3, <4>2 DEF DownCat
      <3>4. CASE ws[c] # "OPEN"
        BY <1>3, <2>1, <2>3, <3>2, <3>4 DEF DownCat, Linked
      <3>5. QED
        BY <3>3, <3>4
    <2>4. QED
      BY <2>2, <2>3
  <1>8. ASSUME NEW d \in Conn PROVE UpCat(d)'
    BY <1>3, UpStays, InOrderIsCat DEF IInv, up, ends
  <1>9. QED
    BY <1>5, <1>6, <1>7, <1>8, InOrderIsCat DEF IInv

\* A frame reaches the page.
LEMMA StepBrowserMessage ==
  ASSUME IInv, NEW c \in Conn, NEW n \in Nat, BrowserMessage(c, n)
  PROVE  IInv'
  <1> DEFINE a == First(dnWire[c], n)
             b == Rest(dnWire[c], n)
  <1>1. a \in Seq(Unit) /\ b \in Seq(Unit) /\ dnWire[c] = Cat(a, b)
    BY CatFirstRest DEF IInv, RelayTypeOK, BrowserMessage
  <1>2. /\ dnWire' = [dnWire EXCEPT ![c] = b]
        /\ dnGot' = [dnGot EXCEPT ![c] = Cat(dnGot[c], a)]
        /\ dnSent' = dnSent /\ dnPipe' = dnPipe /\ UNCHANGED ends /\ UNCHANGED up
    BY DEF BrowserMessage, Cat
  <1> HIDE DEF a, b
  <1>3. Cat(dnGot[c], a) \in Seq(Unit)
    BY <1>1, CatIsSeq DEF IInv, RelayTypeOK
  <1>4. RelayTypeOK'
    BY ZenonT(60), SMTT(60), <1>1, <1>2, <1>3 DEF IInv, RelayTypeOK, ends, up
  <1>5. \A d \in Conn : Linked(d)'
    BY <1>2 DEF IInv, Linked, ends
  <1>6. ASSUME NEW d \in Conn PROVE DownCat(d)'
    <2>1. DownCat(d)
      BY InOrderIsCat DEF IInv
    <2>2. CASE d # c
      BY <1>2, <2>1, <2>2, DownStays DEF IInv, RelayTypeOK, ends
    <2>3. CASE d = c
      <3>1. dnGot[c] \in Seq(Unit)
        BY DEF IInv, RelayTypeOK
      <3>2. Cat(Cat(dnGot[c], a), b) = Cat(dnGot[c], dnWire[c])
        BY <1>1, <3>1, Arrived
      <3>3. /\ dnSent'[c] = dnSent[c] /\ dnPipe'[c] = dnPipe[c] /\ ws'[c] = ws[c]
            /\ dnWire'[c] = b /\ dnGot'[c] = Cat(dnGot[c], a)
        BY <1>2 DEF IInv, RelayTypeOK, ends
      <3>4. QED
        BY <2>1, <2>3, <3>2, <3>3 DEF DownCat
    <2>4. QED
      BY <2>2, <2>3
  <1>7. ASSUME NEW d \in Conn PROVE UpCat(d)'
    BY <1>2, UpStays, InOrderIsCat DEF IInv, up, ends
  <1>8. QED
    BY <1>4, <1>5, <1>6, <1>7, InOrderIsCat DEF IInv

\* The TCP socket goes: what it had not yet passed on is cut short, and from
\* now on neither stream is passed on.
LEMMA StepTcpGoes ==
  ASSUME IInv, NEW c \in Conn, NEW n \in 0 .. Len(upPipe[c]),
         upPipe' = [upPipe EXCEPT ![c] = First(upPipe[c], n)],
         dnPipe' = [dnPipe EXCEPT ![c] = <<>>],
         upWire' \in [Conn -> Seq(Unit)],
         \A d \in Conn \ {c} : upWire'[d] = upWire[d],
         UNCHANGED <<bws, srv, upSent, upGot, dnSent, dnWire, dnGot>>,
         NEW w \in {"CLOSING", "CLOSED"}, ws' = [ws EXCEPT ![c] = w],
         NEW t \in {"DESTROYED", "CLOSED"}, tcp' = [tcp EXCEPT ![c] = t],
         ws[c] # "NONE"
  PROVE  IInv'
  <1>1. First(upPipe[c], n) \in Seq(Unit)
    BY CatFirstRest DEF IInv, RelayTypeOK
  <1>2. RelayTypeOK'
    BY SMTT(60), ZenonT(60), <1>1 DEF IInv, RelayTypeOK
  <1>3. \A d \in Conn : Linked(d)'
    BY ZenonT(60) DEF IInv, RelayTypeOK, Linked
  <1>4. ASSUME NEW d \in Conn PROVE UpCat(d)'
    <2>1. UpCat(d)
      BY InOrderIsCat DEF IInv
    <2>2. CASE d # c
      BY <2>1, <2>2, UpStays DEF IInv, RelayTypeOK
    <2>3. CASE d = c
      <3>1. IsPrefix(Cat(upGot[c], First(upPipe[c], n)), upSent[c])
        BY <2>1, <2>3, CutShort DEF UpCat, IInv, RelayTypeOK
      <3>2. QED
        BY <2>3, <3>1 DEF UpCat, Writable, IInv, RelayTypeOK
    <2>4. QED
      BY <2>2, <2>3
  <1>5. ASSUME NEW d \in Conn PROVE DownCat(d)'
    <2>1. DownCat(d)
      BY InOrderIsCat DEF IInv
    <2>2. QED
      BY <2>1 DEF DownCat, IInv, RelayTypeOK
  <1>6. QED
    BY <1>2, <1>3, <1>4, <1>5, InOrderIsCat DEF IInv

\* tcp 'error'.
LEMMA StepTcpError ==
  ASSUME IInv, NEW c \in Conn, TcpError(c)
  PROVE  IInv'
  <1> DEFINE w == IF ws[c] = "OPEN" THEN "CLOSING" ELSE ws[c]
  <1>1. ws[c] # "NONE" /\ w \in {"CLOSING", "CLOSED"} /\ ws' = [ws EXCEPT ![c] = w]
    BY DEF IInv, RelayTypeOK, Linked, TcpError, WsClose, Writable
  <1>2. upPipe[c] \in Seq(Unit) /\ 0 \in 0 .. Len(upPipe[c])
    BY DEF IInv, RelayTypeOK
  <1>3. First(upPipe[c], 0) = <<>>
    BY <1>2, SubSeqEmpty DEF First
  <1> HIDE DEF w
  <1>4. QED
    BY <1>1, <1>2, <1>3, StepTcpGoes DEF TcpError, IInv, RelayTypeOK

\* ws 'close'.
LEMMA StepWsGone ==
  ASSUME IInv, NEW c \in Conn, WsGone(c)
  PROVE  IInv'
  <1>1. PICK n \in 0 .. Len(upPipe[c]) :
          upPipe' = [upPipe EXCEPT ![c] = First(upPipe[c], n)]
    BY DEF WsGone, TcpDestroy
  <1> DEFINE t == IF Writable(c) THEN "DESTROYED" ELSE tcp[c]
  <1>2. t \in {"DESTROYED", "CLOSED"} /\ tcp' = [tcp EXCEPT ![c] = t]
    BY DEF IInv, RelayTypeOK, Linked, WsGone, TcpDestroy, Writable
  <1>3. /\ upWire' = [upWire EXCEPT ![c] = <<>>]
        /\ upWire' \in [Conn -> Seq(Unit)]
        /\ \A d \in Conn \ {c} : upWire'[d] = upWire[d]
    BY DEF WsGone, IInv, RelayTypeOK
  <1> HIDE DEF t
  <1>4. QED
    BY <1>1, <1>2, <1>3, StepTcpGoes DEF WsGone, TcpDestroy

-----------------------------------------------------------------------------
(* The invariants of the relay. *)

LEMMA NextIInv == IInv /\ [RelayNext]_relayVars => IInv'
  <1> SUFFICES ASSUME IInv, [RelayNext]_relayVars PROVE IInv'
    OBVIOUS
  <1>1. CASE UNCHANGED relayVars
    BY <1>1 DEF relayVars, IInv, RelayTypeOK, Linked, NothingSkipped, UpInOrder,
                DownInOrder, Writable
  <1>2. CASE RelayNext
    <2>1. PICK c \in Conn : RelayStep(c) \/ EndsStep(c)
      BY <1>2 DEF RelayNext
    <2>2. CASE RelayStep(c)
      BY <2>2, StepEnds, StepWsMessage, StepTcpData, StepTcpError, StepWsGone, StepUpArrives
         DEF RelayStep, WsClosed, WsCloseTimeout, WsBreaks
    <2>3. CASE EndsStep(c)
      BY <2>3, StepEnds, StepBrowserSends, StepServerSend, StepBrowserMessage DEF EndsStep
    <2>4. QED
      BY <2>1, <2>2, <2>3
  <1>3. QED
    BY <1>1, <1>2

\* The inductive invariant holds in every run of the relay.
THEOREM RelayInvariant == RelaySpec => []IInv
  BY InitIInv, NextIInv, PTL DEF RelaySpec

\* Types, for every number of connections and every traffic.
THEOREM RelayTypes == RelaySpec => []RelayTypeOK
  <1>1. IInv => RelayTypeOK
    BY DEF IInv
  <1>2. QED
    BY <1>1, RelayInvariant, PTL

\* Neither stream of any connection ever has a gap, however the four sockets
\* open, fill and close (relay.js:27-41).
THEOREM RelayInOrder == RelaySpec => []NothingSkipped
  <1>1. IInv => NothingSkipped
    BY DEF IInv
  <1>2. QED
    BY <1>1, RelayInvariant, PTL

-----------------------------------------------------------------------------
(* The relay implements Pipe. *)

LEMMA PipePrefix ==
  /\ \A s, t : P!IsPrefix(s, t) <=> IsPrefix(s, t)
  /\ \A s, t : P!IsStrictPrefix(s, t) <=> IsStrictPrefix(s, t)
  BY DEF P!IsPrefix, IsPrefix, P!IsStrictPrefix, IsStrictPrefix

LEMMA PipeDirs == "up" \in P!Dir /\ "down" \in P!Dir
  BY DEF P!Dir

\* A step that moves only the ends of one connection opens it, ends it or does
\* nothing that Pipe sees; no connection comes back.
LEMMA MapsToStanding ==
  ASSUME NEW c \in Conn, UNCHANGED <<upSent, upGot, dnSent, dnGot>>,
         \A d \in Conn \ {c} : standing(d)' = standing(d),
         \/ standing(c)' = standing(c)
         \/ standing(c) = "idle" /\ standing(c)' = "open"
         \/ standing(c) = "open" /\ standing(c)' = "ended"
  PROVE  [P!Next]_(P!vars)
  <1> DEFINE s == [x \in Conn |-> standing(x)]
             t == [x \in Conn |-> standing(x)']
  <1>1. t = [s EXCEPT ![c] = standing(c)']
    OBVIOUS
  <1>2. CASE standing(c)' = standing(c)
    <2>1. t = s
      BY <1>2
    <2>2. UNCHANGED P!vars
      BY <2>1 DEF P!vars
    <2>3. QED
      BY <2>2
  <1>3. CASE standing(c) = "idle" /\ standing(c)' = "open"
    <2>1. P!Open(c)
      BY <1>1, <1>3 DEF P!Open
    <2>2. QED
      BY <2>1 DEF P!Next
  <1>4. CASE standing(c) = "open" /\ standing(c)' = "ended"
    <2>1. P!End(c)
      BY <1>1, <1>4 DEF P!End
    <2>2. QED
      BY <2>1 DEF P!Next
  <1>5. QED
    BY <1>2, <1>3, <1>4

\* A step that adds to what one side has sent is a Send.
LEMMA MapsToSend ==
  ASSUME NEW c \in Conn, NEW us \in Seq(Unit), us # <<>>,
         upSent[c] \in Seq(Unit), dnSent[c] \in Seq(Unit),
         upSent \in [Conn -> Seq(Unit)], dnSent \in [Conn -> Seq(Unit)],
         \/ /\ upSent' = [upSent EXCEPT ![c] = Cat(upSent[c], us)]
            /\ dnSent' = dnSent
         \/ /\ dnSent' = [dnSent EXCEPT ![c] = Cat(dnSent[c], us)]
            /\ upSent' = upSent,
         UNCHANGED <<upGot, dnGot>>, standing(c) # "idle",
         \A d \in Conn : standing(d)' = standing(d)
  PROVE  [P!Next]_(P!vars)
  <1>1. IsStrictPrefix(upSent[c], Cat(upSent[c], us))
        /\ IsStrictPrefix(dnSent[c], Cat(dnSent[c], us))
    BY CatStrictPrefix
  <1>2. CASE /\ upSent' = [upSent EXCEPT ![c] = Cat(upSent[c], us)]
             /\ dnSent' = dnSent
    <2>1. P!Send(c, "up")
      BY ZenonT(120), <1>1, <1>2, PipePrefix DEF P!Send
    <2>2. QED
      BY <2>1, PipeDirs DEF P!Next
  <1>3. CASE /\ dnSent' = [dnSent EXCEPT ![c] = Cat(dnSent[c], us)]
             /\ upSent' = upSent
    <2>1. P!Send(c, "down")
      BY <1>1, <1>3, PipePrefix, ZenonT(60) DEF P!Send
    <2>2. QED
      BY <2>1, PipeDirs DEF P!Next
  <1>4. QED
    BY <1>2, <1>3

\* A step that adds to what has arrived, and stays in order, is a Receive.
LEMMA MapsToReceive ==
  ASSUME NEW c \in Conn, NEW us \in Seq(Unit), us # <<>>,
         upGot \in [Conn -> Seq(Unit)], dnGot \in [Conn -> Seq(Unit)],
         \/ /\ upGot' = [upGot EXCEPT ![c] = Cat(upGot[c], us)]
            /\ dnGot' = dnGot
            /\ IsPrefix(upGot'[c], upSent[c])
         \/ /\ dnGot' = [dnGot EXCEPT ![c] = Cat(dnGot[c], us)]
            /\ upGot' = upGot
            /\ IsPrefix(dnGot'[c], dnSent[c]),
         UNCHANGED <<upSent, dnSent>>, standing(c) # "idle",
         \A d \in Conn : standing(d)' = standing(d)
  PROVE  [P!Next]_(P!vars)
  <1>1. IsStrictPrefix(upGot[c], Cat(upGot[c], us))
        /\ IsStrictPrefix(dnGot[c], Cat(dnGot[c], us))
    BY CatStrictPrefix
  <1>2. CASE /\ upGot' = [upGot EXCEPT ![c] = Cat(upGot[c], us)]
             /\ dnGot' = dnGot
             /\ IsPrefix(upGot'[c], upSent[c])
    <2>1. P!Receive(c, "up")
      BY ZenonT(120), <1>1, <1>2, PipePrefix DEF P!Receive
    <2>2. QED
      BY <2>1, PipeDirs DEF P!Next
  <1>3. CASE /\ dnGot' = [dnGot EXCEPT ![c] = Cat(dnGot[c], us)]
             /\ upGot' = upGot
             /\ IsPrefix(dnGot'[c], dnSent[c])
    <2>1. P!Receive(c, "down")
      BY <1>1, <1>3, PipePrefix, ZenonT(60) DEF P!Receive
    <2>2. QED
      BY ZenonT(60), SMTT(60), <2>1, PipeDirs DEF P!Next
  <1>4. QED
    BY <1>2, <1>3

\* What has arrived is a prefix of what was sent.
LEMMA GotIsPrefix ==
  ASSUME IInv', NEW c \in Conn
  PROVE  IsPrefix(upGot'[c], upSent'[c]) /\ IsPrefix(dnGot'[c], dnSent'[c])
  <1>1. /\ upGot'[c] \in Seq(Unit) /\ upPipe'[c] \in Seq(Unit)
        /\ upSent'[c] \in Seq(Unit) /\ dnGot'[c] \in Seq(Unit)
        /\ dnWire'[c] \in Seq(Unit) /\ dnSent'[c] \in Seq(Unit)
    BY DEF IInv, RelayTypeOK
  <1>2. UpCat(c)' /\ DownCat(c)'
    BY InOrderIsCat DEF IInv
  <1>3. /\ IsPrefix(Cat(upGot'[c], upPipe'[c]), upSent'[c])
        /\ IsPrefix(Cat(dnGot'[c], dnWire'[c]), dnSent'[c])
    BY <1>2 DEF UpCat, DownCat
  <1>4. QED
    BY <1>1, <1>3, CatFront

LEMMA EndsMap ==
  ASSUME IInv, NEW c \in Conn,
         \/ Connection(c) \/ TcpData(c) \/ TcpError(c) \/ TcpClosed(c)
         \/ WsMessage(c) \/ WsGone(c) \/ TcpConnected(c) \/ TcpEnd(c)
         \/ Connect(c) \/ BrowserGone(c) \/ ServerClose(c)
  PROVE  [P!Next]_(P!vars)
  <1>1. UNCHANGED <<upSent, upGot, dnSent, dnGot>>
    BY DEF Connection, TcpData, TcpError, TcpClosed, WsMessage, WsGone, TcpConnected,
           TcpEnd, Connect, BrowserGone, ServerClose, TcpDestroy, up, down
  <1>2. \A d \in Conn \ {c} :
          UNCHANGED <<bws[d], ws[d], tcp[d], srv[d]>>
    BY ZenonT(60), SMTT(60)
       DEF IInv, RelayTypeOK, Connection, TcpData, TcpError, TcpClosed, WsMessage,
           WsGone, TcpConnected, TcpEnd, Connect, BrowserGone, ServerClose, TcpDestroy,
           WsClose, ends
  <1>3. \A d \in Conn \ {c} : standing(d)' = standing(d)
    BY <1>2 DEF standing
  <1> DEFINE Onward == \/ standing(c)' = standing(c)
                       \/ standing(c) = "idle" /\ standing(c)' = "open"
                       \/ standing(c) = "open" /\ standing(c)' = "ended"
  <1>4. Onward
    <2>1. CASE Connection(c) \/ TcpData(c) \/ WsMessage(c) \/ TcpConnected(c)
      BY ZenonT(60), SMTT(60), <2>1 DEF IInv, RelayTypeOK, Linked, Connection, TcpData, WsMessage,
                  TcpConnected, ends, standing
    <2>2. CASE TcpError(c) \/ TcpClosed(c)
      BY <2>2 DEF IInv, RelayTypeOK, Linked, TcpError, TcpClosed, WsClose, Writable,
                  standing
    <2>3. CASE WsGone(c)
      BY <2>3 DEF IInv, RelayTypeOK, Linked, WsGone, TcpDestroy, Writable, standing
    <2>4. CASE TcpEnd(c) \/ ServerClose(c)
      BY <2>4 DEF IInv, RelayTypeOK, Linked, TcpEnd, ServerClose, standing
    <2>5. CASE Connect(c) \/ BrowserGone(c)
      BY <2>5 DEF IInv, RelayTypeOK, Linked, Connect, BrowserGone, standing
    <2>6. QED
      BY <2>1, <2>2, <2>3, <2>4, <2>5
  <1>5. QED
    BY <1>1, <1>3, <1>4, MapsToStanding

LEMMA SendsMap ==
  ASSUME IInv, NEW c \in Conn,
         \/ \E u \in Unit : BrowserOpen(c, u) \/ BrowserSend(c, u)
         \/ \E us \in Seq(Unit) : ServerSend(c, us)
  PROVE  [P!Next]_(P!vars)
  <1>1. /\ upSent \in [Conn -> Seq(Unit)] /\ dnSent \in [Conn -> Seq(Unit)]
        /\ upSent[c] \in Seq(Unit) /\ dnSent[c] \in Seq(Unit)
    BY DEF IInv, RelayTypeOK
  <1>2. ASSUME NEW u \in Unit, BrowserOpen(c, u) \/ BrowserSend(c, u)
        PROVE  [P!Next]_(P!vars)
    <2>1. /\ upSent' = [upSent EXCEPT ![c] = Append(upSent[c], u)]
          /\ dnSent' = dnSent /\ UNCHANGED <<upGot, dnGot>>
      BY <1>2 DEF BrowserOpen, BrowserSend, down
    <2>2. /\ <<u>> \in Seq(Unit) /\ <<u>> # <<>>
          /\ upSent' = [upSent EXCEPT ![c] = Cat(upSent[c], <<u>>)]
      BY <1>1, <2>1, CatAppend
    <2>3. standing(c) # "idle" /\ \A d \in Conn : standing(d)' = standing(d)
      BY ZenonT(60), SMTT(60), <1>2 DEF IInv, RelayTypeOK, BrowserOpen, BrowserSend, ends, standing
    <2>4. QED
      BY <1>1, <2>1, <2>2, <2>3, MapsToSend
  <1>3. ASSUME NEW us \in Seq(Unit), ServerSend(c, us)
        PROVE  [P!Next]_(P!vars)
    <2>1. /\ us # <<>> /\ dnSent' = [dnSent EXCEPT ![c] = Cat(dnSent[c], us)]
          /\ upSent' = upSent /\ UNCHANGED <<upGot, dnGot>>
      BY <1>3 DEF ServerSend, up, Cat
    <2>2. standing(c) # "idle" /\ \A d \in Conn : standing(d)' = standing(d)
      BY <1>3 DEF IInv, RelayTypeOK, Linked, ServerSend, ends, standing
    <2>3. QED
      BY <1>1, <2>1, <2>2, MapsToSend
  <1>4. QED
    BY <1>2, <1>3

LEMMA ArrivalsMap ==
  ASSUME IInv, IInv', NEW c \in Conn,
         UpArrives(c) \/ \E n \in Nat : BrowserMessage(c, n)
  PROVE  [P!Next]_(P!vars)
  <1>1. /\ upGot \in [Conn -> Seq(Unit)] /\ dnGot \in [Conn -> Seq(Unit)]
        /\ upGot[c] \in Seq(Unit) /\ dnGot[c] \in Seq(Unit)
        /\ upPipe[c] \in Seq(Unit) /\ dnWire[c] \in Seq(Unit)
    BY DEF IInv, RelayTypeOK
  <1>2. IsPrefix(upGot'[c], upSent'[c]) /\ IsPrefix(dnGot'[c], dnSent'[c])
    BY GotIsPrefix
  <1>3. CASE UpArrives(c)
    <2>1. /\ upGot' = [upGot EXCEPT ![c] = Append(upGot[c], Head(upPipe[c]))]
          /\ upPipe[c] # <<>> /\ dnGot' = dnGot /\ UNCHANGED <<upSent, dnSent>>
      BY <1>3 DEF UpArrives, down
    <2>2. Head(upPipe[c]) \in Unit
      BY <1>1, <2>1, CatHeadTail
    <2>3. /\ <<Head(upPipe[c])>> \in Seq(Unit) /\ <<Head(upPipe[c])>> # <<>>
          /\ upGot' = [upGot EXCEPT ![c] = Cat(upGot[c], <<Head(upPipe[c])>>)]
      BY <1>1, <2>1, <2>2, CatAppend
    <2>4. standing(c) # "idle" /\ \A d \in Conn : standing(d)' = standing(d)
      BY <1>3 DEF IInv, RelayTypeOK, Linked, UpArrives, ends, standing
    <2>5. QED
      BY <1>1, <1>2, <2>1, <2>3, <2>4, MapsToReceive
  <1>4. ASSUME NEW n \in Nat, BrowserMessage(c, n)
        PROVE  [P!Next]_(P!vars)
    <2>1. /\ dnGot' = [dnGot EXCEPT ![c] = Cat(dnGot[c], First(dnWire[c], n))]
          /\ n \in 1 .. Len(dnWire[c]) /\ upGot' = upGot /\ UNCHANGED <<upSent, dnSent>>
      BY <1>4 DEF BrowserMessage, up, Cat
    <2>2. First(dnWire[c], n) \in Seq(Unit) /\ Len(First(dnWire[c], n)) = n
      BY <1>1, <2>1, CatFirstRest
    <2>3. First(dnWire[c], n) # <<>>
      BY <2>1, <2>2, EmptySeq
    <2>4. standing(c) # "idle" /\ \A d \in Conn : standing(d)' = standing(d)
      BY <1>4 DEF IInv, RelayTypeOK, BrowserMessage, ends, standing
    <2>5. QED
      BY <1>1, <1>2, <2>1, <2>2, <2>3, <2>4, MapsToReceive
  <1>5. QED
    BY <1>3, <1>4

\* Every step of the relay, the sockets and the two sides is a step of Pipe or
\* none: the relay carries both streams as a connection should (relay.js:19-42).
THEOREM RelayIsAPipe == RelaySpec => P!Spec
  <1>1. RelayInit => P!Init
    BY DEF RelayInit, P!Init, P!Dir, standing
  <1>2. IInv /\ IInv' /\ [RelayNext]_relayVars => [P!Next]_(P!vars)
    <2> SUFFICES ASSUME IInv, IInv', [RelayNext]_relayVars PROVE [P!Next]_(P!vars)
      OBVIOUS
    <2>1. CASE UNCHANGED relayVars
      BY <2>1 DEF relayVars, P!vars, standing
    <2>2. CASE RelayNext
      <3>1. PICK c \in Conn : RelayStep(c) \/ EndsStep(c)
        BY <2>2 DEF RelayNext
      <3>2. QED
        BY <3>1, EndsMap, SendsMap, ArrivalsMap
           DEF RelayStep, EndsStep, WsClosed, WsCloseTimeout, WsBreaks, BrowserClosed,
               ServerSeesEnd
    <2>3. QED
      BY <2>1, <2>2
  <1>3. QED
    BY <1>1, <1>2, RelayInvariant, PTL DEF RelaySpec, P!Spec
=============================================================================
