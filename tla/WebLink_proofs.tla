---------------------------- MODULE WebLink_proofs ----------------------------
(***************************************************************************)
(* Proofs about the web client's line, for every number of lines, every    *)
(* script and every way the stream is cut into frames: it carries both     *)
(* streams as the relay does; and if every packet by itself is read as it  *)
(* was meant (ReadsAlone, which TLC checks for every kind of packet), the  *)
(* page gets from the stream those packets, each once and in order, keeps  *)
(* no whole packet back, and asks for nothing before it has a character.   *)
(***************************************************************************)
EXTENDS WebLink, Relay_proofs, Folds_proofs

-----------------------------------------------------------------------------
(* The line is a relay. *)

\* The pieces of a packet of the script are units of the relay.
LEMMA PiecesAreUnits ==
  ASSUME script \in Script, NEW i \in DOMAIN script.down
  PROVE  Pieces(script.down[i]) \in Seq(Unit)
  <1> DEFINE n == IF SizeOf(script.down[i]) > Header THEN 3 ELSE 2
  <1>1. n \in {2, 3}
    OBVIOUS
  <1>2. \A k \in 1 .. 3 : Piece(script.down[i], k) \in Unit
    BY LinkAssumption
  <1> HIDE DEF n
  <1>3. [k \in 1 .. n |-> Piece(script.down[i], k)] \in Seq(Unit)
    BY <1>1, <1>2
  <1>4. QED
    BY <1>3 DEF Pieces, n

\* What the line, the page and the server do of themselves, the relay may do.
LEMMA LinkStepIsRelayStep ==
  ASSUME script \in Script, [LinkNext]_linkVars
  PROVE  [RelayNext]_relayVars /\ script' = script
  <1>1. CASE UNCHANGED linkVars
    BY <1>1 DEF linkVars, webVars, relayVars
  <1>2. ASSUME NEW c \in Conn, CarryOn(c)
        PROVE  RelayNext /\ script' = script
    <2>1. CASE PageOpens(c)
      BY <2>1, LinkAssumption DEF PageOpens, RelayNext, EndsStep, webVars
    <2>2. CASE \E n \in 1 .. Len(dnWire[c]) : PageGets(c, n)
      <3>1. PICK n \in 1 .. Len(dnWire[c]) : PageGets(c, n)
        BY <2>2
      <3>2. n \in Nat /\ BrowserMessage(c, n) /\ script' = script
        BY <3>1 DEF PageGets
      <3>3. QED
        BY <3>2 DEF RelayNext, EndsStep
    <2>3. CASE /\ \/ Connection(c) \/ TcpConnected(c) \/ WsMessage(c) \/ UpArrives(c)
                  \/ TcpData(c) \/ TcpEnd(c) \/ TcpClosed(c) \/ WsClosed(c)
                  \/ WsCloseTimeout(c) \/ BrowserClosed(c) \/ ServerSeesEnd(c)
               /\ UNCHANGED webVars
      BY <2>3 DEF RelayNext, RelayStep, EndsStep, webVars
    <2>4. QED
      BY <1>2, <2>1, <2>2, <2>3 DEF CarryOn
  <1>3. ASSUME NEW c \in Conn, LineLost(c)
        PROVE  RelayNext /\ script' = script
    BY <1>3 DEF LineLost, RelayNext, RelayStep, EndsStep, webVars
  <1>4. ASSUME NEW c \in Conn, PageConnects(c)
        PROVE  RelayNext /\ script' = script
    BY <1>4 DEF PageConnects, RelayNext, EndsStep
  <1>5. ASSUME NEW c \in Conn, PageAsks(c)
        PROVE  RelayNext /\ script' = script
    <2>1. acts + 1 \in DOMAIN script.up /\ script' = script
      BY <1>5 DEF PageAsks
    <2>2. Asked(script.up[acts + 1]) \in Unit
      BY <2>1, LinkAssumption
    <2>3. QED
      BY <1>5, <2>1, <2>2 DEF PageAsks, RelayNext, EndsStep
  <1>6. ASSUME NEW c \in Conn, PageStopsToChat(c)
        PROVE  RelayNext /\ script' = script
    BY <1>6, LinkAssumption DEF PageStopsToChat, RelayNext, EndsStep
  <1>7. ASSUME NEW c \in Conn, ServerTells(c)
        PROVE  RelayNext /\ script' = script
    BY <1>7, PiecesAreUnits DEF ServerTells, RelayNext, EndsStep, webVars
  <1>8. QED
    BY SMTT(60), ZenonT(60), <1>1, <1>2, <1>3, <1>4, <1>5, <1>6, <1>7 DEF LinkNext

\* WebLink's frames are some of those the relay carries: what holds of the relay
\* holds of the web client's line.
THEOREM LinkIsARelay == LinkSpec => RelaySpec /\ [](script \in Script)
  <1>1. LinkInit => RelayInit /\ script \in Script
    BY DEF LinkInit
  <1>2. script \in Script /\ [LinkNext]_linkVars
          => [RelayNext]_relayVars /\ (script \in Script)'
    BY LinkStepIsRelayStep
  <1>3. QED
    BY <1>1, <1>2, PTL DEF LinkSpec, RelaySpec

\* Both streams of the page's line come as far as they do without a gap.
THEOREM LineInOrder == LinkSpec => []NothingSkipped
  BY LinkIsARelay, RelayInOrder, PTL

-----------------------------------------------------------------------------
(* Going through a list step by step. *)

\* What holds of 0 and goes from one number to the next holds up to n.
LEMMA UpToN ==
  ASSUME NEW n \in Nat, NEW S, 0 \in S, \A k \in 1 .. n : k - 1 \in S => k \in S
  PROVE  \A k \in 0 .. n : k \in S
  <1> DEFINE Bad == (0 .. n) \ S
  <1>1. Bad \subseteq Nat
    OBVIOUS
  <1>2. ASSUME NEW k \in Bad, \A j \in Bad : k <= j
        PROVE  FALSE
    <2>1. k \in 1 .. n /\ k - 1 \in 0 .. n /\ ~ (k <= k - 1)
      OBVIOUS
    <2>2. k - 1 \notin Bad
      <3> HIDE DEF Bad
      <3>1. QED
        BY <1>2, <2>1
    <2>3. QED
      BY <2>1, <2>2
  <1>3. Bad = {}
    <2> HIDE DEF Bad
    <2>1. ASSUME Bad # {} PROVE FALSE
      <3>1. PICK k \in Bad : \A j \in Bad : k <= j
        BY <1>1, <2>1, SmallestNat
      <3>2. QED
        BY <1>2, <3>1
    <2>2. QED
      BY <2>1
  <1>4. QED
    BY <1>3

\* The places a fold has been through after k elements.
LEMMA FirstPlaces ==
  ASSUME NEW n \in Nat, NEW k \in 1 .. n
  PROVE  /\ 1 .. k \in SUBSET (1 .. n) /\ 1 .. k # {}
         /\ Max(1 .. k) = k /\ (1 .. k) \ {Max(1 .. k)} = 1 .. (k - 1)
  <1>1. 1 .. k \in SUBSET (1 .. n) /\ k \in 1 .. k
    OBVIOUS
  <1>2. Max(1 .. k) \in 1 .. k
    BY <1>1, MaxOfPlaces
  <1>3. Max(1 .. k) = k
    <2>1. (\A j \in 1 .. k : k >= j) /\ k \in 1 .. k
      OBVIOUS
    <2>2. \A j \in 1 .. k : Max(1 .. k) >= j
      BY <2>1 DEF Max
    <2>3. QED
      BY <1>2, <2>1, <2>2
  <1>4. (1 .. k) \ {k} = 1 .. (k - 1)
    OBVIOUS
  <1>5. QED
    BY <1>1, <1>3, <1>4

\* The bytes of some pieces, added up one after the other.
LEMMA WeighSteps ==
  ASSUME NEW R, NEW us \in Seq(R), \A u \in R : Weight(u) \in Nat
  PROVE  \E h : /\ h[0] = 0 /\ h[Len(us)] = Weigh(us)
                /\ \A k \in 1 .. Len(us) : h[k] = h[k - 1] + Weight(us[k])
  <1> DEFINE S == DOMAIN us
             Chain(g) == g = [T \in SUBSET S |->
                                IF T = {} THEN 0
                                ELSE g[T \ {Max(T)}] + Weight(us[Max(T)])]
             chain == CHOOSE g : Chain(g)
             take == [u \in R |-> [v \in Nat |-> v + Weight(u)]]
  <1>1. \A u \in R : \A v \in Nat : take[u][v] = v + Weight(u) /\ take[u][v] \in Nat
    OBVIOUS
  <1>2. \A T \in SUBSET S : T # {} => us[Max(T)] \in R /\ T \ {Max(T)} \in SUBSET S
    <2>1. S = 1 .. Len(us) /\ Len(us) \in Nat
      OBVIOUS
    <2>2. \A T \in SUBSET S : T # {} => Max(T) \in T
      BY <2>1, MaxOfPlaces
    <2>3. \A i \in S : us[i] \in R
      OBVIOUS
    <2>4. QED
      BY <2>2, <2>3
  <1> HIDE DEF take
  <1>3. PICK g : IsSequenceFold(g, us, 0, take) /\ \A T \in SUBSET S : g[T] \in Nat
    <2>1. \A u \in R : \A v \in Nat : take[u][v] \in Nat
      BY ZenonT(60), SMTT(60), <1>1
    <2>2. 0 \in Nat
      BY ZenonT(60), SMTT(60)
    <2>3. QED
      BY <2>1, <2>2, SequenceFoldExists
  <1>4. Chain(g)
    <2> HIDE DEF S
    <2>1. \A T \in SUBSET S : T # {} => take[us[Max(T)]][g[T \ {Max(T)}]]
                                        = g[T \ {Max(T)}] + Weight(us[Max(T)])
      BY <1>1, <1>2, <1>3
    <2>2. QED
      BY ZenonT(60), SMTT(60), <1>3, <2>1 DEF IsSequenceFold, S
  <1>5. Chain(chain)
    BY <1>4
  <1>6. ASSUME NEW T \in SUBSET S
        PROVE  chain[T] = IF T = {} THEN 0 ELSE chain[T \ {Max(T)}] + Weight(us[Max(T)])
    <2> HIDE DEF chain
    <2>1. QED
      BY <1>5
  <1>7. Weigh(us) = chain[S]
    BY DEF Weigh, FoldLeft, MapThenFoldSet
  <1> DEFINE h == [k \in 0 .. Len(us) |-> chain[1 .. k]]
  <1> HIDE DEF chain
  <1>8. Len(us) \in Nat /\ S = 1 .. Len(us)
    OBVIOUS
  <1>9. h[0] = 0
    <2>1. 1 .. 0 = {} /\ {} \in SUBSET S /\ h[0] = chain[1 .. 0]
      BY <1>8
    <2>2. QED
      BY <1>6, <2>1
  <1>10. h[Len(us)] = Weigh(us)
    BY <1>7, <1>8
  <1>11. ASSUME NEW k \in 1 .. Len(us)
         PROVE  h[k] = h[k - 1] + Weight(us[k])
    <2>1. h[k] = chain[1 .. k] /\ h[k - 1] = chain[1 .. (k - 1)]
      BY <1>8
    <2>2. chain[1 .. k] = chain[(1 .. k) \ {Max(1 .. k)}] + Weight(us[Max(1 .. k)])
      BY <1>6, <1>8, FirstPlaces
    <2>3. QED
      BY <2>1, <2>2, <1>8, FirstPlaces
  <1> HIDE DEF h
  <1>12. QED
    BY <1>9, <1>10, <1>11
\* What the first pieces weigh, all of them weigh at least.
LEMMA WeighsAtLeast ==
  ASSUME NEW R, NEW us \in Seq(R), \A u \in R : Weight(u) \in Nat
  PROVE  /\ Weigh(us) \in Nat
         /\ Len(us) = 0 => Weigh(us) = 0
         /\ Len(us) = 1 => Weigh(us) = Weight(us[1])
         /\ Len(us) = 2 => Weigh(us) = Weight(us[1]) + Weight(us[2])
         /\ Len(us) >= 2 => Weigh(us) >= Weight(us[1]) + Weight(us[2])
         /\ Len(us) >= 3 => Weigh(us) >= (Weight(us[1]) + Weight(us[2])) + Weight(us[3])
  <1>1. PICK h : /\ h[0] = 0 /\ h[Len(us)] = Weigh(us)
                 /\ \A k \in 1 .. Len(us) : h[k] = h[k - 1] + Weight(us[k])
    BY WeighSteps
  <1>2. Len(us) \in Nat /\ \A k \in 1 .. Len(us) : Weight(us[k]) \in Nat
    OBVIOUS
  <1>3. Len(us) >= 1 => h[1] = Weight(us[1]) /\ h[1] \in Nat
    BY <1>1, <1>2
  <1>4. Len(us) >= 2 => h[2] = Weight(us[1]) + Weight(us[2]) /\ h[2] \in Nat
    BY SMTT(60), <1>1, <1>2, <1>3
  <1>5. Len(us) >= 3 => h[3] = (Weight(us[1]) + Weight(us[2])) + Weight(us[3]) /\ h[3] \in Nat
    BY SMTT(60), <1>1, <1>2, <1>4
  <1> DEFINE Heavy == {k \in Nat : /\ h[k] \in Nat
                                   /\ k >= 2 => h[k] >= h[2]
                                   /\ k >= 3 => h[k] >= h[3]}
  <1>6. 0 \in Heavy
    BY <1>1
  <1>7. ASSUME NEW k \in 1 .. Len(us), k - 1 \in Heavy
        PROVE  k \in Heavy
    <2>1. h[k] = h[k - 1] + Weight(us[k]) /\ Weight(us[k]) \in Nat /\ h[k - 1] \in Nat
      BY <1>1, <1>2, <1>7
    <2>2. h[k] \in Nat /\ h[k] >= h[k - 1]
      BY SMTT(60), ZenonT(60), <2>1
    <2>3. k >= 2 => h[2] \in Nat /\ (k = 2 \/ h[k - 1] >= h[2])
      BY <1>2, <1>4, <1>7
    <2>4. k >= 3 => h[3] \in Nat /\ (k = 3 \/ h[k - 1] >= h[3])
      BY SMTT(60), ZenonT(60), <1>2, <1>5, <1>7
    <2>5. k \in Nat /\ h[k - 1] \in Nat
      BY <2>1
    <2>6. k >= 2 => h[k] >= h[2]
      BY SMTT(60), <2>2, <2>3, <2>5
    <2>7. k >= 3 => h[k] >= h[3]
      BY SMTT(60), <2>2, <2>4, <2>5
    <2>8. QED
      BY <2>2, <2>5, <2>6, <2>7
  <1>8. Len(us) \in Heavy
    <2> HIDE DEF Heavy
    <2>1. \A k \in 0 .. Len(us) : k \in Heavy
      BY <1>2, <1>6, <1>7, UpToN
    <2>2. QED
      BY <1>2, <2>1
  <1>9. /\ Weigh(us) \in Nat
        /\ Len(us) >= 2 => Weigh(us) >= h[2]
        /\ Len(us) >= 3 => Weigh(us) >= h[3]
    BY SMTT(60), ZenonT(60), <1>1, <1>8
  <1> HIDE DEF Heavy
  <1>10. /\ Len(us) = 0 => Weigh(us) = 0
         /\ Len(us) = 1 => Weigh(us) = h[1]
         /\ Len(us) = 2 => Weigh(us) = h[2]
    BY <1>1
  <1>11. QED
    <2>1. /\ Len(us) = 0 => Weigh(us) = 0
          /\ Len(us) = 1 => Weigh(us) = Weight(us[1])
          /\ Len(us) = 2 => Weigh(us) = Weight(us[1]) + Weight(us[2])
      BY SMTT(60), ZenonT(60), <1>3, <1>4, <1>10
    <2>2. Len(us) >= 2 => Weigh(us) >= Weight(us[1]) + Weight(us[2])
      BY <1>4, <1>9
    <2>3. Len(us) >= 3 => Weigh(us) >= (Weight(us[1]) + Weight(us[2])) + Weight(us[3])
      BY SMTT(60), ZenonT(60), <1>5, <1>9
    <2>4. QED
      BY <1>9, <2>1, <2>2, <2>3

-----------------------------------------------------------------------------
(* Packets and their pieces. *)

\* Every piece has the size of its packet in it, and its place.
LEMMA PieceFacts ==
  ASSUME NEW p, NEW k
  PROVE  /\ SizeOf(Piece(p, k)) = SizeOf(p) /\ Pieces(Piece(p, k)) = Pieces(p)
         /\ Piece(p, k).part = k
  <1>1. /\ Piece(p, k).kind = p.kind /\ Piece(p, k).n = p.n /\ Piece(p, k).v = p.v
        /\ Piece(p, k).part = k
    BY DEF Piece
  <1>2. SizeOf(Piece(p, k)) = SizeOf(p)
    BY <1>1 DEF SizeOf
  <1>3. \A j : Piece(Piece(p, k), j) = Piece(p, j)
    BY <1>1 DEF Piece
  <1>4. QED
    BY <1>1, <1>2, <1>3 DEF Pieces

\* A packet of its header alone is two pieces, any other three; together they
\* weigh its size.
LEMMA PiecesFacts ==
  ASSUME NEW p, SizeOf(p) \in Header .. 4096
  PROVE  /\ Len(Pieces(p)) \in {2, 3} /\ DOMAIN Pieces(p) = 1 .. Len(Pieces(p))
         /\ \A k \in 1 .. Len(Pieces(p)) : Pieces(p)[k] = Piece(p, k)
         /\ Len(Pieces(p)) = 2 <=> SizeOf(p) = 4
         /\ Weight(Piece(p, 1)) = 2 /\ Weight(Piece(p, 2)) = 2
         /\ Weight(Piece(p, 3)) = SizeOf(p) - 4
         /\ \A k \in 1 .. 3 : Weight(Piece(p, k)) \in Nat
  <1> DEFINE n == IF SizeOf(p) > Header THEN 3 ELSE 2
  <1>1. /\ n \in {2, 3} /\ (n = 2 <=> SizeOf(p) = 4)
        /\ SizeOf(p) - 4 \in Nat
    <2>1. \A size \in 4 .. 4096 : size - 4 \in Nat /\ (size > 4 <=> size # 4)
      BY SMTT(60)
    <2>2. SizeOf(p) \in 4 .. 4096
      BY DEF Header
    <2>3. SizeOf(p) - 4 \in Nat /\ (SizeOf(p) > 4 <=> SizeOf(p) # 4)
      <3> DEFINE size == SizeOf(p)
      <3>1. size \in 4 .. 4096
        BY <2>2
      <3> HIDE DEF size
      <3>2. size - 4 \in Nat /\ (size > 4 <=> size # 4)
        BY <2>1, <3>1
      <3>3. QED
        BY SMTT(60), <3>2 DEF size
    <2>4. QED
      BY <2>3 DEF Header
  <1> HIDE DEF n
  <1>2. Pieces(p) = [k \in 1 .. n |-> Piece(p, k)]
    BY DEF Pieces, n
  <1>3. Len(Pieces(p)) = n /\ DOMAIN Pieces(p) = 1 .. n
    <2>1. Pieces(p) \in Seq({Piece(p, k) : k \in 1 .. n})
      BY <1>1, <1>2
    <2>2. DOMAIN Pieces(p) = 1 .. n /\ n \in Nat
      BY <1>1, <1>2
    <2>3. QED
      BY <2>1, <2>2, LenProperties
  <1>4. \A k \in 1 .. n : Pieces(p)[k] = Piece(p, k)
    BY <1>2
  <1>5. Weight(Piece(p, 1)) = 2 /\ Weight(Piece(p, 2)) = 2
    BY PieceFacts DEF Weight
  <1>6. Weight(Piece(p, 3)) = SizeOf(p) - 4 /\ SizeOf(p) - 4 \in Nat
    <2>1. Weight(Piece(p, 3)) = SizeOf(p) - 4
      BY SMTT(60), PieceFacts DEF Weight, Header
    <2>2. QED
      BY <1>1, <2>1
  <1>7. QED
    BY SMTT(60), <1>1, <1>3, <1>4, <1>5, <1>6

\* What reads alone reads with anything behind it.
LEMMA DecodeAnywhere ==
  ASSUME NEW p, ReadAlone(p), NEW there \in Nat, there >= SizeOf(p)
  PROVE  decodePacket(Piece(p, 1), there) = <<Meant(p)>>
  <1> DEFINE u == Piece(p, 1)
             name == NAME(NumberOf[u.kind])
             fields == Reads(name, u, SizeOf(u))
             read == <<[name |-> name, fields |-> fields, shows |-> Shows(name, u)]>>
  <1>1. /\ SizeOf(p) \in 4 .. 4096
        /\ \A f \in fields : EndOf(f) \in 0 .. SizeOf(p) - Header
        /\ decodePacket(u, SizeOf(p)) = <<Meant(p)>>
    <2>1. SizeOf(p) \in 4 .. 4096
      BY DEF ReadAlone, Header
    <2>2. \A f \in fields : EndOf(f) \in 0 .. SizeOf(p) - Header
      BY DEF ReadAlone
    <2>3. decodePacket(u, SizeOf(p)) = <<Meant(p)>>
      BY DEF ReadAlone
    <2> HIDE DEF fields, u
    <2>4. QED
      BY SMTT(60), <2>1, <2>2, <2>3
  <1>2. \A f \in fields : ~ (Header + EndOf(f) > SizeOf(p)) /\ ~ (Header + EndOf(f) > there)
    <2> DEFINE size == SizeOf(p)
    <2>1. /\ size \in 4 .. 4096 /\ there >= size
          /\ \A f \in fields : EndOf(f) \in 0 .. size - 4
      BY <1>1 DEF Header
    <2> HIDE DEF fields, size
    <2>2. \A f \in fields : ~ (4 + EndOf(f) > size) /\ ~ (4 + EndOf(f) > there)
      BY <2>1
    <2>3. QED
      BY ZenonT(60), SMTT(60), <2>2 DEF Header, size
  <1>3. decodePacket(u, SizeOf(p)) = read /\ decodePacket(u, there) = read
    <2>1. \A m : decodePacket(u, m) = IF \E f \in fields : Header + EndOf(f) > m
                                      THEN <<>> ELSE read
      BY DEF decodePacket
    <2> HIDE DEF fields, read, u
    <2>2. QED
      BY <1>2, <2>1
  <1>4. QED
    BY SMTT(60), <1>1, <1>3

-----------------------------------------------------------------------------
(* A stream of pieces that is n packets of d. *)

\* Where packets start, and where they end, among the first e pieces.
Starts(s, e) == { i \in 1 .. e : s[i].part = 1 }
Ends(s, e)   == { i \in 1 .. e : s[i].part = Len(Pieces(s[i])) }

\* The j-th packet is pieces f[j - 1] + 1 to f[j] of s.
Cut(s, d, n, f) ==
  /\ n \in 0 .. Len(d) /\ f \in [0 .. n -> 0 .. Len(s)] /\ f[0] = 0 /\ f[n] = Len(s)
  /\ \A j \in 1 .. n :
       /\ f[j] = f[j - 1] + Len(Pieces(d[j]))
       /\ \A k \in 1 .. Len(Pieces(d[j])) : s[f[j - 1] + k] = Piece(d[j], k)
  /\ \A i \in 1 .. Len(s) : Weight(s[i]) \in Nat
  /\ \A j \in 0 .. n : Cardinality(Ends(s, f[j])) = j
  /\ Cardinality(Starts(s, Len(s))) = n

\* One more place in a finite set of places.
LEMMA OneMore ==
  ASSUME NEW S, IsFiniteSet(S), NEW T \in SUBSET S, NEW x, x \notin T
  PROVE  Cardinality(T \cup {x}) = Cardinality(T) + 1
  <1>1. IsFiniteSet(T)
    BY FS_Subset
  <1>2. QED
    BY <1>1, FS_AddElement

\* Nothing sent is nothing to cut.
LEMMA CutOfNothing ==
  ASSUME NEW D, NEW d \in Seq(D)
  PROVE  Cut(<<>>, d, 0, [j \in 0 .. 0 |-> 0])
  <1>1. Len(<<>>) = 0 /\ 1 .. 0 = {} /\ Len(d) \in Nat
    OBVIOUS
  <1>2. Starts(<<>>, 0) = {} /\ Ends(<<>>, 0) = {}
    BY <1>1 DEF Starts, Ends
  <1>3. Cardinality({}) = 0
    BY FS_EmptySet
  <1> DEFINE f == [j \in 0 .. 0 |-> 0]
  <1>4. f \in [0 .. 0 -> 0 .. 0] /\ f[0] = 0 /\ 0 \in 0 .. Len(d)
    BY <1>1
  <1>5. \A j \in 0 .. 0 : f[j] = 0 /\ j = 0
    OBVIOUS
  <1> HIDE DEF f
  <1>6. /\ Cardinality(Starts(<<>>, Len(<<>>))) = 0
        /\ \A j \in 0 .. 0 : Cardinality(Ends(<<>>, f[j])) = j
    BY <1>1, <1>2, <1>3, <1>5
  <1>7. \A j : j \notin 1 .. 0
    BY <1>1
  <1>8. Cut(<<>>, d, 0, f)
    BY <1>1, <1>4, <1>6, <1>7 DEF Cut
  <1>9. QED
    BY <1>8 DEF f

\* One more packet behind the others is one more cut.
LEMMA CutGrows ==
  ASSUME NEW s \in Seq(Unit), NEW D, NEW d \in Seq(D), NEW n, NEW f, Cut(s, d, n, f),
         n + 1 \in DOMAIN d, SizeOf(d[n + 1]) \in Header .. 4096,
         Pieces(d[n + 1]) \in Seq(Unit)
  PROVE  \E g : Cut(s \o Pieces(d[n + 1]), d, n + 1, g) /\ \A j \in 0 .. n : g[j] = f[j]
  <1> DEFINE p == d[n + 1]
             ps == Pieces(p)
             len == Len(s)
             w == Len(ps)
             t == s \o ps
             g == [j \in 0 .. n + 1 |-> IF j = n + 1 THEN len + w ELSE f[j]]
  <1>1. n \in Nat /\ n + 1 \in 1 .. Len(d) /\ Len(d) \in Nat /\ len \in Nat /\ f[n] = len
    BY SMTT(60), ZenonT(60) DEF Cut
  <1>2. w \in {2, 3} /\ \A k \in 1 .. w : /\ ps[k] = Piece(p, k) /\ ps[k].part = k
                                         /\ Len(Pieces(ps[k])) = w
                                         /\ Weight(ps[k]) \in Nat
    <2>1. w \in {2, 3} /\ \A k \in 1 .. w : ps[k] = Piece(p, k) /\ k \in 1 .. 3
      <3>1. w \in {2, 3} /\ \A k \in 1 .. w : ps[k] = Piece(p, k)
        BY SMTT(60), PiecesFacts
      <3> HIDE DEF w
      <3>2. \A k \in 1 .. w : k \in 1 .. 3
        BY <3>1
      <3>3. QED
        BY <3>1, <3>2
    <2>2. \A k \in 1 .. 3 : Weight(Piece(p, k)) \in Nat
      BY SMTT(60), PiecesFacts
    <2>3. QED
      BY SMTT(60), <2>1, <2>2, PieceFacts
  <1>3. /\ Len(t) = len + w /\ \A i \in 1 .. len : t[i] = s[i]
        /\ \A k \in 1 .. w : t[len + k] = ps[k]
    <2>1. s \in Seq(Unit) /\ ps \in Seq(Unit)
      OBVIOUS
    <2> HIDE DEF ps
    <2>2. QED
      BY <2>1
  <1>4. \A j \in 0 .. n : f[j] \in 0 .. len /\ Cardinality(Ends(s, f[j])) = j
    BY SMTT(60), ZenonT(60) DEF Cut
  <1>5. /\ \A j \in 1 .. n : f[j] = f[j - 1] + Len(Pieces(d[j]))
        /\ \A j \in 1 .. n : \A k \in 1 .. Len(Pieces(d[j])) : s[f[j - 1] + k] = Piece(d[j], k)
        /\ \A i \in 1 .. len : Weight(s[i]) \in Nat
        /\ Cardinality(Starts(s, len)) = n /\ f[0] = 0
    <2>1. Cut(s, d, n, f)
      OBVIOUS
    <2>2. \A j \in 1 .. n : f[j] = f[j - 1] + Len(Pieces(d[j]))
      BY SMTT(60), <2>1 DEF Cut
    <2>3. \A j \in 1 .. n : \A k \in 1 .. Len(Pieces(d[j])) : s[f[j - 1] + k] = Piece(d[j], k)
      BY SMTT(60), <2>1 DEF Cut
    <2>4. /\ \A i \in 1 .. len : Weight(s[i]) \in Nat
          /\ Cardinality(Starts(s, len)) = n /\ f[0] = 0
      BY SMTT(60), <2>1 DEF Cut
    <2>5. QED
      BY <2>2, <2>3, <2>4
  <1> HIDE DEF p, ps, len, w, t
  <1>6. /\ g \in [0 .. n + 1 -> 0 .. Len(t)] /\ g[0] = 0 /\ g[n + 1] = Len(t)
        /\ \A j \in 0 .. n : g[j] = f[j]
    <2>1. len + w \in Nat /\ Len(t) = len + w /\ 0 .. len \subseteq 0 .. Len(t)
      BY <1>1, <1>2, <1>3
    <2>2. /\ 0 \in 0 .. n + 1 /\ n + 1 \in 0 .. n + 1 /\ 0 # n + 1
          /\ \A j \in 0 .. n : j \in 0 .. n + 1 /\ j # n + 1
          /\ \A j \in 0 .. n + 1 : j = n + 1 \/ j \in 0 .. n
      BY <1>1
    <2>3. \A j \in 0 .. n + 1 : g[j] = IF j = n + 1 THEN len + w ELSE f[j]
      OBVIOUS
    <2>4. g[n + 1] = Len(t) /\ \A j \in 0 .. n : g[j] = f[j]
      BY <2>1, <2>2, <2>3
    <2>5. ASSUME NEW j \in 0 .. n + 1
          PROVE  g[j] \in 0 .. Len(t)
      <3>1. CASE j = n + 1
        BY <2>1, <2>4, <3>1
      <3>2. CASE j \in 0 .. n
        BY SMTT(60), ZenonT(60), <1>4, <2>1, <2>4, <3>2
      <3>3. QED
        BY <2>2, <3>1, <3>2
    <2>6. g[0] = 0
      BY <1>1, <1>5, <2>4
    <2>7. g = [j \in 0 .. n + 1 |-> g[j]]
      OBVIOUS
    <2> HIDE DEF g
    <2>8. g \in [0 .. n + 1 -> 0 .. Len(t)]
      BY <2>5, <2>7
    <2>9. QED
      BY <2>4, <2>6, <2>8
  <1> HIDE DEF g
  <1>7. ASSUME NEW j \in 1 .. n + 1
        PROVE  /\ g[j] = g[j - 1] + Len(Pieces(d[j]))
               /\ \A k \in 1 .. Len(Pieces(d[j])) : t[g[j - 1] + k] = Piece(d[j], k)
    <2>1. CASE j = n + 1
      <3>1. g[j] = len + w /\ g[j - 1] = len /\ Pieces(d[j]) = ps /\ d[j] = p
        BY SMTT(60), <1>1, <1>3, <1>6, <2>1 DEF p, ps
      <3>2. Len(Pieces(d[j])) = w
        BY <3>1 DEF w
      <3>3. \A k \in 1 .. w : t[len + k] = Piece(p, k)
        <4>1. \A k \in 1 .. w : ps[k] = Piece(p, k)
          BY SMTT(60), ZenonT(60), <1>2
        <4>2. \A k \in 1 .. w : t[len + k] = ps[k]
          BY SMTT(60), ZenonT(60), <1>3
        <4>3. QED
          BY SMTT(60), ZenonT(60), <4>1, <4>2
      <3>4. QED
        BY <3>1, <3>2, <3>3
    <2>2. CASE j # n + 1
      <3> DEFINE v == Len(Pieces(d[j]))
      <3>1. j \in 1 .. n /\ j - 1 \in 0 .. n /\ j \in 0 .. n
        BY <1>1, <2>2
      <3>2. g[j] = f[j] /\ g[j - 1] = f[j - 1] /\ f[j] = f[j - 1] + v
        BY SMTT(60), <1>5, <1>6, <3>1
      <3>3. \A k \in 1 .. v : s[f[j - 1] + k] = Piece(d[j], k)
        BY <1>5, <3>1
      <3>4. v \in Nat => \A k \in 1 .. v : f[j - 1] + k \in 1 .. len
        <4>1. f[j - 1] \in 0 .. len /\ f[j] \in 0 .. len /\ f[j] = f[j - 1] + v
          BY SMTT(60), <1>4, <3>1, <3>2
        <4> HIDE DEF v
        <4> DEFINE a == f[j - 1]
                   b == f[j]
        <4>2. a \in 0 .. len /\ b \in 0 .. len /\ b = a + v
          BY <4>1
        <4> HIDE DEF a, b
        <4>3. ASSUME v \in Nat, NEW k \in 1 .. v PROVE a + k \in 1 .. len
          BY <1>1, <4>2, <4>3
        <4>4. QED
          BY SMTT(60), ZenonT(60), <4>3 DEF a
      <3>5. v \in Nat
        BY DEF Pieces
      <3> HIDE DEF v
      <3>6. \A k \in 1 .. v : t[f[j - 1] + k] = Piece(d[j], k)
        <4>1. ASSUME NEW k \in 1 .. v
              PROVE  t[f[j - 1] + k] = Piece(d[j], k)
          <5>1. f[j - 1] + k \in 1 .. len
            BY <3>4, <3>5
          <5>2. t[f[j - 1] + k] = s[f[j - 1] + k]
            BY SMTT(60), ZenonT(60), <1>3, <5>1
          <5>3. QED
            BY <3>3, <5>2
        <4>2. QED
          BY <4>1
      <3>7. QED
        BY <3>2, <3>6 DEF v
    <2>3. QED
      BY <2>1, <2>2
  <1>8. ASSUME NEW i \in 1 .. Len(t)
        PROVE  i \in 1 .. len \/ \E k \in 1 .. w : i = len + k
    <2>1. i \in 1 .. len \/ (i - len \in 1 .. w /\ i = len + (i - len))
      BY <1>1, <1>2, <1>3
    <2>2. QED
      BY <2>1
  <1>9. \A i \in 1 .. Len(t) : Weight(t[i]) \in Nat
    <2>1. ASSUME NEW i \in 1 .. Len(t) PROVE Weight(t[i]) \in Nat
      <3>1. CASE i \in 1 .. len
        BY <1>3, <1>5, <3>1
      <3>2. ASSUME NEW k \in 1 .. w, i = len + k PROVE Weight(t[i]) \in Nat
        BY SMTT(60), <1>2, <1>3, <3>2
      <3>3. QED
        BY <1>8, <3>1, <3>2
    <2>2. QED
      BY <2>1
  <1>10. Starts(t, Len(t)) = Starts(s, len) \cup {len + 1}
    <2>1. len + 1 \in 1 .. Len(t) /\ 1 \in 1 .. w /\ 1 .. len \subseteq 1 .. Len(t)
      BY SMTT(60), ZenonT(60), <1>1, <1>2, <1>3
    <2>2. \A i \in 1 .. len : t[i].part = 1 <=> s[i].part = 1
      BY SMTT(60), ZenonT(60), <1>3
    <2>3. \A k \in 1 .. w : t[len + k].part = 1 <=> len + k = len + 1
      <3>1. \A k \in 1 .. w : t[len + k].part = k
        <4>1. \A k \in 1 .. w : ps[k].part = k
          BY SMTT(60), ZenonT(60), <1>2
        <4>2. \A k \in 1 .. w : t[len + k] = ps[k]
          BY <1>3
        <4>3. QED
          BY SMTT(60), ZenonT(60), <4>1, <4>2
      <3>2. \A k \in 1 .. w : k = 1 <=> len + k = len + 1
        <4>1. w \in Nat /\ len \in Nat
          BY SMTT(60), ZenonT(60), <1>1, <1>2
        <4>2. QED
          BY <4>1
      <3>3. QED
        BY <3>1, <3>2
    <2>4. \A i \in 1 .. Len(t) : t[i].part = 1 <=> i \in Starts(s, len) \cup {len + 1}
      <3> SUFFICES ASSUME NEW i \in 1 .. Len(t)
                   PROVE  t[i].part = 1 <=> i \in Starts(s, len) \cup {len + 1}
        BY SMTT(60), ZenonT(60)
      <3>1. CASE i \in 1 .. len
        BY SMTT(60), <1>1, <2>2, <3>1 DEF Starts
      <3>2. ASSUME NEW k \in 1 .. w, i = len + k
            PROVE  t[i].part = 1 <=> i \in Starts(s, len) \cup {len + 1}
        <4>1. i \notin 1 .. len
          BY <1>1, <1>2, <3>2
        <4>2. QED
          BY SMTT(60), ZenonT(60), <2>3, <3>2, <4>1 DEF Starts
      <3>3. QED
        BY <1>8, <3>1, <3>2
    <2>5. QED
      BY SMTT(60), <2>1, <2>4 DEF Starts
  <1>11. Ends(t, Len(t)) = Ends(s, len) \cup {len + w}
    <2>1. len + w \in 1 .. Len(t) /\ w \in 1 .. w /\ 1 .. len \subseteq 1 .. Len(t)
      BY <1>1, <1>2, <1>3
    <2>2. \A i \in 1 .. len : t[i] = s[i]
      BY SMTT(60), ZenonT(60), <1>3
    <2>3. \A k \in 1 .. w : t[len + k].part = Len(Pieces(t[len + k])) <=> len + k = len + w
      <3>1. \A k \in 1 .. w : t[len + k].part = k /\ Len(Pieces(t[len + k])) = w
        <4>1. \A k \in 1 .. w : ps[k].part = k /\ Len(Pieces(ps[k])) = w
          BY SMTT(60), ZenonT(60), <1>2
        <4>2. \A k \in 1 .. w : t[len + k] = ps[k]
          BY <1>3
        <4>3. QED
          BY SMTT(60), ZenonT(60), <4>1, <4>2
      <3>2. \A k \in 1 .. w : k = w <=> len + k = len + w
        <4>1. w \in Nat /\ len \in Nat
          BY SMTT(60), ZenonT(60), <1>1, <1>2
        <4>2. QED
          BY <4>1
      <3>3. QED
        BY <3>1, <3>2
    <2>4. \A i \in 1 .. Len(t) : t[i].part = Len(Pieces(t[i]))
                                 <=> i \in Ends(s, len) \cup {len + w}
      <3> SUFFICES ASSUME NEW i \in 1 .. Len(t)
                   PROVE  t[i].part = Len(Pieces(t[i])) <=> i \in Ends(s, len) \cup {len + w}
        OBVIOUS
      <3>1. CASE i \in 1 .. len
        <4>1. i # len + w
          BY <1>1, <1>2, <3>1
        <4>2. QED
          BY SMTT(60), <2>2, <3>1, <4>1 DEF Ends
      <3>2. ASSUME NEW k \in 1 .. w, i = len + k
            PROVE  t[i].part = Len(Pieces(t[i])) <=> i \in Ends(s, len) \cup {len + w}
        <4>1. i \notin 1 .. len
          BY <1>1, <1>2, <3>2
        <4>2. QED
          BY SMTT(60), ZenonT(60), <2>3, <3>2, <4>1 DEF Ends
      <3>3. QED
        BY <1>8, <3>1, <3>2
    <2>5. QED
      <3> DEFINE E == Ends(s, len) \cup {len + w}
      <3>1. \A i : i \in Ends(t, Len(t)) <=> i \in 1 .. Len(t) /\ t[i].part = Len(Pieces(t[i]))
        BY DEF Ends
      <3>2. Ends(s, len) \subseteq 1 .. len
        BY DEF Ends
      <3>3. E \subseteq 1 .. Len(t)
        BY <2>1, <3>2
      <3> HIDE DEF E
      <3>4. Ends(t, Len(t)) \subseteq E
        BY <2>4, <3>1 DEF E
      <3>5. E \subseteq Ends(t, Len(t))
        BY SMTT(60), ZenonT(60), <2>4, <3>1, <3>3 DEF E
      <3>6. QED
        BY <3>4, <3>5 DEF E
  <1>12. \A j \in 0 .. n : Ends(t, f[j]) = Ends(s, f[j])
    <2>1. ASSUME NEW j \in 0 .. n PROVE \A i \in 1 .. f[j] : t[i] = s[i]
      <3>1. f[j] \in 0 .. len
        BY <1>4
      <3>2. \A i \in 1 .. f[j] : i \in 1 .. len
        BY SMTT(60), <1>1, <3>1
      <3>3. QED
        BY SMTT(60), ZenonT(60), <1>3, <3>2
    <2>2. QED
      BY SMTT(60), <2>1 DEF Ends
  <1>13. /\ Cardinality(Starts(t, Len(t))) = n + 1
         /\ Cardinality(Ends(t, Len(t))) = n + 1
    <2> DEFINE places == 1 .. len
    <2>1. /\ IsFiniteSet(places)
          /\ Starts(s, len) \in SUBSET places /\ Ends(s, len) \in SUBSET places
      <3>1. IsFiniteSet(places)
        BY <1>1, FS_Interval
      <3>2. Starts(s, len) \in SUBSET places
        BY DEF Starts
      <3>3. Ends(s, len) \in SUBSET places
        BY DEF Ends
      <3>4. QED
        BY <3>1, <3>2, <3>3
    <2>2. len + 1 \notin Starts(s, len) /\ len + w \notin Ends(s, len)
      <3>1. len + 1 \notin 1 .. len /\ len + w \notin 1 .. len
        BY <1>1, <1>2
      <3>2. QED
        BY <3>1 DEF Starts, Ends
    <2>3. Cardinality(Starts(s, len)) = n /\ Cardinality(Ends(s, len)) = n
      BY <1>1, <1>4, <1>5
    <2> HIDE DEF places
    <2>4. Cardinality(Starts(s, len) \cup {len + 1}) = Cardinality(Starts(s, len)) + 1
      <3>1. \A x : x \notin Starts(s, len) =>
               Cardinality(Starts(s, len) \cup {x}) = Cardinality(Starts(s, len)) + 1
        BY SMTT(60), ZenonT(60), <2>1, OneMore
      <3>2. QED
        BY <2>2, <3>1
    <2>5. Cardinality(Ends(s, len) \cup {len + w}) = Cardinality(Ends(s, len)) + 1
      <3>1. \A x : x \notin Ends(s, len) =>
               Cardinality(Ends(s, len) \cup {x}) = Cardinality(Ends(s, len)) + 1
        BY SMTT(60), ZenonT(60), <2>1, OneMore
      <3>2. QED
        BY <2>2, <3>1
    <2>6. QED
      BY <1>10, <1>11, <2>3, <2>4, <2>5
  <1>14. ASSUME NEW j \in 0 .. n + 1
         PROVE  Cardinality(Ends(t, g[j])) = j
    <2>1. CASE j = n + 1
      BY SMTT(60), ZenonT(60), <1>6, <1>13, <2>1
    <2>2. CASE j # n + 1
      <3>1. j \in 0 .. n
        BY <1>1, <2>2
      <3>2. g[j] = f[j] /\ Ends(t, f[j]) = Ends(s, f[j]) /\ Cardinality(Ends(s, f[j])) = j
        BY <1>4, <1>6, <1>12, <3>1
      <3>3. QED
        BY <3>2
    <2>3. QED
      BY <2>1, <2>2
  <1>15. n + 1 \in 0 .. Len(d)
    BY SMTT(60), ZenonT(60), <1>1
  <1>16. Cut(t, d, n + 1, g)
    BY ZenonT(60), SMTT(60), <1>6, <1>7, <1>9, <1>13, <1>14, <1>15 DEF Cut
  <1>17. QED
    BY SMTT(60), ZenonT(60), <1>6, <1>16 DEF t, ps, p

-----------------------------------------------------------------------------
(* The Reassembler. *)

\* What the packets a + 1 to b mean.
Meanings(d, a, b) == [i \in 1 .. b - a |-> Meant(d[a + i])]

LEMMA MeaningsType ==
  ASSUME NEW d, NEW a \in Nat, NEW b \in Nat, a <= b
  PROVE  /\ Meanings(d, a, b) \in Seq({Meant(d[i]) : i \in 1 .. b})
         /\ Len(Meanings(d, a, b)) = b - a
         /\ \A i \in 1 .. b - a : Meanings(d, a, b)[i] = Meant(d[a + i])
  <1>1. b - a \in Nat /\ \A i \in 1 .. b - a : a + i \in 1 .. b
    OBVIOUS
  <1>2. /\ DOMAIN Meanings(d, a, b) = 1 .. b - a
        /\ \A i \in 1 .. b - a : Meanings(d, a, b)[i] = Meant(d[a + i])
    BY DEF Meanings
  <1>3. Meanings(d, a, b) \in [1 .. b - a -> {Meant(d[i]) : i \in 1 .. b}]
    BY <1>1 DEF Meanings
  <1>4. Meanings(d, a, b) \in Seq({Meant(d[i]) : i \in 1 .. b})
    BY SMTT(60), <1>1, <1>3
  <1>5. QED
    <2>1. b - a \in Nat
      BY <1>1
    <2> DEFINE x == Meanings(d, a, b)
               T == {Meant(d[i]) : i \in 1 .. b}
    <2>2. x \in Seq(T) /\ DOMAIN x = 1 .. b - a
      BY <1>2, <1>4
    <2> HIDE DEF x, T
    <2>3. Len(x) = b - a
      BY <2>1, <2>2
    <2>4. QED
      BY <1>2, <1>4, <2>3 DEF x

LEMMA MeaningsJoin ==
  ASSUME NEW d, NEW a \in Nat, NEW b \in Nat, NEW c \in Nat, a <= b, b <= c
  PROVE  Meanings(d, a, b) \o Meanings(d, b, c) = Meanings(d, a, c)
  <1> DEFINE x == Meanings(d, a, b)
             y == Meanings(d, b, c)
             z == Meanings(d, a, c)
             S == {Meant(d[i]) : i \in 1 .. c}
  <1>1. /\ Len(x) = b - a /\ \A i \in 1 .. b - a : x[i] = Meant(d[a + i])
        /\ Len(y) = c - b /\ \A i \in 1 .. c - b : y[i] = Meant(d[b + i])
        /\ Len(z) = c - a /\ \A i \in 1 .. c - a : z[i] = Meant(d[a + i])
    <2>1. a <= c
      OBVIOUS
    <2>2. Len(x) = b - a /\ \A i \in 1 .. b - a : x[i] = Meant(d[a + i])
      BY MeaningsType
    <2>3. Len(y) = c - b /\ \A i \in 1 .. c - b : y[i] = Meant(d[b + i])
      BY MeaningsType
    <2>4. Len(z) = c - a /\ \A i \in 1 .. c - a : z[i] = Meant(d[a + i])
      BY <2>1, MeaningsType
    <2>5. QED
      BY <2>2, <2>3, <2>4
  <1>2. x \in Seq(S) /\ y \in Seq(S) /\ z \in Seq(S)
    <2>1. x \in Seq({Meant(d[i]) : i \in 1 .. b}) /\ y \in Seq(S) /\ z \in Seq(S)
      BY SMTT(60), MeaningsType
    <2>2. {Meant(d[i]) : i \in 1 .. b} \subseteq S
      OBVIOUS
    <2>3. \A T \in SUBSET S : \A q \in Seq(T) : q \in Seq(S)
      OBVIOUS
    <2>4. QED
      BY <2>1, <2>2, <2>3
  <1> HIDE DEF x, y, z, S
  <1>3. x \o y \in Seq(S) /\ Len(x \o y) = c - a
    BY <1>1, <1>2
  <1>4. ASSUME NEW i \in 1 .. c - a PROVE (x \o y)[i] = z[i]
    <2>1. CASE i \in 1 .. b - a
      BY SMTT(60), ZenonT(60), <1>1, <1>2, <2>1
    <2>2. CASE i \notin 1 .. b - a
      <3>1. (i - (b - a)) \in 1 .. c - b /\ b + (i - (b - a)) = a + i
        BY <2>2
      <3>2. (x \o y)[i] = y[i - (b - a)]
        <4>1. Len(x) = b - a /\ Len(y) = c - b /\ x \in Seq(S) /\ y \in Seq(S)
          BY <1>1, <1>2
        <4>2. i \in 1 .. Len(x) + Len(y) /\ i > Len(x)
          BY <2>2, <4>1
        <4>3. (x \o y)[i] = y[i - Len(x)]
          BY SMTT(60), ZenonT(60), <4>1, <4>2
        <4>4. QED
          BY <4>1, <4>3
      <3>3. QED
        BY <1>1, <3>1, <3>2
    <2>3. QED
      BY <2>1, <2>2
  <1>5. x \o y = z
    BY <1>1, <1>2, <1>3, <1>4, SeqEqual
  <1>6. QED
    BY <1>5 DEF x, y, z

\* The loop of push with the packets m + 1 to j given, when e pieces have come.
Loop(s, d, f, m, e, j) ==
  [left |-> SubSeq(s, f[j] + 1, e), out |-> Meanings(d, m, j)]

\* What is left then.
LEMMA LeftFacts ==
  ASSUME NEW s \in Seq(Unit), NEW d, NEW n, NEW f, Cut(s, d, n, f),
         NEW e \in 0 .. Len(s), NEW j \in 0 .. n, f[j] <= e
  PROVE  LET us == SubSeq(s, f[j] + 1, e) IN
         /\ us \in Seq({u \in Unit : Weight(u) \in Nat})
         /\ Len(us) = e - f[j] /\ f[j] \in Nat
         /\ \A i \in 1 .. e - f[j] : us[i] = s[f[j] + i]
         /\ \A i \in 1 .. e - f[j] : j < n /\ i <= Len(Pieces(d[j + 1]))
                                   => us[i] = Piece(d[j + 1], i)
  <1> DEFINE us == SubSeq(s, f[j] + 1, e)
             R == {u \in Unit : Weight(u) \in Nat}
  <1>1. f[j] \in 0 .. Len(s) /\ f[j] \in Nat /\ Len(s) \in Nat /\ n \in Nat
    BY DEF Cut
  <1>2. \A i \in 1 .. Len(s) : s[i] \in R
    BY SMTT(60), ZenonT(60) DEF Cut
  <1>3. Len(us) = e - f[j] /\ \A i \in 1 .. e - f[j] : us[i] = s[f[j] + i] /\ f[j] + i \in 1 .. Len(s)
    <2>1. \A a \in Nat : a <= e =>
             /\ Len(SubSeq(s, a + 1, e)) = e - a
             /\ \A i \in 1 .. e - a : SubSeq(s, a + 1, e)[i] = s[a + i]
             /\ \A k \in 1 .. e - a : a + k \in 1 .. Len(s)
      BY <1>1
    <2>2. QED
      BY <1>1, <2>1
  <1>4. us \in Seq(R)
    <2>1. us \in Seq(Unit) /\ Len(us) \in Nat /\ \A i \in 1 .. Len(us) : us[i] \in R
      <3>1. us \in Seq(Unit)
        BY <1>1
      <3>2. Len(us) \in Nat
        BY SMTT(60), ZenonT(60), <1>1, <1>3
      <3> HIDE DEF us, R
      <3>3. \A i \in 1 .. Len(us) : us[i] \in R
        BY <1>2, <1>3
      <3>4. QED
        BY <3>1, <3>2, <3>3
    <2> HIDE DEF us, R
    <2>2. us = [i \in 1 .. Len(us) |-> us[i]]
      BY <2>1
    <2>3. QED
      BY <2>1, <2>2
  <1>5. ASSUME NEW i \in 1 .. e - f[j], j < n, i <= Len(Pieces(d[j + 1]))
        PROVE  us[i] = Piece(d[j + 1], i)
    <2>1. j + 1 \in 1 .. n /\ (j + 1) - 1 = j
      BY <1>1, <1>5
    <2>2. \A k \in 1 .. Len(Pieces(d[j + 1])) : s[f[(j + 1) - 1] + k] = Piece(d[j + 1], k)
      BY <2>1 DEF Cut
    <2>3. i \in 1 .. Len(Pieces(d[j + 1]))
      <3>1. Len(Pieces(d[j + 1])) \in Nat
        BY DEF Pieces
      <3>2. QED
        BY <1>1, <1>5, <3>1
    <2>4. QED
      BY <1>3, <2>1, <2>2, <2>3
  <1>6. QED
    BY <1>1, <1>3, <1>4, <1>5

\* A round that finds the start of a packet and not yet all of it changes nothing.
LEMMA RoundKeeps ==
  ASSUME NEW r, ~ (Weigh(r.left) < 4), r.left[1].part = 1,
         ~ (SizeOf(r.left[1]) < 4), ~ (SizeOf(r.left[1]) > 4096),
         Weigh(r.left) < SizeOf(r.left[1])
  PROVE  PushRound(r) = r
  <1> DEFINE u == r.left[1]
             few == Weigh(r.left) < 4
             wrong == u.part # 1 \/ SizeOf(u) < 4 \/ SizeOf(u) > 4096
             short == Weigh(r.left) < SizeOf(u)
             taken == [left |-> Rest(r.left, Len(Pieces(u))),
                       out  |-> r.out \o decodePacket(u, Weigh(r.left))]
  <1>1. ~ few /\ ~ wrong /\ short
    OBVIOUS
  <1>2. PushRound(r) = IF few THEN r
                       ELSE IF wrong THEN [r EXCEPT !.left = <<>>]
                       ELSE IF short THEN r ELSE taken
    BY DEF PushRound
  <1> HIDE DEF few, wrong, short, taken
  <1>3. QED
    BY <1>1, <1>2

\* A round with less than the next packet at hand changes nothing.
LEMMA RoundWaits ==
  ASSUME NEW s \in Seq(Unit), NEW d, NEW n, NEW f, Cut(s, d, n, f),
         \A i \in 1 .. n : ReadAlone(d[i]),
         NEW e \in 0 .. Len(s), NEW m, NEW j \in 0 .. n, f[j] <= e,
         j = n \/ e < f[j + 1]
  PROVE  PushRound(Loop(s, d, f, m, e, j)) = Loop(s, d, f, m, e, j)
  <1> DEFINE r == Loop(s, d, f, m, e, j)
             us == SubSeq(s, f[j] + 1, e)
             R == {u \in Unit : Weight(u) \in Nat}
             left == e - f[j]
             weigh == Weigh(us)
  <1>1. r.left = us
    BY DEF Loop
  <1>2. /\ us \in Seq(R) /\ Len(us) = left /\ f[j] \in Nat
        /\ \A i \in 1 .. left : j < n /\ i <= Len(Pieces(d[j + 1])) => us[i] = Piece(d[j + 1], i)
    BY SMTT(60), LeftFacts
  <1>3. left \in Nat
    <2>1. Len(s) \in Nat
      OBVIOUS
    <2>2. QED
      BY SMTT(60), ZenonT(60), <1>2, <2>1
  <1>4. \A u \in R : Weight(u) \in Nat
    OBVIOUS
  <1> HIDE DEF us, R
  <1>5. /\ weigh \in Nat
        /\ left = 0 => weigh = 0
        /\ left = 1 => weigh = Weight(us[1])
        /\ left = 2 => weigh = Weight(us[1]) + Weight(us[2])
    BY <1>2, <1>4, WeighsAtLeast
  <1> HIDE DEF weigh
  <1>6. CASE left = 0
    <2>1. weigh < 4
      BY SMTT(30), <1>5, <1>6
    <2>2. QED
      BY <1>1, <2>1 DEF PushRound, weigh
  <1>7. CASE left # 0
    <2> DEFINE p == d[j + 1]
               w == Len(Pieces(p))
               size == SizeOf(p)
               a == f[j]
    <2>1. j < n /\ j + 1 \in 1 .. n /\ (j + 1) - 1 = j
      <3>1. n \in Nat /\ (j = n => e = f[j])
        BY DEF Cut
      <3>2. j # n
        BY <1>2, <1>7, <3>1
      <3>3. QED
        BY <3>1, <3>2
    <2>2. e < a + w /\ a \in Nat /\ e \in Nat
      <3>1. f[j + 1] = f[j] + w /\ e < f[j + 1]
        BY <2>1 DEF Cut
      <3>2. QED
        BY <1>2, <3>1
    <2>3. \A i \in 1 .. left : i <= w => us[i] = Piece(p, i)
      BY <1>2, <2>1
    <2>4. SizeOf(p) \in Header .. 4096
      BY SMTT(60), <2>1 DEF ReadAlone
    <2> HIDE DEF p
    <2>5. size \in 4 .. 4096
      BY <2>4 DEF Header
    <2>6. w \in {2, 3} /\ (w = 2 <=> size = 4)
      BY <2>4, PiecesFacts
    <2>7. Weight(Piece(p, 1)) = 2 /\ Weight(Piece(p, 2)) = 2
      BY <2>4, PiecesFacts
    <2> HIDE DEF w, size, a
    <2>8. left < w
      <3>1. left = e - a
        BY DEF a
      <3>2. QED
        BY <2>2, <2>6, <3>1
    <2> HIDE DEF left
    <2>9. left \in {1, 2} /\ (left = 2 => size # 4)
      <3>1. left \in Nat
        BY <1>3
      <3>2. left \in 1 .. w - 1
        BY SMTT(60), ZenonT(60), <1>7, <2>6, <2>8, <3>1
      <3>3. QED
        BY <2>6, <3>2
    <2>10. us[1] = Piece(p, 1) /\ (left = 2 => us[2] = Piece(p, 2))
      <3>1. 1 \in 1 .. left /\ 1 <= w
        BY <2>6, <2>9
      <3>2. left = 2 => 2 \in 1 .. left /\ 2 <= w
        BY <2>6
      <3>3. QED
        BY <2>3, <3>1, <3>2
    <2>11. /\ left = 1 => weigh = 2
           /\ left = 2 => weigh = 4
      <3>1. Weight(us[1]) = 2 /\ (left = 2 => Weight(us[2]) = 2)
        BY <2>7, <2>10
      <3>2. QED
        BY <1>5, <3>1
    <2>12. SizeOf(us[1]) = size /\ us[1].part = 1
      BY SMTT(60), ZenonT(60), <2>10, PieceFacts DEF size
    <2>13. \/ weigh < 4
           \/ ~ (weigh < 4) /\ ~ (size < 4) /\ ~ (size > 4096) /\ weigh < size
      BY <2>5, <2>9, <2>11
    <2>14. CASE weigh < 4
      BY <1>1, <2>14 DEF PushRound, weigh
    <2>15. CASE ~ (weigh < 4) /\ ~ (size < 4) /\ ~ (size > 4096) /\ weigh < size
      <3>1. /\ ~ (Weigh(r.left) < 4) /\ ~ (SizeOf(r.left[1]) < 4)
            /\ ~ (SizeOf(r.left[1]) > 4096) /\ Weigh(r.left) < SizeOf(r.left[1])
            /\ r.left[1].part = 1
        BY <1>1, <2>12, <2>15 DEF weigh
      <3>2. QED
        BY <3>1, RoundKeeps
    <2>16. QED
      BY <2>13, <2>14, <2>15
  <1>8. QED
    BY <1>6, <1>7

\* A round with the whole of the next packet at hand gives it, and no more.
LEMMA RoundTakes ==
  ASSUME NEW s \in Seq(Unit), NEW d, NEW n, NEW f, Cut(s, d, n, f),
         \A i \in 1 .. n : ReadAlone(d[i]),
         NEW e \in 0 .. Len(s), NEW m \in Nat, NEW j \in 0 .. n, m <= j,
         j # n, f[j + 1] <= e
  PROVE  PushRound(Loop(s, d, f, m, e, j)) = Loop(s, d, f, m, e, j + 1)
  <1> DEFINE r == Loop(s, d, f, m, e, j)
             us == SubSeq(s, f[j] + 1, e)
             R == {u \in Unit : Weight(u) \in Nat}
             p == d[j + 1]
             w == Len(Pieces(p))
             left == e - f[j]
             weigh == Weigh(us)
             size == SizeOf(us[1])
  <1>1. r.left = us /\ r.out = Meanings(d, m, j)
    BY DEF Loop
  <1>2. n \in Nat /\ j + 1 \in 1 .. n /\ (j + 1) - 1 = j /\ j < n /\ j \in Nat
    BY DEF Cut
  <1>3. ReadAlone(p) /\ SizeOf(p) \in Header .. 4096
    BY SMTT(60), ZenonT(60), <1>2 DEF ReadAlone
  <1>4. /\ w \in {2, 3} /\ (w = 2 <=> SizeOf(p) = 4)
        /\ Weight(Piece(p, 1)) = 2 /\ Weight(Piece(p, 2)) = 2
        /\ Weight(Piece(p, 3)) = SizeOf(p) - 4
    BY <1>3, PiecesFacts
  <1>5. f[j + 1] = f[j] + w /\ f[j] \in 0 .. Len(s) /\ f[j + 1] \in 0 .. Len(s) /\ Len(s) \in Nat
    BY <1>2 DEF Cut
  <1>6. f[j] <= e /\ w <= left /\ left \in Nat
    <2> HIDE DEF w
    <2> DEFINE a == f[j]
               b == f[j + 1]
    <2>1. /\ b = a + w /\ b <= e /\ w \in {2, 3}
          /\ a \in 0 .. Len(s) /\ e \in 0 .. Len(s) /\ Len(s) \in Nat
      BY <1>4, <1>5
    <2> HIDE DEF a, b
    <2>2. a <= e /\ w <= e - a /\ e - a \in Nat
      BY <2>1
    <2>3. QED
      BY <2>2 DEF a
  <1>7. /\ us \in Seq(R) /\ Len(us) = left
        /\ \A i \in 1 .. left : i <= w => us[i] = Piece(p, i)
    <2>1. /\ us \in Seq(R) /\ Len(us) = left
          /\ \A i \in 1 .. left : j < n /\ i <= Len(Pieces(d[j + 1])) => us[i] = Piece(d[j + 1], i)
      BY SMTT(120), <1>6, LeftFacts
    <2>2. QED
      BY <1>2, <2>1
  <1>8. \A u \in R : Weight(u) \in Nat
    OBVIOUS
  <1> HIDE DEF r, us, R, p, w, left
  <1>9. us[1] = Piece(p, 1) /\ us[2] = Piece(p, 2) /\ (w = 3 => us[3] = Piece(p, 3))
    BY <1>4, <1>6, <1>7
  <1>10. /\ weigh \in Nat
         /\ left >= 2 => weigh >= Weight(us[1]) + Weight(us[2])
         /\ left >= 3 => weigh >= (Weight(us[1]) + Weight(us[2])) + Weight(us[3])
    BY <1>7, <1>8, WeighsAtLeast
  <1>11. size = SizeOf(p) /\ us[1].part = 1 /\ Len(Pieces(us[1])) = w
    BY <1>9, PieceFacts DEF w
  <1>12. size \in 4 .. 4096
    BY <1>3, <1>11 DEF Header
  <1>13. weigh >= size
    <2>1. (w = 2 <=> size = 4) /\ (w = 3 => Weight(us[3]) = size - 4)
      BY <1>4, <1>9, <1>11
    <2> HIDE DEF weigh, size
    <2>2. Weight(us[1]) = 2 /\ Weight(us[2]) = 2
      BY <1>4, <1>9
    <2>3. CASE w = 2
      BY SMTT(60), ZenonT(60), <1>6, <1>10, <2>1, <2>2, <2>3
    <2>4. CASE w = 3
      BY <1>6, <1>10, <1>12, <2>1, <2>2, <2>4
    <2>5. QED
      BY <1>4, <2>3, <2>4
  <1>14. decodePacket(us[1], weigh) = <<Meant(p)>>
    <2>1. weigh >= SizeOf(p)
      BY <1>11, <1>13
    <2> HIDE DEF weigh
    <2>2. QED
      BY <1>3, <1>9, <1>10, <2>1, DecodeAnywhere
  <1>15. PushRound(r) = [left |-> Rest(us, w), out |-> Meanings(d, m, j) \o <<Meant(p)>>]
    <2> HIDE DEF weigh, size
    <2>1. ~ (weigh < 4) /\ ~ (size < 4) /\ ~ (size > 4096) /\ ~ (weigh < size)
      BY <1>10, <1>12, <1>13
    <2>2. PushRound(r) = [left |-> Rest(us, Len(Pieces(us[1]))),
                          out |-> r.out \o decodePacket(us[1], weigh)]
      BY <1>1, <1>11, <2>1 DEF PushRound, weigh, size
    <2>3. QED
      BY <1>1, <1>11, <1>14, <2>2
  <1>16. Rest(us, w) = SubSeq(s, f[j + 1] + 1, e)
    <2>1. \A a \in Nat, v \in Nat : a + v <= e =>
             LET q == SubSeq(s, a + 1, e) IN
             SubSeq(q, v + 1, Len(q)) = SubSeq(s, (a + v) + 1, e)
      <3> SUFFICES ASSUME NEW a \in Nat, NEW v \in Nat, a + v <= e
                   PROVE  LET q == SubSeq(s, a + 1, e) IN
                          SubSeq(q, v + 1, Len(q)) = SubSeq(s, (a + v) + 1, e)
        OBVIOUS
      <3> DEFINE q == SubSeq(s, a + 1, e)
                 x == SubSeq(q, v + 1, Len(q))
                 y == SubSeq(s, (a + v) + 1, e)
      <3>1. /\ q \in Seq(Unit) /\ Len(q) = e - a
            /\ \A i \in 1 .. e - a : q[i] = s[a + i]
        BY <1>5
      <3>2. /\ y \in Seq(Unit) /\ Len(y) = e - (a + v)
            /\ \A i \in 1 .. e - (a + v) : y[i] = s[(a + v) + i]
        BY <1>5
      <3> HIDE DEF q, y
      <3>3. /\ x \in Seq(Unit) /\ Len(x) = e - (a + v)
            /\ \A i \in 1 .. e - (a + v) : x[i] = q[v + i]
        BY <3>1
      <3>4. \A i \in 1 .. e - (a + v) : v + i \in 1 .. e - a /\ a + (v + i) = (a + v) + i
        OBVIOUS
      <3> HIDE DEF x
      <3>5. \A i \in 1 .. Len(x) : x[i] = y[i]
        BY SMTT(60), ZenonT(60), <3>1, <3>2, <3>3, <3>4
      <3>6. x = y
        BY <3>2, <3>3, <3>5, SeqEqual
      <3>7. QED
        BY <3>6 DEF x, y, q
    <2>2. f[j] \in Nat /\ w \in Nat /\ f[j] + w <= e
      BY <1>4, <1>5
    <2>3. QED
      BY ZenonT(60), <1>5, <2>1, <2>2 DEF Rest, us
  <1>17. Meanings(d, m, j) \o <<Meant(p)>> = Meanings(d, m, j + 1)
    <2>1. Meanings(d, j, j + 1) = <<Meant(p)>>
      <3>1. Meanings(d, j, j + 1) = [i \in 1 .. 1 |-> Meant(d[j + i])]
        BY <1>2 DEF Meanings
      <3>2. [i \in 1 .. 1 |-> Meant(d[j + i])] = [i \in 1 .. 1 |-> Meant(p)]
        BY DEF p
      <3>3. QED
        BY <3>1, <3>2
    <2>2. m <= j /\ j <= j + 1 /\ j + 1 \in Nat
      BY <1>2
    <2>3. \A c \in Nat : j <= c => Meanings(d, m, j) \o Meanings(d, j, c) = Meanings(d, m, c)
      BY ZenonT(60), <1>2, MeaningsJoin
    <2>4. QED
      BY <2>1, <2>2, <2>3
  <1>18. QED
    BY <1>15, <1>16, <1>17 DEF Loop, r

Gives(s, d, n, f, e, m) ==
  \E j \in m .. n : /\ f[j] <= e /\ (j = n \/ e < f[j + 1])
                   /\ Reassemble(SubSeq(s, f[m] + 1, e)) = {Loop(s, d, f, m, e, j)}

\* The loop gives every packet that is whole, and leaves the pieces behind them.
LEMMA ReassembleGives ==
  ASSUME NEW s \in Seq(Unit), NEW d, NEW n, NEW f, Cut(s, d, n, f),
         \A i \in 1 .. n : ReadAlone(d[i]),
         NEW e \in 0 .. Len(s), NEW m \in 0 .. n, f[m] <= e
  PROVE  Gives(s, d, n, f, e, m)
  <1> DEFINE us == SubSeq(s, f[m] + 1, e)
             S == DOMAIN us
             start == {[left |-> us, out |-> <<>>]}
             Chain(g) == g = [T \in SUBSET S |->
                                IF T = {} THEN start
                                ELSE {PushRound(r) : r \in g[T \ {Max(T)}]}]
             chain == CHOOSE g : Chain(g)
             Reached == {j \in m .. n : f[j] <= e}
             loop == [j \in m .. n |-> {Loop(s, d, f, m, e, j)}]
             V == {loop[j] : j \in Reached}
             take == [u \in Unit |-> [v \in V |-> {PushRound(r) : r \in v}]]
             Stopped(j) == j = n \/ e < f[j + 1]
  <1>1. /\ n \in Nat /\ m \in Nat /\ m \in m .. n /\ Len(s) \in Nat /\ e \in Nat
        /\ \A j \in m .. n : j \in 0 .. n /\ j \in Nat /\ m <= j
        /\ \A j \in 0 .. n : f[j] \in Nat
    <2>1. n \in Nat /\ \A j \in 0 .. n : f[j] \in 0 .. Len(s)
      BY DEF Cut
    <2>2. QED
      BY <2>1
  <1>2. us \in Seq(Unit) /\ Len(us) = e - f[m]
    <2>1. f[m] \in Nat /\ m \in 0 .. n
      BY <1>1
    <2>2. us \in Seq({u \in Unit : Weight(u) \in Nat}) /\ Len(us) = e - f[m]
      BY <2>1, LeftFacts
    <2>3. {u \in Unit : Weight(u) \in Nat} \subseteq Unit
      OBVIOUS
    <2> HIDE DEF us
    <2>4. QED
      BY <2>2, <2>3
  <1>3. start = loop[m] /\ start \in V
    <2>1. Meanings(d, m, m) = <<>>
      <3>1. m - m = 0 /\ 1 .. 0 = {}
        BY <1>1
      <3>2. [i \in {} |-> Meant(d[m + i])] = <<>>
        OBVIOUS
      <3>3. QED
        BY <3>1, <3>2 DEF Meanings
    <2>2. loop[m] = start
      BY <1>1, <2>1 DEF Loop
    <2> HIDE DEF loop, start
    <2>3. m \in Reached
      BY <1>1
    <2>4. QED
      BY <2>2, <2>3
  <1>4. ASSUME NEW j \in Reached, Stopped(j)
        PROVE  {PushRound(r) : r \in loop[j]} = loop[j]
    <2>1. PushRound(Loop(s, d, f, m, e, j)) = Loop(s, d, f, m, e, j)
      BY SMTT(60), <1>1, <1>4, RoundWaits
    <2>2. loop[j] = {Loop(s, d, f, m, e, j)}
      OBVIOUS
    <2>3. QED
      BY <2>1, <2>2
  <1>5. ASSUME NEW j \in Reached, ~ Stopped(j)
        PROVE  /\ {PushRound(r) : r \in loop[j]} = loop[j + 1] /\ j + 1 \in Reached
               /\ f[j + 1] >= f[j] + 1
    <2>1. j + 1 \in m .. n /\ j + 1 \in 1 .. n /\ (j + 1) - 1 = j
      BY <1>1, <1>5
    <2>2. f[j + 1] = f[j] + Len(Pieces(d[j + 1])) /\ f[j + 1] \in Nat /\ f[j] \in Nat
      <3>1. f[j + 1] \in Nat /\ f[j] \in Nat
        BY <1>1, <2>1
      <3>2. QED
        BY <2>1, <3>1 DEF Cut
    <2>3. f[j + 1] <= e
      BY <1>1, <1>5, <2>2
    <2>4. Len(Pieces(d[j + 1])) \in {2, 3}
      <3>1. SizeOf(d[j + 1]) \in Header .. 4096
        BY <2>1 DEF ReadAlone
      <3>2. QED
        BY <3>1, PiecesFacts
    <2>5. f[j + 1] >= f[j] + 1
      <3> DEFINE w == Len(Pieces(d[j + 1]))
      <3>1. f[j + 1] = f[j] + w /\ w \in {2, 3} /\ f[j] \in Nat
        BY <2>2, <2>4
      <3> HIDE DEF w
      <3>2. QED
        BY SMTT(60), ZenonT(60), <3>1
    <2>6. PushRound(Loop(s, d, f, m, e, j)) = Loop(s, d, f, m, e, j + 1)
      BY SMTT(120), <1>1, <1>5, <2>3, RoundTakes
    <2>7. loop[j] = {Loop(s, d, f, m, e, j)} /\ loop[j + 1] = {Loop(s, d, f, m, e, j + 1)}
      BY <2>1
    <2>8. j + 1 \in Reached
      BY <2>1, <2>3
    <2> HIDE DEF loop
    <2>9. QED
      BY <2>5, <2>6, <2>7, <2>8
  <1> HIDE DEF loop, Reached, start
  <1>6. \A v \in V : {PushRound(r) : r \in v} \in V
    BY <1>4, <1>5
  <1>7. \A u \in Unit : \A v \in V : take[u][v] = {PushRound(r) : r \in v}
    OBVIOUS
  <1>8. \A T \in SUBSET S : T # {} => us[Max(T)] \in Unit /\ T \ {Max(T)} \in SUBSET S
    <2>1. S = 1 .. Len(us) /\ Len(us) \in Nat
      BY <1>2
    <2>2. \A T \in SUBSET S : T # {} => Max(T) \in T
      BY <2>1, MaxOfPlaces
    <2>3. \A i \in S : us[i] \in Unit
      BY SMTT(60), ZenonT(60), <1>2
    <2> HIDE DEF us
    <2>4. QED
      BY <2>2, <2>3
  <1> HIDE DEF take, us, V
  <1>9. PICK g : IsSequenceFold(g, us, start, take) /\ \A T \in SUBSET S : g[T] \in V
    <2>1. \A u \in Unit : \A v \in V : take[u][v] \in V
      BY ZenonT(60), SMTT(60), <1>6, <1>7
    <2>2. QED
      BY <1>2, <1>3, <2>1, SequenceFoldExists
  <1>10. Chain(g)
    <2> HIDE DEF S
    <2>1. \A T \in SUBSET S : T # {} => take[us[Max(T)]][g[T \ {Max(T)}]]
                                        = {PushRound(r) : r \in g[T \ {Max(T)}]}
      BY <1>7, <1>8, <1>9
    <2>2. QED
      BY ZenonT(60), SMTT(60), <1>9, <2>1 DEF IsSequenceFold, S
  <1>11. Chain(chain)
    BY <1>10
  <1>12. Reassemble(us) = chain[S]
    BY DEF Reassemble, FoldLeft, MapThenFoldSet, start
  <1>13. S = 1 .. Len(us) /\ Len(us) \in Nat
    BY <1>2
  <1>14. chain[1 .. 0] = start
    <2>1. 1 .. 0 = {} /\ {} \in SUBSET S
      OBVIOUS
    <2> HIDE DEF chain
    <2>2. QED
      BY <1>11, <2>1
  <1>15. ASSUME NEW k \in 1 .. Len(us)
         PROVE  chain[1 .. k] = {PushRound(r) : r \in chain[1 .. (k - 1)]}
    <2>1. /\ 1 .. k \in SUBSET S /\ 1 .. k # {}
          /\ (1 .. k) \ {Max(1 .. k)} = 1 .. (k - 1)
      BY SMTT(60), ZenonT(60), <1>13, FirstPlaces
    <2> DEFINE T == 1 .. k
    <2>2. T \in SUBSET S /\ T # {} /\ T \ {Max(T)} = 1 .. (k - 1)
      BY <2>1
    <2> HIDE DEF chain, S, T
    <2>3. chain[T] = {PushRound(r) : r \in chain[T \ {Max(T)}]}
      BY <1>11, <2>2
    <2>4. QED
      BY <2>2, <2>3 DEF T
  <1> HIDE DEF chain, Stopped
  <1> DEFINE Done(k, j) == chain[1 .. k] = loop[j] /\ (Stopped(j) \/ f[j] >= f[m] + k)
             Rounds == {k \in Nat : \E j \in Reached : Done(k, j)}
  <1>16. \A j \in Reached : f[j] \in Nat /\ j \in m .. n /\ f[j] <= e
    BY <1>1 DEF Reached
  <1>17. 0 \in Rounds
    <2>1. m \in Reached /\ f[m] >= f[m] + 0
      BY <1>1 DEF Reached
    <2>2. QED
      BY <1>3, <1>14, <2>1
  <1>18. ASSUME NEW k \in 1 .. Len(us), k - 1 \in Rounds
         PROVE  k \in Rounds
    <2>1. PICK j \in Reached : Done(k - 1, j)
      BY <1>18
    <2>2. chain[1 .. k] = {PushRound(r) : r \in loop[j]}
      BY <1>15, <2>1
    <2>3. CASE Stopped(j)
      <3>1. Done(k, j)
        BY <1>4, <2>2, <2>3 DEF Stopped
      <3>2. QED
        BY <1>13, <3>1
    <2>4. CASE ~ Stopped(j)
      <3>1. /\ chain[1 .. k] = loop[j + 1] /\ j + 1 \in Reached
            /\ f[j + 1] >= f[j] + 1
        BY <1>5, <2>2, <2>4 DEF Stopped
      <3>2. f[j] >= f[m] + (k - 1)
        BY <2>1, <2>4
      <3>3. f[j + 1] >= f[m] + k
        <4>1. f[j] \in Nat /\ f[j + 1] \in Nat /\ f[m] \in Nat /\ k \in Nat
          BY SMTT(60), ZenonT(60), <1>1, <1>13, <1>16, <3>1
        <4>2. QED
          BY SMTT(120), <3>1, <3>2, <4>1
      <3>4. Done(k, j + 1)
        BY <3>1, <3>3
      <3> HIDE DEF Done
      <3>5. QED
        BY <1>13, <3>1, <3>4
    <2>5. QED
      BY <2>3, <2>4
  <1>19. Len(us) \in Rounds
    <2> HIDE DEF Rounds
    <2>1. \A k \in 0 .. Len(us) : k \in Rounds
      BY <1>13, <1>17, <1>18, UpToN
    <2>2. QED
      BY <1>13, <2>1
  <1>20. PICK j \in Reached : Done(Len(us), j)
    BY <1>19
  <1>21. chain[S] = loop[j] /\ j \in m .. n /\ f[j] <= e
    BY <1>13, <1>16, <1>20
  <1>22. j = n \/ e < f[j + 1]
    <2>1. CASE Stopped(j)
      BY <2>1 DEF Stopped
    <2>2. CASE ~ Stopped(j)
      <3>1. f[j] >= f[m] + (e - f[m])
        BY <1>2, <1>20, <2>2
      <3>2. f[j] >= e /\ f[j] \in Nat
        BY SMTT(60), ZenonT(60), <1>1, <1>16, <1>20, <3>1
      <3>3. f[j + 1] >= f[j] + 1 /\ j + 1 \in Reached
        BY <1>5, <1>20, <2>2 DEF Stopped
      <3>4. f[j + 1] \in Nat /\ f[j + 1] <= e
        BY <1>16, <3>3
      <3>5. QED
        BY <1>1, <3>2, <3>3, <3>4
    <2>3. QED
      BY <2>1, <2>2
  <1>23. loop[j] = {Loop(s, d, f, m, e, j)}
    BY <1>21 DEF loop
  <1>24. QED
    BY <1>12, <1>21, <1>22, <1>23 DEF us, Gives

\* What the page keeps something from, it kept before or has been given.
LEMMA KeepNames ==
  ASSUME NEW R, NEW out \in Seq(R), NEW had
  PROVE  Keep(had, out) \subseteq had \cup {out[i].name : i \in DOMAIN out}
  <1> DEFINE S == DOMAIN out
             Q == {out[i] : i \in S}
             V == SUBSET (had \cup {u.name : u \in Q})
             Kept(h, u) == (IF u.name = "S2C_ZONE_INFO" THEN h \ OfTheZone ELSE h) \cup {u.name}
             Chain(g) == g = [T \in SUBSET S |->
                                IF T = {} THEN had
                                ELSE Kept(g[T \ {Max(T)}], out[Max(T)])]
             chain == CHOOSE g : Chain(g)
             take == [u \in Q |-> [h \in V |-> Kept(h, u)]]
  <1>1. \A u \in Q : \A h \in V : Kept(h, u) \in V /\ take[u][h] = Kept(h, u)
    OBVIOUS
  <1>2. S = 1 .. Len(out) /\ Len(out) \in Nat /\ out \in Seq(Q)
    <2>1. S = 1 .. Len(out) /\ Len(out) \in Nat /\ out = [i \in 1 .. Len(out) |-> out[i]]
      OBVIOUS
    <2>2. \A i \in S : out[i] \in Q
      OBVIOUS
    <2> HIDE DEF S, Q
    <2>3. [i \in 1 .. Len(out) |-> out[i]] \in Seq(Q)
      BY <2>1, <2>2
    <2>4. QED
      BY <2>1, <2>3
  <1>3. \A T \in SUBSET S : T # {} => out[Max(T)] \in Q /\ T \ {Max(T)} \in SUBSET S
    <2>1. \A T \in SUBSET S : T # {} => Max(T) \in T
      BY <1>2, MaxOfPlaces
    <2>2. \A i \in S : out[i] \in Q
      OBVIOUS
    <2>3. QED
      BY <2>1, <2>2
  <1>4. had \in V
    OBVIOUS
  <1>5. Keep(had, out) = chain[S]
    BY DEF Keep, FoldLeft, MapThenFoldSet
  <1> HIDE DEF take, Kept, V, Q
  <1>6. PICK g : IsSequenceFold(g, out, had, take) /\ \A T \in SUBSET S : g[T] \in V
    <2>1. \A u \in Q : \A h \in V : take[u][h] \in V
      BY <1>1
    <2>2. QED
      BY <1>2, <1>4, <2>1, SequenceFoldExists
  <1>7. Chain(g)
    <2> HIDE DEF S
    <2>1. \A T \in SUBSET S : T # {} => take[out[Max(T)]][g[T \ {Max(T)}]]
                                        = Kept(g[T \ {Max(T)}], out[Max(T)])
      BY <1>1, <1>3, <1>6
    <2>2. QED
      BY ZenonT(60), SMTT(60), <1>6, <2>1 DEF IsSequenceFold, S
  <1>8. Chain(chain)
    BY <1>7
  <1> HIDE DEF chain
  <1>9. chain[{}] \in V
    BY <1>4, <1>8
  <1>10. ASSUME NEW T \in SUBSET S, T # {} /\ chain[T \ {Max(T)}] \in V
         PROVE  chain[T] \in V
    <2>1. chain[T] = Kept(chain[T \ {Max(T)}], out[Max(T)])
      BY <1>8, <1>10
    <2> HIDE DEF S
    <2>2. QED
      BY <1>1, <1>3, <1>10, <2>1
  <1>11. chain[DOMAIN out] \in V
    BY <1>2, <1>9, <1>10, SequenceFoldInvariant
  <1>12. QED
    BY <1>5, <1>11 DEF V, Q

-----------------------------------------------------------------------------
(* The page's lines, one after the other. *)

\* A line is begun when the ones before it are closed: only one is in use.
OneByOne == \A b, c \in Conn : b < c /\ bws[c] # "NONE" => bws[b] = "CLOSED"

InUse(c) == bws[c] \in {"CONNECTING", "OPEN"}

LEMMA OneInUse ==
  ASSUME OneByOne, NEW c \in Conn, InUse(c), NEW b \in Conn, b # c
  PROVE  ~ InUse(b)
  <1>1. b < c \/ c < b
    BY LinkAssumption
  <1>2. QED
    BY <1>1 DEF OneByOne, InUse

\* What is not about the stream downward, nor about a new line: at most, lines end.
Aside == /\ UNCHANGED <<dnSent, dnGot, script, buf, given, holds>>
         /\ \A b \in Conn : bws'[b] = bws[b] \/ (bws[b] # "NONE" /\ bws'[b] = "CLOSED")

\* A request of the player.
PageRequests(c) == PageAsks(c) \/ PageStopsToChat(c)

\* The page and the server have four kinds of steps that are not aside.
LEMMA StepsAside ==
  ASSUME RelayTypeOK, [LinkNext]_linkVars
  PROVE  \/ Aside /\ (UNCHANGED <<upSent, moving>> \/ \E c \in Conn : PageRequests(c))
         \/ \E c \in Conn : \/ PageOpens(c) \/ PageConnects(c) \/ ServerTells(c)
                            \/ \E n \in 1 .. Len(dnWire[c]) : PageGets(c, n)
  <1>1. CASE UNCHANGED linkVars
    BY <1>1 DEF Aside, linkVars, relayVars, webVars
  <1>2. ASSUME NEW c \in Conn, BrowserGone(c), UNCHANGED webVars
        PROVE  Aside /\ UNCHANGED <<upSent, moving>>
    BY <1>2 DEF BrowserGone, Aside, RelayTypeOK, down, up, webVars
  <1>3. ASSUME UNCHANGED <<script, buf, given, holds, bws, dnSent, dnGot>>
        PROVE  Aside
    BY <1>3 DEF Aside
  <1>4. ASSUME NEW c \in Conn, CarryOn(c)
        PROVE  \/ Aside /\ UNCHANGED <<upSent, moving>>
               \/ PageOpens(c) \/ \E n \in 1 .. Len(dnWire[c]) : PageGets(c, n)
    <2>1. CASE BrowserClosed(c) /\ UNCHANGED webVars
      BY <1>2, <2>1 DEF BrowserClosed
    <2>2. CASE /\ \/ Connection(c) \/ TcpConnected(c) \/ WsMessage(c) \/ UpArrives(c)
                  \/ TcpData(c) \/ TcpEnd(c) \/ TcpClosed(c) \/ WsClosed(c)
                  \/ WsCloseTimeout(c) \/ ServerSeesEnd(c)
               /\ UNCHANGED webVars
      <3>1. UNCHANGED bws /\ UNCHANGED <<dnSent, dnGot, upSent>>
        BY <2>2 DEF Connection, TcpConnected, WsMessage, UpArrives, TcpData, TcpEnd,
                    TcpClosed, WsClosed, WsCloseTimeout, WsGone, ServerSeesEnd,
                    ServerClose, ends, up, down
      <3>2. QED
        BY <1>3, <2>2, <3>1 DEF webVars
    <2>3. QED
      BY <1>4, <2>1, <2>2 DEF CarryOn
  <1>5. ASSUME NEW c \in Conn, LineLost(c) PROVE Aside /\ UNCHANGED <<upSent, moving>>
    <2>1. CASE BrowserGone(c)
      BY <1>2, <1>5, <2>1 DEF LineLost
    <2>2. CASE TcpError(c) \/ WsBreaks(c) \/ ServerClose(c)
      <3>1. UNCHANGED bws /\ UNCHANGED <<dnSent, dnGot, upSent>>
        BY <2>2 DEF TcpError, WsBreaks, WsGone, ServerClose, up, down
      <3>2. QED
        BY <1>3, <1>5, <3>1 DEF LineLost, webVars
    <2>3. QED
      BY <1>5, <2>1, <2>2 DEF LineLost
  <1>6. ASSUME NEW c \in Conn, PageRequests(c) PROVE Aside
    <2>1. \E u : BrowserSend(c, u) /\ UNCHANGED <<script, buf, given, holds>>
      BY <1>6 DEF PageRequests, PageAsks, PageStopsToChat
    <2>2. QED
      BY <1>3, <2>1 DEF BrowserSend, ends, down
  <1>7. QED
    BY <1>1, <1>4, <1>5, <1>6 DEF LinkNext, PageRequests

\* Only one line at a time stays so.
LEMMA StepOneByOne ==
  ASSUME RelayTypeOK, OneByOne, [LinkNext]_linkVars
  PROVE  OneByOne'
  <1>1. CASE Aside
    BY <1>1 DEF Aside, OneByOne
  <1>2. ASSUME NEW c \in Conn, PageConnects(c) PROVE OneByOne'
    <2>1. bws' = [bws EXCEPT ![c] = "CONNECTING"] /\ bws[c] = "NONE"
      BY <1>2 DEF PageConnects, Connect
    <2>2. \A b \in Conn : b < c => bws[b] = "CLOSED"
      BY <1>2 DEF PageConnects
    <2>3. \A b \in Conn : c < b => bws[b] = "NONE"
      BY <2>1 DEF OneByOne
    <2>4. \A b \in Conn : ~ (b < b) /\ \A a \in Conn : a < b => ~ (b < a)
      BY LinkAssumption
    <2>5. \A b \in Conn : bws'[b] = IF b = c THEN "CONNECTING" ELSE bws[b]
      BY <2>1 DEF RelayTypeOK
    <2>6. QED
      BY <2>1, <2>2, <2>3, <2>4, <2>5 DEF OneByOne
  <1>3. ASSUME NEW c \in Conn, PageOpens(c) PROVE OneByOne'
    <2>1. bws' = [bws EXCEPT ![c] = "OPEN"] /\ bws[c] = "CONNECTING"
      BY <1>3 DEF PageOpens, BrowserOpen
    <2>2. \A b \in Conn : c < b => bws[b] = "NONE"
      BY <2>1 DEF OneByOne
    <2>3. \A b \in Conn : bws'[b] = IF b = c THEN "OPEN" ELSE bws[b]
      BY <2>1 DEF RelayTypeOK
    <2>4. QED
      BY <2>1, <2>2, <2>3 DEF OneByOne
  <1>4. ASSUME NEW c \in Conn, ServerTells(c) \/ \E n \in 1 .. Len(dnWire[c]) : PageGets(c, n)
        PROVE  OneByOne'
    <2>1. UNCHANGED bws
      BY ZenonT(60), SMTT(60), <1>4 DEF ServerTells, ServerSend, PageGets, BrowserMessage, ends
    <2>2. QED
      BY SMTT(60), ZenonT(60), <2>1 DEF OneByOne
  <1>5. QED
    BY <1>1, <1>2, <1>3, <1>4, StepsAside

-----------------------------------------------------------------------------
(* What is on a line, and what the page has made of it. *)

\* The server has said the first packets of the script; those that have come
\* whole, up to the m-th, are given, and the buffer has what came behind them.
Cuts(c, f) == /\ Cut(dnSent[c], script.down, Told(c), f)
              /\ \A j \in 1 .. Told(c) : ReadAlone(script.down[j])

HasCome(c, f, m) ==
  /\ m \in 0 .. Told(c) /\ f[m] <= Len(dnGot[c])
  /\ m = Told(c) \/ Len(dnGot[c]) < f[m + 1]

OnLine(c, f, m) ==
  /\ Cuts(c, f) /\ HasCome(c, f, m)
  /\ given[c] = Meanings(script.down, 0, m)
  /\ bws[c] \in {"NONE", "CONNECTING"} => dnGot[c] = <<>>
  /\ bws[c] = "CONNECTING" => buf = <<>>
  /\ bws[c] = "OPEN" => buf = SubSeq(dnSent[c], f[m] + 1, Len(dnGot[c]))

LinkInv ==
  /\ script \in Script /\ OneByOne
  /\ given = [c \in Conn |-> given[c]]
  /\ \A c \in Conn : \E f, m : OnLine(c, f, m)

\* Nothing of what a line is about has changed, but that it may have ended.
LEMMA LineStays ==
  ASSUME NEW c \in Conn, NEW f, NEW m, OnLine(c, f, m),
         dnSent'[c] = dnSent[c], dnGot'[c] = dnGot[c], given'[c] = given[c],
         script' = script, bws'[c] = bws[c] \/ bws'[c] = "CLOSED",
         InUse(c) => buf' = buf
  PROVE  OnLine(c, f, m)'
  <1>1. Told(c)' = Told(c)
    BY DEF Told
  <1>2. Cuts(c, f)' /\ HasCome(c, f, m)'
    BY <1>1 DEF OnLine, Cuts, HasCome
  <1>3. QED
    BY <1>2 DEF OnLine, InUse

\* Steps aside leave all lines alone.
LEMMA StepAside ==
  ASSUME LinkInv, Aside, OneByOne'
  PROVE  LinkInv'
  <1>1. ASSUME NEW c \in Conn PROVE \E f, m : OnLine(c, f, m)'
    <2>1. PICK f, m : OnLine(c, f, m)
      BY DEF LinkInv
    <2>2. OnLine(c, f, m)'
      BY <2>1, LineStays DEF Aside
    <2>3. QED
      BY <2>2
  <1>2. QED
    BY <1>1 DEF LinkInv, Aside

\* A line that is not in use does not care for the buffer.
LEMMA OthersStay ==
  ASSUME LinkInv, NEW d \in Conn, ~ InUse(d),
         dnSent'[d] = dnSent[d], dnGot'[d] = dnGot[d], given'[d] = given[d],
         script' = script, bws'[d] = bws[d]
  PROVE  \E f, m : OnLine(d, f, m)'
  <1>1. PICK f, m : OnLine(d, f, m)
    BY DEF LinkInv
  <1>2. OnLine(d, f, m)'
    BY <1>1, LineStays
  <1>3. QED
    BY <1>2

\* A new line starts with an empty buffer.
LEMMA StepPageConnects ==
  ASSUME RelayTypeOK, LinkInv, OneByOne', NEW c \in Conn, PageConnects(c)
  PROVE  LinkInv'
  <1>1. /\ bws[c] = "NONE" /\ bws' = [bws EXCEPT ![c] = "CONNECTING"] /\ buf' = <<>>
        /\ UNCHANGED <<script, given, dnSent, dnGot>>
    BY DEF PageConnects, Connect, down
  <1>2. \A d \in Conn : bws'[d] = IF d = c THEN "CONNECTING" ELSE bws[d]
    BY <1>1 DEF RelayTypeOK
  <1>3. ASSUME NEW d \in Conn, d # c PROVE \E f, m : OnLine(d, f, m)'
    <2>1. InUse(c)'
      BY <1>2 DEF InUse
    <2>2. ~ InUse(d)'
      <3>1. d < c \/ c < d
        BY <1>3, LinkAssumption
      <3>2. QED
        BY <2>1, <3>1 DEF OneByOne, InUse
    <2>3. ~ InUse(d)
      BY <1>2, <1>3, <2>2 DEF InUse
    <2>4. QED
      BY <1>1, <1>2, <1>3, <2>3, OthersStay
  <1>4. \E f, m : OnLine(c, f, m)'
    <2>1. PICK f, m : OnLine(c, f, m)
      BY DEF LinkInv
    <2>2. Told(c)' = Told(c) /\ dnGot'[c] = <<>>
      BY <1>1, <2>1 DEF Told, OnLine
    <2>3. Cuts(c, f)' /\ HasCome(c, f, m)'
      BY <1>1, <2>1, <2>2 DEF OnLine, Cuts, HasCome
    <2>4. OnLine(c, f, m)'
      BY <1>1, <1>2, <2>1, <2>2, <2>3 DEF OnLine
    <2>5. QED
      BY <2>4
  <1>5. QED
    BY <1>1, <1>3, <1>4 DEF LinkInv

\* When the line opens nothing has come over it.
LEMMA StepPageOpens ==
  ASSUME RelayTypeOK, LinkInv, OneByOne', NEW c \in Conn, PageOpens(c)
  PROVE  LinkInv'
  <1>1. /\ bws[c] = "CONNECTING" /\ bws' = [bws EXCEPT ![c] = "OPEN"]
        /\ UNCHANGED <<script, buf, given, dnSent, dnGot>>
    BY DEF PageOpens, BrowserOpen, down, webVars
  <1>2. \A d \in Conn : bws'[d] = IF d = c THEN "OPEN" ELSE bws[d]
    BY <1>1 DEF RelayTypeOK
  <1>3. ASSUME NEW d \in Conn, d # c PROVE \E f, m : OnLine(d, f, m)'
    <2>1. InUse(c)
      BY <1>1 DEF InUse
    <2>2. ~ InUse(d)
      BY <1>3, <2>1, OneInUse DEF LinkInv
    <2>3. QED
      BY <1>1, <1>2, <1>3, <2>2, OthersStay
  <1>4. \E f, m : OnLine(c, f, m)'
    <2>1. PICK f, m : OnLine(c, f, m)
      BY DEF LinkInv
    <2>2. Told(c)' = Told(c) /\ dnGot[c] = <<>> /\ buf = <<>>
      BY <1>1, <2>1 DEF Told, OnLine
    <2>3. Cuts(c, f)' /\ HasCome(c, f, m)'
      BY <1>1, <2>1, <2>2 DEF OnLine, Cuts, HasCome
    <2>4. SubSeq(dnSent[c], f[m] + 1, Len(dnGot[c])) = <<>>
      <3>1. m \in 0 .. Told(c) /\ f \in [0 .. Told(c) -> 0 .. Len(dnSent[c])]
        BY <2>1 DEF OnLine, Cuts, HasCome, Cut
      <3>2. dnSent[c] \in Seq(Unit) /\ f[m] \in 0 .. Len(dnSent[c])
        BY <3>1 DEF RelayTypeOK
      <3>3. Len(dnGot[c]) = 0
        BY <2>2
      <3>4. QED
        BY <3>2, <3>3
    <2>5. OnLine(c, f, m)'
      BY <1>1, <1>2, <2>1, <2>2, <2>3, <2>4 DEF OnLine
    <2>6. QED
      BY <2>5
  <1>5. QED
    BY <1>1, <1>3, <1>4 DEF LinkInv

\* What is known of a line whose stream is sent and read in order.
LEMMA LineFacts ==
  ASSUME RelayTypeOK, NothingSkipped, script \in Script, NEW c \in Conn
  PROVE  /\ dnSent[c] \in Seq(Unit) /\ dnGot[c] \in Seq(Unit) /\ dnWire[c] \in Seq(Unit)
         /\ IsPrefix(dnGot[c] \o dnWire[c], dnSent[c])
         /\ Len(dnGot[c]) <= Len(dnSent[c])
         /\ \A i \in 1 .. Len(dnGot[c]) : dnGot[c][i] = dnSent[c][i]
         /\ Told(c) = Cardinality(Starts(dnSent[c], Len(dnSent[c])))
         /\ script.down \in Seq(Packet)
  <1>1. dnSent[c] \in Seq(Unit) /\ dnGot[c] \in Seq(Unit) /\ dnWire[c] \in Seq(Unit)
    BY DEF RelayTypeOK
  <1>2. IsPrefix(dnGot[c] \o dnWire[c], dnSent[c])
    BY DEF NothingSkipped, DownInOrder
  <1>3. IsPrefix(dnGot[c], dnSent[c])
    BY <1>1, <1>2, PrefixOfFront
  <1>4. /\ Len(dnGot[c]) <= Len(dnSent[c])
        /\ \A i \in 1 .. Len(dnGot[c]) : dnGot[c][i] = dnSent[c][i]
    BY <1>1, <1>3, PrefixElements
  <1>5. DOMAIN dnSent[c] = 1 .. Len(dnSent[c])
    BY <1>1
  <1>6. Told(c) = Cardinality(Starts(dnSent[c], Len(dnSent[c])))
    BY <1>5 DEF Told, Starts
  <1>7. script.down \in Seq(Packet)
    BY LinkAssumption
  <1>8. QED
    BY <1>1, <1>2, <1>4, <1>6, <1>7

\* Sequences that agree from one place to another agree there.
LEMMA SubSeqOfFront ==
  ASSUME NEW S, NEW s \in Seq(S), NEW t \in Seq(S), NEW a \in Nat, NEW e \in Nat,
         e <= Len(s), e <= Len(t), \A i \in a + 1 .. e : t[i] = s[i]
  PROVE  SubSeq(t, a + 1, e) = SubSeq(s, a + 1, e)
  <1> DEFINE len == IF a + 1 <= e THEN e - a ELSE 0
             x == SubSeq(t, a + 1, e)
             y == SubSeq(s, a + 1, e)
  <1>1. /\ x \in Seq(S) /\ Len(x) = len /\ \A i \in 1 .. len : x[i] = t[a + i]
        /\ y \in Seq(S) /\ Len(y) = len /\ \A i \in 1 .. len : y[i] = s[a + i]
    <2>1. \A i \in 1 .. len : (a + 1) + i - 1 = a + i
      OBVIOUS
    <2>2. x \in Seq(S) /\ Len(x) = len /\ \A i \in 1 .. len : x[i] = t[a + i]
      OBVIOUS
    <2>3. y \in Seq(S) /\ Len(y) = len /\ \A i \in 1 .. len : y[i] = s[a + i]
      OBVIOUS
    <2>4. QED
      BY <2>2, <2>3
  <1>2. \A i \in 1 .. len : a + i \in a + 1 .. e
    OBVIOUS
  <1> HIDE DEF x, y
  <1>3. \A i \in 1 .. len : x[i] = y[i]
    BY <1>1, <1>2
  <1> HIDE DEF len
  <1>4. x = y
    BY <1>1, <1>3, SeqEqual
  <1>5. QED
    BY <1>4 DEF x, y

\* One more packet is said; the page has nothing of it yet.
LEMMA StepServerTells ==
  ASSUME RelayTypeOK, NothingSkipped, ReadsAlone, LinkInv, OneByOne',
         NEW c \in Conn, ServerTells(c)
  PROVE  LinkInv'
  <1> DEFINE d == script.down
             n == Told(c)
             s == dnSent[c]
             e == Len(dnGot[c])
             p == d[n + 1]
             ps == Pieces(p)
             t == s \o ps
  <1>1. /\ n + 1 \in DOMAIN d /\ dnSent' = [dnSent EXCEPT ![c] = t]
        /\ UNCHANGED <<bws, dnGot, script, buf, given>>
    BY DEF ServerTells, ServerSend, ends, webVars
  <1>2. ReadAlone(p) /\ ps \in Seq(Unit)
    <2>1. script \in Script
      BY DEF LinkInv
    <2>2. srv[c] = "OPEN" /\ upGot[c] # <<>>
      BY DEF ServerTells, ServerSend
    <2>3. ReadAlone(p)
      BY <1>1, <2>2 DEF ReadsAlone
    <2>4. QED
      BY <1>1, <2>1, <2>3, PiecesAreUnits
  <1>3. /\ s \in Seq(Unit) /\ d \in Seq(Packet) /\ e <= Len(s) /\ e \in Nat
        /\ t \in Seq(Unit) /\ Len(t) = Len(s) + Len(ps) /\ Len(ps) \in {2, 3}
        /\ Len(s) \in Nat /\ e < Len(t)
    <2>1. script \in Script
      BY DEF LinkInv
    <2>2. s \in Seq(Unit) /\ d \in Seq(Packet) /\ e <= Len(s) /\ e \in Nat
      <3>1. dnSent[c] \in Seq(Unit) /\ script.down \in Seq(Packet)
            /\ Len(dnGot[c]) <= Len(dnSent[c]) /\ dnGot[c] \in Seq(Unit)
        BY <2>1, LineFacts
      <3>2. QED
        BY <3>1
    <2>3. Len(ps) \in {2, 3}
      <3>1. SizeOf(p) \in Header .. 4096
        BY <1>2 DEF ReadAlone
      <3> HIDE DEF p
      <3>2. QED
        BY <3>1, PiecesFacts
    <2> HIDE DEF ps, s
    <2>4. t \in Seq(Unit) /\ Len(t) = Len(s) + Len(ps) /\ Len(s) \in Nat
      BY <1>2, <2>2
    <2>5. e < Len(t)
      <3>1. \A a, b \in Nat : \A k \in {2, 3} : a <= b => a < b + k
        OBVIOUS
      <3> HIDE DEF e
      <3>2. QED
        BY <2>2, <2>3, <2>4, <3>1
    <2>6. QED
      BY <2>2, <2>3, <2>4, <2>5
  <1>4. PICK f, m : OnLine(c, f, m)
    BY DEF LinkInv
  <1>5. PICK g : Cut(t, d, n + 1, g) /\ \A j \in 0 .. n : g[j] = f[j]
    <2>1. Cut(s, d, n, f)
      BY <1>4 DEF OnLine, Cuts
    <2>2. SizeOf(p) \in Header .. 4096
      BY <1>2 DEF ReadAlone
    <2> HIDE DEF d, n, s
    <2>3. QED
      BY SMTT(60), ZenonT(60), <1>1, <1>2, <1>3, <2>1, <2>2, CutGrows DEF p, ps, t
  <1>6. /\ dnSent'[c] = t /\ \A b \in Conn : b # c => dnSent'[b] = dnSent[b]
    BY SMTT(60), ZenonT(60), <1>1 DEF RelayTypeOK
  <1>7. Told(c)' = n + 1
    <2>1. Told(c)' = Cardinality(Starts(t, Len(t)))
      <3>1. DOMAIN t = 1 .. Len(t)
        BY <1>3
      <3>2. QED
        BY ZenonT(60), SMTT(60), <1>6, <3>1 DEF Told, Starts
    <2>2. QED
      BY SMTT(60), ZenonT(60), <1>5, <2>1 DEF Cut
  <1>8. Cuts(c, g)'
    <2>1. \A j \in 1 .. n + 1 : ReadAlone(d[j])
      <3>1. \A j \in 1 .. n : ReadAlone(d[j])
        BY <1>4 DEF OnLine, Cuts
      <3>2. n \in Nat
        BY <1>4 DEF OnLine, Cuts, Cut
      <3> HIDE DEF n, d
      <3>3. \A j \in 1 .. n + 1 : j \in 1 .. n \/ j = n + 1
        BY <3>2
      <3>4. QED
        BY <1>2, <3>1, <3>3 DEF p
    <2>2. script' = script
      BY <1>1
    <2>3. QED
      BY <1>5, <1>6, <1>7, <2>1, <2>2 DEF Cuts
  <1>9. /\ n \in Nat /\ m \in 0 .. n /\ f[m] <= e /\ (m = n \/ e < f[m + 1])
        /\ f[m] \in Nat
    <2>1. m \in 0 .. n /\ f[m] <= e /\ (m = n \/ e < f[m + 1])
      BY <1>4 DEF OnLine, HasCome
    <2>2. n \in 0 .. Len(d) /\ f \in [0 .. n -> 0 .. Len(s)] /\ Len(d) \in Nat
      BY SMTT(60), <1>3, <1>4 DEF OnLine, Cuts, Cut
    <2> HIDE DEF n, d, s, e
    <2>3. QED
      BY <2>1, <2>2
  <1>10. HasCome(c, g, m)'
    <2>1. g[n + 1] = Len(t)
      BY <1>5 DEF Cut
    <2> HIDE DEF n, e, s, t, ps
    <2>2. m \in 0 .. n + 1 /\ g[m] <= e
      BY <1>5, <1>9
    <2>3. m = n + 1 \/ e < g[m + 1]
      <3>1. CASE m = n
        <4>1. e < Len(t)
          BY <1>3
        <4>2. QED
          BY <2>1, <3>1, <4>1
      <3>2. CASE m # n
        BY <1>5, <1>9, <3>2
      <3>3. QED
        BY <3>1, <3>2
    <2>4. dnGot'[c] = dnGot[c]
      BY <1>1
    <2>5. QED
      BY <1>7, <2>2, <2>3, <2>4 DEF HasCome, e
  <1>11. SubSeq(t, g[m] + 1, e) = SubSeq(s, f[m] + 1, e)
    <2>1. g[m] = f[m]
      BY <1>5, <1>9
    <2> HIDE DEF e, s, ps
    <2>2. \A i \in f[m] + 1 .. e : t[i] = s[i]
      BY SMTT(60), <1>2, <1>3, <1>9
    <2> DEFINE a == f[m]
    <2>3. e <= Len(t) /\ a \in Nat /\ \A i \in a + 1 .. e : t[i] = s[i]
      BY SMTT(60), <1>3, <1>9, <2>2
    <2> HIDE DEF t, a
    <2>4. SubSeq(t, a + 1, e) = SubSeq(s, a + 1, e)
      BY <1>3, <2>3, SubSeqOfFront
    <2>5. QED
      BY <2>1, <2>4 DEF a
  <1>12. OnLine(c, g, m)'
    <2>1. UNCHANGED <<bws, dnGot, script, buf, given>>
      BY <1>1
    <2>2. given[c] = Meanings(d, 0, m) /\ (bws[c] \in {"NONE", "CONNECTING"} => dnGot[c] = <<>>)
          /\ (bws[c] = "CONNECTING" => buf = <<>>)
          /\ (bws[c] = "OPEN" => buf = SubSeq(s, f[m] + 1, e))
      BY <1>4 DEF OnLine
    <2>3. QED
      BY <1>6, <1>8, <1>10, <1>11, <2>1, <2>2 DEF OnLine
  <1>13. ASSUME NEW b \in Conn, b # c PROVE \E h, k : OnLine(b, h, k)'
    <2>1. PICK h, k : OnLine(b, h, k)
      BY DEF LinkInv
    <2>2. OnLine(b, h, k)'
      BY <1>1, <1>6, <1>13, <2>1, LineStays
    <2>3. QED
      BY <2>2
  <1>14. QED
    BY <1>1, <1>12, <1>13 DEF LinkInv

Fits(g, q, s, n, a) ==
  /\ g \o First(q, n) \in Seq(Unit) /\ Len(g \o First(q, n)) = Len(g) + n
  /\ Len(g) + n <= Len(s)
  /\ SubSeq(s, a + 1, Len(g)) \o First(q, n) = SubSeq(s, a + 1, Len(g) + n)

\* A frame is the next pieces of what was sent.
LEMMA FrameBehind ==
  ASSUME NEW g \in Seq(Unit), NEW q \in Seq(Unit), NEW s \in Seq(Unit), IsPrefix(g \o q, s),
         NEW n \in 1 .. Len(q), NEW a \in 0 .. Len(g)
  PROVE  Fits(g, q, s, n, a)
  <1> DEFINE e == Len(g)
             x == First(q, n)
             y == SubSeq(s, a + 1, e)
             z == SubSeq(s, a + 1, e + n)
  <1>1. e \in Nat /\ n \in Nat /\ a \in 0 .. e /\ Len(q) \in Nat /\ n \in 1 .. Len(q) /\ Len(s) \in Nat
    OBVIOUS
  <1>2. x \in Seq(Unit) /\ Len(x) = n /\ \A i \in 1 .. n : x[i] = q[i]
    BY <1>1 DEF First
  <1>3. g \o q \in Seq(Unit) /\ Len(g \o q) = e + Len(q) /\ \A i \in 1 .. Len(q) : (g \o q)[e + i] = q[i]
    <2> HIDE DEF e
    <2>1. g \o q \in Seq(Unit) /\ Len(g \o q) = Len(g) + Len(q)
          /\ \A i \in 1 .. Len(q) : (g \o q)[Len(g) + i] = q[i]
      OBVIOUS
    <2>2. QED
      BY <2>1 DEF e
  <1>4. e + Len(q) <= Len(s) /\ \A i \in 1 .. e + Len(q) : (g \o q)[i] = s[i]
    <2> DEFINE r == g \o q
    <2>1. r \in Seq(Unit) /\ IsPrefix(r, s) /\ Len(r) = e + Len(q)
      BY <1>3
    <2> HIDE DEF r, e
    <2>2. Len(r) <= Len(s) /\ \A i \in 1 .. Len(r) : r[i] = s[i]
      BY SMTT(60), ZenonT(60), <2>1, PrefixElements
    <2>3. QED
      BY <2>1, <2>2 DEF r
  <1> HIDE DEF e
  <1>5. e + n <= Len(s) /\ \A i \in 1 .. n : s[e + i] = x[i]
    <2>1. \A i \in 1 .. n : i \in 1 .. Len(q) /\ e + i \in 1 .. e + Len(q)
      BY <1>1
    <2>2. \A i \in 1 .. n : s[e + i] = x[i]
      BY <1>2, <1>3, <1>4, <2>1
    <2>3. e + n <= Len(s)
      BY <1>1, <1>4
    <2>4. QED
      BY <2>2, <2>3
  <1>6. g \o x \in Seq(Unit) /\ Len(g \o x) = e + n
    <2> HIDE DEF x
    <2>1. g \o x \in Seq(Unit) /\ Len(g \o x) = Len(g) + Len(x)
      BY <1>2, ConcatProperties
    <2>2. QED
      BY <1>2, <2>1 DEF e
  <1>7. /\ y \in Seq(Unit) /\ Len(y) = e - a /\ \A i \in 1 .. e - a : y[i] = s[a + i]
        /\ z \in Seq(Unit) /\ Len(z) = (e - a) + n /\ \A i \in 1 .. (e - a) + n : z[i] = s[a + i]
    <2>1. \A i \in 1 .. (e - a) + n : (a + 1) + i - 1 = a + i
      BY <1>1
    <2>2. e <= Len(s) /\ a + 1 \in 1 .. Len(s) + 1
      BY <1>1, <1>5
    <2>3. y \in Seq(Unit) /\ Len(y) = e - a /\ \A i \in 1 .. e - a : y[i] = s[a + i]
      BY <1>1, <2>2
    <2>4. z \in Seq(Unit) /\ Len(z) = (e - a) + n /\ \A i \in 1 .. (e - a) + n : z[i] = s[a + i]
      BY SMTT(60), ZenonT(60), <1>1, <1>5, <2>2
    <2>5. QED
      BY <2>3, <2>4
  <1> HIDE DEF x, y, z
  <1>8. /\ y \o x \in Seq(Unit) /\ Len(y \o x) = (e - a) + n
        /\ \A i \in 1 .. (e - a) + n :
             (y \o x)[i] = IF i <= e - a THEN y[i] ELSE x[i - (e - a)]
    <2>1. /\ y \o x \in Seq(Unit) /\ Len(y \o x) = Len(y) + Len(x)
          /\ \A i \in 1 .. Len(y) + Len(x) :
               (y \o x)[i] = IF i <= Len(y) THEN y[i] ELSE x[i - Len(y)]
      BY <1>2, <1>7, ConcatProperties
    <2>2. QED
      BY <1>2, <1>7, <2>1
  <1>9. ASSUME NEW i \in 1 .. (e - a) + n PROVE (y \o x)[i] = z[i]
    <2>1. CASE i <= e - a
      <3>1. i \in 1 .. e - a
        BY <1>1, <2>1
      <3>2. QED
        BY <1>7, <1>8, <2>1, <3>1
    <2>2. CASE ~ (i <= e - a)
      <3>1. i - (e - a) \in 1 .. n /\ e + (i - (e - a)) = a + i
        BY <1>1, <2>2
      <3>2. (y \o x)[i] = x[i - (e - a)]
        BY <1>8, <2>2
      <3>3. QED
        BY <1>5, <1>7, <3>1, <3>2
    <2>3. QED
      BY <2>1, <2>2
  <1>10. y \o x = z
    BY <1>7, <1>8, <1>9, SeqEqual
  <1>11. QED
    BY <1>5, <1>6, <1>10 DEF Fits, e, x, y, z

\* The page gives what has come whole, and keeps the rest.
LEMMA PageGetsMore ==
  ASSUME RelayTypeOK, NothingSkipped, LinkInv, NEW c \in Conn,
         NEW n \in 1 .. Len(dnWire[c]), PageGets(c, n)
  PROVE  \E m, j \in Nat : /\ m <= j /\ \E f : OnLine(c, f, j)'
                           /\ given[c] = Meanings(script.down, 0, m)
                           /\ given' = [given EXCEPT ![c] = Meanings(script.down, 0, j)]
                           /\ holds' = Keep(holds, Meanings(script.down, m, j))
  <1> DEFINE d == script.down
             k == Told(c)
             s == dnSent[c]
             g == dnGot[c]
             x == First(dnWire[c], n)
             e == Len(g) + n
  <1>1. /\ bws[c] = "OPEN" /\ UNCHANGED <<bws, dnSent, script>>
        /\ dnGot' = [dnGot EXCEPT ![c] = g \o x]
        /\ \E r \in Reassemble(buf \o x) :
             /\ buf' = r.left /\ given' = [given EXCEPT ![c] = given[c] \o r.out]
             /\ holds' = Keep(holds, r.out)
    BY DEF PageGets, BrowserMessage, ends
  <1>2. /\ s \in Seq(Unit) /\ g \in Seq(Unit) /\ dnWire[c] \in Seq(Unit)
        /\ IsPrefix(g \o dnWire[c], s)
    BY LineFacts DEF LinkInv
  <1>3. PICK f, m : OnLine(c, f, m)
    BY DEF LinkInv
  <1>4. /\ Cut(s, d, k, f) /\ (\A i \in 1 .. k : ReadAlone(d[i])) 
        /\ m \in 0 .. k /\ f[m] <= Len(g)
        /\ given[c] = Meanings(d, 0, m) /\ buf = SubSeq(s, f[m] + 1, Len(g))
    BY <1>1, <1>3 DEF OnLine, Cuts, HasCome
  <1>5. k \in Nat /\ m \in Nat /\ f[m] \in 0 .. Len(g)
    <2>1. k \in Nat /\ f \in [0 .. k -> 0 .. Len(s)]
      BY <1>4 DEF Cut
    <2> HIDE DEF k, s, g, e, d
    <2>2. f[m] \in 0 .. Len(s) /\ m \in Nat
      BY <1>4, <2>1
    <2>3. f[m] \in 0 .. Len(g)
      BY <1>2, <1>4, <2>2
    <2>4. QED
      BY <2>1, <2>2, <2>3
  <1> HIDE DEF d, k, s, g
  <1>6. /\ Len(g \o x) = e /\ e <= Len(s) /\ buf \o x = SubSeq(s, f[m] + 1, e)
    <2> DEFINE a == f[m]
    <2>1. a \in 0 .. Len(g)
      BY <1>5
    <2> HIDE DEF a
    <2>2. Fits(g, dnWire[c], s, n, a)
      BY <1>2, <2>1, FrameBehind
    <2>3. /\ Len(g \o x) = e /\ e <= Len(s)
          /\ SubSeq(s, a + 1, Len(g)) \o x = SubSeq(s, a + 1, e)
      BY <2>2 DEF Fits
    <2>4. QED
      BY <1>4, <2>3 DEF a
  <1>7. e \in 0 .. Len(s) /\ f[m] <= e
    <2>1. Len(g) \in Nat /\ n \in Nat /\ Len(s) \in Nat
      BY <1>2
    <2>2. e \in Nat /\ \A a \in 0 .. Len(g) : a <= e
      BY <2>1
    <2> HIDE DEF e
    <2>3. QED
      BY SMTT(60), ZenonT(60), <1>5, <1>6, <2>1, <2>2
  <1> HIDE DEF e, x
  <1>8. PICK j \in m .. k : /\ f[j] <= e /\ (j = k \/ e < f[j + 1])
                            /\ Reassemble(SubSeq(s, f[m] + 1, e)) = {Loop(s, d, f, m, e, j)}
    <2>1. Gives(s, d, k, f, e, m)
      BY SMTT(60), ZenonT(60), <1>2, <1>4, <1>7, ReassembleGives
    <2>2. QED
      BY <2>1 DEF Gives
  <1>9. /\ buf' = SubSeq(s, f[j] + 1, e)
        /\ given' = [given EXCEPT ![c] = given[c] \o Meanings(d, m, j)]
        /\ holds' = Keep(holds, Meanings(d, m, j))
    <2>1. /\ Loop(s, d, f, m, e, j).left = SubSeq(s, f[j] + 1, e)
          /\ Loop(s, d, f, m, e, j).out = Meanings(d, m, j)
      BY DEF Loop
    <2>2. QED
      BY <1>1, <1>6, <1>8, <2>1
  <1>10. j \in Nat /\ m <= j /\ j \in 0 .. k
    BY <1>5, <1>8
  <1>11. given[c] \o Meanings(d, m, j) = Meanings(d, 0, j)
    <2>1. 0 \in Nat /\ 0 <= m
      BY <1>5
    <2>2. Meanings(d, 0, m) \o Meanings(d, m, j) = Meanings(d, 0, j)
      BY ZenonT(60), <1>5, <1>10, <2>1, MeaningsJoin
    <2>3. QED
      BY <1>4, <2>2
  <1>12. given' = [given EXCEPT ![c] = Meanings(d, 0, j)]
    BY <1>9, <1>11
  <1>13. dnGot'[c] = g \o x /\ Told(c)' = k /\ given'[c] = Meanings(d, 0, j)
    <2>1. dnGot'[c] = g \o x
      BY <1>1 DEF RelayTypeOK
    <2>2. Told(c)' = k
      BY <1>1 DEF Told, k
    <2>3. given'[c] = Meanings(d, 0, j)
      BY <1>12 DEF LinkInv
    <2>4. QED
      BY <2>1, <2>2, <2>3
  <1>14. OnLine(c, f, j)'
    <2>1. Cuts(c, f)'
      BY <1>1, <1>4, <1>13 DEF Cuts, d, s
    <2>2. HasCome(c, f, j)'
      BY SMTT(60), ZenonT(60), <1>6, <1>8, <1>10, <1>13 DEF HasCome
    <2>3. QED
      BY <1>1, <1>6, <1>9, <1>13, <2>1, <2>2 DEF OnLine, d, s
  <1>15. QED
    BY <1>4, <1>5, <1>9, <1>10, <1>12, <1>14 DEF d

\* A frame is about its own line only.
LEMMA StepPageGets ==
  ASSUME RelayTypeOK, NothingSkipped, LinkInv, OneByOne', NEW c \in Conn,
         NEW n \in 1 .. Len(dnWire[c]), PageGets(c, n)
  PROVE  LinkInv'
  <1>1. PICK j \in Nat : /\ \E f : OnLine(c, f, j)'
                         /\ given' = [given EXCEPT ![c] = Meanings(script.down, 0, j)]
    BY PageGetsMore
  <1>2. /\ bws[c] = "OPEN" /\ UNCHANGED <<bws, dnSent, script>>
        /\ dnGot' = [dnGot EXCEPT ![c] = dnGot[c] \o First(dnWire[c], n)]
    BY DEF PageGets, BrowserMessage, ends
  <1>3. ASSUME NEW b \in Conn, b # c PROVE \E f, m : OnLine(b, f, m)'
    <2>1. ~ InUse(b)
      BY <1>2, <1>3, OneInUse DEF LinkInv, InUse
    <2>2. dnGot'[b] = dnGot[b] /\ given'[b] = given[b]
      BY <1>1, <1>2, <1>3 DEF LinkInv, RelayTypeOK
    <2>3. QED
      BY <1>2, <2>1, <2>2, OthersStay
  <1>4. given' = [b \in Conn |-> given'[b]]
    BY <1>1 DEF LinkInv
  <1>5. QED
    BY <1>1, <1>2, <1>3, <1>4 DEF LinkInv

-----------------------------------------------------------------------------
(* The invariant of the line. *)

LEMMA InitLinkInv == LinkInit => LinkInv
  <1> SUFFICES ASSUME LinkInit PROVE LinkInv
    OBVIOUS
  <1>1. script \in Script /\ OneByOne /\ given = [c \in Conn |-> given[c]]
    BY DEF LinkInit, RelayInit, OneByOne
  <1>2. ASSUME NEW c \in Conn PROVE \E f, m : OnLine(c, f, m)
    <2> DEFINE f == [j \in 0 .. 0 |-> 0]
    <2>1. /\ dnSent[c] = <<>> /\ dnGot[c] = <<>> /\ given[c] = <<>> /\ bws[c] = "NONE"
      BY DEF LinkInit, RelayInit
    <2>2. Told(c) = 0
      <3>1. {i \in DOMAIN dnSent[c] : dnSent[c][i].part = 1} = {}
        BY <2>1
      <3>2. QED
        BY ZenonT(60), SMTT(60), <3>1, FS_EmptySet DEF Told
    <2>3. Cut(<<>>, script.down, 0, f)
      <3>1. script.down \in Seq(Packet)
        BY SMTT(60), ZenonT(60), <1>1, LinkAssumption
      <3>2. QED
        BY <3>1, CutOfNothing
    <2>4. f[0] = 0 /\ Len(<<>>) = 0
      OBVIOUS
    <2> HIDE DEF f
    <2>5. Cuts(c, f) /\ HasCome(c, f, 0)
      <3>1. 0 \in 0 .. 0 /\ 0 <= 0 /\ \A j : j \notin 1 .. 0
        OBVIOUS
      <3>2. QED
        BY SMTT(60), ZenonT(60), <2>1, <2>2, <2>3, <2>4, <3>1 DEF Cuts, HasCome
    <2>6. Meanings(script.down, 0, 0) = <<>>
      <3>1. 0 - 0 = 0 /\ 1 .. 0 = {}
        OBVIOUS
      <3>2. [i \in {} |-> Meant(script.down[0 + i])] = <<>>
        OBVIOUS
      <3>3. QED
        BY <3>1, <3>2 DEF Meanings
    <2>7. OnLine(c, f, 0)
      BY <2>1, <2>5, <2>6 DEF OnLine
    <2>8. QED
      BY <2>7
  <1>3. QED
    BY <1>1, <1>2 DEF LinkInv

LEMMA NextLinkInv ==
  ASSUME RelayTypeOK, NothingSkipped, ReadsAlone, LinkInv, [LinkNext]_linkVars
  PROVE  LinkInv'
  <1>1. OneByOne'
    BY StepOneByOne DEF LinkInv
  <1>2. CASE Aside
    BY SMTT(60), ZenonT(60), <1>1, <1>2, StepAside
  <1>3. ASSUME NEW c \in Conn, PageOpens(c) PROVE LinkInv'
    BY <1>1, <1>3, StepPageOpens
  <1>4. ASSUME NEW c \in Conn, PageConnects(c) PROVE LinkInv'
    BY <1>1, <1>4, StepPageConnects
  <1>5. ASSUME NEW c \in Conn, ServerTells(c) PROVE LinkInv'
    BY <1>1, <1>5, StepServerTells
  <1>6. ASSUME NEW c \in Conn, NEW n \in 1 .. Len(dnWire[c]), PageGets(c, n) PROVE LinkInv'
    BY <1>1, <1>6, StepPageGets
  <1>7. QED
    BY <1>2, <1>3, <1>4, <1>5, <1>6, StepsAside

\* If what the server says is read alone as it was meant, every line has on it
\* whole packets of the script, and the page has made of them what it could.
THEOREM LinkInvariant == LinkSpec /\ []ReadsAlone => []LinkInv
  <1>1. LinkInit => LinkInv
    BY InitLinkInv
  <1>2. RelayTypeOK /\ NothingSkipped /\ ReadsAlone /\ LinkInv /\ [LinkNext]_linkVars => LinkInv'
    BY NextLinkInv
  <1>3. LinkSpec => []RelayTypeOK
    BY LinkIsARelay, RelayTypes, PTL
  <1>4. QED
    BY <1>1, <1>2, <1>3, LineInOrder, PTL DEF LinkSpec

\* However the stream is cut into frames, the page reads of every packet what the
\* server put there, in the order of the script, each packet once.
THEOREM PageReadsAsSent == LinkSpec /\ []ReadsAlone => []DecodedAsSent
  <1>1. LinkInv => DecodedAsSent
    <2> SUFFICES ASSUME LinkInv, NEW c \in Conn, NEW i \in DOMAIN given[c]
                 PROVE  given[c][i] = Meant(script.down[i])
      BY DEF DecodedAsSent
    <2>1. PICK f, m : OnLine(c, f, m)
      BY DEF LinkInv
    <2>2. given[c] = Meanings(script.down, 0, m) /\ m \in Nat
      <3>1. m \in 0 .. Told(c) /\ Told(c) \in 0 .. Len(script.down)
        BY <2>1 DEF OnLine, HasCome, Cuts, Cut
      <3>2. QED
        BY <2>1, <3>1 DEF OnLine
    <2>3. m - 0 = m /\ 0 + i = i
      <3>1. i \in 1 .. m - 0
        BY <2>2 DEF Meanings
      <3>2. QED
        BY <2>2, <3>1
    <2>4. QED
      BY ZenonT(60), SMTT(60), <2>2, <2>3 DEF Meanings
  <1>2. QED
    BY <1>1, LinkInvariant, PTL

\* What is behind the last whole packet is the beginning of the next one.
LEMMA PiecesBehind ==
  ASSUME NEW s, NEW d, NEW k, NEW f, Cut(s, d, k, f), Len(s) \in Nat,
         \A j \in 1 .. k : ReadAlone(d[j]),
         NEW e \in 0 .. Len(s), NEW m \in 0 .. k, f[m] <= e, m = k \/ e < f[m + 1],
         NEW i \in 1 .. e - f[m]
  PROVE  /\ m + 1 \in 1 .. k /\ SizeOf(d[m + 1]) \in Header .. 4096
         /\ i \in 1 .. Len(Pieces(d[m + 1])) /\ i < Len(Pieces(d[m + 1]))
         /\ s[f[m] + i] = Piece(d[m + 1], i)
  <1> DEFINE w == Len(Pieces(d[m + 1]))
             a == f[m]
  <1>1. /\ k \in Nat /\ a \in 0 .. Len(s) /\ f[k] = Len(s)
    BY DEF Cut
  <1>2. m # k
    <2>1. ASSUME m = k PROVE FALSE
      <3>1. a = Len(s)
        BY <1>1, <2>1
      <3> HIDE DEF a
      <3>2. a \in Nat /\ e \in Nat /\ e <= a /\ a <= e /\ i \in 1 .. e - a
        BY <1>1, <3>1 DEF a
      <3>3. QED
        BY <3>2
    <2>2. QED
      BY <2>1
  <1>3. m + 1 \in 1 .. k /\ (m + 1) - 1 = m
    BY <1>1, <1>2
  <1>4. /\ f[m + 1] = a + w
        /\ \A j \in 1 .. w : s[a + j] = Piece(d[m + 1], j)
    BY <1>3 DEF Cut
  <1>5. SizeOf(d[m + 1]) \in Header .. 4096
    BY <1>3 DEF ReadAlone
  <1>6. w \in {2, 3}
    BY <1>5, PiecesFacts
  <1>7. i \in 1 .. w /\ i < w
    <2>1. e < a + w
      BY <1>2, <1>4
    <2>2. \A x, y \in Nat : \A z \in {2, 3} : y < x + z => \A j \in 1 .. y - x : j \in 1 .. z /\ j < z
      OBVIOUS
    <2>3. a \in Nat /\ e \in Nat /\ i \in 1 .. e - a
      BY <1>1
    <2> HIDE DEF a, w
    <2>4. QED
      BY <1>6, <2>1, <2>2, <2>3
  <1>8. QED
    BY <1>3, <1>4, <1>5, <1>7

\* The page has been given every packet that has come whole, and waits with the
\* beginning of the next one.
THEOREM NothingKeptBack == LinkSpec /\ []ReadsAlone => []NothingParked
  <1>1. RelayTypeOK /\ NothingSkipped /\ LinkInv => NothingParked
    <2> SUFFICES ASSUME RelayTypeOK, NothingSkipped, LinkInv, NEW c \in Conn
                 PROVE  /\ Len(given[c]) = Whole(c)
                        /\ bws[c] = "OPEN" /\ buf # <<>> =>
                             IsStrictPrefix(buf, Pieces(buf[1]))
      BY DEF NothingParked
    <2> DEFINE d == script.down
               k == Told(c)
               s == dnSent[c]
               g == dnGot[c]
               e == Len(g)
    <2>1. /\ s \in Seq(Unit) /\ g \in Seq(Unit) /\ e <= Len(s)
          /\ \A i \in 1 .. e : g[i] = s[i]
      BY LineFacts DEF LinkInv
    <2>2. PICK f, m : OnLine(c, f, m)
      BY DEF LinkInv
    <2>3. /\ Cut(s, d, k, f) /\ (\A i \in 1 .. k : ReadAlone(d[i]))
          /\ m \in 0 .. k /\ f[m] <= e /\ (m = k \/ e < f[m + 1])
          /\ given[c] = Meanings(d, 0, m)
          /\ bws[c] = "OPEN" => buf = SubSeq(s, f[m] + 1, e)
      BY <2>2 DEF OnLine, Cuts, HasCome
    <2> HIDE DEF d, k, s, g
    <2>4. /\ m \in Nat /\ f[m] \in Nat /\ Cardinality(Ends(s, f[m])) = m
          /\ e \in Nat /\ Len(s) \in Nat
      <3>1. k \in Nat /\ f \in [0 .. k -> 0 .. Len(s)]
        BY <2>3 DEF Cut
      <3>2. f[m] \in 0 .. Len(s) /\ Cardinality(Ends(s, f[m])) = m
        BY <2>3, <3>1 DEF Cut
      <3>3. QED
        BY <2>1, <2>3, <3>1, <3>2
    <2> DEFINE a == f[m]
               p == d[m + 1]
               w == Len(Pieces(p))
    <2>5. ASSUME NEW i \in 1 .. e - a
          PROVE  /\ SizeOf(p) \in Header .. 4096
                 /\ i \in 1 .. w /\ i < w /\ s[a + i] = Piece(p, i)
      <3>1. e \in 0 .. Len(s)
        BY <2>1, <2>4
      <3> HIDE DEF e
      <3>2. QED
        BY SMTT(60), <2>3, <2>4, <3>1, PiecesBehind
    <2>6. a \in Nat /\ a <= e
      BY <2>3, <2>4
    <2> HIDE DEF e, a, p, w
    <2>7. \A i \in 1 .. e : i \in 1 .. a \/ \E j \in 1 .. e - a : i = a + j
      <3>1. ASSUME NEW i \in 1 .. e, i \notin 1 .. a PROVE \E j \in 1 .. e - a : i = a + j
        <4>1. i - a \in 1 .. e - a /\ i = a + (i - a)
          BY <2>4, <2>6, <3>1
        <4>2. QED
          BY <4>1
      <3>2. QED
        BY <3>1
    <2>8. Ends(s, e) = Ends(s, a)
      <3>1. ASSUME NEW j \in 1 .. e - a PROVE s[a + j].part # Len(Pieces(s[a + j]))
        <4>1. s[a + j].part = j /\ Pieces(s[a + j]) = Pieces(p)
          BY <2>5, PieceFacts
        <4>2. j # w
          BY <2>5
        <4>3. QED
          BY <4>1, <4>2 DEF w
      <3>2. 1 .. a \subseteq 1 .. e
        BY <2>4, <2>6
      <3>3. QED
        BY <2>7, <3>1, <3>2 DEF Ends
    <2>9. Whole(c) = Cardinality(Ends(s, e))
      <3>1. DOMAIN g = 1 .. e
        BY <2>1 DEF e
      <3>2. QED
        BY <2>1, <3>1 DEF Whole, Ends, g
    <2>10. Len(given[c]) = m
      <3>1. 0 \in Nat /\ 0 <= m /\ m - 0 = m
        BY <2>4
      <3>2. Len(Meanings(d, 0, m)) = m - 0
        BY <2>4, <3>1, MeaningsType
      <3>3. QED
        BY <2>3, <3>1, <3>2
    <2>11. ASSUME bws[c] = "OPEN", buf # <<>>
           PROVE  IsStrictPrefix(buf, Pieces(buf[1]))
      <3> DEFINE b == SubSeq(s, a + 1, e)
                 ps == Pieces(p)
      <3>1. buf = b
        BY <2>3, <2>11 DEF a, e
      <3>2. b \in Seq(Unit) /\ Len(b) = e - a /\ \A i \in 1 .. e - a : b[i] = s[a + i]
        <4>1. e <= Len(s)
          BY <2>1 DEF e
        <4>2. \A t \in Seq(Unit) : e <= Len(t) =>
                /\ SubSeq(t, a + 1, e) \in Seq(Unit) /\ Len(SubSeq(t, a + 1, e)) = e - a
                /\ \A i \in 1 .. e - a : SubSeq(t, a + 1, e)[i] = t[a + i]
          <5>1. \A i \in 1 .. e - a : (a + 1) + i - 1 = a + i
            BY <2>4, <2>6
          <5>2. QED
            BY <2>4, <2>6, <5>1
        <4>3. QED
          BY ZenonT(60), SMTT(60), <2>1, <4>1, <4>2
      <3> HIDE DEF b
      <3>3. 1 \in 1 .. e - a
        <4>1. Len(b) # 0
          BY SMTT(60), ZenonT(60), <2>11, <3>1, <3>2, EmptySeq
        <4>2. QED
          BY <2>4, <2>6, <3>2, <4>1
      <3>4. b[1] = Piece(p, 1) /\ Pieces(b[1]) = ps
        BY <2>5, <3>2, <3>3, PieceFacts
      <3>5. /\ Len(ps) = w /\ w \in {2, 3} /\ DOMAIN ps = 1 .. w
            /\ \A i \in 1 .. w : ps[i] = Piece(p, i)
        BY <2>5, <3>3, PiecesFacts DEF w
      <3>6. \A i \in 1 .. e - a : i \in 1 .. w /\ b[i] = ps[i]
        BY <2>5, <3>2, <3>5
      <3>7. e - a \in 1 .. e - a /\ e - a < w
        <4>1. e - a \in 1 .. e - a
          BY <2>4, <2>6, <3>3
        <4>2. QED
          BY <2>5, <4>1
      <3> HIDE DEF ps
      <3>8. IsStrictPrefix(b, ps)
        <4> DEFINE V == {b[i] : i \in 1 .. e - a} \cup {ps[i] : i \in 1 .. w}
        <4>1. b \in Seq(V) /\ ps \in Seq(V)
          <5>1. b = [i \in 1 .. e - a |-> b[i]] /\ e - a \in Nat
            BY <2>4, <2>6, <3>2
          <5>2. ps = [i \in 1 .. w |-> ps[i]] /\ w \in Nat
            BY <3>5 DEF ps, Pieces
          <5>3. \A i \in 1 .. e - a : b[i] \in V
            OBVIOUS
          <5>4. \A i \in 1 .. w : ps[i] \in V
            OBVIOUS
          <5> HIDE DEF V
          <5>5. [i \in 1 .. e - a |-> b[i]] \in Seq(V)
            BY <5>1, <5>3
          <5>6. [i \in 1 .. w |-> ps[i]] \in Seq(V)
            BY <5>2, <5>4
          <5>7. QED
            BY <5>1, <5>2, <5>5, <5>6
        <4> HIDE DEF V
        <4>2. Len(b) <= Len(ps) /\ \A i \in 1 .. Len(b) : b[i] = ps[i]
          BY <3>2, <3>5, <3>6, <3>7
        <4>3. IsPrefix(b, ps)
          BY <4>1, <4>2, PrefixElements
        <4>4. b # ps
          BY <3>2, <3>5, <3>7
        <4>5. QED
          BY <4>3, <4>4 DEF IsStrictPrefix
      <3>9. QED
        BY <3>1, <3>4, <3>8
    <2>12. QED
      BY SMTT(60), ZenonT(60), <2>4, <2>8, <2>9, <2>10, <2>11 DEF a
  <1>2. LinkSpec => []RelayTypeOK
    BY LinkIsARelay, RelayTypes, PTL
  <1>3. QED
    BY <1>1, <1>2, LineInOrder, LinkInvariant, PTL

-----------------------------------------------------------------------------
(* What the page asks for. *)

\* What a line has told of, and what the packets a + 1 to b of a script do.
NamesIn(out) == {out[i].name : i \in DOMAIN out}
Named(c) == NamesIn(given[c])
Kinds(d, a, b) == {d[i].kind : i \in a + 1 .. b}

\* A walk begun on line b, with no stop after it.
WalkFrom(b) == LeftWalking(b) /\ \A a \in Conn : b < a => StopsOn(a) = {}

\* The page has nothing but what this line has told it, and takes the player to walk
\* only if some line has a walk that was not stopped.
AskInv ==
  /\ \A c \in Conn : bws[c] = "OPEN" => holds \subseteq Named(c)
  /\ \A c \in Conn : bws[c] = "CONNECTING" => holds = {}
  /\ \A c \in Conn : bws[c] = "NONE" => upSent[c] = <<>>
  /\ moving => \E b \in Conn : WalkFrom(b)
  /\ AsksInTheWorld

LEMMA NamesOfMeanings ==
  ASSUME NEW d, NEW a \in Nat, NEW b \in Nat, a <= b
  PROVE  NamesIn(Meanings(d, a, b)) = Kinds(d, a, b)
  <1>1. /\ DOMAIN Meanings(d, a, b) = 1 .. b - a
        /\ \A i \in 1 .. b - a : Meanings(d, a, b)[i].name = d[a + i].kind
    BY DEF Meanings, Meant
  <1>2. NamesIn(Meanings(d, a, b)) = {d[a + i].kind : i \in 1 .. b - a}
    BY <1>1 DEF NamesIn
  <1>3. {d[a + i].kind : i \in 1 .. b - a} = Kinds(d, a, b)
    <2>1. \A i \in 1 .. b - a : a + i \in a + 1 .. b
      OBVIOUS
    <2>2. \A i \in a + 1 .. b : i - a \in 1 .. b - a /\ a + (i - a) = i
      OBVIOUS
    <2>3. QED
      BY <2>1, <2>2 DEF Kinds
  <1>4. QED
    BY <1>2, <1>3

LEMMA KindsJoin ==
  ASSUME NEW d, NEW a \in Nat, NEW b \in Nat, NEW c \in Nat, a <= b, b <= c
  PROVE  Kinds(d, a, b) \cup Kinds(d, b, c) = Kinds(d, a, c)
  <1>1. (a + 1 .. b) \cup (b + 1 .. c) = a + 1 .. c
    OBVIOUS
  <1>2. QED
    BY <1>1 DEF Kinds

\* Whatever needs something of the server is not the heartbeat.
LEMMA NeedsSomething ==
  ASSUME NEW kind, kind # "C2S_HEARTBEAT"
  PROVE  \E k : k \in Needs(kind)
  BY DEF Needs

OldToNew == /\ \A a, b \in Conn : a < b \/ b < a \/ a = b
            /\ \A a, b \in Conn : a < b => ~ (b < a) /\ a # b

LEMMA LinesInOrder == OldToNew
  BY LinkAssumption DEF OldToNew

\* A walk cut off by a lost line, and not stopped before line c.
CutOff(b, c) == /\ b < c /\ LeftWalking(b)
                /\ \A a \in Conn : b < a /\ a < c => StopsOn(a) = {}

\* What line c may ask for as its i-th request.
MayAsk(c, i) == \/ InWorld(c)
                \/ upSent[c][i].kind \in {"C2S_ENTER_GAME", "C2S_HEARTBEAT"}
                \/ StopsOn(c) = {i} /\ \E b \in Conn : CutOff(b, c)

LEMMA AsksInTheWorldIs ==
  AsksInTheWorld <=> \A c \in Conn : \A i \in DOMAIN upSent[c] : MayAsk(c, i)
  BY DEF AsksInTheWorld, MayAsk, CutOff

\* One more request of kind k on line c.
AskedOnce(c, k) ==
  /\ \A b \in Conn : b # c => upSent'[b] = upSent[b]
  /\ DOMAIN upSent[c] = 1 .. Len(upSent[c]) /\ Len(upSent[c]) \in Nat
  /\ DOMAIN upSent'[c] = 1 .. Len(upSent[c]) + 1
  /\ \A i \in DOMAIN upSent[c] : upSent'[c][i] = upSent[c][i]
  /\ upSent'[c][Len(upSent[c]) + 1].kind = k

LEMMA SentOneMore ==
  ASSUME RelayTypeOK, NEW c \in Conn, NEW p, Asked(p) \in Unit,
         upSent' = [upSent EXCEPT ![c] = Append(@, Asked(p))]
  PROVE  AskedOnce(c, p.kind)
  <1> DEFINE q == upSent[c]
             u == Asked(p)
  <1>1. /\ q \in Seq(Unit) /\ upSent'[c] = Append(q, u)
        /\ \A b \in Conn : b # c => upSent'[b] = upSent[b]
    BY DEF RelayTypeOK
  <1>2. u.kind = p.kind
    BY DEF Asked, Piece
  <1> HIDE DEF q, u
  <1>3. /\ DOMAIN q = 1 .. Len(q) /\ Len(q) \in Nat
        /\ DOMAIN Append(q, u) = 1 .. Len(q) + 1
        /\ \A i \in 1 .. Len(q) : Append(q, u)[i] = q[i]
        /\ Append(q, u)[Len(q) + 1] = u
    BY <1>1
  <1>4. QED
    BY <1>1, <1>2, <1>3 DEF AskedOnce, q

\* What one more request does to the stops and walks of a line.
LEMMA StopsAndWalks ==
  ASSUME NEW c \in Conn, NEW k, AskedOnce(c, k)
  PROVE  /\ \A b \in Conn : b # c => /\ StopsOn(b)' = StopsOn(b)
                                   /\ LeftWalking(b)' = LeftWalking(b)
         /\ ~Stops(k) => /\ StopsOn(c)' = StopsOn(c)
                         /\ LeftWalking(c) => LeftWalking(c)'
         /\ Stops(k) => StopsOn(c)' = StopsOn(c) \cup {Len(upSent[c]) + 1}
         /\ Walks(k) => LeftWalking(c)'
  <1> DEFINE q == upSent[c]
             n == Len(upSent[c])
             r == upSent'[c]
  <1>1. /\ DOMAIN q = 1 .. n /\ n \in Nat /\ DOMAIN r = 1 .. n + 1
        /\ (\A i \in DOMAIN q : r[i] = q[i]) /\ r[n + 1].kind = k
    BY DEF AskedOnce
  <1>2. \A b \in Conn : b # c => /\ StopsOn(b)' = StopsOn(b)
                                /\ LeftWalking(b)' = LeftWalking(b)
    BY DEF AskedOnce, StopsOn, LeftWalking
  <1>3. /\ StopsOn(c) = {i \in DOMAIN q : Stops(q[i].kind)}
        /\ StopsOn(c)' = {i \in DOMAIN r : Stops(r[i].kind)}
    BY DEF StopsOn
  <1>4. /\ LeftWalking(c) = \E i \in DOMAIN q : Walks(q[i].kind) /\ \A j \in StopsOn(c) : j < i
        /\ LeftWalking(c)' = \E i \in DOMAIN r : Walks(r[i].kind) /\ \A j \in StopsOn(c)' : j < i
    BY DEF LeftWalking
  <1> HIDE DEF q, n, r
  <1>5. DOMAIN r = DOMAIN q \cup {n + 1} /\ \A i \in DOMAIN q : i < n + 1 /\ i # n + 1
    BY <1>1
  <1>6. ASSUME ~Stops(k) PROVE StopsOn(c)' = StopsOn(c)
    BY <1>1, <1>3, <1>5, <1>6
  <1>7. ASSUME Stops(k) PROVE StopsOn(c)' = StopsOn(c) \cup {n + 1}
    BY <1>1, <1>3, <1>5, <1>7
  <1>8. ASSUME ~Stops(k), LeftWalking(c) PROVE LeftWalking(c)'
    BY <1>1, <1>4, <1>5, <1>6, <1>8
  <1>9. ASSUME Walks(k) PROVE LeftWalking(c)'
    <2>1. ~Stops(k)
      BY <1>9 DEF Walks, Stops
    <2>2. \A j \in StopsOn(c)' : j < n + 1
      BY <1>3, <1>5, <1>6, <2>1
    <2>3. n + 1 \in DOMAIN r /\ Walks(r[n + 1].kind)
      BY <1>1, <1>5, <1>9
    <2>4. QED
      BY <1>4, <2>2, <2>3
  <1>10. QED
    BY <1>2, <1>6, <1>7, <1>8, <1>9 DEF n

\* The line in use is the last that has sent anything.
LEMMA LastToSend ==
  ASSUME OneByOne, AskInv, NEW c \in Conn, InUse(c), NEW b \in Conn, b # c, upSent[b] # <<>>
  PROVE  b < c
  <1>1. bws[b] # "NONE"
    BY DEF AskInv
  <1>2. ~ (c < b)
    BY <1>1 DEF OneByOne, InUse
  <1>3. QED
    BY <1>2, LinesInOrder DEF OldToNew

\* While a line has no character, a walk is one of an earlier line.
LEMMA WalkIsOlder ==
  ASSUME OneByOne, AskInv, moving, NEW c \in Conn, InUse(c), ~InWorld(c)
  PROVE  StopsOn(c) = {} /\ \E b \in Conn : CutOff(b, c)
  <1>1. PICK b \in Conn : WalkFrom(b)
    BY DEF AskInv
  <1>2. PICK i \in DOMAIN upSent[b] : Walks(upSent[b][i].kind)
    BY <1>1 DEF WalkFrom, LeftWalking
  <1>3. upSent[b] # <<>>
    BY <1>2
  <1>4. b # c
    <2>1. SUFFICES ASSUME b = c PROVE FALSE
      OBVIOUS
    <2>2. MayAsk(c, i)
      BY <1>2, <2>1, AsksInTheWorldIs DEF AskInv
    <2>3. i \in StopsOn(c)
      BY <1>2, <2>1, <2>2 DEF MayAsk, Walks
    <2>4. Stops(upSent[c][i].kind)
      BY <2>3 DEF StopsOn
    <2>5. QED
      BY <1>2, <2>1, <2>4 DEF Walks, Stops
  <1>5. b < c
    BY <1>3, <1>4, LastToSend
  <1>6. QED
    BY <1>1, <1>5 DEF WalkFrom, CutOff

\* One more request: it is free, the line has its character, or it stops a walk.
LEMMA AsksOneMore ==
  ASSUME OneByOne, AskInv, NEW c \in Conn, InUse(c), NEW k, AskedOnce(c, k), given' = given,
         \/ k \in {"C2S_ENTER_GAME", "C2S_HEARTBEAT"} \/ InWorld(c) \/ (Stops(k) /\ moving),
         moving' => Walks(k) \/ (moving /\ ~Stops(k))
  PROVE  AsksInTheWorld' /\ (moving' => \E b \in Conn : WalkFrom(b)')
  <1> DEFINE n == Len(upSent[c])
  <1>1. \A b \in Conn : InWorld(b)' = InWorld(b)
    BY DEF InWorld
  <1>2. \A b \in Conn : b # c => /\ StopsOn(b)' = StopsOn(b)
                                /\ LeftWalking(b)' = LeftWalking(b)
    BY StopsAndWalks
  <1>3. \A b, d \in Conn : CutOff(b, d) /\ ~ (c < d) => CutOff(b, d)'
    <2> SUFFICES ASSUME NEW b \in Conn, NEW d \in Conn, CutOff(b, d), ~ (c < d)
                 PROVE  CutOff(b, d)'
      OBVIOUS
    <2>1. \A a \in Conn : a < d => a # c
      OBVIOUS
    <2>2. QED
      BY <1>2, <2>1 DEF CutOff
  <1>4. ASSUME NEW d \in Conn, NEW i \in DOMAIN upSent'[d] PROVE MayAsk(d, i)'
    <2>1. CASE InWorld(d)
      BY <1>1, <2>1 DEF MayAsk
    <2>2. CASE d # c /\ ~InWorld(d)
      <3>1. upSent'[d] = upSent[d] /\ i \in DOMAIN upSent[d]
        BY <2>2 DEF AskedOnce
      <3>2. MayAsk(d, i)
        BY <3>1, AsksInTheWorldIs DEF AskInv
      <3>3. d < c
        BY <2>2, <3>1, LastToSend
      <3>4. ~ (c < d)
        BY <3>3, LinesInOrder DEF OldToNew
      <3>5. QED
        BY <1>2, <1>3, <2>2, <3>1, <3>2, <3>4 DEF MayAsk
    <2>3. CASE d = c /\ ~InWorld(c)
      <3>1. ~ (c < c)
        BY LinesInOrder DEF OldToNew
      <3>2. DOMAIN upSent'[c] = DOMAIN upSent[c] \cup {n + 1} /\ upSent'[c][n + 1].kind = k
        BY DEF AskedOnce
      <3>3. CASE Stops(k)
        <4>1. moving
          BY <2>3, <3>3 DEF Stops
        <4>2. StopsOn(c) = {} /\ \E b \in Conn : CutOff(b, c)
          BY <2>3, <4>1, WalkIsOlder
        <4>3. StopsOn(c)' = {n + 1} /\ \E b \in Conn : CutOff(b, c)'
          BY <1>3, <3>1, <3>3, <4>2, StopsAndWalks
        <4>4. CASE i = n + 1
          BY <2>3, <4>3, <4>4 DEF MayAsk
        <4>5. CASE i \in DOMAIN upSent[c]
          <5>1. MayAsk(c, i) /\ upSent'[c][i] = upSent[c][i]
            BY <4>5, AsksInTheWorldIs DEF AskInv, AskedOnce
          <5>2. upSent[c][i].kind \in {"C2S_ENTER_GAME", "C2S_HEARTBEAT"}
            BY <2>3, <4>2, <5>1 DEF MayAsk
          <5>3. QED
            BY <2>3, <5>1, <5>2 DEF MayAsk
        <4>6. QED
          BY <1>4, <2>3, <3>2, <4>4, <4>5
      <3>4. CASE ~Stops(k)
        <4>1. k \in {"C2S_ENTER_GAME", "C2S_HEARTBEAT"} /\ StopsOn(c)' = StopsOn(c)
          BY <2>3, <3>4, StopsAndWalks
        <4>2. CASE i = n + 1
          BY <2>3, <3>2, <4>1, <4>2 DEF MayAsk
        <4>3. CASE i \in DOMAIN upSent[c]
          <5>1. MayAsk(c, i) /\ upSent'[c][i] = upSent[c][i]
            BY <4>3, AsksInTheWorldIs DEF AskInv, AskedOnce
          <5>2. QED
            BY <1>3, <2>3, <3>1, <4>1, <5>1 DEF MayAsk
        <4>4. QED
          BY <1>4, <2>3, <3>2, <4>2, <4>3
      <3>5. QED
        BY <3>3, <3>4
    <2>4. QED
      BY <2>1, <2>2, <2>3
  <1>5. AsksInTheWorld'
    BY <1>4 DEF AsksInTheWorld, MayAsk, CutOff
  <1>6. ASSUME moving' PROVE \E b \in Conn : WalkFrom(b)'
    <2>1. CASE Walks(k)
      <3>1. LeftWalking(c)'
        BY <2>1, StopsAndWalks
      <3>2. ASSUME NEW a \in Conn, c < a PROVE StopsOn(a)' = {}
        <4>1. a # c /\ ~ (a < c)
          BY <3>2, LinesInOrder DEF OldToNew
        <4>2. upSent[a] = <<>>
          BY <4>1, LastToSend
        <4>3. StopsOn(a) = {}
          BY <4>2 DEF StopsOn
        <4>4. QED
          BY <1>2, <4>1, <4>3
      <3>3. QED
        BY <3>1, <3>2 DEF WalkFrom
    <2>2. CASE moving /\ ~Stops(k)
      <3>1. PICK b \in Conn : WalkFrom(b)
        BY <2>2 DEF AskInv
      <3>2. \A a \in Conn : StopsOn(a)' = StopsOn(a) /\ (LeftWalking(a) => LeftWalking(a)')
        BY <1>2, <2>2, StopsAndWalks
      <3>3. QED
        BY <3>1, <3>2 DEF WalkFrom
    <2>3. QED
      BY <1>6, <2>1, <2>2
  <1>7. QED
    BY <1>5, <1>6

\* So it is if what is held stays the same.
LEMMA SameHeld ==
  ASSUME LinkInv, AskInv, NEW c \in Conn, InUse(c), NEW k, AskedOnce(c, k),
         UNCHANGED <<bws, given, holds>>,
         \/ k \in {"C2S_ENTER_GAME", "C2S_HEARTBEAT"} \/ InWorld(c) \/ (Stops(k) /\ moving),
         moving' => Walks(k) \/ (moving /\ ~Stops(k))
  PROVE  AskInv'
  <1>1. AsksInTheWorld' /\ (moving' => \E b \in Conn : WalkFrom(b)')
    BY AsksOneMore DEF LinkInv
  <1>2. \A b \in Conn : Named(b)' = Named(b)
    BY DEF Named
  <1>3. \A b \in Conn : bws'[b] = "NONE" => upSent'[b] = <<>>
    BY DEF AskInv, AskedOnce, InUse
  <1>4. QED
    BY <1>1, <1>2, <1>3 DEF AskInv

\* What is held comes from the line's own packets, and before any of those that a
\* request needs there was the character.
LEMMA StepPageAsks ==
  ASSUME RelayTypeOK, LinkInv, AskInv, NEW c \in Conn, PageAsks(c)
  PROVE  AskInv'
  <1> DEFINE d == script.down
             p == script.up[acts + 1]
  <1>1. /\ acts + 1 \in DOMAIN script.up /\ Needs(p.kind) \subseteq holds
        /\ bws[c] = "OPEN" /\ upSent' = [upSent EXCEPT ![c] = Append(@, Asked(p))]
        /\ moving' = (Walks(p.kind) \/ (moving /\ ~Stops(p.kind)))
        /\ UNCHANGED <<bws, given, holds>>
    BY DEF PageAsks, BrowserSend, ends
  <1>2. PICK f, m : OnLine(c, f, m)
    BY DEF LinkInv
  <1>3. m \in Nat /\ m <= Len(d) /\ Len(d) \in Nat /\ d \in Seq(Packet)
    <2>1. d \in Seq(Packet)
      BY LinkAssumption DEF LinkInv
    <2>2. m \in 0 .. Told(c) /\ Told(c) \in 0 .. Len(d)
      BY <1>2 DEF OnLine, HasCome, Cuts, Cut
    <2> HIDE DEF d
    <2>3. QED
      BY <2>1, <2>2
  <1>4. Named(c) = Kinds(d, 0, m)
    <2>1. given[c] = Meanings(d, 0, m)
      BY <1>2 DEF OnLine
    <2>2. 0 \in Nat /\ 0 <= m
      BY <1>3
    <2>3. QED
      BY <1>3, <2>1, <2>2, NamesOfMeanings DEF Named
  <1>5. ASSUME p.kind # "C2S_HEARTBEAT" PROVE "S2C_CREATE_MY_PLAYER" \in Named(c)
    <2>1. PICK k : k \in Needs(p.kind)
      BY <1>5, NeedsSomething
    <2>2. k \in Kinds(d, 0, m)
      BY <1>1, <1>4, <2>1 DEF AskInv
    <2>3. PICK i \in 1 .. m : d[i].kind = k
      <3>1. 0 + 1 = 1
        OBVIOUS
      <3>2. QED
        BY <2>2, <3>1 DEF Kinds
    <2>4. i \in DOMAIN d
      <3> HIDE DEF d
      <3>1. QED
        BY <1>3
    <2>5. PICK h \in 1 .. i : d[h].kind = "S2C_CREATE_MY_PLAYER"
      BY <1>1, <2>1, <2>3, <2>4, LinkAssumption DEF LinkInv
    <2>6. h \in 0 + 1 .. m
      BY <1>3, <2>3, <2>5
    <2>7. QED
      BY <1>4, <2>5, <2>6 DEF Kinds
  <1>6. AskedOnce(c, p.kind)
    <2>1. Asked(p) \in Unit
      BY <1>1, LinkAssumption DEF LinkInv
    <2>2. QED
      BY <1>1, <2>1, SentOneMore
  <1>7. p.kind \in {"C2S_ENTER_GAME", "C2S_HEARTBEAT"} \/ InWorld(c)
    BY <1>5 DEF InWorld, Named, NamesIn
  <1>8. QED
    BY <1>1, <1>6, <1>7, SameHeld DEF InUse

\* A stop on the way into the chat box is the end of a walk, if not of this line's.
LEMMA StepStopsToChat ==
  ASSUME RelayTypeOK, LinkInv, AskInv, NEW c \in Conn, PageStopsToChat(c)
  PROVE  AskInv'
  <1>1. /\ bws[c] = "OPEN" /\ upSent' = [upSent EXCEPT ![c] = Append(@, Asked(Stop))]
        /\ moving /\ ~moving' /\ UNCHANGED <<bws, given, holds>>
    BY DEF PageStopsToChat, BrowserSend, ends
  <1>2. Stops(Stop.kind)
    BY DEF Stop, Stops
  <1>3. AskedOnce(c, Stop.kind)
    BY <1>1, SentOneMore, LinkAssumption
  <1>4. QED
    BY <1>1, <1>2, <1>3, SameHeld DEF InUse

\* What nobody asks changes nothing, though a line may get its character.
LEMMA NothingAsked ==
  ASSUME AskInv, upSent' = upSent, moving' => moving,
         \A b \in Conn : InWorld(b) => InWorld(b)'
  PROVE  AsksInTheWorld' /\ (moving' => \E b \in Conn : WalkFrom(b)')
  <1>1. \A b \in Conn : StopsOn(b)' = StopsOn(b) /\ LeftWalking(b)' = LeftWalking(b)
    BY DEF StopsOn, LeftWalking
  <1>2. AsksInTheWorld'
    BY <1>1 DEF AskInv, AsksInTheWorld
  <1>3. QED
    BY <1>1, <1>2 DEF AskInv, WalkFrom

\* What a frame adds to the page was told on the frame's line.
LEMMA StepGetsAsks ==
  ASSUME RelayTypeOK, NothingSkipped, LinkInv, AskInv, NEW c \in Conn,
         NEW n \in 1 .. Len(dnWire[c]), PageGets(c, n)
  PROVE  AskInv'
  <1> DEFINE d == script.down
  <1>1. PICK m, j \in Nat : /\ m <= j /\ given[c] = Meanings(d, 0, m)
                            /\ given' = [given EXCEPT ![c] = Meanings(d, 0, j)]
                            /\ holds' = Keep(holds, Meanings(d, m, j))
    BY PageGetsMore
  <1>2. bws[c] = "OPEN" /\ UNCHANGED <<bws, upSent>> /\ (moving' => moving)
    BY DEF PageGets, WalksOn, BrowserMessage, ends, up
  <1>3. /\ given'[c] = Meanings(d, 0, j)
        /\ \A b \in Conn : b # c => given'[b] = given[b]
    BY <1>1 DEF LinkInv
  <1> HIDE DEF d
  <1>4. /\ Named(c) = Kinds(d, 0, m) /\ Named(c)' = Kinds(d, 0, j)
        /\ Kinds(d, 0, j) = Kinds(d, 0, m) \cup Kinds(d, m, j)
    <2>1. 0 \in Nat /\ 0 <= m /\ 0 <= j
      OBVIOUS
    <2>2. NamesIn(Meanings(d, 0, m)) = Kinds(d, 0, m)
      BY <2>1, NamesOfMeanings
    <2>3. NamesIn(Meanings(d, 0, j)) = Kinds(d, 0, j)
      BY <2>1, NamesOfMeanings
    <2>4. Kinds(d, 0, m) \cup Kinds(d, m, j) = Kinds(d, 0, j)
      <3>1. m <= j
        BY <1>1
      <3>2. QED
        BY <2>1, <3>1, KindsJoin
    <2>5. QED
      BY <1>1, <1>3, <2>2, <2>3, <2>4 DEF Named
  <1>5. holds' \subseteq holds \cup Kinds(d, m, j)
    <2> DEFINE out == Meanings(d, m, j)
    <2>1. out \in Seq({Meant(d[i]) : i \in 1 .. j})
      BY <1>1, MeaningsType
    <2>2. NamesIn(out) = Kinds(d, m, j)
      BY <1>1, NamesOfMeanings
    <2> HIDE DEF out
    <2>3. Keep(holds, out) \subseteq holds \cup NamesIn(out)
      BY <2>1, KeepNames DEF NamesIn
    <2>4. QED
      BY <1>1, <2>2, <2>3 DEF out
  <1>6. holds' \subseteq Named(c)'
    BY <1>2, <1>4, <1>5 DEF AskInv
  <1>7. \A b \in Conn : b # c => ~ InUse(b)
    BY <1>2, OneInUse DEF LinkInv, InUse
  <1>8. \A b \in Conn : Named(b) \subseteq Named(b)'
    <2>1. \A b \in Conn : b # c => Named(b)' = Named(b)
      BY <1>3 DEF Named
    <2>2. QED
      BY <1>4, <2>1
  <1>9. AsksInTheWorld' /\ (moving' => \E b \in Conn : WalkFrom(b)')
    <2>1. \A b \in Conn : InWorld(b) => InWorld(b)'
      BY <1>8 DEF InWorld, Named, NamesIn
    <2>2. QED
      BY <1>2, <2>1, NothingAsked DEF AskInv
  <1>10. QED
    BY <1>2, <1>6, <1>7, <1>9 DEF AskInv, InUse

LEMMA NextAskInv ==
  ASSUME RelayTypeOK, NothingSkipped, LinkInv, AskInv, [LinkNext]_linkVars
  PROVE  AskInv'
  <1>1. ASSUME UNCHANGED <<given, holds, upSent, moving>>,
               \A b \in Conn : bws'[b] = bws[b] \/ (bws[b] # "NONE" /\ bws'[b] = "CLOSED")
        PROVE  AskInv'
    <2>1. \A b \in Conn : Named(b)' = Named(b) /\ (InWorld(b) => InWorld(b)')
      BY <1>1 DEF Named, InWorld
    <2>2. AsksInTheWorld' /\ (moving' => \E b \in Conn : WalkFrom(b)')
      BY <1>1, <2>1, NothingAsked
    <2>3. QED
      BY <1>1, <2>1, <2>2 DEF AskInv
  <1>2. CASE Aside /\ UNCHANGED <<upSent, moving>>
    BY <1>1, <1>2 DEF Aside
  <1>3. ASSUME NEW c \in Conn, PageRequests(c) PROVE AskInv'
    BY <1>3, StepPageAsks, StepStopsToChat DEF PageRequests
  <1>4. ASSUME NEW c \in Conn, PageOpens(c) PROVE AskInv'
    <2>1. /\ bws[c] = "CONNECTING" /\ bws' = [bws EXCEPT ![c] = "OPEN"]
          /\ upSent' = [upSent EXCEPT ![c] = Append(@, Asked(Entry))]
          /\ UNCHANGED <<given, holds, moving>>
      BY <1>4 DEF PageOpens, BrowserOpen, webVars
    <2>2. Entry.kind = "C2S_ENTER_GAME" /\ ~Stops(Entry.kind)
      BY DEF Entry, Stops
    <2>3. AskedOnce(c, Entry.kind)
      BY <2>1, SentOneMore, LinkAssumption
    <2>4. AsksInTheWorld' /\ (moving' => \E b \in Conn : WalkFrom(b)')
      BY <2>1, <2>2, <2>3, AsksOneMore DEF LinkInv, InUse
    <2>5. \A b \in Conn : bws'[b] = IF b = c THEN "OPEN" ELSE bws[b]
      BY <2>1 DEF RelayTypeOK
    <2>6. \A b \in Conn : Named(b)' = Named(b)
      BY <2>1 DEF Named
    <2>7. \A b \in Conn : bws'[b] = "NONE" => upSent'[b] = <<>>
      BY <2>3, <2>5 DEF AskInv, AskedOnce
    <2>8. QED
      BY <2>1, <2>4, <2>5, <2>6, <2>7 DEF AskInv
  <1>5. ASSUME NEW c \in Conn, PageConnects(c) PROVE AskInv'
    <2>1. /\ bws' = [bws EXCEPT ![c] = "CONNECTING"]
          /\ holds' = {} /\ UNCHANGED <<given, upSent, moving>>
      BY <1>5 DEF PageConnects, Connect, up
    <2>2. \A b \in Conn : InWorld(b) => InWorld(b)'
      BY <2>1 DEF InWorld
    <2>3. AsksInTheWorld' /\ (moving' => \E b \in Conn : WalkFrom(b)')
      BY <2>1, <2>2, NothingAsked
    <2>4. \A b \in Conn : bws'[b] = "NONE" => bws[b] = "NONE"
      BY <2>1 DEF RelayTypeOK
    <2>5. QED
      BY <2>1, <2>3, <2>4 DEF AskInv
  <1>6. ASSUME NEW c \in Conn, ServerTells(c) PROVE AskInv'
    <2>1. UNCHANGED <<given, holds, upSent, moving, bws>>
      BY <1>6 DEF ServerTells, ServerSend, webVars, up, ends
    <2>2. QED
      BY <1>1, <2>1
  <1>7. ASSUME NEW c \in Conn, NEW n \in 1 .. Len(dnWire[c]), PageGets(c, n) PROVE AskInv'
    BY <1>7, StepGetsAsks
  <1>8. QED
    BY <1>2, <1>3, <1>4, <1>5, <1>6, <1>7, StepsAside

\* On a new line the page asks for nothing before it has that line's character,
\* whatever it had from the last one, but to end a walk that an earlier line cut off,
\* and that once.
THEOREM AsksWithACharacter == LinkSpec /\ []ReadsAlone => []AsksInTheWorld
  <1>1. LinkInit => AskInv
    <2> SUFFICES ASSUME LinkInit PROVE AskInv
      OBVIOUS
    <2>1. (\A c \in Conn : bws[c] = "NONE" /\ upSent[c] = <<>>) /\ ~moving
      BY DEF LinkInit, RelayInit
    <2>2. AsksInTheWorld
      BY <2>1 DEF AsksInTheWorld
    <2>3. QED
      BY ZenonT(60), SMTT(60), <2>1, <2>2 DEF AskInv
  <1>2. RelayTypeOK /\ NothingSkipped /\ LinkInv /\ AskInv /\ [LinkNext]_linkVars => AskInv'
    BY NextAskInv
  <1>3. AskInv => AsksInTheWorld
    BY DEF AskInv
  <1>4. LinkSpec => []RelayTypeOK
    BY LinkIsARelay, RelayTypes, PTL
  <1>5. QED
    BY <1>1, <1>2, <1>3, <1>4, LineInOrder, LinkInvariant, PTL DEF LinkSpec

=============================================================================
