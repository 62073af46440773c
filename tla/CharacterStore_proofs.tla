------------------------- MODULE CharacterStore_proofs -------------------------
(***************************************************************************)
(* Proofs about the character store, for every number of accounts,         *)
(* workers, slots, sessions, changes and faults, every bound of a queue    *)
(* and every width of a bundle number: types, the gauge of bundles on      *)
(* their way, the tick-end list, the holds of pair links, and that no      *)
(* leave record ever overwrites another.                                   *)
(*                                                                         *)
(* The invariant is about a store state s, and so are the lemmas: each     *)
(* says of one operator of the store what it keeps, and the lemma of an    *)
(* action chains those of the operators it is composed of.                 *)
(***************************************************************************)
EXTENDS CharacterStore, DBWorker_proofs, Folds_proofs

-----------------------------------------------------------------------------
(* The invariant.  It speaks of a store state, so that it can be followed  *)
(* through the operators an action is composed of.                         *)

\* A link with its two sides, of two characters.
Link == {x \in [account : [1 .. 2 -> Account], session : [1 .. 2 -> Nat],
                no : [1 .. 2 -> 0 .. SeqMax], replied : [1 .. 2 -> BOOLEAN],
                ok : BOOLEAN, inFlight : BOOLEAN] : x.account[1] # x.account[2]}

Records == UNION {[D -> LeaveRecord] : D \in SUBSET Account}

Errors == {"leave record overwritten", "pair side missing", "pair player gone"}

StoreState ==
    [player : [Account -> PlayerState], leave : Records, leaveSeq : 0 .. SeqMax,
     pairs : Seq(Link), tickEnd : Seq(Nat \ {0}), inflight : Int,
     slot : [Worker -> SlotState], raised : SUBSET Errors]

Flying(s) == {a \in Account : s.player[a].bundleNo # 0}

\* The gauge covers every bundle on its way, so what is taken off it was there.
Sound(s) ==
    /\ s \in StoreState
    /\ QueuesOK(s.slot)
    /\ s.inflight >= Cardinality(Flying(s))

\* No session twice, neither among the characters nor in the list, and the
\* listed sessions are those of the characters marked so.
Listed(s) ==
    /\ \A a, b \in Account : s.player[a].session = s.player[b].session
                             => a = b \/ s.player[a].session = 0
    /\ \A i, j \in 1 .. Len(s.tickEnd) : s.tickEnd[i] = s.tickEnd[j] => i = j
    /\ \A a \in Account :
          s.player[a].session # 0 =>
             (s.player[a].listed <=>
                \E i \in 1 .. Len(s.tickEnd) : s.tickEnd[i] = s.player[a].session)

LinkHolds(s, a, session) ==
    \E i \in 1 .. Len(s.pairs), k \in 1 .. 2 :
        s.pairs[i].account[k] = a /\ s.pairs[i].session[k] = session

\* Every hold has its link, but for the holds of a link that has just gone.
Held(s, but) ==
    \A a \in Account :
        /\ s.player[a].session # 0 /\ s.player[a].paired =>
             \/ LinkHolds(s, a, s.player[a].session)
             \/ <<a, s.player[a].session>> \in but
        /\ a \in DOMAIN s.leave /\ s.leave[a].paired =>
             LinkHolds(s, a, 0) \/ <<a, 0>> \in but

Good(s, but) == Sound(s) /\ Listed(s) /\ Held(s, but)

\* No session to come is known yet.
Untouched(s, sessions) ==
    \A n \in sessions :
        /\ \A a \in Account : s.player[a].session # n
        /\ \A i \in 1 .. Len(s.tickEnd) : s.tickEnd[i] # n

ToCome == {n \in Nat : n >= nextSession \/ (n # 0 /\ \E a \in Account : loading[a] = n)}

LoadsApart ==
    /\ nextSession \in Nat \ {0}
    /\ \A a \in Account : loading[a] < nextSession
    /\ \A a, b \in Account : loading[a] = loading[b] => a = b \/ loading[a] = 0

Ending == {"last players", "last records", "last pairs", "drain", "stopped"}

\* What the game loop has left to look at is there; a character and its leave
\* record meet only when the server stops.
Places ==
    /\ pc = "loads" => inbox # <<>>
    /\ pc = "records" => todo # {} /\ todo \subseteq DOMAIN leave
    /\ pc = "pairs" => todo # {} /\ todo \subseteq 1 .. Len(pairs)
    /\ pc = "list" => tickEnd # <<>>
    /\ pc = "last players" =>
         \A a \in todo : a \in Account /\ InGame(a) /\ a \notin DOMAIN leave
    /\ pc = "last records" => todo \subseteq DOMAIN leave
    /\ pc = "last pairs" => todo \subseteq 1 .. Len(pairs)
    /\ pc \notin Ending => \A a \in DOMAIN leave : ~InGame(a)

LoopOK ==
    /\ loading \in [Account -> 0 .. MaxSessions]
    /\ frame \in 0 .. PeriodFrames
    /\ inbox \in Seq(LoadResult)
    /\ lost \subseteq Account

StoreInvariant ==
    /\ WorkerTypeOK
    /\ Paired
    /\ Good(Store, {})
    /\ LoopOK
    /\ LoadsApart
    /\ Untouched(Store, ToCome)
    /\ Places
    /\ NoRecordOverwritten

-----------------------------------------------------------------------------
(* One character and its bundles. *)

\* The number after a bundle number is a bundle number, and not zero.
LEMMA NextNoType == \A n \in 0 .. SeqMax : NextNo(n) \in 1 .. SeqMax
  BY StoreAssumption DEF NextNo

LEMMA CarriedType ==
  ASSUME NEW bag \in Bag, NEW slots
  PROVE  Carried(bag, slots) \in BagRows
  BY DEF Carried, Bag, BagRows

LEMMA FreshType ==
  ASSUME NEW n \in Nat, NEW row \in Row, NEW bag \in Bag, NEW dirty \in BOOLEAN
  PROVE  /\ Fresh(n, row, bag, dirty) \in PlayerState
         /\ Fresh(n, row, bag, dirty).session = n
         /\ Fresh(n, row, bag, dirty).bundleNo = 0
         /\ Fresh(n, row, bag, dirty).listed = FALSE
         /\ Fresh(n, row, bag, dirty).paired = FALSE
  <1>1. row.val \in Nat
    BY DEF Row
  <1>2. 1 \in 1 .. SeqMax /\ 0 \in 0 .. SeqMax
    BY StoreAssumption
  <1>3. QED
    BY <1>1, <1>2 DEF Fresh, PlayerState

\* What the three steps of a bundle leave of a character.
SameFace(p, q) ==
    q.session = p.session /\ q.listed = p.listed /\ q.paired = p.paired

LEMMA PrepareBundleType ==
  ASSUME NEW p \in PlayerState
  PROVE  /\ PrepareBundle(p) \in PlayerState
         /\ PrepareBundle(p).bundleNo = p.bundleNo
         /\ SameFace(p, PrepareBundle(p))
  <1>1. NextNo(p.nextNo) \in 1 .. SeqMax
    BY NextNoType DEF PlayerState
  <1>2. p.row.val \in Nat
    BY DEF PlayerState, Row
  <1>3. QED
    BY ZenonT(60), <1>1, <1>2 DEF PrepareBundle, PlayerState, SameFace

LEMMA AbortBundleType ==
  ASSUME NEW p \in PlayerState
  PROVE  /\ AbortBundle(p) \in PlayerState
         /\ AbortBundle(p).bundleNo = p.bundleNo
         /\ SameFace(p, AbortBundle(p))
  BY DEF AbortBundle, PlayerState, SameFace

LEMMA CommitBundleType ==
  ASSUME NEW p \in PlayerState, NEW no \in 0 .. SeqMax
  PROVE  /\ CommitBundle(p, no) \in PlayerState
         /\ CommitBundle(p, no).bundleNo = no
         /\ SameFace(p, CommitBundle(p, no))
  BY DEF CommitBundle, PlayerState, SameFace

LEMMA BundleOfType ==
  ASSUME NEW a \in Account, NEW p \in PlayerState
  PROVE  /\ BundleOf(a, p) \in Bundle
         /\ BundleOf(a, p).account = a
         /\ BundleOf(a, p).no = p.nextNo
         /\ BundleOf(a, p).pairNext = 0
  <1>1. Carried(p.bag, p.unsaved) \in BagRows
    BY CarriedType DEF PlayerState
  <1>2. p.nextNo \in Nat \ {0} /\ p.session \in Nat /\ p.row \in Row
    BY StoreAssumption DEF PlayerState
  <1>3. QED
    BY <1>1, <1>2 DEF BundleOf, Bundle, Session

LEMMA LeaveBundleType ==
  ASSUME NEW a \in Account, NEW rec \in LeaveRecord, rec.no # 0
  PROVE  /\ LeaveBundle(a, rec) \in Bundle
         /\ LeaveBundle(a, rec).account = a
         /\ LeaveBundle(a, rec).no = rec.no
         /\ LeaveBundle(a, rec).pairNext = 0
  <1>1. rec.no \in Nat \ {0} /\ rec.row \in Row /\ rec.rows \in BagRows
    BY StoreAssumption DEF LeaveRecord
  <1>2. QED
    BY <1>1 DEF LeaveBundle, Bundle, Session

-----------------------------------------------------------------------------
(* Store states. *)

LEMMA StoreParts ==
  ASSUME NEW s \in StoreState
  PROVE  /\ s.player \in [Account -> PlayerState]
         /\ \A a \in Account : s.player[a] \in PlayerState
         /\ s.leave \in [DOMAIN s.leave -> LeaveRecord]
         /\ DOMAIN s.leave \subseteq Account
         /\ \A a \in DOMAIN s.leave : s.leave[a] \in LeaveRecord
         /\ s.leaveSeq \in 0 .. SeqMax
         /\ s.pairs \in Seq(Link)
         /\ s.tickEnd \in Seq(Nat \ {0})
         /\ s.inflight \in Int
         /\ s.slot \in [Worker -> SlotState]
         /\ s.raised \in SUBSET Errors
  BY DEF StoreState, Records

LEMMA RecordsType ==
  ASSUME NEW D, D \subseteq Account, NEW f \in [D -> LeaveRecord]
  PROVE  f \in Records
  BY DEF Records

\* The variables after an action that ends in the store state t.
LEMMA BecomesStore ==
  ASSUME NEW t \in StoreState, Becomes(t)
  PROVE  Store' = t
  BY DEF Becomes, Store, StoreState

LEMMA FlyingFinite ==
  ASSUME NEW s
  PROVE  IsFiniteSet(Flying(s)) /\ Cardinality(Flying(s)) \in Nat
  BY StoreAssumption, FS_Subset, FS_CardinalityType DEF Flying

\* What the gauge has to follow when one character changes.
LEMMA OneFlies ==
  ASSUME NEW s, NEW t, NEW a \in Account,
         \A x \in Account \ {a} : t.player[x].bundleNo = s.player[x].bundleNo
  PROVE  /\ Cardinality(Flying(t)) <= Cardinality(Flying(s)) + 1
         /\ t.player[a].bundleNo = 0 \/ s.player[a].bundleNo # 0
              => Cardinality(Flying(t)) <= Cardinality(Flying(s))
         /\ t.player[a].bundleNo = 0 /\ s.player[a].bundleNo # 0
              => Cardinality(Flying(t)) <= Cardinality(Flying(s)) - 1
  <1> DEFINE F == Flying(s)
             G == Flying(t)
  <1>1. IsFiniteSet(F) /\ Cardinality(F) \in Nat
    BY FlyingFinite
  <1>2. G \subseteq F \cup {a}
    BY DEF Flying
  <1>3. /\ a \in F <=> s.player[a].bundleNo # 0
        /\ a \in G <=> t.player[a].bundleNo # 0
    BY DEF Flying
  <1>4. /\ IsFiniteSet(F \cup {a})
        /\ Cardinality(F \cup {a}) = IF a \in F THEN Cardinality(F) ELSE Cardinality(F) + 1
    BY <1>1, FS_AddElement
  <1>5. /\ IsFiniteSet(F \ {a})
        /\ Cardinality(F \ {a}) = IF a \in F THEN Cardinality(F) - 1 ELSE Cardinality(F)
    BY <1>1, FS_RemoveElement
  <1> HIDE DEF F, G
  <1>6. Cardinality(G) \in Nat /\ Cardinality(G) <= Cardinality(F \cup {a})
    BY <1>2, <1>4, FS_Subset, FS_CardinalityType
  <1>7. a \notin G => Cardinality(G) <= Cardinality(F \ {a})
    <2>1. a \notin G => G \subseteq F \ {a}
      BY <1>2
    <2>2. QED
      BY <1>5, <2>1, FS_Subset
  <1>8. /\ Cardinality(G) <= Cardinality(F) + 1
        /\ a \notin G \/ a \in F => Cardinality(G) <= Cardinality(F)
        /\ a \notin G /\ a \in F => Cardinality(G) <= Cardinality(F) - 1
    BY <1>1, <1>4, <1>5, <1>6, <1>7
  <1>9. QED
    BY <1>3, <1>8 DEF F, G

-----------------------------------------------------------------------------
(* Nobody enters, leaves, is listed or held: what most operators keep. *)

Overwritten == "leave record overwritten"

Quiet(s, t) ==
    /\ t.tickEnd = s.tickEnd
    /\ \A a \in Account : SameFace(s.player[a], t.player[a])
    /\ DOMAIN t.leave = DOMAIN s.leave
    /\ \A a \in DOMAIN s.leave : t.leave[a].paired = s.leave[a].paired
    /\ Len(t.pairs) = Len(s.pairs)
    /\ \A i \in 1 .. Len(s.pairs) : /\ t.pairs[i].account = s.pairs[i].account
                                    /\ t.pairs[i].session = s.pairs[i].session
    /\ Overwritten \in t.raised => Overwritten \in s.raised

LEMMA QuietTwice ==
  ASSUME NEW s, NEW t, NEW u, Quiet(s, t), Quiet(t, u)
  PROVE  Quiet(s, u)
  BY DEF Quiet, SameFace

LEMMA QuietGood ==
  ASSUME NEW s, NEW but, Good(s, but), NEW t, Sound(t), Quiet(s, t)
  PROVE  Good(t, but)
  <1>1. Listed(t)
    BY SMTT(60) DEF Good, Listed, Quiet, SameFace
  <1>2. \A a \in Account, n \in Nat : LinkHolds(s, a, n) => LinkHolds(t, a, n)
    BY SMTT(60), ZenonT(60) DEF LinkHolds, Quiet
  <1>3. Held(t, but)
    <2>1. \A a \in Account : s.player[a].session \in Nat
      BY StoreParts DEF Good, Sound, PlayerState
    <2>2. QED
      BY ZenonT(60), <1>2, <2>1 DEF Good, Held, Quiet, SameFace
  <1>4. QED
    BY <1>1, <1>3 DEF Good

\* Nobody enters or leaves: what handling replies keeps too.
Follows(s, t) ==
    /\ \A a \in Account : t.player[a].session = s.player[a].session
    /\ DOMAIN t.leave \subseteq DOMAIN s.leave
    /\ \A j \in 1 .. Len(t.tickEnd) :
          \/ \E i \in 1 .. Len(s.tickEnd) : t.tickEnd[j] = s.tickEnd[i]
          \/ \E a \in Account : t.tickEnd[j] = s.player[a].session
    /\ Overwritten \in t.raised => Overwritten \in s.raised

LEMMA FollowsTwice ==
  ASSUME NEW s, NEW t, NEW u, Follows(s, t), Follows(t, u)
  PROVE  Follows(s, u)
  <1>1. ASSUME NEW j \in 1 .. Len(u.tickEnd)
        PROVE  \/ \E i \in 1 .. Len(s.tickEnd) : u.tickEnd[j] = s.tickEnd[i]
               \/ \E a \in Account : u.tickEnd[j] = s.player[a].session
    <2>1. \/ \E i \in 1 .. Len(t.tickEnd) : u.tickEnd[j] = t.tickEnd[i]
          \/ \E a \in Account : u.tickEnd[j] = s.player[a].session
      BY ZenonT(60) DEF Follows
    <2>2. \A i \in 1 .. Len(t.tickEnd) :
             \/ \E k \in 1 .. Len(s.tickEnd) : t.tickEnd[i] = s.tickEnd[k]
             \/ \E a \in Account : t.tickEnd[i] = s.player[a].session
      BY ZenonT(60) DEF Follows
    <2>3. QED
      BY ZenonT(60), SMTT(60), <2>1, <2>2
  <1>2. QED
    BY ZenonT(60), SMTT(60), <1>1 DEF Follows

LEMMA QuietFollows ==
  ASSUME NEW s, NEW t, Quiet(s, t)
  PROVE  Follows(s, t)
  BY DEF Quiet, Follows, SameFace

LEMMA FollowsUntouched ==
  ASSUME NEW s, NEW t, Follows(s, t), NEW sessions, Untouched(s, sessions)
  PROVE  Untouched(t, sessions)
  BY SMTT(60), ZenonT(60) DEF Follows, Untouched

-----------------------------------------------------------------------------
(* Leave records. *)

LEMMA NumberRecordOK ==
  ASSUME NEW s, Sound(s), NEW a \in DOMAIN s.leave
  PROVE  LET t == NumberRecord(s, a) IN
         /\ Sound(t) /\ Quiet(s, t)
         /\ t.player = s.player /\ t.pairs = s.pairs
         /\ t.slot = s.slot /\ t.inflight = s.inflight
         /\ t.leave[a].no # 0
         /\ \A x \in DOMAIN s.leave : s.leave[x].no # 0 => t.leave[x].no # 0
  <1> DEFINE no == NextNo(s.leaveSeq)
             rec == [s.leave[a] EXCEPT !.no = no]
             kept == [s.leave EXCEPT ![a] = rec]
             t == NumberRecord(s, a)
  <1>1. s \in StoreState
    BY DEF Sound
  <1>2. /\ s.leave \in [DOMAIN s.leave -> LeaveRecord] /\ DOMAIN s.leave \subseteq Account
        /\ s.leave[a] \in LeaveRecord /\ s.leaveSeq \in 0 .. SeqMax
    BY <1>1, StoreParts
  <1>3. no \in 1 .. SeqMax /\ no \in 0 .. SeqMax
    BY <1>2, NextNoType, StoreAssumption
  <1> HIDE DEF no
  <1>4. rec \in LeaveRecord /\ rec.paired = s.leave[a].paired /\ rec.no # 0
    BY <1>2, <1>3 DEF LeaveRecord
  <1>5. t = [s EXCEPT !.leaveSeq = no, !.leave = kept]
    BY <1>1 DEF NumberRecord, StoreState, no
  <1> HIDE DEF rec
  <1>6. /\ kept \in Records /\ DOMAIN kept = DOMAIN s.leave /\ kept[a].no # 0
        /\ \A x \in DOMAIN s.leave : s.leave[x].no # 0 => kept[x].no # 0
        /\ \A x \in DOMAIN s.leave : kept[x].paired = s.leave[x].paired
    <2>1. kept \in [DOMAIN s.leave -> LeaveRecord]
      BY <1>2, <1>4
    <2>2. QED
      BY <1>2, <1>4, <2>1, RecordsType
  <1> HIDE DEF kept, t
  <1>7. /\ t \in StoreState
        /\ t.player = s.player /\ t.pairs = s.pairs /\ t.tickEnd = s.tickEnd
        /\ t.slot = s.slot /\ t.inflight = s.inflight /\ t.leave = kept
        /\ t.raised = s.raised
    BY <1>1, <1>3, <1>5, <1>6 DEF StoreState
  <1>8. Sound(t)
    BY <1>7 DEF Sound, Flying
  <1>9. Quiet(s, t)
    BY <1>6, <1>7 DEF Quiet, SameFace
  <1>10. QED
    BY <1>6, <1>7, <1>8, <1>9 DEF t

\* A record that is sent, or stays because the queue is full.
LEMMA SendLeaveRecordOK ==
  ASSUME NEW s, Sound(s), NEW a \in DOMAIN s.leave
  PROVE  /\ Sound(SendLeaveRecord(s, a))
         /\ Quiet(s, SendLeaveRecord(s, a))
         /\ SendLeaveRecord(s, a).player = s.player
         /\ SendLeaveRecord(s, a).pairs = s.pairs
  <1> DEFINE n == NumberRecord(s, a)
             fits == SaveFits(s.slot, SlotIndex(a))
             rec == [n.leave[a] EXCEPT !.inFlight = fits]
             kept == [n.leave EXCEPT ![a] = rec]
             queues == IF fits THEN EnqueueSave(n.slot, LeaveBundle(a, n.leave[a])) ELSE n.slot
             t == SendLeaveRecord(s, a)
  <1>1. /\ Sound(n) /\ Quiet(s, n) /\ n.player = s.player /\ n.pairs = s.pairs
        /\ n.slot = s.slot /\ n.leave[a].no # 0
    BY NumberRecordOK
  <1>2. t = [n EXCEPT !.leave = kept, !.slot = queues]
    BY <1>1 DEF SendLeaveRecord, Sound, StoreState
  <1> HIDE DEF n, t
  <1>3. /\ n \in StoreState
        /\ n.leave \in [DOMAIN n.leave -> LeaveRecord] /\ DOMAIN n.leave \subseteq Account
        /\ a \in DOMAIN n.leave /\ a \in Account /\ n.leave[a] \in LeaveRecord
    BY <1>1, StoreParts DEF Sound, Quiet
  <1>4. fits \in BOOLEAN
    BY DEF SaveFits
  <1>5. QueuesOK(queues)
    <2>1. QueuesOK(n.slot)
      BY <1>1 DEF Sound
    <2>2. LeaveBundle(a, n.leave[a]) \in Bundle /\ LeaveBundle(a, n.leave[a]).pairNext = 0
      BY <1>1, <1>3, LeaveBundleType
    <2>3. QED
      BY <2>1, <2>2, EnqueueSaveOK
  <1> HIDE DEF fits, queues
  <1>6. rec \in LeaveRecord /\ rec.paired = n.leave[a].paired
    BY <1>3, <1>4 DEF LeaveRecord
  <1> HIDE DEF rec
  <1>7. kept \in Records /\ DOMAIN kept = DOMAIN n.leave
        /\ \A x \in DOMAIN n.leave : kept[x].paired = n.leave[x].paired
    <2>1. kept \in [DOMAIN n.leave -> LeaveRecord]
      BY <1>3, <1>6
    <2>2. QED
      BY <1>3, <1>6, <2>1, RecordsType
  <1> HIDE DEF kept
  <1>8. /\ t \in StoreState
        /\ t.player = n.player /\ t.pairs = n.pairs /\ t.tickEnd = n.tickEnd
        /\ t.slot = queues /\ t.inflight = n.inflight /\ t.leave = kept
        /\ t.raised = n.raised
    <2>1. queues \in [Worker -> SlotState]
      BY <1>5 DEF QueuesOK
    <2>2. QED
      BY <1>2, <1>3, <1>7, <2>1 DEF StoreState
  <1>9. Sound(t)
    BY <1>1, <1>5, <1>8 DEF Sound, Flying
  <1>10. Quiet(n, t)
    BY <1>7, <1>8 DEF Quiet, SameFace
  <1>11. QED
    BY <1>1, <1>8, <1>9, <1>10, QuietTwice DEF t

-----------------------------------------------------------------------------
(* Saves of characters in the game. *)

\* The gauge goes from m to n while a character goes from p to q.
GaugeMoves(p, q, m, n) ==
    \/ n = m /\ (q.bundleNo = 0 \/ p.bundleNo # 0)
    \/ n = m + 1
    \/ n = m - 1 /\ p.bundleNo # 0 /\ q.bundleNo = 0

Moved(s, t, a, p, n, queues) ==
    t = [s EXCEPT !.player = [s.player EXCEPT ![a] = p], !.slot = queues, !.inflight = n]

\* One character changes, and the queues and the gauge with it.
LEMMA OneChanges ==
  ASSUME NEW s, Sound(s), NEW t, NEW a \in Account,
         NEW p \in PlayerState, NEW n \in Int, NEW queues, QueuesOK(queues),
         Moved(s, t, a, p, n, queues),
         GaugeMoves(s.player[a], p, s.inflight, n)
  PROVE  /\ Sound(t)
         /\ t.player = [s.player EXCEPT ![a] = p] /\ t.player[a] = p
         /\ \A x \in Account \ {a} : t.player[x] = s.player[x]
         /\ t.leave = s.leave /\ t.leaveSeq = s.leaveSeq /\ t.pairs = s.pairs
         /\ t.tickEnd = s.tickEnd /\ t.inflight = n /\ t.slot = queues
         /\ t.raised = s.raised
         /\ SameFace(s.player[a], p) => Quiet(s, t)
  <1> DEFINE players == [s.player EXCEPT ![a] = p]
  <1>1. s \in StoreState /\ s.player \in [Account -> PlayerState]
    BY StoreParts DEF Sound
  <1>2. /\ players \in [Account -> PlayerState] /\ players[a] = p
        /\ \A x \in Account \ {a} : players[x] = s.player[x]
    BY <1>1
  <1>3. queues \in [Worker -> SlotState]
    BY DEF QueuesOK
  <1> HIDE DEF players
  <1>4. /\ t \in StoreState
        /\ t.player = players /\ t.leave = s.leave /\ t.leaveSeq = s.leaveSeq
        /\ t.pairs = s.pairs /\ t.tickEnd = s.tickEnd /\ t.inflight = n
        /\ t.slot = queues /\ t.raised = s.raised
    BY <1>1, <1>2, <1>3 DEF StoreState, players, Moved
  <1>5. t.inflight >= Cardinality(Flying(t))
    <2>1. s.inflight >= Cardinality(Flying(s)) /\ s.inflight \in Int
      BY <1>1, StoreParts DEF Sound
    <2>2. /\ Cardinality(Flying(t)) <= Cardinality(Flying(s)) + 1
          /\ p.bundleNo = 0 \/ s.player[a].bundleNo # 0
               => Cardinality(Flying(t)) <= Cardinality(Flying(s))
          /\ p.bundleNo = 0 /\ s.player[a].bundleNo # 0
               => Cardinality(Flying(t)) <= Cardinality(Flying(s)) - 1
      <3>1. \A x \in Account \ {a} : t.player[x].bundleNo = s.player[x].bundleNo
        BY <1>2, <1>4
      <3>2. t.player[a] = p
        BY <1>2, <1>4
      <3>3. QED
        BY <3>1, <3>2, OneFlies
    <2>3. Cardinality(Flying(t)) \in Nat /\ Cardinality(Flying(s)) \in Nat
      BY FlyingFinite
    <2>4. QED
      BY <1>4, <2>1, <2>2, <2>3 DEF GaugeMoves
  <1>6. Sound(t)
    BY <1>4, <1>5 DEF Sound
  <1>7. SameFace(s.player[a], p) => Quiet(s, t)
    BY SMTT(60), ZenonT(60), <1>2, <1>4 DEF Quiet, SameFace
  <1>8. QED
    BY <1>2, <1>4, <1>6, <1>7 DEF players

OnlyPlayer(s, t, a, p) == t = [s EXCEPT !.player = [s.player EXCEPT ![a] = p]]

\* One character changes, and no bundle of its goes on its way.
LEMMA OneStays ==
  ASSUME NEW s, Sound(s), NEW t, NEW a \in Account, NEW p \in PlayerState,
         OnlyPlayer(s, t, a, p),
         p.bundleNo # 0 => s.player[a].bundleNo # 0
  PROVE  /\ Sound(t)
         /\ t.player = [s.player EXCEPT ![a] = p] /\ t.player[a] = p
         /\ \A x \in Account \ {a} : t.player[x] = s.player[x]
         /\ t.leave = s.leave /\ t.leaveSeq = s.leaveSeq /\ t.pairs = s.pairs
         /\ t.tickEnd = s.tickEnd /\ t.inflight = s.inflight /\ t.slot = s.slot
         /\ t.raised = s.raised
         /\ SameFace(s.player[a], p) => Quiet(s, t)
  <1>1. s \in StoreState /\ s.inflight \in Int /\ QueuesOK(s.slot)
    BY StoreParts DEF Sound
  <1>2. Moved(s, t, a, p, s.inflight, s.slot)
    BY <1>1 DEF StoreState, OnlyPlayer, Moved
  <1> DEFINE n == s.inflight
             queues == s.slot
  <1>3. /\ n \in Int /\ QueuesOK(queues)
        /\ Moved(s, t, a, p, n, queues)
        /\ GaugeMoves(s.player[a], p, s.inflight, n)
    BY <1>1, <1>2 DEF GaugeMoves
  <1>4. n = s.inflight /\ queues = s.slot
    OBVIOUS
  <1> HIDE DEF n, queues
  <1>5. QED
    BY <1>3, <1>4, OneChanges

LEMMA SendBundleOK ==
  ASSUME NEW s, Sound(s), NEW a \in Account
  PROVE  Sound(SendBundle(s, a)) /\ Quiet(s, SendBundle(s, a))
  <1> DEFINE p == s.player[a]
             t == SendBundle(s, a)
  <1>1. s \in StoreState /\ p \in PlayerState /\ s.inflight \in Int /\ QueuesOK(s.slot)
    BY StoreParts DEF Sound
  <1>2. CASE p.paired
    BY <1>2 DEF SendBundle, Quiet, SameFace
  <1>3. CASE ~p.paired /\ p.bundleNo # 0
    <2> DEFINE q == [p EXCEPT !.again = TRUE]
    <2>1. q \in PlayerState /\ q.bundleNo = p.bundleNo /\ SameFace(p, q)
      BY <1>1 DEF PlayerState, SameFace
    <2>2. OnlyPlayer(s, t, a, q)
      BY <1>1, <1>3 DEF SendBundle, StoreState, OnlyPlayer
    <2> HIDE DEF q, t
    <2>3. Sound(t) /\ Quiet(s, t)
      BY <1>1, <1>3, <2>1, <2>2, OneStays
    <2>4. QED
      BY <2>3 DEF t
  <1>4. CASE ~p.paired /\ p.bundleNo = 0 /\ SaveFits(s.slot, SlotIndex(a))
    <2> DEFINE q == CommitBundle(PrepareBundle(p), p.nextNo)
               queues == EnqueueSave(s.slot, BundleOf(a, p))
    <2>1. PrepareBundle(p) \in PlayerState /\ SameFace(p, PrepareBundle(p))
      BY <1>1, PrepareBundleType
    <2>2. p.nextNo \in 0 .. SeqMax
      BY <1>1 DEF PlayerState
    <2>3. q \in PlayerState /\ SameFace(p, q)
      BY SMTT(60), ZenonT(60), <2>1, <2>2, CommitBundleType DEF SameFace
    <2>4. QueuesOK(queues)
      BY <1>1, BundleOfType, EnqueueSaveOK
    <2>5. Moved(s, t, a, q, s.inflight + 1, queues)
      BY <1>1, <1>4 DEF SendBundle, StoreState, Moved
    <2>6. s.inflight + 1 \in Int /\ GaugeMoves(p, q, s.inflight, s.inflight + 1)
      BY <1>1 DEF GaugeMoves
    <2> HIDE DEF q, t, queues
    <2>7. Sound(t) /\ Quiet(s, t)
      BY <1>1, <2>3, <2>4, <2>5, <2>6, OneChanges
    <2>8. QED
      BY <2>7 DEF t
  <1>5. CASE ~p.paired /\ p.bundleNo = 0 /\ ~SaveFits(s.slot, SlotIndex(a))
    <2> DEFINE q == AbortBundle(PrepareBundle(p))
    <2>1. q \in PlayerState /\ q.bundleNo = 0 /\ SameFace(p, q)
      BY <1>1, <1>5, PrepareBundleType, AbortBundleType DEF SameFace
    <2>2. OnlyPlayer(s, t, a, q)
      BY <1>1, <1>5 DEF SendBundle, StoreState, OnlyPlayer
    <2> HIDE DEF q, t
    <2>3. Sound(t) /\ Quiet(s, t)
      BY <1>1, <2>1, <2>2, OneStays
    <2>4. QED
      BY <2>3 DEF t
  <1>6. QED
    BY <1>1, <1>2, <1>3, <1>4, <1>5 DEF PlayerState

-----------------------------------------------------------------------------
(* Pair links. *)

LEMMA FirstAndSecond ==
  /\ 1 \in 1 .. 2 /\ 2 \in 1 .. 2
  /\ <<FALSE, FALSE>> \in [1 .. 2 -> BOOLEAN]
  <1>1. 1 .. 2 = {1, 2}
    OBVIOUS
  <1>2. \A x, y \in BOOLEAN : <<x, y>> \in [{1, 2} -> BOOLEAN]
    OBVIOUS
  <1>3. QED
    BY <1>1, <1>2

LEMMA LinkParts ==
  ASSUME NEW link \in Link
  PROVE  /\ link.account[1] \in Account /\ link.account[2] \in Account
         /\ link.account[1] # link.account[2]
         /\ link.session[1] \in Nat /\ link.session[2] \in Nat
         /\ link.account \in [1 .. 2 -> Account] /\ link.session \in [1 .. 2 -> Nat]
         /\ link.no \in [1 .. 2 -> 0 .. SeqMax] /\ link.replied \in [1 .. 2 -> BOOLEAN]
         /\ link.ok \in BOOLEAN /\ link.inFlight \in BOOLEAN
  BY DEF Link

\* An error that is logged, other than the one about leave records.
LEMMA RaiseOK ==
  ASSUME NEW s, Sound(s), NEW x \in Errors, x # Overwritten, NEW t,
         t = [s EXCEPT !.raised = s.raised \cup {x}]
  PROVE  Sound(t) /\ Quiet(s, t)
  <1>1. s \in StoreState
    BY DEF Sound
  <1>2. /\ t \in StoreState
        /\ t.player = s.player /\ t.leave = s.leave /\ t.pairs = s.pairs
        /\ t.tickEnd = s.tickEnd /\ t.inflight = s.inflight /\ t.slot = s.slot
        /\ t.raised = s.raised \cup {x}
    BY <1>1 DEF StoreState
  <1>3. QED
    BY <1>2 DEF Sound, Quiet, SameFace, Flying

\* A link that changes in what is not its accounts and sessions.
LEMMA LinkChanges ==
  ASSUME NEW s, Sound(s), NEW i \in 1 .. Len(s.pairs), NEW link \in Link,
         link.account = s.pairs[i].account, link.session = s.pairs[i].session,
         NEW t, t = [s EXCEPT !.pairs = [s.pairs EXCEPT ![i] = link]]
  PROVE  Sound(t) /\ Quiet(s, t)
  <1> DEFINE links == [s.pairs EXCEPT ![i] = link]
  <1>1. s \in StoreState /\ s.pairs \in Seq(Link)
    BY StoreParts DEF Sound
  <1>2. /\ links \in Seq(Link) /\ Len(links) = Len(s.pairs)
        /\ links[i] = link
        /\ \A j \in 1 .. Len(s.pairs) : j # i => links[j] = s.pairs[j]
    BY <1>1
  <1> HIDE DEF links
  <1>3. /\ t \in StoreState
        /\ t.player = s.player /\ t.leave = s.leave /\ t.pairs = links
        /\ t.tickEnd = s.tickEnd /\ t.inflight = s.inflight /\ t.slot = s.slot
        /\ t.raised = s.raised
    BY <1>1, <1>2 DEF StoreState, links
  <1>4. Sound(t)
    BY <1>3 DEF Sound, Flying
  <1>5. \A j \in 1 .. Len(s.pairs) : /\ links[j].account = s.pairs[j].account
                                     /\ links[j].session = s.pairs[j].session
    BY <1>2
  <1>6. Quiet(s, t)
    BY <1>2, <1>3, <1>5 DEF Quiet, SameFace
  <1>7. QED
    BY <1>4, <1>6

LEMMA QueuesChange ==
  ASSUME NEW s, Sound(s), NEW queues, QueuesOK(queues),
         NEW t, t = [s EXCEPT !.slot = queues]
  PROVE  Sound(t) /\ Quiet(s, t) /\ t.pairs = s.pairs /\ t.player = s.player
  <1>1. s \in StoreState /\ queues \in [Worker -> SlotState]
    BY DEF Sound, QueuesOK
  <1>2. /\ t \in StoreState
        /\ t.player = s.player /\ t.leave = s.leave /\ t.pairs = s.pairs
        /\ t.tickEnd = s.tickEnd /\ t.inflight = s.inflight /\ t.slot = queues
        /\ t.raised = s.raised
    BY <1>1 DEF StoreState
  <1>3. QED
    BY <1>2 DEF Sound, Quiet, SameFace, Flying

\* A leave record that changes, held or not as before.
LEMMA RecordChanges ==
  ASSUME NEW s, Sound(s), NEW a \in DOMAIN s.leave, NEW rec \in LeaveRecord,
         rec.paired = s.leave[a].paired,
         NEW t, t = [s EXCEPT !.leave = [s.leave EXCEPT ![a] = rec]]
  PROVE  /\ Sound(t) /\ Quiet(s, t)
         /\ t.pairs = s.pairs /\ t.player = s.player /\ t.slot = s.slot
  <1> DEFINE kept == [s.leave EXCEPT ![a] = rec]
  <1>1. /\ s \in StoreState /\ s.leave \in [DOMAIN s.leave -> LeaveRecord]
        /\ DOMAIN s.leave \subseteq Account
    BY StoreParts DEF Sound
  <1>2. /\ kept \in [DOMAIN s.leave -> LeaveRecord] /\ DOMAIN kept = DOMAIN s.leave
        /\ \A x \in DOMAIN s.leave : kept[x].paired = s.leave[x].paired
    BY <1>1
  <1>3. kept \in Records
    BY <1>1, <1>2, RecordsType
  <1> HIDE DEF kept
  <1>4. /\ t \in StoreState
        /\ t.player = s.player /\ t.leave = kept /\ t.pairs = s.pairs
        /\ t.tickEnd = s.tickEnd /\ t.inflight = s.inflight /\ t.slot = s.slot
        /\ t.raised = s.raised
    BY <1>1, <1>3 DEF StoreState, kept
  <1>5. QED
    BY <1>2, <1>4 DEF Sound, Quiet, SameFace, Flying

\* A side that can be sent: a character, or a record in its place.
Sendable(s, link, k) == Alive(link, k) \/ link.account[k] \in DOMAIN s.leave

\* A side with its number: the one of the character, or that of its record.
Ready(s, link, k) ==
    \/ Alive(link, k)
    \/ link.account[k] \in DOMAIN s.leave /\ s.leave[link.account[k]].no # 0

LEMMA PrepareSideOK ==
  ASSUME NEW s, Sound(s), NEW link \in Link, NEW k \in 1 .. 2, Sendable(s, link, k)
  PROVE  LET t == PrepareSide(s, link, k)
         IN  /\ Sound(t) /\ Quiet(s, t) /\ t.pairs = s.pairs /\ t.slot = s.slot
             /\ Ready(t, link, k)
             /\ \A j \in 1 .. 2 : Ready(s, link, j) => Ready(t, link, j)
  <1>0. PICK a \in Account : a = link.account[k]
    BY LinkParts
  <1> DEFINE t == PrepareSide(s, link, k)
  <1>1. a \in Account /\ s \in StoreState /\ s.player[a] \in PlayerState
    BY LinkParts, StoreParts DEF Sound
  <1>2. CASE Alive(link, k)
    <2> DEFINE p == PrepareBundle(s.player[a])
    <2>1. p \in PlayerState /\ p.bundleNo = s.player[a].bundleNo /\ SameFace(s.player[a], p)
      BY <1>1, PrepareBundleType
    <2>2. OnlyPlayer(s, t, a, p)
      BY <1>0, <1>1, <1>2 DEF PrepareSide, StoreState, OnlyPlayer
    <2> HIDE DEF p, t
    <2>3. /\ Sound(t) /\ Quiet(s, t) /\ t.pairs = s.pairs /\ t.slot = s.slot
          /\ t.leave = s.leave
      <3>1. p.bundleNo # 0 => s.player[a].bundleNo # 0
        BY <2>1
      <3>2. Sound(t) /\ Quiet(s, t)
        BY <2>1, <2>2, <3>1, OneStays
      <3>3. t.pairs = s.pairs /\ t.slot = s.slot /\ t.leave = s.leave
        BY <1>1, <2>2 DEF StoreState, OnlyPlayer
      <3>4. QED
        BY <3>2, <3>3
    <2>4. QED
      BY <1>2, <2>3 DEF Ready, t
  <1>3. CASE ~Alive(link, k)
    <2>1. t = NumberRecord(s, a) /\ a \in DOMAIN s.leave
      BY <1>0, <1>3 DEF PrepareSide, Sendable
    <2> HIDE DEF t
    <2>2. /\ Sound(t) /\ Quiet(s, t) /\ t.pairs = s.pairs /\ t.slot = s.slot
          /\ t.leave[a].no # 0
          /\ \A x \in DOMAIN s.leave : s.leave[x].no # 0 => t.leave[x].no # 0
      BY SMTT(60), ZenonT(60), <2>1, NumberRecordOK
    <2>3. Ready(t, link, k) /\ \A j \in 1 .. 2 : Ready(s, link, j) => Ready(t, link, j)
      BY ZenonT(60), SMTT(60), <1>0, <2>1, <2>2 DEF Ready, Quiet
    <2>4. QED
      BY <2>2, <2>3 DEF t
  <1>4. QED
    BY <1>2, <1>3

LEMMA AbortSideOK ==
  ASSUME NEW s, Sound(s), NEW link \in Link, NEW k \in 1 .. 2
  PROVE  LET t == AbortSide(s, link, k)
         IN  Sound(t) /\ Quiet(s, t) /\ t.pairs = s.pairs
  <1>0. PICK a \in Account : a = link.account[k]
    BY LinkParts
  <1> DEFINE t == AbortSide(s, link, k)
  <1>1. a \in Account /\ s \in StoreState /\ s.player[a] \in PlayerState
    BY LinkParts, StoreParts DEF Sound
  <1>2. CASE Alive(link, k)
    <2> DEFINE p == AbortBundle(s.player[a])
    <2>1. p \in PlayerState /\ p.bundleNo = s.player[a].bundleNo /\ SameFace(s.player[a], p)
      BY <1>1, AbortBundleType
    <2>2. OnlyPlayer(s, t, a, p)
      BY <1>0, <1>1, <1>2 DEF AbortSide, StoreState, OnlyPlayer
    <2> HIDE DEF p, t
    <2>3. Sound(t) /\ Quiet(s, t)
      <3>1. p.bundleNo # 0 => s.player[a].bundleNo # 0
        BY <2>1
      <3>2. QED
        BY <2>1, <2>2, <3>1, OneStays
    <2>4. t.pairs = s.pairs
      BY <1>1, <2>2 DEF StoreState, OnlyPlayer
    <2>5. QED
      BY <2>3, <2>4 DEF t
  <1>3. CASE ~Alive(link, k)
    BY <1>3 DEF AbortSide, Quiet, SameFace
  <1>4. QED
    BY <1>2, <1>3

LEMMA CommitSideOK ==
  ASSUME NEW s, Sound(s), NEW link \in Link, NEW k \in 1 .. 2, Sendable(s, link, k),
         NEW no \in 0 .. SeqMax
  PROVE  LET t == CommitSide(s, link, k, no)
         IN  Sound(t) /\ Quiet(s, t) /\ t.pairs = s.pairs /\ t.slot = s.slot
  <1>0. PICK a \in Account : a = link.account[k]
    BY LinkParts
  <1> DEFINE t == CommitSide(s, link, k, no)
  <1>1. /\ a \in Account /\ s \in StoreState /\ s.player[a] \in PlayerState
        /\ s.inflight \in Int /\ QueuesOK(s.slot)
    BY LinkParts, StoreParts DEF Sound
  <1>2. CASE Alive(link, k)
    <2> DEFINE p == CommitBundle(s.player[a], no)
               n == s.inflight + 1
               queues == s.slot
    <2>1. p \in PlayerState /\ SameFace(s.player[a], p)
      BY <1>1, CommitBundleType
    <2>2. Moved(s, t, a, p, n, queues)
      BY <1>0, <1>1, <1>2 DEF CommitSide, StoreState, Moved
    <2>3. n \in Int /\ QueuesOK(queues) /\ GaugeMoves(s.player[a], p, s.inflight, n)
      BY <1>1 DEF GaugeMoves
    <2>4. queues = s.slot
      OBVIOUS
    <2> HIDE DEF p, t, n, queues
    <2>5. Sound(t) /\ Quiet(s, t)
      BY <1>1, <2>1, <2>2, <2>3, OneChanges
    <2>6. t.pairs = s.pairs /\ t.slot = queues
      BY <1>1, <2>2 DEF StoreState, Moved
    <2>7. QED
      BY <2>4, <2>5, <2>6 DEF t
  <1>3. CASE ~Alive(link, k)
    <2> DEFINE rec == [s.leave[a] EXCEPT !.inFlight = TRUE]
    <2>1. a \in DOMAIN s.leave /\ s.leave[a] \in LeaveRecord
      BY <1>0, <1>1, <1>3, StoreParts DEF Sendable,  Sound
    <2>2. rec \in LeaveRecord /\ rec.paired = s.leave[a].paired
      BY <2>1 DEF LeaveRecord
    <2>3. t = [s EXCEPT !.leave = [s.leave EXCEPT ![a] = rec]]
      BY <1>0, <1>1, <1>3 DEF CommitSide, StoreState
    <2> HIDE DEF rec, t
    <2>4. Sound(t) /\ Quiet(s, t) /\ t.pairs = s.pairs /\ t.slot = s.slot
      BY <2>1, <2>2, <2>3, RecordChanges
    <2>5. QED
      BY <2>4 DEF t
  <1>4. QED
    BY <1>2, <1>3

LEMMA SideHeadType ==
  ASSUME NEW s, Sound(s), NEW both, Sound(both), NEW link \in Link, NEW k \in 1 .. 2,
         Ready(both, link, k)
  PROVE  /\ SideHead(s, both, link, k) \in Bundle
         /\ SideHead(s, both, link, k).account = link.account[k]
         /\ SideHead(s, both, link, k).no \in 0 .. SeqMax
  <1> DEFINE a == link.account[k]
  <1>1. a \in Account /\ s.player[a] \in PlayerState
    BY SMTT(60), ZenonT(60), LinkParts, StoreParts DEF Sound
  <1>2. CASE Alive(link, k)
    <2>1. SideHead(s, both, link, k) = BundleOf(a, s.player[a])
      BY <1>2 DEF SideHead
    <2>2. s.player[a].nextNo \in 0 .. SeqMax
      BY SMTT(60), ZenonT(60), <1>1 DEF PlayerState
    <2>3. QED
      BY <1>1, <2>1, <2>2, BundleOfType
  <1>3. CASE ~Alive(link, k)
    <2>1. SideHead(s, both, link, k) = LeaveBundle(a, both.leave[a])
      BY <1>3 DEF SideHead
    <2>2. both.leave[a] \in LeaveRecord /\ both.leave[a].no # 0
      BY <1>3, StoreParts DEF Ready, Sound
    <2>3. both.leave[a].no \in 0 .. SeqMax
      BY <2>2 DEF LeaveRecord
    <2>4. QED
      BY <1>1, <2>1, <2>2, <2>3, LeaveBundleType
  <1>4. QED
    BY <1>2, <1>3

\* Sending a pair - or giving up at any of its steps - moves nothing the
\* invariant looks at but the gauge.
LEMMA SendPairOK ==
  ASSUME NEW s, Sound(s), NEW i \in 1 .. Len(s.pairs)
  PROVE  Sound(SendPair(s, i)) /\ Quiet(s, SendPair(s, i))
  <1> DEFINE link == s.pairs[i]
             one == PrepareSide(s, link, 1)
             both == PrepareSide(one, link, 2)
             head == [k \in 1 .. 2 |-> SideHead(s, both, link, k)]
             no == [k \in 1 .. 2 |-> head[k].no]
             half == CommitSide(both, link, 1, no[1])
             committed == CommitSide(half, link, 2, no[2])
             undone == AbortSide(both, link, 1)
             aborted == AbortSide(undone, link, 2)
             missing == "pair side missing"
             gone == SideGone(s, link, 1) \/ (~SideMissing(s, link, 1) /\ SideGone(s, link, 2))
             fits == PairFits(s.slot, PairSlot(link.account[1], link.account[2]))
             t == SendPair(s, i)
  <1>1. link \in Link /\ s.pairs \in Seq(Link)
    BY StoreParts DEF Sound
  <1>2. ~SideMissing(s, link, 1) => Sendable(s, link, 1)
    BY DEF SideMissing, Sendable
  <1>3. ~SideMissing(s, link, 2) => Sendable(s, link, 2)
    BY DEF SideMissing, Sendable
  <1>4. CASE gone
    <2> DEFINE x == "pair player gone"
    <2>1. t = [s EXCEPT !.raised = s.raised \cup {x}]
      BY ZenonT(60), <1>4 DEF SendPair, Sound, StoreState
    <2>2. x \in Errors /\ x # Overwritten
      BY DEF Overwritten, Errors
    <2> HIDE DEF t, x
    <2>3. Sound(t) /\ Quiet(s, t)
      BY <2>1, <2>2, RaiseOK
    <2>4. QED
      BY ZenonT(60), SMTT(60), <2>3 DEF t
  <1>5. CASE ~gone /\ SideMissing(s, link, 1)
    <2>1. t = [s EXCEPT !.raised = s.raised \cup {missing}]
      BY ZenonT(60), <1>5 DEF SendPair, Sound, StoreState
    <2>2. missing \in Errors /\ missing # Overwritten
      BY DEF Overwritten, Errors
    <2> HIDE DEF t, missing
    <2>3. Sound(t) /\ Quiet(s, t)
      BY <2>1, <2>2, RaiseOK
    <2>4. QED
      BY ZenonT(60), SMTT(60), <2>3 DEF t
  <1>6. ASSUME ~SideMissing(s, link, 1)
        PROVE  /\ Sound(one) /\ Quiet(s, one) /\ one.pairs = s.pairs /\ one.slot = s.slot
               /\ Ready(one, link, 1)
               /\ Sendable(s, link, 2) => Sendable(one, link, 2)
    <2>1. /\ Sound(one) /\ Quiet(s, one) /\ one.pairs = s.pairs /\ one.slot = s.slot
          /\ Ready(one, link, 1)
      BY <1>1, <1>2, <1>6, FirstAndSecond, PrepareSideOK
    <2> HIDE DEF one
    <2>2. QED
      BY <2>1 DEF Quiet, Sendable
  <1>7. CASE ~gone /\ ~SideMissing(s, link, 1) /\ SideMissing(s, link, 2)
    <2> DEFINE back == AbortSide(one, link, 1)
    <2>1. t = [back EXCEPT !.raised = back.raised \cup {missing}]
      <3>1. t = [back EXCEPT !.raised = @ \cup {missing}]
        BY ZenonT(60), <1>7 DEF SendPair
      <3>2. QED
        BY ZenonT(60), <3>1
    <2>2. missing \in Errors /\ missing # Overwritten
      BY DEF Overwritten, Errors
    <2> HIDE DEF one
    <2>3. Sound(back) /\ Quiet(one, back)
      BY <1>1, <1>6, <1>7, FirstAndSecond, AbortSideOK
    <2> HIDE DEF t, missing, back
    <2>4. Sound(t) /\ Quiet(back, t)
      BY <2>1, <2>2, <2>3, RaiseOK
    <2>5. Quiet(s, t)
      BY <1>6, <1>7, <2>3, <2>4, QuietTwice
    <2>6. QED
      BY <2>4, <2>5 DEF t
  <1>8. ASSUME ~SideMissing(s, link, 1), ~SideMissing(s, link, 2)
        PROVE  /\ Sound(both) /\ Quiet(s, both) /\ both.pairs = s.pairs /\ both.slot = s.slot
               /\ Sendable(both, link, 1) /\ Sendable(both, link, 2)
               /\ Ready(both, link, 1) /\ Ready(both, link, 2)
    <2>1. /\ Sound(one) /\ Quiet(s, one) /\ one.pairs = s.pairs /\ one.slot = s.slot
          /\ Ready(one, link, 1)
      BY <1>6, <1>8
    <2>2. Sendable(one, link, 2)
      BY <1>3, <1>6, <1>8
    <2> HIDE DEF one
    <2>3. /\ Sound(both) /\ Quiet(one, both) /\ both.pairs = one.pairs /\ both.slot = one.slot
          /\ Ready(both, link, 1) /\ Ready(both, link, 2)
      BY <1>1, <2>1, <2>2, FirstAndSecond, PrepareSideOK
    <2> HIDE DEF both
    <2>4. Quiet(s, both)
      BY <2>1, <2>3, QuietTwice
    <2>5. Sendable(both, link, 1) /\ Sendable(both, link, 2)
      BY <1>2, <1>3, <1>8, <2>4 DEF Quiet, Sendable
    <2>6. QED
      BY <2>1, <2>3, <2>4, <2>5
  <1>9. CASE ~gone /\ ~SideMissing(s, link, 1) /\ ~SideMissing(s, link, 2) /\ ~fits
    <2> DEFINE after == [link EXCEPT !.inFlight = FALSE]
    <2>1. t = [aborted EXCEPT !.pairs[i].inFlight = FALSE]
      BY ZenonT(60), SMTT(60), <1>9 DEF SendPair
    <2> HIDE DEF both
    <2>2. Sound(undone) /\ Quiet(both, undone) /\ undone.pairs = both.pairs
      BY <1>1, <1>8, <1>9, FirstAndSecond, AbortSideOK
    <2> HIDE DEF undone
    <2>3. Sound(aborted) /\ Quiet(undone, aborted) /\ aborted.pairs = undone.pairs
      BY <1>1, <2>2, FirstAndSecond, AbortSideOK
    <2> HIDE DEF aborted
    <2>4. aborted.pairs = s.pairs /\ aborted \in StoreState
      BY <1>8, <1>9, <2>2, <2>3 DEF Sound
    <2>5. t = [aborted EXCEPT !.pairs = [aborted.pairs EXCEPT ![i] = after]]
      BY <1>1, <2>1, <2>4 DEF StoreState
    <2>6. after \in Link /\ after.account = link.account /\ after.session = link.session
      BY <1>1 DEF Link
    <2> HIDE DEF t, after
    <2>7. Sound(t) /\ Quiet(aborted, t)
      BY <2>3, <2>4, <2>5, <2>6, LinkChanges
    <2>8. Quiet(s, t)
      BY <1>8, <1>9, <2>2, <2>3, <2>7, QuietTwice
    <2>9. QED
      BY ZenonT(60), SMTT(60), <2>7, <2>8 DEF t
  <1>10. CASE ~gone /\ ~SideMissing(s, link, 1) /\ ~SideMissing(s, link, 2) /\ fits
    <2> DEFINE after == [link EXCEPT !.no = no, !.replied = <<FALSE, FALSE>>,
                                     !.ok = TRUE, !.inFlight = TRUE]
               queues == EnqueueSavePair(committed.slot, head[1], head[2])
               queued == [committed EXCEPT !.slot = queues]
    <2>1. t = [committed EXCEPT
                 !.slot = EnqueueSavePair(@, head[1], head[2]),
                 !.pairs[i] = [@ EXCEPT !.no = no, !.replied = <<FALSE, FALSE>>,
                                        !.ok = TRUE, !.inFlight = TRUE]]
      BY ZenonT(60), SMTT(60), <1>9, <1>10 DEF SendPair
    <2> HIDE DEF both
    <2>2. \A k \in 1 .. 2 : /\ head[k] \in Bundle
                            /\ head[k].account = link.account[k]
                            /\ head[k].no \in 0 .. SeqMax
      <3>1. \A k \in 1 .. 2 : Ready(both, link, k)
        BY <1>8, <1>10
      <3>2. QED
        BY <1>1, <1>8, <1>10, <3>1, SideHeadType
    <2>3. no \in [1 .. 2 -> 0 .. SeqMax]
      BY <2>2
    <2>4. no[1] \in 0 .. SeqMax /\ no[2] \in 0 .. SeqMax
      BY <2>3
    <2> HIDE DEF no, head
    <2>5. Sound(half) /\ Quiet(both, half) /\ half.pairs = both.pairs /\ half.slot = both.slot
      BY SMTT(60), ZenonT(60), <1>1, <1>8, <1>10, <2>4, FirstAndSecond, CommitSideOK
    <2> HIDE DEF half
    <2>6. Sendable(half, link, 2)
      BY ZenonT(60), SMTT(60), <1>8, <1>10, <2>5 DEF Quiet, Sendable
    <2>7. /\ Sound(committed) /\ Quiet(half, committed)
          /\ committed.pairs = half.pairs /\ committed.slot = half.slot
      BY <1>1, <2>4, <2>5, <2>6, FirstAndSecond, CommitSideOK
    <2> HIDE DEF committed
    <2>8. committed.pairs = s.pairs /\ committed \in StoreState /\ QueuesOK(committed.slot)
      BY <1>8, <1>10, <2>5, <2>7 DEF Sound
    <2>9. QueuesOK(queues)
      <3>1. head[1] \in Bundle /\ head[2] \in Bundle /\ head[1].account # head[2].account
        BY <1>1, <2>2, LinkParts
      <3>2. QED
        BY <2>8, <3>1, EnqueueSavePairOK
    <2>10. t = [queued EXCEPT !.pairs = [queued.pairs EXCEPT ![i] = after]]
      <3>1. committed.pairs[i] = link
        BY <2>8
      <3>2. QED
        BY <2>1, <2>8, <3>1 DEF StoreState
    <2> HIDE DEF queues
    <2>11. /\ Sound(queued) /\ Quiet(committed, queued) /\ queued.pairs = s.pairs
      BY SMTT(60), ZenonT(60), <2>7, <2>8, <2>9, QueuesChange
    <2> HIDE DEF queued
    <2>12. after \in Link /\ after.account = link.account /\ after.session = link.session
      <3>1. <<FALSE, FALSE>> \in [1 .. 2 -> BOOLEAN]
        BY FirstAndSecond
      <3>2. QED
        BY <1>1, <2>3, <3>1 DEF Link
    <2> HIDE DEF t, after
    <2>13. Sound(t) /\ Quiet(queued, t)
      BY SMTT(60), ZenonT(60), <2>10, <2>11, <2>12, LinkChanges
    <2>14. Quiet(s, t)
      BY <1>8, <1>10, <2>5, <2>7, <2>11, <2>13, QuietTwice
    <2>15. QED
      BY ZenonT(60), SMTT(60), <2>13, <2>14 DEF t
  <1>11. QED
    BY <1>4, <1>5, <1>7, <1>9, <1>10

-----------------------------------------------------------------------------
(* The tick-end list. *)

LEMMA ListChanges ==
  ASSUME NEW s, Sound(s), NEW list \in Seq(Nat \ {0}), NEW t, t = [s EXCEPT !.tickEnd = list]
  PROVE  /\ Sound(t) /\ t.tickEnd = list
         /\ t.player = s.player /\ t.leave = s.leave /\ t.pairs = s.pairs
         /\ t.inflight = s.inflight /\ t.slot = s.slot /\ t.raised = s.raised
  <1>1. s \in StoreState
    BY DEF Sound
  <1>2. /\ t \in StoreState /\ t.tickEnd = list
        /\ t.player = s.player /\ t.leave = s.leave /\ t.pairs = s.pairs
        /\ t.inflight = s.inflight /\ t.slot = s.slot /\ t.raised = s.raised
    BY <1>1 DEF StoreState
  <1>3. QED
    BY <1>2 DEF Sound, Flying

\* What is held, and by which links, is the same.
SameHolds(s, t) ==
    /\ \A a \in Account : /\ t.player[a].session = s.player[a].session
                          /\ t.player[a].paired = s.player[a].paired
    /\ t.leave = s.leave
    /\ t.pairs = s.pairs
    /\ t.raised = s.raised

LEMMA SameHoldsHeld ==
  ASSUME NEW s, NEW t, NEW but, SameHolds(s, t), Held(s, but)
  PROVE  Held(t, but)
  <1>1. \A a, n : LinkHolds(s, a, n) => LinkHolds(t, a, n)
    BY DEF SameHolds, LinkHolds
  <1>2. QED
    BY ZenonT(60), <1>1 DEF SameHolds, Held

Present(s, a) == s.player[a].session # 0

\* A character asks for a save: it is in the list from now on, once.
LEMMA RequestSaveOK ==
  ASSUME NEW s, NEW but, Good(s, but), NEW a \in Account, Present(s, a)
  PROVE  LET t == RequestSave(s, a)
         IN  Good(t, but) /\ Follows(s, t) /\ SameHolds(s, t)
  <1> DEFINE t == RequestSave(s, a)
             n == s.player[a].session
  <1>1. /\ s \in StoreState /\ s.player[a] \in PlayerState /\ Sound(s)
        /\ s.tickEnd \in Seq(Nat \ {0}) /\ n \in Nat \ {0}
    BY StoreParts DEF Good, Sound, PlayerState, Present
  <1>2. CASE s.player[a].listed
    <2>1. t = s
      BY <1>2 DEF RequestSave
    <2>2. Follows(s, s) /\ SameHolds(s, s)
      BY DEF Follows, SameHolds
    <2>3. QED
      BY <2>1, <2>2
  <1>3. CASE ~s.player[a].listed
    <2> DEFINE p == [s.player[a] EXCEPT !.listed = TRUE]
               u == [s EXCEPT !.player = [s.player EXCEPT ![a] = p]]
               list == Append(s.tickEnd, n)
    <2>1. /\ p \in PlayerState /\ p.listed = TRUE /\ p.session = n
          /\ p.paired = s.player[a].paired /\ p.bundleNo = s.player[a].bundleNo
      BY <1>1 DEF PlayerState
    <2>2. t = [u EXCEPT !.tickEnd = list]
      BY <1>1, <1>3 DEF RequestSave, StoreState
    <2>3. /\ list \in Seq(Nat \ {0}) /\ Len(list) = Len(s.tickEnd) + 1
          /\ \A i \in 1 .. Len(s.tickEnd) : list[i] = s.tickEnd[i]
          /\ list[Len(s.tickEnd) + 1] = n
      BY <1>1
    <2> HIDE DEF list, p
    <2>31. OnlyPlayer(s, u, a, p)
      BY DEF OnlyPlayer
    <2> HIDE DEF u, t
    <2>4. p.bundleNo # 0 => s.player[a].bundleNo # 0
      BY <2>1
    <2>5. /\ Sound(u) /\ u.player[a] = p
          /\ \A x \in Account \ {a} : u.player[x] = s.player[x]
          /\ u.leave = s.leave /\ u.pairs = s.pairs /\ u.raised = s.raised
      <3>1. Sound(s) /\ p \in PlayerState
        BY <1>1, <2>1
      <3>2. Sound(u) /\ u.leave = s.leave /\ u.pairs = s.pairs /\ u.raised = s.raised
        BY ZenonT(120), <2>31, <2>4, <3>1, OneStays
      <3>3. u.player = [s.player EXCEPT ![a] = p] /\ s.player \in [Account -> PlayerState]
        BY <1>1, <2>31, StoreParts DEF StoreState, OnlyPlayer
      <3>4. QED
        BY <3>2, <3>3
    <2>6. /\ Sound(t) /\ t.tickEnd = list /\ t.player = u.player
          /\ t.leave = u.leave /\ t.pairs = u.pairs /\ t.raised = u.raised
      BY <2>2, <2>3, <2>5, ListChanges
    <2>7. /\ t.player[a] = p
          /\ \A x \in Account \ {a} : t.player[x] = s.player[x]
      BY <2>5, <2>6
    <2>8. \A x \in Account : /\ t.player[x].session = s.player[x].session
                             /\ t.player[x].paired = s.player[x].paired
      BY <2>1, <2>7
    <2>9. Listed(t)
      <3>1. Listed(s) /\ Len(s.tickEnd) \in Nat
        BY <1>1 DEF Good
      <3>2. \A i \in 1 .. Len(s.tickEnd) : s.tickEnd[i] # n
        BY <1>1, <1>3, <3>1 DEF Listed
      <3>3. \A i, j \in 1 .. Len(list) : list[i] = list[j] => i = j
        <4>1. \A i \in 1 .. Len(list) : i \in 1 .. Len(s.tickEnd) \/ i = Len(s.tickEnd) + 1
          BY SMTT(60), ZenonT(60), <2>3, <3>1
        <4>2. \A i, j \in 1 .. Len(s.tickEnd) : s.tickEnd[i] = s.tickEnd[j] => i = j
          BY <3>1 DEF Listed
        <4>3. QED
          BY <2>3, <3>2, <4>1, <4>2
      <3>4. \A x \in Account : t.player[x].session # 0 =>
               (t.player[x].listed <=>
                  \E i \in 1 .. Len(list) : list[i] = t.player[x].session)
        <4> SUFFICES ASSUME NEW x \in Account, t.player[x].session # 0
                     PROVE  t.player[x].listed <=>
                              \E i \in 1 .. Len(list) : list[i] = t.player[x].session
          OBVIOUS
        <4>1. CASE x = a
          <5>1. Len(s.tickEnd) + 1 \in 1 .. Len(list)
            BY <2>3, <3>1
          <5>2. QED
            BY ZenonT(60), SMTT(60), <2>1, <2>3, <2>7, <4>1, <5>1
        <4>2. CASE x # a
          <5>1. t.player[x] = s.player[x] /\ s.player[x].session # n
            BY <1>1, <2>7, <3>1, <4>2 DEF Listed
          <5>2. t.player[x].listed <=>
                  \E i \in 1 .. Len(s.tickEnd) : s.tickEnd[i] = t.player[x].session
            BY <3>1, <5>1 DEF Listed
          <5>3. \A i \in 1 .. Len(list) : i \in 1 .. Len(s.tickEnd) \/ list[i] = n
            BY <2>3, <3>1
          <5>4. \A i \in 1 .. Len(s.tickEnd) : i \in 1 .. Len(list)
            BY <2>3, <3>1
          <5>5. QED
            BY <2>3, <5>1, <5>2, <5>3, <5>4
        <4>3. QED
          BY <4>1, <4>2
      <3>5. QED
        BY <2>6, <2>8, <3>1, <3>3, <3>4 DEF Listed
    <2>10. SameHolds(s, t)
      BY <2>5, <2>6, <2>8 DEF SameHolds
    <2>11. Held(t, but)
      BY <2>10, SameHoldsHeld DEF Good
    <2>12. Follows(s, t)
      <3>1. \A j \in 1 .. Len(list) : list[j] = n \/
              \E i \in 1 .. Len(s.tickEnd) : list[j] = s.tickEnd[i]
        <4>1. \A j \in 1 .. Len(list) : j \in 1 .. Len(s.tickEnd) \/ list[j] = n
          BY SMTT(60), ZenonT(60), <1>1, <2>3
        <4>2. QED
          BY <2>3, <4>1
      <3>2. QED
        BY <2>5, <2>6, <2>8, <3>1 DEF Follows
    <2>13. QED
      BY <2>6, <2>9, <2>10, <2>11, <2>12 DEF Good, t
  <1>4. QED
    BY <1>2, <1>3

-----------------------------------------------------------------------------
(* A character leaves. *)

\* The first link of an account, and the side of the account in it.
LEMMA FindPairOK ==
  ASSUME NEW s, Sound(s), NEW a \in Account, LinksOf(s, a) # {}
  PROVE  LET i == FindPair(s, a)
             k == SideOf(s.pairs[i], a)
         IN  /\ i \in 1 .. Len(s.pairs) /\ s.pairs[i] \in Link
             /\ k \in 1 .. 2 /\ s.pairs[i].account[k] = a
  <1>1. s.pairs \in Seq(Link) /\ DOMAIN s.pairs = 1 .. Len(s.pairs) /\ Len(s.pairs) \in Nat
    BY StoreParts DEF Sound
  <1>2. LinksOf(s, a) \subseteq Nat /\ LinksOf(s, a) \subseteq 1 .. Len(s.pairs)
    BY <1>1 DEF LinksOf
  <1>3. \E i \in LinksOf(s, a) : \A j \in LinksOf(s, a) : i <= j
    BY <1>2, SmallestNat
  <1> DEFINE i == FindPair(s, a)
             link == s.pairs[i]
  <1>4. i \in LinksOf(s, a)
    BY <1>3 DEF FindPair
  <1>5. i \in 1 .. Len(s.pairs) /\ a \in Range(link.account)
    BY <1>1, <1>2, <1>4 DEF LinksOf
  <1>6. link \in Link
    BY <1>1, <1>5
  <1>7. \E k \in 1 .. 2 : link.account[k] = a
    BY <1>5, <1>6, LinkParts DEF Range
  <1>8. link.account[1] = a \/ link.account[2] = a
    BY <1>7
  <1>9. SideOf(link, a) \in 1 .. 2 /\ link.account[SideOf(link, a)] = a
    BY <1>8 DEF SideOf
  <1>10. QED
    BY <1>5, <1>6, <1>9

\* An account that a link holds has a link.
LEMMA LinkFound ==
  ASSUME NEW s, Sound(s), NEW a \in Account, NEW n, LinkHolds(s, a, n)
  PROVE  LinksOf(s, a) # {}
  <1>1. s.pairs \in Seq(Link)
    BY StoreParts DEF Sound
  <1>2. PICK i \in 1 .. Len(s.pairs), k \in 1 .. 2 : s.pairs[i].account[k] = a
    BY DEF LinkHolds
  <1>3. s.pairs[i] \in Link /\ i \in DOMAIN s.pairs
    BY <1>1, <1>2
  <1>4. s.pairs[i].account \in [1 .. 2 -> Account]
    BY <1>3, LinkParts
  <1>5. a \in Range(s.pairs[i].account)
    BY <1>2, <1>4 DEF Range
  <1>6. QED
    BY <1>3, <1>5 DEF LinksOf

\* The side of a link passes to the record: no other hold is lost, and the
\* record has a link from now on.
LEMMA HandOverOK ==
  ASSUME NEW s, Sound(s), NEW a \in Account
  PROVE  LET t == HandOver(s, a)
         IN  /\ Sound(t) /\ t.player = s.player /\ t.leave = s.leave
             /\ t.tickEnd = s.tickEnd /\ t.raised = s.raised
             /\ \A x \in Account \ {a} : \A n : LinkHolds(s, x, n) => LinkHolds(t, x, n)
             /\ LinkHolds(s, a, 0) => LinkHolds(t, a, 0)
             /\ s.player[a].paired /\ LinksOf(s, a) # {} => LinkHolds(t, a, 0)
  <1> DEFINE t == HandOver(s, a)
  <1>1. CASE ~s.player[a].paired \/ LinksOf(s, a) = {}
    <2>1. t = s
      BY <1>1 DEF HandOver
    <2>2. QED
      BY <1>1, <2>1
  <1>2. CASE s.player[a].paired /\ LinksOf(s, a) # {}
    <2> DEFINE i == FindPair(s, a)
               link == s.pairs[i]
               k == SideOf(link, a)
               sessions == [link.session EXCEPT ![k] = 0]
               after == [link EXCEPT !.session = sessions]
               links == [s.pairs EXCEPT ![i] = after]
    <2>1. i \in 1 .. Len(s.pairs) /\ link \in Link /\ k \in 1 .. 2 /\ link.account[k] = a
      BY <1>2, FindPairOK
    <2>2. s \in StoreState /\ s.pairs \in Seq(Link)
      BY StoreParts DEF Sound
    <2>3. t = [s EXCEPT !.pairs = links]
      BY <1>2, <2>1, <2>2 DEF HandOver, StoreState, Link
    <2> HIDE DEF i, k
    <2>4. /\ sessions \in [1 .. 2 -> Nat] /\ sessions[k] = 0
          /\ \A j \in 1 .. 2 : j # k => sessions[j] = link.session[j]
      BY ZenonT(60), SMTT(60), <2>1, LinkParts
    <2> HIDE DEF sessions
    <2>5. after \in Link /\ after.account = link.account /\ after.session = sessions
      BY ZenonT(60), SMTT(60), <2>1, <2>4 DEF Link
    <2> HIDE DEF after
    <2>6. /\ links \in Seq(Link) /\ Len(links) = Len(s.pairs) /\ links[i] = after
          /\ \A j \in 1 .. Len(s.pairs) : j # i => links[j] = s.pairs[j]
      BY <2>1, <2>2, <2>5
    <2> HIDE DEF links, t
    <2>7. /\ t \in StoreState /\ t.pairs = links
          /\ t.player = s.player /\ t.leave = s.leave /\ t.tickEnd = s.tickEnd
          /\ t.inflight = s.inflight /\ t.slot = s.slot /\ t.raised = s.raised
      BY <2>2, <2>3, <2>6 DEF StoreState
    <2>8. Sound(t)
      BY <2>7 DEF Sound, Flying
    <2>9. ASSUME NEW x \in Account \ {a}, NEW n, LinkHolds(s, x, n)
          PROVE  LinkHolds(t, x, n)
      <3>1. PICK h \in 1 .. Len(s.pairs), j \in 1 .. 2 :
                s.pairs[h].account[j] = x /\ s.pairs[h].session[j] = n
        BY <2>9 DEF LinkHolds
      <3>2. links[h].account[j] = x /\ links[h].session[j] = n
        <4>1. CASE h # i
          BY <2>6, <3>1, <4>1
        <4>2. CASE h = i
          <5>1. j # k
            BY <2>1, <3>1, <4>2
          <5>2. links[h].account[j] = link.account[j] /\ links[h].session[j] = sessions[j]
            BY <2>5, <2>6, <4>2
          <5>3. QED
            BY SMTT(60), ZenonT(60), <2>4, <3>1, <4>2, <5>1, <5>2
        <4>3. QED
          BY <4>1, <4>2
      <3>3. QED
        BY <2>6, <2>7, <3>2 DEF LinkHolds
    <2>10. LinkHolds(t, a, 0)
      <3>1. links[i].account[k] = a /\ links[i].session[k] = 0
        BY ZenonT(60), SMTT(60), <2>1, <2>4, <2>5, <2>6
      <3>2. QED
        BY <2>1, <2>6, <2>7, <3>1 DEF LinkHolds
    <2>11. QED
      BY <2>7, <2>8, <2>9, <2>10 DEF t
  <1>3. QED
    BY <1>1, <1>2

\* A bundle on its way that loses its owner is off the gauge.
LEMMA DisownOK ==
  ASSUME NEW s, Sound(s), NEW a \in Account
  PROVE  LET t == Disown(s, a)
         IN  /\ Sound(t) /\ Quiet(s, t) /\ t.pairs = s.pairs /\ t.leave = s.leave
             /\ t.player[a].bundleNo = 0
  <1> DEFINE t == Disown(s, a)
  <1>1. /\ s \in StoreState /\ s.player[a] \in PlayerState /\ s.inflight \in Int
        /\ QueuesOK(s.slot) /\ s.player \in [Account -> PlayerState]
    BY StoreParts DEF Sound
  <1>2. CASE s.player[a].bundleNo = 0
    <2>1. t = s
      BY <1>2 DEF Disown
    <2>2. QED
      BY <1>2, <2>1 DEF Quiet, SameFace
  <1>3. CASE s.player[a].bundleNo # 0
    <2> DEFINE p == [s.player[a] EXCEPT !.bundleNo = 0]
               n == s.inflight - 1
               queues == s.slot
    <2>1. p \in PlayerState /\ p.bundleNo = 0 /\ SameFace(s.player[a], p)
      BY <1>1, StoreAssumption DEF PlayerState, SameFace
    <2>2. Moved(s, t, a, p, n, queues)
      BY <1>1, <1>3 DEF Disown, StoreState, Moved
    <2>3. n \in Int /\ QueuesOK(queues) /\ GaugeMoves(s.player[a], p, s.inflight, n)
      BY <1>1, <1>3, <2>1 DEF GaugeMoves
    <2> HIDE DEF p, n, queues, t
    <2>4. Sound(t) /\ Quiet(s, t)
      BY <2>1, <2>2, <2>3, OneChanges
    <2>5. t.pairs = s.pairs /\ t.leave = s.leave /\ t.player[a] = p
      BY <1>1, <2>2 DEF StoreState, Moved
    <2>6. QED
      BY <2>1, <2>4, <2>5 DEF t
  <1>4. QED
    BY <1>2, <1>3

OnlyLeave(s, t, records) == t = [s EXCEPT !.leave = records]

LEMMA LeaveChanges ==
  ASSUME NEW s, Sound(s), NEW records \in Records, NEW t, OnlyLeave(s, t, records)
  PROVE  /\ Sound(t) /\ t.leave = records
         /\ t.player = s.player /\ t.pairs = s.pairs /\ t.tickEnd = s.tickEnd
         /\ t.inflight = s.inflight /\ t.slot = s.slot /\ t.raised = s.raised
  <1>1. s \in StoreState
    BY DEF Sound
  <1>2. /\ t \in StoreState /\ t.leave = records
        /\ t.player = s.player /\ t.pairs = s.pairs /\ t.tickEnd = s.tickEnd
        /\ t.inflight = s.inflight /\ t.slot = s.slot /\ t.raised = s.raised
    BY <1>1 DEF StoreState, OnlyLeave
  <1>3. QED
    BY <1>2 DEF Sound, Flying

\* The list and whom it lists are the same.
SameList(s, t) ==
    /\ t.tickEnd = s.tickEnd
    /\ \A a \in Account : /\ t.player[a].session = s.player[a].session
                          /\ t.player[a].listed = s.player[a].listed

LEMMA SameListListed ==
  ASSUME NEW s, NEW t, SameList(s, t), Listed(s)
  PROVE  Listed(t)
  BY DEF SameList, Listed

\* Nobody else enters or leaves, and a has a record of its own now.
Leaves(s, t, a) ==
    /\ \A x \in Account : t.player[x].session = s.player[x].session
    /\ t.tickEnd = s.tickEnd
    /\ DOMAIN t.leave = DOMAIN s.leave \cup {a}
    /\ Overwritten \in t.raised => Overwritten \in s.raised

LEMMA LeaveFinalOK ==
  ASSUME NEW s, Good(s, {}), NEW a \in Account, Present(s, a), a \notin DOMAIN s.leave
  PROVE  Good(LeaveFinal(s, a), {}) /\ Leaves(s, LeaveFinal(s, a), a)
  <1> DEFINE p == s.player[a]
             rec == [row |-> p.row, rows |-> Carried(p.bag, p.unsaved \cup p.slots),
                     no |-> 0, inFlight |-> FALSE, paired |-> p.paired]
             d == Disown(s, a)
             h == HandOver(d, a)
             q == [h.player[a] EXCEPT !.unsaved = {}, !.slots = {}, !.paired = FALSE]
             u == [h EXCEPT !.player = [h.player EXCEPT ![a] = q]]
             kept == [x \in DOMAIN h.leave \cup {a} |-> IF x = a THEN rec ELSE h.leave[x]]
             put == [PutLeaveRecord(h, a, rec) EXCEPT
                       !.player[a] = [@ EXCEPT !.unsaved = {}, !.slots = {},
                                               !.paired = FALSE]]
             t == LeaveFinal(s, a)
  <1>1. Sound(s) /\ Listed(s) /\ Held(s, {})
    BY DEF Good
  <1>2. p \in PlayerState
    BY <1>1, StoreParts DEF Sound
  <1>3. t = IF p.paired THEN put ELSE SendLeaveRecord(put, a)
    BY DEF LeaveFinal
  <1> HIDE DEF t
  <1>4. rec \in LeaveRecord /\ rec.paired = p.paired
    <2>1. Carried(p.bag, p.unsaved \cup p.slots) \in BagRows
      BY <1>2, CarriedType DEF PlayerState
    <2>2. 0 \in 0 .. SeqMax /\ p.row \in Row /\ p.paired \in BOOLEAN
      BY <1>2, StoreAssumption DEF PlayerState
    <2>3. QED
      BY <2>1, <2>2 DEF LeaveRecord
  <1> HIDE DEF rec
  <1>5. /\ Sound(d) /\ Quiet(s, d) /\ d.pairs = s.pairs /\ d.leave = s.leave
        /\ d.player[a].bundleNo = 0
    BY <1>1, DisownOK
  <1> HIDE DEF d
  <1>6. /\ Sound(h) /\ h.player = d.player /\ h.leave = d.leave
        /\ h.tickEnd = d.tickEnd /\ h.raised = d.raised
        /\ \A x \in Account \ {a} : \A n : LinkHolds(d, x, n) => LinkHolds(h, x, n)
        /\ LinkHolds(d, a, 0) => LinkHolds(h, a, 0)
        /\ d.player[a].paired /\ LinksOf(d, a) # {} => LinkHolds(h, a, 0)
    BY <1>5, HandOverOK
  <1> HIDE DEF h
  <1>7. /\ h \in StoreState /\ h.player[a] \in PlayerState /\ h.leave = s.leave
        /\ h.player \in [Account -> PlayerState]
        /\ h.leave \in [DOMAIN h.leave -> LeaveRecord] /\ DOMAIN h.leave \subseteq Account
    BY <1>5, <1>6, StoreParts DEF Sound
  <1>8. /\ q \in PlayerState /\ q.session = h.player[a].session
        /\ q.listed = h.player[a].listed /\ q.paired = FALSE
        /\ q.bundleNo = h.player[a].bundleNo
    BY <1>7 DEF PlayerState
  <1>9. OnlyLeave(u, put, kept)
    BY <1>7 DEF PutLeaveRecord, StoreState, OnlyLeave
  <1>10. OnlyPlayer(h, u, a, q)
    BY DEF OnlyPlayer
  <1>11. h.player[a].bundleNo = q.bundleNo
    BY <1>8
  <1> HIDE DEF q, u, put
  <1>12. /\ Sound(u) /\ u.leave = h.leave /\ u.pairs = h.pairs /\ u.tickEnd = h.tickEnd
         /\ u.raised = h.raised
    <2>1. q.bundleNo # 0 => h.player[a].bundleNo # 0
      BY <1>11
    <2>2. Sound(h) /\ q \in PlayerState
      BY <1>6, <1>8
    <2>3. QED
      BY ZenonT(120), <1>10, <2>1, <2>2, OneStays
  <1>13. u.player = [h.player EXCEPT ![a] = q]
    BY <1>7, <1>10 DEF StoreState, OnlyPlayer
  <1>14. kept \in Records /\ DOMAIN kept = DOMAIN s.leave \cup {a}
         /\ kept[a] = rec /\ \A x \in DOMAIN s.leave : kept[x] = s.leave[x]
    <2>1. kept \in [DOMAIN h.leave \cup {a} -> LeaveRecord]
      BY <1>4, <1>7
    <2>2. QED
      BY <1>7, <2>1, RecordsType
  <1> HIDE DEF kept
  <1>15. /\ Sound(put) /\ put.leave = kept /\ put.player = u.player
         /\ put.pairs = u.pairs /\ put.tickEnd = u.tickEnd /\ put.raised = u.raised
    BY <1>9, <1>12, <1>14, LeaveChanges
  <1>16. /\ put.player[a] = q
         /\ \A x \in Account \ {a} : put.player[x] = h.player[x]
    BY <1>7, <1>13, <1>15
  <1>17. SameList(s, put)
    <2>1. \A x \in Account : /\ h.player[x].session = s.player[x].session
                             /\ h.player[x].listed = s.player[x].listed
      BY <1>5, <1>6 DEF Quiet, SameFace
    <2>2. put.tickEnd = s.tickEnd
      BY <1>5, <1>6, <1>12, <1>15 DEF Quiet
    <2>3. QED
      BY <1>8, <1>16, <2>1, <2>2 DEF SameList
  <1>18. Held(put, {})
    <2>1. \A x \in Account \ {a} : \A n : LinkHolds(s, x, n) => LinkHolds(put, x, n)
      <3>1. \A x \in Account \ {a} : \A n : LinkHolds(s, x, n) => LinkHolds(d, x, n)
        BY <1>5 DEF LinkHolds
      <3>2. \A x \in Account \ {a} : \A n : LinkHolds(h, x, n) => LinkHolds(put, x, n)
        BY <1>12, <1>15 DEF LinkHolds
      <3>3. QED
        BY <1>6, <3>1, <3>2
    <2>2. p.paired => LinkHolds(put, a, 0)
      <3>1. SUFFICES ASSUME p.paired PROVE LinkHolds(put, a, 0)
        OBVIOUS
      <3>2. LinkHolds(s, a, p.session)
        BY <1>1, <3>1 DEF Held, Present
      <3>3. LinkHolds(d, a, p.session)
        BY <1>5, <3>2 DEF LinkHolds
      <3>4. LinksOf(d, a) # {}
        BY <1>5, <3>3, LinkFound
      <3>5. d.player[a].paired
        BY <1>5, <3>1 DEF Quiet, SameFace
      <3>6. LinkHolds(h, a, 0)
        BY <1>6, <3>4, <3>5
      <3>7. QED
        BY <1>12, <1>15, <3>6 DEF LinkHolds
    <2>3. \A x \in Account \ {a} : /\ put.player[x].session = s.player[x].session
                                   /\ put.player[x].paired = s.player[x].paired
      BY <1>5, <1>6, <1>16 DEF Quiet, SameFace
    <2> SUFFICES ASSUME NEW x \in Account
                 PROVE  /\ put.player[x].session # 0 /\ put.player[x].paired =>
                             LinkHolds(put, x, put.player[x].session)
                        /\ x \in DOMAIN put.leave /\ put.leave[x].paired =>
                             LinkHolds(put, x, 0)
      BY DEF Held
    <2>4. CASE x = a
      BY <1>4, <1>8, <1>14, <1>15, <1>16, <2>2, <2>4
    <2>5. CASE x # a
      <3>1. /\ s.player[x].session # 0 /\ s.player[x].paired =>
                 LinkHolds(s, x, s.player[x].session)
            /\ x \in DOMAIN s.leave /\ s.leave[x].paired => LinkHolds(s, x, 0)
        BY <1>1 DEF Held
      <3>2. x \in DOMAIN put.leave => x \in DOMAIN s.leave /\ put.leave[x] = s.leave[x]
        BY <1>14, <1>15, <2>5
      <3>3. QED
        BY <2>1, <2>3, <2>5, <3>1, <3>2
    <2>6. QED
      BY <2>4, <2>5
  <1>19. Good(put, {})
    BY <1>1, <1>15, <1>17, <1>18, SameListListed DEF Good
  <1>20. Leaves(s, put, a)
    <2>1. Overwritten \in put.raised => Overwritten \in s.raised
      BY <1>5, <1>6, <1>12, <1>15 DEF Quiet
    <2>2. QED
      BY <1>14, <1>15, <1>17, <2>1 DEF Leaves, SameList
  <1>21. CASE p.paired
    BY <1>3, <1>19, <1>20, <1>21 DEF t
  <1>22. CASE ~p.paired
    <2>1. t = SendLeaveRecord(put, a) /\ a \in DOMAIN put.leave
      BY <1>3, <1>14, <1>15, <1>22
    <2>2. Sound(t) /\ Quiet(put, t)
      BY <1>15, <2>1, SendLeaveRecordOK
    <2>3. Good(t, {})
      BY <1>19, <2>2, QuietGood
    <2>4. Leaves(s, t, a)
      BY <1>20, <2>2 DEF Leaves, Quiet, SameFace
    <2>5. QED
      BY <2>3, <2>4 DEF t
  <1>23. QED
    BY <1>21, <1>22

\* The character that left has no session any more.
LEMMA LeaveGameOK ==
  ASSUME NEW s, Good(s, {}), NEW a \in Account, Present(s, a), a \notin DOMAIN s.leave
  PROVE  LET t == LeaveGame(s, a)
         IN  /\ Good(t, {})
             /\ t.player[a].session = 0
             /\ \A x \in Account \ {a} : t.player[x].session = s.player[x].session
             /\ t.tickEnd = s.tickEnd
             /\ DOMAIN t.leave = DOMAIN s.leave \cup {a}
             /\ Overwritten \in t.raised => Overwritten \in s.raised
  <1> DEFINE f == LeaveFinal(s, a)
             p == Fresh(0, f.player[a].row, f.player[a].bag, FALSE)
             t == LeaveGame(s, a)
  <1>1. Good(f, {}) /\ Leaves(s, f, a)
    BY LeaveFinalOK
  <1>2. /\ Sound(f) /\ f \in StoreState /\ f.player[a] \in PlayerState
        /\ f.player \in [Account -> PlayerState]
    BY <1>1, StoreParts DEF Good, Sound
  <1>3. OnlyPlayer(f, t, a, p)
    BY <1>2 DEF LeaveGame, OnlyPlayer, StoreState
  <1> HIDE DEF f
  <1>4. p \in PlayerState /\ p.session = 0 /\ p.bundleNo = 0
    <2>1. f.player[a].row \in Row /\ f.player[a].bag \in Bag
      BY <1>2 DEF PlayerState
    <2>2. QED
      BY ZenonT(60), <2>1, FreshType
  <1> HIDE DEF p, t
  <1>5. /\ Sound(t) /\ t.leave = f.leave /\ t.pairs = f.pairs /\ t.tickEnd = f.tickEnd
        /\ t.raised = f.raised
    <2>1. p.bundleNo # 0 => f.player[a].bundleNo # 0
      BY <1>4
    <2>2. QED
      BY ZenonT(120), <1>2, <1>3, <1>4, <2>1, OneStays
  <1>6. t.player = [f.player EXCEPT ![a] = p]
    BY <1>2, <1>3 DEF StoreState, OnlyPlayer
  <1>7. /\ t.player[a] = p
        /\ \A x \in Account \ {a} : t.player[x] = f.player[x]
    BY <1>2, <1>6
  <1>8. Listed(t)
    <2>1. Listed(f)
      BY <1>1 DEF Good
    <2>2. QED
      BY SMTT(60), ZenonT(60), <1>4, <1>5, <1>7, <2>1 DEF Listed
  <1>9. Held(t, {})
    <2>1. Held(f, {}) /\ \A x, n : LinkHolds(f, x, n) => LinkHolds(t, x, n)
      BY <1>1, <1>5 DEF Good, LinkHolds
    <2>2. QED
      BY <1>4, <1>5, <1>7, <2>1 DEF Held
  <1>10. QED
    BY <1>1, <1>4, <1>5, <1>7, <1>8, <1>9 DEF Good, Leaves, t

-----------------------------------------------------------------------------
(* Trades. *)

OnlyPairs(s, t, links) == t = [s EXCEPT !.pairs = links]

LEMMA PairsChange ==
  ASSUME NEW s, Sound(s), NEW links \in Seq(Link), NEW t, OnlyPairs(s, t, links)
  PROVE  /\ Sound(t) /\ t.pairs = links
         /\ t.player = s.player /\ t.leave = s.leave /\ t.tickEnd = s.tickEnd
         /\ t.inflight = s.inflight /\ t.slot = s.slot /\ t.raised = s.raised
  <1>1. s \in StoreState
    BY DEF Sound
  <1>2. /\ t \in StoreState /\ t.pairs = links
        /\ t.player = s.player /\ t.leave = s.leave /\ t.tickEnd = s.tickEnd
        /\ t.inflight = s.inflight /\ t.slot = s.slot /\ t.raised = s.raised
    BY <1>1 DEF StoreState, OnlyPairs
  <1>3. QED
    BY <1>2 DEF Sound, Flying

\* Two characters change, and no bundle of theirs goes on its way.
LEMMA TwoStay ==
  ASSUME NEW s, Sound(s), NEW a \in Account, NEW b \in Account, a # b,
         NEW p \in PlayerState, p.bundleNo = s.player[a].bundleNo,
         NEW q \in PlayerState, q.bundleNo = s.player[b].bundleNo
  PROVE  LET t == [s EXCEPT !.player = [s.player EXCEPT ![a] = p, ![b] = q]]
         IN  /\ Sound(t) /\ t.player[a] = p /\ t.player[b] = q
             /\ \A x \in Account \ {a, b} : t.player[x] = s.player[x]
             /\ t.leave = s.leave /\ t.pairs = s.pairs /\ t.tickEnd = s.tickEnd
             /\ t.raised = s.raised
  <1> DEFINE u == [s EXCEPT !.player = [s.player EXCEPT ![a] = p]]
             t == [s EXCEPT !.player = [s.player EXCEPT ![a] = p, ![b] = q]]
  <1>1. s \in StoreState /\ s.player \in [Account -> PlayerState]
    BY StoreParts DEF Sound
  <1>2. OnlyPlayer(s, u, a, p)
    BY DEF OnlyPlayer
  <1>3. u.player = [s.player EXCEPT ![a] = p] /\ u \in StoreState
    BY <1>1 DEF StoreState
  <1>4. OnlyPlayer(u, t, b, q)
    BY <1>1, <1>3 DEF OnlyPlayer, StoreState
  <1>5. t.player = [u.player EXCEPT ![b] = q]
    BY <1>1, <1>3 DEF StoreState
  <1> HIDE DEF u, t
  <1>6. Sound(u) /\ u.leave = s.leave /\ u.pairs = s.pairs /\ u.tickEnd = s.tickEnd
        /\ u.raised = s.raised
    <2>1. p.bundleNo # 0 => s.player[a].bundleNo # 0
      OBVIOUS
    <2>2. Sound(u)
      BY <1>2, <2>1, OneStays
    <2>3. QED
      BY <1>1, <1>2, <2>2 DEF OnlyPlayer, StoreState
  <1>7. u.player[b] = s.player[b]
    BY <1>1, <1>3
  <1>8. Sound(t) /\ t.leave = u.leave /\ t.pairs = u.pairs /\ t.tickEnd = u.tickEnd
        /\ t.raised = u.raised
    <2>1. q.bundleNo # 0 => u.player[b].bundleNo # 0
      BY <1>7
    <2>2. Sound(t)
      BY <1>4, <1>6, <2>1, OneStays
    <2>3. QED
      BY <1>3, <1>4, <2>2 DEF OnlyPlayer, StoreState
  <1>9. /\ t.player[a] = p /\ t.player[b] = q
        /\ \A x \in Account \ {a, b} : t.player[x] = s.player[x]
    BY <1>1, <1>3, <1>5
  <1>10. QED
    BY <1>6, <1>8, <1>9 DEF t

\* Two characters in the game become a pair, and their link is sent.
LEMMA SaveTradeOK ==
  ASSUME NEW s, Good(s, {}), NEW a \in Account, NEW b \in Account, a # b
  PROVE  LET t == SaveTrade(s, a, b)
         IN  Good(t, {}) /\ Follows(s, t)
  <1> DEFINE p == [s.player[a] EXCEPT !.paired = TRUE]
             q == [s.player[b] EXCEPT !.paired = TRUE]
             m == s.player[a].session
             n == s.player[b].session
             link == [account |-> <<a, b>>, session |-> <<m, n>>,
                      no |-> <<0, 0>>, replied |-> <<FALSE, FALSE>>,
                      ok |-> TRUE, inFlight |-> FALSE]
             links == Append(s.pairs, link)
             u == [s EXCEPT !.player = [s.player EXCEPT ![a] = p, ![b] = q]]
             held == [s EXCEPT !.player[a].paired = TRUE, !.player[b].paired = TRUE,
                               !.pairs = Append(@, link)]
             t == SaveTrade(s, a, b)
  <1>1. /\ Sound(s) /\ Listed(s) /\ Held(s, {}) /\ s \in StoreState
        /\ s.player \in [Account -> PlayerState]
        /\ s.player[a] \in PlayerState /\ s.player[b] \in PlayerState
        /\ s.pairs \in Seq(Link)
    BY StoreParts DEF Good, Sound
  <1>2. t = SendPair(held, Len(held.pairs))
    BY DEF SaveTrade
  <1>3. /\ m \in Nat /\ n \in Nat
        /\ p \in PlayerState /\ p.session = m /\ p.listed = s.player[a].listed
        /\ p.bundleNo = s.player[a].bundleNo
        /\ q \in PlayerState /\ q.session = n /\ q.listed = s.player[b].listed
        /\ q.bundleNo = s.player[b].bundleNo
    BY <1>1 DEF PlayerState
  <1>4. OnlyPairs(u, held, links)
    BY <1>1 DEF OnlyPairs, StoreState
  <1> HIDE DEF p, q, m, n, t
  <1>5. link \in Link /\ link.account[1] = a /\ link.account[2] = b
        /\ link.session[1] = m /\ link.session[2] = n
    <2>1. 1 .. 2 = {1, 2}
      OBVIOUS
    <2>2. /\ <<a, b>> \in [{1, 2} -> Account] /\ <<m, n>> \in [{1, 2} -> Nat]
          /\ <<0, 0>> \in [{1, 2} -> 0 .. SeqMax]
      BY <1>3, StoreAssumption
    <2>3. <<FALSE, FALSE>> \in [1 .. 2 -> BOOLEAN]
      BY FirstAndSecond
    <2>4. QED
      BY <2>1, <2>2, <2>3 DEF Link
  <1> HIDE DEF link
  <1>6. /\ links \in Seq(Link) /\ Len(links) = Len(s.pairs) + 1 /\ Len(links) \in Nat
        /\ links[Len(links)] = link
        /\ \A i \in 1 .. Len(s.pairs) : links[i] = s.pairs[i]
    BY <1>1, <1>5
  <1> HIDE DEF links
  <1>7. /\ Sound(u) /\ u.player[a] = p /\ u.player[b] = q
        /\ \A x \in Account \ {a, b} : u.player[x] = s.player[x]
        /\ u.leave = s.leave /\ u.pairs = s.pairs /\ u.tickEnd = s.tickEnd
        /\ u.raised = s.raised
    <2>1. p \in PlayerState /\ p.bundleNo = s.player[a].bundleNo
      BY <1>3
    <2>2. q \in PlayerState /\ q.bundleNo = s.player[b].bundleNo
      BY <1>3
    <2>3. Sound(u)
      BY <1>1, <2>1, <2>2, TwoStay
    <2>4. QED
      BY <1>1, <2>3 DEF StoreState
  <1> HIDE DEF u, held
  <1>8. /\ Sound(held) /\ held.pairs = links /\ held.player = u.player
        /\ held.leave = u.leave /\ held.tickEnd = u.tickEnd /\ held.raised = u.raised
    BY <1>4, <1>6, <1>7, PairsChange
  <1>9. SameList(s, held)
    BY <1>3, <1>7, <1>8 DEF SameList, m, n
  <1>10. Held(held, {})
    <2>1. \A x, k : LinkHolds(s, x, k) => LinkHolds(held, x, k)
      BY SMTT(60), ZenonT(60), <1>1, <1>6, <1>8 DEF LinkHolds
    <2>2. LinkHolds(held, a, m) /\ LinkHolds(held, b, n)
      <3>1. Len(links) \in 1 .. Len(links)
        BY <1>1, <1>6
      <3>2. QED
        BY ZenonT(60), SMTT(60), <1>5, <1>6, <1>8, <3>1, FirstAndSecond DEF LinkHolds
    <2> SUFFICES ASSUME NEW x \in Account
                 PROVE  /\ held.player[x].session # 0 /\ held.player[x].paired =>
                             LinkHolds(held, x, held.player[x].session)
                        /\ x \in DOMAIN held.leave /\ held.leave[x].paired =>
                             LinkHolds(held, x, 0)
      BY DEF Held
    <2>3. x \in DOMAIN held.leave /\ held.leave[x].paired => LinkHolds(held, x, 0)
      BY <1>1, <1>7, <1>8, <2>1 DEF Held
    <2>4. CASE x \in {a, b}
      BY <1>3, <1>7, <1>8, <2>2, <2>3, <2>4
    <2>5. CASE x \notin {a, b}
      <3>1. s.player[x].session # 0 /\ s.player[x].paired => LinkHolds(s, x, s.player[x].session)
        BY <1>1 DEF Held
      <3>2. QED
        BY <1>7, <1>8, <2>1, <2>3, <2>5, <3>1
    <2>6. QED
      BY <2>4, <2>5
  <1>11. Good(held, {})
    BY <1>1, <1>8, <1>9, <1>10, SameListListed DEF Good
  <1>12. Follows(s, held)
    BY <1>7, <1>8, <1>9 DEF Follows, SameList
  <1>13. Sound(t) /\ Quiet(held, t)
    <2>1. Len(held.pairs) \in 1 .. Len(held.pairs)
      BY <1>1, <1>6, <1>8
    <2>2. QED
      BY <1>2, <1>8, <2>1, SendPairOK
  <1>14. Good(t, {}) /\ Follows(held, t)
    BY <1>11, <1>13, QuietGood, QuietFollows
  <1>15. QED
    BY <1>12, <1>14, FollowsTwice DEF t

-----------------------------------------------------------------------------
(* Replies. *)

\* Nothing changes: what the lemmas about an operator say when it does nothing.
LEMMA NothingChanges == \A s : Quiet(s, s) /\ Follows(s, s)
  BY DEF Quiet, Follows, SameFace

\* A character whose link has gone may save by itself again.
LEMMA ReleaseCharacterOK ==
  ASSUME NEW s, NEW but, Good(s, but), NEW a \in Account, NEW n \in Nat,
         n # 0 /\ s.player[a].session = n
  PROVE  LET t == RequestSave([s EXCEPT !.player[a].paired = FALSE], a)
         IN  Good(t, but \ {<<a, n>>}) /\ Follows(s, t)
  <1> DEFINE p == [s.player[a] EXCEPT !.paired = FALSE]
             u == [s EXCEPT !.player[a].paired = FALSE]
             t == RequestSave(u, a)
             rest == but \ {<<a, n>>}
  <1>1. /\ Sound(s) /\ Listed(s) /\ Held(s, but) /\ s \in StoreState
        /\ s.player \in [Account -> PlayerState] /\ s.player[a] \in PlayerState
    BY StoreParts DEF Good, Sound
  <1>2. /\ p \in PlayerState /\ p.session = n /\ p.listed = s.player[a].listed
        /\ p.bundleNo = s.player[a].bundleNo /\ p.paired = FALSE
    BY <1>1 DEF PlayerState
  <1>3. OnlyPlayer(s, u, a, p)
    BY <1>1 DEF OnlyPlayer, StoreState
  <1> HIDE DEF p, u, t
  <1>4. Sound(u)
    <2>1. p.bundleNo # 0 => s.player[a].bundleNo # 0
      BY <1>2
    <2>2. QED
      BY <1>1, <1>2, <1>3, <2>1, OneStays
  <1>5. /\ u.player = [s.player EXCEPT ![a] = p]
        /\ u.leave = s.leave /\ u.pairs = s.pairs /\ u.tickEnd = s.tickEnd
        /\ u.raised = s.raised
    BY <1>1, <1>3 DEF OnlyPlayer, StoreState
  <1>6. u.player[a] = p /\ \A x \in Account \ {a} : u.player[x] = s.player[x]
    BY <1>1, <1>5
  <1>7. SameList(s, u)
    BY <1>2, <1>5, <1>6 DEF SameList
  <1>8. Held(u, rest)
    <2>1. \A x, k : LinkHolds(s, x, k) => LinkHolds(u, x, k)
      BY <1>5 DEF LinkHolds
    <2>2. \A x, k : <<x, k>> \in but /\ (x # a \/ k # n) => <<x, k>> \in rest
      OBVIOUS
    <2> SUFFICES ASSUME NEW x \in Account
                 PROVE  /\ u.player[x].session # 0 /\ u.player[x].paired =>
                             \/ LinkHolds(u, x, u.player[x].session)
                             \/ <<x, u.player[x].session>> \in rest
                        /\ x \in DOMAIN u.leave /\ u.leave[x].paired =>
                             LinkHolds(u, x, 0) \/ <<x, 0>> \in rest
      BY ZenonT(60) DEF Held
    <2>3. /\ s.player[x].session # 0 /\ s.player[x].paired =>
               \/ LinkHolds(s, x, s.player[x].session)
               \/ <<x, s.player[x].session>> \in but
          /\ x \in DOMAIN s.leave /\ s.leave[x].paired =>
               LinkHolds(s, x, 0) \/ <<x, 0>> \in but
      BY <1>1 DEF Held
    <2>4. n # 0
      OBVIOUS
    <2>5. CASE x = a
      BY <1>2, <1>5, <1>6, <2>1, <2>2, <2>3, <2>4, <2>5
    <2>6. CASE x # a
      BY <1>5, <1>6, <2>1, <2>2, <2>3, <2>6
    <2>7. QED
      BY <2>5, <2>6
  <1>9. Good(u, rest)
    BY <1>1, <1>4, <1>7, <1>8, SameListListed DEF Good
  <1>10. Follows(s, u)
    BY <1>5, <1>7 DEF Follows, SameList
  <1>11. Present(u, a)
    BY <1>2, <1>6 DEF Present
  <1>12. Good(t, rest) /\ Follows(u, t)
    BY <1>9, <1>11, RequestSaveOK DEF t
  <1>13. QED
    BY <1>10, <1>12, FollowsTwice DEF t, u

\* A held record whose link has gone is sent if the pair did not carry it.
LEMMA ReleaseRecordOK ==
  ASSUME NEW s, NEW but, Good(s, but), NEW a \in DOMAIN s.leave
  PROVE  LET u == [s EXCEPT !.leave[a].paired = FALSE]
             t == IF u.leave[a].inFlight THEN u ELSE SendLeaveRecord(u, a)
         IN  Good(t, but \ {<<a, 0>>}) /\ Follows(s, t)
  <1> DEFINE rec == [s.leave[a] EXCEPT !.paired = FALSE]
             kept == [s.leave EXCEPT ![a] = rec]
             u == [s EXCEPT !.leave[a].paired = FALSE]
             t == IF u.leave[a].inFlight THEN u ELSE SendLeaveRecord(u, a)
             rest == but \ {<<a, 0>>}
  <1>1. /\ Sound(s) /\ Listed(s) /\ Held(s, but) /\ s \in StoreState
        /\ s.leave \in [DOMAIN s.leave -> LeaveRecord] /\ DOMAIN s.leave \subseteq Account
        /\ s.leave[a] \in LeaveRecord /\ a \in Account
    BY StoreParts DEF Good, Sound
  <1>2. rec \in LeaveRecord /\ rec.paired = FALSE
    BY <1>1 DEF LeaveRecord
  <1>3. OnlyLeave(s, u, kept)
    BY <1>1 DEF OnlyLeave, StoreState
  <1> HIDE DEF rec
  <1>4. /\ kept \in Records /\ DOMAIN kept = DOMAIN s.leave /\ kept[a] = rec
        /\ \A x \in DOMAIN s.leave : x # a => kept[x] = s.leave[x]
    <2>1. kept \in [DOMAIN s.leave -> LeaveRecord]
      BY <1>1, <1>2
    <2>2. QED
      BY <1>1, <2>1, RecordsType
  <1>5. t \in {u, SendLeaveRecord(u, a)}
    OBVIOUS
  <1> HIDE DEF kept, u, t
  <1>6. /\ Sound(u) /\ u.leave = kept /\ u.player = s.player /\ u.pairs = s.pairs
        /\ u.tickEnd = s.tickEnd /\ u.raised = s.raised
    BY <1>1, <1>3, <1>4, LeaveChanges
  <1>7. Held(u, rest)
    <2>1. \A x, k : LinkHolds(s, x, k) => LinkHolds(u, x, k)
      BY <1>6 DEF LinkHolds
    <2>2. \A x, k : <<x, k>> \in but /\ (x # a \/ k # 0) => <<x, k>> \in rest
      OBVIOUS
    <2> SUFFICES ASSUME NEW x \in Account
                 PROVE  /\ u.player[x].session # 0 /\ u.player[x].paired =>
                             \/ LinkHolds(u, x, u.player[x].session)
                             \/ <<x, u.player[x].session>> \in rest
                        /\ x \in DOMAIN u.leave /\ u.leave[x].paired =>
                             LinkHolds(u, x, 0) \/ <<x, 0>> \in rest
      BY ZenonT(60) DEF Held
    <2>3. /\ s.player[x].session # 0 /\ s.player[x].paired =>
               \/ LinkHolds(s, x, s.player[x].session)
               \/ <<x, s.player[x].session>> \in but
          /\ x \in DOMAIN s.leave /\ s.leave[x].paired =>
               LinkHolds(s, x, 0) \/ <<x, 0>> \in but
      BY <1>1 DEF Held
    <2>4. u.player[x].session # 0 /\ u.player[x].paired =>
               \/ LinkHolds(u, x, u.player[x].session)
               \/ <<x, u.player[x].session>> \in rest
      BY <1>6, <2>1, <2>2, <2>3
    <2>5. x \in DOMAIN u.leave /\ u.leave[x].paired =>
               LinkHolds(u, x, 0) \/ <<x, 0>> \in rest
      <3>1. CASE x = a
        BY <1>2, <1>4, <1>6, <3>1
      <3>2. CASE x # a
        BY <1>4, <1>6, <2>1, <2>2, <2>3, <3>2
      <3>3. QED
        BY <3>1, <3>2
    <2>6. QED
      BY <2>4, <2>5
  <1>8. SameList(s, u)
    BY <1>6 DEF SameList
  <1>9. Good(u, rest)
    BY <1>1, <1>6, <1>7, <1>8, SameListListed DEF Good
  <1>10. Follows(s, u)
    BY <1>4, <1>6 DEF Follows
  <1>11. /\ Sound(SendLeaveRecord(u, a)) /\ Quiet(u, SendLeaveRecord(u, a))
    BY <1>4, <1>6, SendLeaveRecordOK
  <1>12. Good(t, rest) /\ Follows(u, t)
    BY <1>5, <1>9, <1>11, QuietGood, QuietFollows, NothingChanges
  <1>13. QED
    BY <1>10, <1>12, FollowsTwice DEF t, u

\* Nothing is held any more by the side of a link that has gone.
LEMMA ReleasePairSideOK ==
  ASSUME NEW s, NEW but, Good(s, but), NEW a \in Account, NEW n \in Nat
  PROVE  LET t == ReleasePairSide(s, a, n)
         IN  Good(t, but \ {<<a, n>>}) /\ Follows(s, t)
  <1> DEFINE t == ReleasePairSide(s, a, n)
             rest == but \ {<<a, n>>}
  <1>1. CASE n # 0 /\ s.player[a].session = n
    <2>1. t = RequestSave([s EXCEPT !.player[a].paired = FALSE], a)
      BY <1>1 DEF ReleasePairSide
    <2>2. QED
      BY SMTT(60), ZenonT(60), <1>1, <2>1, ReleaseCharacterOK
  <1>2. CASE n = 0 /\ a \in DOMAIN s.leave /\ s.leave[a].paired
    <2> DEFINE u == [s EXCEPT !.leave[a].paired = FALSE]
    <2>1. t = IF u.leave[a].inFlight THEN u ELSE SendLeaveRecord(u, a)
      BY <1>2 DEF ReleasePairSide
    <2>2. QED
      BY SMTT(60), <1>2, <2>1, ReleaseRecordOK
  <1>3. CASE /\ ~(n # 0 /\ s.player[a].session = n)
             /\ ~(n = 0 /\ a \in DOMAIN s.leave /\ s.leave[a].paired)
    <2>1. t = s
      BY <1>3 DEF ReleasePairSide
    <2>2. Held(s, rest)
      <3>1. Held(s, but)
        BY DEF Good
      <3>2. \A x, k : <<x, k>> \in but /\ (x # a \/ k # n) => <<x, k>> \in rest
        OBVIOUS
      <3>3. QED
        BY ZenonT(60), <1>3, <3>1, <3>2 DEF Held
    <2>3. QED
      BY SMTT(60), ZenonT(60), <2>1, <2>2, NothingChanges DEF Good
  <1>4. QED
    BY <1>1, <1>2, <1>3

LEMMA AnsweredType ==
  ASSUME NEW p \in PlayerState
  PROVE  LET q == [p EXCEPT !.bundleNo = 0, !.again = FALSE]
             r == [p EXCEPT !.bundleNo = 0, !.again = FALSE, !.slots = {}]
         IN  /\ q \in PlayerState /\ q.bundleNo = 0 /\ SameFace(p, q)
             /\ r \in PlayerState /\ r.bundleNo = 0 /\ SameFace(p, r)
  <1> DEFINE q == [p EXCEPT !.bundleNo = 0, !.again = FALSE]
             r == [p EXCEPT !.bundleNo = 0, !.again = FALSE, !.slots = {}]
  <1>1. 0 \in 0 .. SeqMax /\ {} \in SUBSET Slot
    BY StoreAssumption
  <1>2. q \in PlayerState /\ q.bundleNo = 0 /\ SameFace(p, q)
    BY <1>1 DEF PlayerState, SameFace
  <1>3. r = [q EXCEPT !.slots = {}]
    BY DEF PlayerState
  <1> HIDE DEF q
  <1>4. r \in PlayerState /\ r.bundleNo = q.bundleNo /\ SameFace(q, r)
    BY <1>1, <1>2, <1>3 DEF PlayerState, SameFace
  <1>5. QED
    BY <1>2, <1>4 DEF SameFace, q

\* The reply to a bundle: of a character, of a record, or of nobody any more.
LEMMA OnSaveReplyOK ==
  ASSUME NEW s, Good(s, {}), NEW reply \in SaveReply
  PROVE  Good(OnSaveReply(s, reply), {}) /\ Follows(s, OnSaveReply(s, reply))
  <1> DEFINE a == reply.account
             p == s.player[a]
             landed == [s EXCEPT !.player[a] = [p EXCEPT !.bundleNo = 0, !.again = FALSE,
                                                         !.slots = {}],
                                 !.inflight = @ - 1]
             failed == [s EXCEPT !.player[a] = AbortBundle([p EXCEPT !.bundleNo = 0,
                                                                     !.again = FALSE]),
                                 !.inflight = @ - 1]
             ofPlayer == reply.session # 0 /\ p.session = reply.session
                         /\ p.bundleNo = reply.no
             ofRecord == /\ reply.session = 0
                         /\ a \in DOMAIN s.leave
                         /\ s.leave[a].inFlight
                         /\ s.leave[a].no = reply.no
             t == OnSaveReply(s, reply)
  <1>1. a \in Account /\ reply.no # 0 /\ reply.ok \in BOOLEAN
    BY DEF SaveReply
  <1>2. /\ Sound(s) /\ Listed(s) /\ Held(s, {}) /\ s \in StoreState
        /\ s.player \in [Account -> PlayerState] /\ p \in PlayerState
        /\ s.inflight \in Int /\ QueuesOK(s.slot)
    BY <1>1, StoreParts DEF Good, Sound
  <1>3. CASE ofPlayer
    <2>1. ASSUME NEW u, NEW q \in PlayerState, q.bundleNo = 0, SameFace(p, q),
                 Moved(s, u, a, q, s.inflight - 1, s.slot)
          PROVE  Good(u, {}) /\ Follows(s, u) /\ Present(u, a)
      <3>1. s.inflight - 1 \in Int /\ GaugeMoves(p, q, s.inflight, s.inflight - 1)
        BY <1>1, <1>2, <1>3, <2>1 DEF GaugeMoves
      <3>2. Sound(u) /\ Quiet(s, u)
        BY <1>1, <1>2, <2>1, <3>1, OneChanges
      <3>3. Present(u, a)
        BY <1>1, <1>3, <3>2 DEF Quiet, SameFace, Present
      <3>4. QED
        BY <3>2, <3>3, QuietGood, QuietFollows
    <2>2. CASE reply.ok
      <3> DEFINE q == [p EXCEPT !.bundleNo = 0, !.again = FALSE, !.slots = {}]
      <3>1. q \in PlayerState /\ q.bundleNo = 0 /\ SameFace(p, q)
        BY ZenonT(60), <1>2, AnsweredType
      <3>2. Moved(s, landed, a, q, s.inflight - 1, s.slot)
        BY <1>2 DEF Moved, StoreState
      <3>3. t \in {RequestSave(landed, a), landed}
        BY <1>3, <2>2 DEF OnSaveReply
      <3> HIDE DEF q, landed, t
      <3>4. Good(landed, {}) /\ Follows(s, landed) /\ Present(landed, a)
        BY <2>1, <3>1, <3>2
      <3>5. Good(RequestSave(landed, a), {}) /\ Follows(landed, RequestSave(landed, a))
        BY <1>1, <3>4, RequestSaveOK
      <3>6. Follows(s, RequestSave(landed, a))
        BY <3>4, <3>5, FollowsTwice
      <3>7. QED
        BY <3>3, <3>4, <3>5, <3>6 DEF t
    <2>3. CASE ~reply.ok
      <3> DEFINE r == [p EXCEPT !.bundleNo = 0, !.again = FALSE]
                 q == AbortBundle(r)
      <3>1. r \in PlayerState /\ r.bundleNo = 0 /\ SameFace(p, r)
        BY ZenonT(60), <1>2, AnsweredType
      <3>2. Moved(s, failed, a, q, s.inflight - 1, s.slot)
        BY <1>2 DEF Moved, StoreState
      <3>3. t = failed
        BY <1>3, <2>3 DEF OnSaveReply
      <3> HIDE DEF r
      <3>4. q \in PlayerState /\ q.bundleNo = 0 /\ SameFace(p, q)
        BY <3>1, AbortBundleType DEF SameFace
      <3> HIDE DEF q, failed, t
      <3>5. Good(failed, {}) /\ Follows(s, failed)
        BY <2>1, <3>2, <3>4
      <3>6. QED
        BY ZenonT(60), SMTT(60), <3>3, <3>5 DEF t
    <2>4. QED
      BY <1>1, <2>2, <2>3
  <1>4. CASE ~ofPlayer /\ ofRecord /\ reply.ok
    <2> DEFINE kept == [x \in DOMAIN s.leave \ {a} |-> s.leave[x]]
    <2>1. OnlyLeave(s, t, kept)
      BY <1>2, <1>4 DEF OnSaveReply, OnlyLeave
    <2>2. /\ DOMAIN kept = DOMAIN s.leave \ {a} /\ kept \in Records
          /\ \A x \in DOMAIN kept : kept[x] = s.leave[x]
      <3>1. kept \in [DOMAIN s.leave \ {a} -> LeaveRecord] /\ DOMAIN s.leave \subseteq Account
        BY <1>2, StoreParts
      <3>2. QED
        BY <3>1, RecordsType
    <2> HIDE DEF kept, t
    <2>3. /\ Sound(t) /\ t.leave = kept /\ t.player = s.player /\ t.pairs = s.pairs
          /\ t.tickEnd = s.tickEnd /\ t.raised = s.raised
      BY <1>2, <2>1, <2>2, LeaveChanges
    <2>4. Held(t, {})
      <3>1. \A x, k : LinkHolds(s, x, k) => LinkHolds(t, x, k)
        BY <2>3 DEF LinkHolds
      <3>2. QED
        BY <1>2, <2>2, <2>3, <3>1 DEF Held
    <2>5. SameList(s, t)
      BY <2>3 DEF SameList
    <2>6. Follows(s, t)
      BY <2>2, <2>3 DEF Follows
    <2>7. QED
      BY <1>2, <2>3, <2>4, <2>5, <2>6, SameListListed DEF Good, t
  <1>5. CASE ~ofPlayer /\ ofRecord /\ ~reply.ok
    <2> DEFINE rec == [s.leave[a] EXCEPT !.inFlight = FALSE]
    <2>1. a \in DOMAIN s.leave /\ s.leave[a] \in LeaveRecord
      BY <1>2, <1>5, StoreParts
    <2>2. rec \in LeaveRecord /\ rec.paired = s.leave[a].paired
      BY <2>1 DEF LeaveRecord
    <2>3. t = [s EXCEPT !.leave = [s.leave EXCEPT ![a] = rec]]
      BY <1>2, <1>5 DEF OnSaveReply, StoreState
    <2> HIDE DEF rec, t
    <2>4. Sound(t) /\ Quiet(s, t)
      BY <1>2, <2>1, <2>2, <2>3, RecordChanges
    <2>5. QED
      BY <2>4, QuietGood, QuietFollows DEF t
  <1>6. CASE ~ofPlayer /\ ~ofRecord
    <2>1. t = s
      BY ZenonT(60), SMTT(60), <1>6 DEF OnSaveReply
    <2>2. QED
      BY ZenonT(60), SMTT(60), <2>1, NothingChanges
  <1>7. QED
    BY <1>1, <1>3, <1>4, <1>5, <1>6

\* The links without one of them.
LEMMA RemoveAtLinks ==
  ASSUME NEW q \in Seq(Link), NEW i \in 1 .. Len(q)
  PROVE  /\ RemoveAt(q, i) \in Seq(Link)
         /\ \A j \in 1 .. Len(q) : j # i =>
               \E h \in 1 .. Len(RemoveAt(q, i)) : RemoveAt(q, i)[h] = q[j]
  <1> DEFINE front == SubSeq(q, 1, i - 1)
             back == SubSeq(q, i + 1, Len(q))
             r == front \o back
  <1>1. Len(q) \in Nat /\ i \in Nat /\ 1 <= i /\ i <= Len(q)
    OBVIOUS
  <1>2. /\ front \in Seq(Link) /\ Len(front) = i - 1
        /\ \A j \in 1 .. i - 1 : front[j] = q[j]
    BY <1>1
  <1>3. /\ back \in Seq(Link) /\ Len(back) = Len(q) - i
        /\ \A j \in 1 .. Len(q) - i : back[j] = q[i + j]
    BY <1>1
  <1> HIDE DEF front, back
  <1>4. /\ r \in Seq(Link) /\ Len(r) = Len(q) - 1
        /\ \A j \in 1 .. i - 1 : r[j] = front[j]
        /\ \A j \in 1 .. Len(q) - i : r[(i - 1) + j] = back[j]
    <2>1. /\ r \in Seq(Link) /\ Len(r) = Len(front) + Len(back)
          /\ \A j \in 1 .. Len(r) : r[j] = IF j <= Len(front) THEN front[j]
                                                            ELSE back[j - Len(front)]
      <3>1. /\ r \in Seq(Link) /\ Len(r) = Len(front) + Len(back)
            /\ \A j \in 1 .. Len(front) + Len(back) :
                  r[j] = IF j <= Len(front) THEN front[j] ELSE back[j - Len(front)]
        BY ZenonT(60), <1>2, <1>3, ConcatProperties
      <3> HIDE DEF r
      <3>2. QED
        BY <3>1
    <2>2. \A j \in 1 .. Len(q) - i : (i - 1) + j \in 1 .. Len(r)
            /\ ((i - 1) + j) - Len(front) = j /\ ~((i - 1) + j <= Len(front))
      BY <1>1, <1>2, <1>3, <2>1
    <2> HIDE DEF r
    <2>3. \A j \in 1 .. i - 1 : j \in 1 .. Len(r) /\ j <= Len(front)
      BY SMTT(60), <1>1, <1>2, <1>3, <2>1
    <2>4. \A j \in 1 .. i - 1 : r[j] = front[j]
      BY <2>1, <2>3
    <2>5. \A j \in 1 .. Len(q) - i : r[(i - 1) + j] = back[j]
      BY <2>1, <2>2
    <2>6. Len(r) = Len(q) - 1
      BY SMTT(60), <1>1, <1>2, <1>3, <2>1
    <2>7. QED
      BY <2>1, <2>4, <2>5, <2>6
  <1>5. RemoveAt(q, i) = r
    BY DEF RemoveAt, front, back
  <1> HIDE DEF r
  <1>6. ASSUME NEW j \in 1 .. Len(q), j # i
        PROVE  \E h \in 1 .. Len(r) : r[h] = q[j]
    <2>1. CASE j < i
      <3>1. j \in 1 .. i - 1 /\ j \in 1 .. Len(r)
        BY <1>1, <1>4, <2>1
      <3>2. QED
        BY <1>2, <1>4, <3>1
    <2>2. CASE j > i
      <3>1. j - i \in 1 .. Len(q) - i /\ (i - 1) + (j - i) = j - 1 /\ i + (j - i) = j
            /\ j - 1 \in 1 .. Len(r)
        BY <1>1, <1>4, <2>2
      <3>2. r[j - 1] = back[j - i] /\ back[j - i] = q[j]
        BY SMTT(60), ZenonT(60), <1>3, <1>4, <3>1
      <3>3. QED
        BY <3>1, <3>2
    <2>3. QED
      BY <1>1, <1>6, <2>1, <2>2
  <1>7. QED
    BY <1>4, <1>5, <1>6

\* The reply to one head of a pair: noted, the pair to be sent again, or its
\* link gone and both sides released.
LEMMA OnPairReplyOK ==
  ASSUME NEW s, Good(s, {}), NEW reply \in SaveReply
  PROVE  Good(OnPairReply(s, reply), {}) /\ Follows(s, OnPairReply(s, reply))
  <1> DEFINE i == FindPair(s, reply.account)
             link == s.pairs[i]
             k == SideOf(link, reply.account)
             noted == [link EXCEPT !.replied[k] = TRUE, !.ok = @ /\ reply.ok]
             expected == /\ LinksOf(s, reply.account) # {}
                         /\ link.inFlight
                         /\ link.no[k] = reply.no
                         /\ ~link.replied[k]
             complete == noted.replied = <<TRUE, TRUE>>
             unlinked == [s EXCEPT !.pairs = RemoveAt(@, i)]
             t == OnPairReply(s, reply)
  <1>1. reply.account \in Account /\ reply.ok \in BOOLEAN
    BY DEF SaveReply
  <1>2. /\ Sound(s) /\ Listed(s) /\ Held(s, {}) /\ s \in StoreState /\ s.pairs \in Seq(Link)
    BY StoreParts DEF Good, Sound
  <1>3. CASE ~expected
    <2>1. t = s
      BY ZenonT(60), SMTT(60), <1>3 DEF OnPairReply
    <2>2. QED
      BY <2>1, NothingChanges
  <1>4. ASSUME expected
        PROVE  /\ i \in 1 .. Len(s.pairs) /\ link \in Link /\ k \in 1 .. 2
               /\ noted \in Link /\ noted.account = link.account
               /\ noted.session = link.session
    <2>1. i \in 1 .. Len(s.pairs) /\ link \in Link /\ k \in 1 .. 2
      BY <1>1, <1>2, <1>4, FindPairOK
    <2> HIDE DEF i, k
    <2>2. [link.replied EXCEPT ![k] = TRUE] \in [1 .. 2 -> BOOLEAN]
          /\ (link.ok /\ reply.ok) \in BOOLEAN
      BY <2>1, LinkParts
    <2>3. noted = [link EXCEPT !.replied = [link.replied EXCEPT ![k] = TRUE],
                               !.ok = (link.ok /\ reply.ok)]
      BY <2>1 DEF Link
    <2>4. QED
      BY <2>1, <2>2, <2>3 DEF Link
  <1>5. CASE expected /\ ~complete
    <2>1. t = [s EXCEPT !.pairs = [s.pairs EXCEPT ![i] = noted]]
      BY ZenonT(60), SMTT(60), <1>2, <1>5 DEF OnPairReply, StoreState
    <2> HIDE DEF noted, t, i
    <2>2. Sound(t) /\ Quiet(s, t)
      BY <1>2, <1>4, <1>5, <2>1, LinkChanges
    <2>3. QED
      BY ZenonT(60), SMTT(60), <2>2, QuietGood, QuietFollows DEF t
  <1>6. CASE expected /\ complete /\ ~noted.ok
    <2> DEFINE again == [noted EXCEPT !.inFlight = FALSE]
    <2>1. t = [s EXCEPT !.pairs = [s.pairs EXCEPT ![i] = again]]
      BY ZenonT(60), SMTT(60), <1>2, <1>6 DEF OnPairReply, StoreState
    <2> HIDE DEF noted, t, i
    <2>2. /\ again \in Link /\ again.account = link.account
          /\ again.session = link.session
      BY <1>4, <1>6 DEF Link
    <2> HIDE DEF again
    <2>3. Sound(t) /\ Quiet(s, t)
      BY SMTT(60), ZenonT(60), <1>2, <1>4, <1>6, <2>1, <2>2, LinkChanges
    <2>4. QED
      BY <2>3, QuietGood, QuietFollows DEF t
  <1>7. CASE expected /\ complete /\ noted.ok
    <2> DEFINE links == RemoveAt(s.pairs, i)
               a == link.account[1]
               m == link.session[1]
               b == link.account[2]
               n == link.session[2]
               one == ReleasePairSide(unlinked, a, m)
               two == ReleasePairSide(one, b, n)
               but == {<<a, m>>, <<b, n>>}
    <2>1. t = two
      BY ZenonT(60), SMTT(60), <1>7 DEF OnPairReply
    <2>2. i \in 1 .. Len(s.pairs) /\ link \in Link
      BY ZenonT(60), SMTT(60), <1>4, <1>7
    <2>3. OnlyPairs(s, unlinked, links)
      BY DEF OnlyPairs
    <2> HIDE DEF noted, t, i, k
    <2>4. a \in Account /\ b \in Account /\ m \in Nat /\ n \in Nat
      BY <2>2, LinkParts
    <2>5. /\ links \in Seq(Link)
          /\ \A j \in 1 .. Len(s.pairs) : j # i =>
                \E h \in 1 .. Len(links) : links[h] = s.pairs[j]
      BY <1>2, <2>2, RemoveAtLinks
    <2> HIDE DEF links, unlinked
    <2>6. /\ Sound(unlinked) /\ unlinked.pairs = links
          /\ unlinked.player = s.player /\ unlinked.leave = s.leave
          /\ unlinked.tickEnd = s.tickEnd /\ unlinked.raised = s.raised
      BY <1>2, <2>3, <2>5, PairsChange
    <2>7. \A x, v : LinkHolds(s, x, v) => LinkHolds(unlinked, x, v) \/ <<x, v>> \in but
      <3> SUFFICES ASSUME NEW x, NEW v, LinkHolds(s, x, v), ~LinkHolds(unlinked, x, v)
                   PROVE  <<x, v>> \in but
        OBVIOUS
      <3>1. PICK j \in 1 .. Len(s.pairs), h \in 1 .. 2 :
                s.pairs[j].account[h] = x /\ s.pairs[j].session[h] = v
        BY DEF LinkHolds
      <3>2. j = i
        <4>1. SUFFICES ASSUME j # i PROVE FALSE
          OBVIOUS
        <4>2. PICK g \in 1 .. Len(links) : links[g] = s.pairs[j]
          BY <2>5, <4>1
        <4>3. QED
          BY <2>6, <3>1, <4>2 DEF LinkHolds
      <3>3. h = 1 \/ h = 2
        OBVIOUS
      <3>4. QED
        BY <3>1, <3>2, <3>3
    <2>8. Held(unlinked, but)
      BY <1>2, <2>6, <2>7 DEF Held
    <2>9. SameList(s, unlinked) /\ Follows(s, unlinked)
      BY SMTT(60), ZenonT(60), <2>6 DEF SameList, Follows
    <2>10. Good(unlinked, but)
      BY <1>2, <2>6, <2>8, <2>9, SameListListed DEF Good
    <2> HIDE DEF a, b, m, n
    <2>11. Good(one, but \ {<<a, m>>}) /\ Follows(unlinked, one)
      BY <2>4, <2>10, ReleasePairSideOK
    <2> HIDE DEF one
    <2>12. Good(two, (but \ {<<a, m>>}) \ {<<b, n>>}) /\ Follows(one, two)
      BY <2>4, <2>11, ReleasePairSideOK
    <2>13. (but \ {<<a, m>>}) \ {<<b, n>>} = {}
      OBVIOUS
    <2> HIDE DEF two
    <2>14. Good(two, {})
      BY <2>12, <2>13
    <2>15. Follows(s, two)
      BY <2>9, <2>11, <2>12, FollowsTwice
    <2>16. QED
      BY ZenonT(60), SMTT(60), <2>1, <2>14, <2>15 DEF t
  <1>8. QED
    BY ZenonT(60), SMTT(60), <1>3, <1>5, <1>6, <1>7

LEMMA OnReplyOK ==
  ASSUME NEW s, Good(s, {}), NEW reply \in SaveReply
  PROVE  Good(OnReply(s, reply), {}) /\ Follows(s, OnReply(s, reply))
  <1> DEFINE u == OnSaveReply(s, reply)
  <1>1. Good(u, {}) /\ Follows(s, u)
    BY OnSaveReplyOK
  <1> HIDE DEF u
  <1>2. Good(OnPairReply(u, reply), {}) /\ Follows(u, OnPairReply(u, reply))
    BY <1>1, OnPairReplyOK
  <1>3. QED
    BY <1>1, <1>2, FollowsTwice DEF OnReply, u

\* What the replies leave, one after the other.
Kept(s) == {t \in StoreState : Good(t, {}) /\ Follows(s, t)}

LEMMA KeptByReplies ==
  ASSUME NEW s, Good(s, {}), NEW reply \in SaveReply, NEW t \in Kept(s)
  PROVE  OnReply(t, reply) \in Kept(s) /\ OnSaveReply(t, reply) \in Kept(s)
  <1>1. Good(t, {}) /\ Follows(s, t)
    BY DEF Kept
  <1>2. Good(OnReply(t, reply), {}) /\ Follows(t, OnReply(t, reply))
    BY <1>1, OnReplyOK
  <1>3. Good(OnSaveReply(t, reply), {}) /\ Follows(t, OnSaveReply(t, reply))
    BY <1>1, OnSaveReplyOK
  <1>4. QED
    BY <1>1, <1>2, <1>3, FollowsTwice DEF Kept, Good, Sound

\* Handling all the replies of a tick.
LEMMA RepliesOK ==
  ASSUME NEW s, Good(s, {}), NEW replies \in Seq(SaveReply)
  PROVE  FoldLeft(OnReply, s, replies) \in Kept(s)
  <1> DEFINE S == DOMAIN replies
             Chain(g) == g = [T \in SUBSET S |->
                                IF T = {} THEN s
                                ELSE OnReply(g[T \ {Max(T)}], replies[Max(T)])]
             chain == CHOOSE g : Chain(g)
             take == [r \in SaveReply |-> [t \in Kept(s) |-> OnReply(t, r)]]
  <1>1. s \in Kept(s)
    BY NothingChanges DEF Kept, Good, Sound
  <1>2. \A r \in SaveReply, t \in Kept(s) :
           take[r][t] = OnReply(t, r) /\ OnReply(t, r) \in Kept(s)
    BY KeptByReplies
  <1>3. \A T \in SUBSET S : T # {} => /\ replies[Max(T)] \in SaveReply
                                      /\ T \ {Max(T)} \in SUBSET S
    <2>1. S = 1 .. Len(replies) /\ Len(replies) \in Nat
      OBVIOUS
    <2>2. \A T \in SUBSET S : T # {} => Max(T) \in T
      BY <2>1, MaxOfPlaces
    <2>3. \A i \in S : replies[i] \in SaveReply
      OBVIOUS
    <2>4. QED
      BY <2>2, <2>3
  <1>4. PICK g : /\ IsSequenceFold(g, replies, s, take)
                 /\ \A T \in SUBSET S : g[T] \in Kept(s)
    <2> HIDE DEF take
    <2>1. \A r \in SaveReply : \A t \in Kept(s) : take[r][t] \in Kept(s)
      BY <1>2
    <2>2. QED
      BY <1>1, <2>1, SequenceFoldExists
  <1>5. Chain(g)
    <2> HIDE DEF take, S
    <2>1. \A T \in SUBSET S : T # {} => take[replies[Max(T)]][g[T \ {Max(T)}]]
                                        = OnReply(g[T \ {Max(T)}], replies[Max(T)])
      BY <1>2, <1>3, <1>4
    <2>2. QED
      BY ZenonT(60), SMTT(60), <1>4, <2>1 DEF IsSequenceFold, S
  <1>6. Chain(chain)
    BY <1>5
  <1>7. chain[S] \in Kept(s)
    <2> HIDE DEF chain, take
    <2>1. chain[{}] = s
      BY <1>6, {} \in SUBSET S
    <2>2. ASSUME NEW T \in SUBSET S, T # {}, chain[T \ {Max(T)}] \in Kept(s)
          PROVE  chain[T] \in Kept(s)
      <3>1. chain[T] = OnReply(chain[T \ {Max(T)}], replies[Max(T)])
        BY <1>6, <2>2
      <3>2. QED
        BY <1>2, <1>3, <2>2, <3>1
    <2>3. QED
      BY <1>1, <2>1, <2>2, SequenceFoldInvariant
  <1>8. FoldLeft(OnReply, s, replies) = chain[S]
    BY DEF FoldLeft, MapThenFoldSet
  <1>9. QED
    BY <1>7, <1>8

\* Handling the replies that are left when the server stops.
LEMMA LastRepliesOK ==
  ASSUME NEW s, Good(s, {}), NEW replies \in Seq(SaveReply)
  PROVE  FoldLeft(OnSaveReply, s, replies) \in Kept(s)
  <1> DEFINE S == DOMAIN replies
             Chain(g) == g = [T \in SUBSET S |->
                                IF T = {} THEN s
                                ELSE OnSaveReply(g[T \ {Max(T)}], replies[Max(T)])]
             chain == CHOOSE g : Chain(g)
             take == [r \in SaveReply |-> [t \in Kept(s) |-> OnSaveReply(t, r)]]
  <1>1. s \in Kept(s)
    BY NothingChanges DEF Kept, Good, Sound
  <1>2. \A r \in SaveReply, t \in Kept(s) :
           take[r][t] = OnSaveReply(t, r) /\ OnSaveReply(t, r) \in Kept(s)
    BY KeptByReplies
  <1>3. \A T \in SUBSET S : T # {} => /\ replies[Max(T)] \in SaveReply
                                      /\ T \ {Max(T)} \in SUBSET S
    <2>1. S = 1 .. Len(replies) /\ Len(replies) \in Nat
      OBVIOUS
    <2>2. \A T \in SUBSET S : T # {} => Max(T) \in T
      BY <2>1, MaxOfPlaces
    <2>3. \A i \in S : replies[i] \in SaveReply
      OBVIOUS
    <2>4. QED
      BY <2>2, <2>3
  <1>4. PICK g : /\ IsSequenceFold(g, replies, s, take)
                 /\ \A T \in SUBSET S : g[T] \in Kept(s)
    <2> HIDE DEF take
    <2>1. \A r \in SaveReply : \A t \in Kept(s) : take[r][t] \in Kept(s)
      BY <1>2
    <2>2. QED
      BY <1>1, <2>1, SequenceFoldExists
  <1>5. Chain(g)
    <2> HIDE DEF take, S
    <2>1. \A T \in SUBSET S : T # {} => take[replies[Max(T)]][g[T \ {Max(T)}]]
                                        = OnSaveReply(g[T \ {Max(T)}], replies[Max(T)])
      BY <1>2, <1>3, <1>4
    <2>2. QED
      BY ZenonT(60), SMTT(60), <1>4, <2>1 DEF IsSequenceFold, S
  <1>6. Chain(chain)
    BY <1>5
  <1>7. chain[S] \in Kept(s)
    <2> HIDE DEF chain, take
    <2>1. chain[{}] = s
      BY <1>6, {} \in SUBSET S
    <2>2. ASSUME NEW T \in SUBSET S, T # {}, chain[T \ {Max(T)}] \in Kept(s)
          PROVE  chain[T] \in Kept(s)
      <3>1. chain[T] = OnSaveReply(chain[T \ {Max(T)}], replies[Max(T)])
        BY <1>6, <2>2
      <3>2. QED
        BY <1>2, <1>3, <2>2, <3>1
    <2>3. QED
      BY <1>1, <2>1, <2>2, SequenceFoldInvariant
  <1>8. FoldLeft(OnSaveReply, s, replies) = chain[S]
    BY DEF FoldLeft, MapThenFoldSet
  <1>9. QED
    BY <1>7, <1>8

-----------------------------------------------------------------------------
(* The periodic save. *)

\* Bundles of their own at the end of a well-paired queue.
LEMMA AppendBundles ==
  ASSUME NEW q \in Seq(Job), PairAdjacentIn(q), NEW r \in Seq(Bundle),
         \A i \in 1 .. Len(r) : r[i].pairNext = 0
  PROVE  q \o r \in Seq(Job) /\ PairAdjacentIn(q \o r)
  <1> DEFINE all == q \o r
             n == Len(q)
  <1>1. r \in Seq(Job) /\ n \in Nat
    BY DEF Job
  <1>2. /\ all \in Seq(Job) /\ Len(all) = n + Len(r)
        /\ \A i \in 1 .. n + Len(r) : all[i] = IF i <= n THEN q[i] ELSE r[i - n]
    BY <1>1, ConcatProperties, Zenon
  <1> HIDE DEF all
  <1>3. /\ \A i \in 1 .. n : all[i] = q[i]
        /\ \A i \in 1 .. Len(all) : i \notin 1 .. n => all[i].pairNext = 0
    <2>1. \A i \in 1 .. Len(all) : i \notin 1 .. n => i - n \in 1 .. Len(r) /\ all[i] = r[i - n]
      BY <1>1, <1>2
    <2>2. \A i \in 1 .. n : all[i] = q[i]
      BY <1>1, <1>2
    <2>3. QED
      BY <2>1, <2>2
  <1>4. ASSUME NEW i \in 1 .. Len(all), all[i].kind = "SAVE", all[i].pairNext = 1
        PROVE  /\ i < Len(all) /\ all[i + 1].kind = "SAVE" /\ all[i + 1].pairNext = 0
               /\ all[i + 1].account # all[i].account
    <2>1. i \in 1 .. n
      BY <1>3, <1>4
    <2>2. q[i].kind = "SAVE" /\ q[i].pairNext = 1
      BY <1>3, <1>4, <2>1
    <2>3. /\ i < n /\ q[i + 1].kind = "SAVE" /\ q[i + 1].pairNext = 0
          /\ q[i + 1].account # q[i].account
      BY <2>1, <2>2 DEF PairAdjacentIn
    <2>4. i + 1 \in 1 .. n /\ i < Len(all)
      BY <1>1, <1>2, <2>1, <2>3
    <2>5. all[i + 1] = q[i + 1] /\ all[i] = q[i]
      BY <1>3, <2>1, <2>4
    <2>6. QED
      BY <2>3, <2>4, <2>5
  <1>5. PairAdjacentIn(all)
    BY <1>4 DEF PairAdjacentIn
  <1>6. QED
    BY <1>2, <1>5 DEF all

\* Who has something to save and no bundle on its way.
Idle(s, w) == {a \in Account : /\ SlotIndex(a) = w
                               /\ s.player[a].session # 0
                               /\ ShouldSave(s.player[a])
                               /\ ~s.player[a].paired
                               /\ s.player[a].bundleNo = 0}

LEMMA BatchListsType ==
  ASSUME NEW s, Sound(s), NEW list \in BatchLists(s), NEW w \in Worker
  PROVE  /\ list[w] \in Seq(Account)
         /\ \A a \in Range(list[w]) : a \in Account /\ s.player[a].bundleNo = 0
  <1> DEFINE room == QueueMax - s.slot[w].bundleCount
             n == Smaller(Cardinality(Idle(s, w)), room)
  <1>1. list[w] \in Lists(Idle(s, w), n)
    BY DEF BatchLists, Idle
  <1>2. list[w] \in [1 .. n -> Idle(s, w)]
    BY <1>1 DEF Lists
  <1>3. n \in Int
    <2>1. s.slot[w] \in SlotState
      BY StoreParts DEF Sound
    <2>2. room \in Int
      BY <2>1, DBWorkerAssumption DEF SlotState
    <2>3. Cardinality(Idle(s, w)) \in Nat
      <3>1. Idle(s, w) \subseteq Account
        BY DEF Idle
      <3>2. QED
        BY <3>1, StoreAssumption, FS_Subset, FS_CardinalityType
    <2>4. QED
      BY <2>2, <2>3 DEF Smaller
  <1> HIDE DEF n
  <1>4. list[w] \in Seq(Idle(s, w)) /\ Range(list[w]) \subseteq Idle(s, w)
    <2>1. CASE n \in Nat
      BY <1>2, <2>1 DEF Range
    <2>2. CASE n \notin Nat
      <3>1. 1 .. n = {} /\ 1 .. 0 = {}
        BY <1>3, <2>2
      <3>2. list[w] \in [1 .. 0 -> Idle(s, w)] /\ DOMAIN list[w] = {}
        BY <1>2, <3>1
      <3>3. list[w] \in Seq(Idle(s, w))
        BY <3>2
      <3>4. Range(list[w]) \subseteq Idle(s, w)
        BY <3>2 DEF Range
      <3>5. QED
        BY <3>3, <3>4
    <2>3. QED
      BY <2>1, <2>2
  <1>5. QED
    BY <1>4 DEF Idle

LEMMA PeriodBatchOK ==
  ASSUME NEW s, Sound(s), NEW list \in BatchLists(s)
  PROVE  Sound(PeriodBatch(s, list)) /\ Quiet(s, PeriodBatch(s, list))
  <1> DEFINE ready == {a \in Account : /\ s.player[a].session # 0
                                       /\ ShouldSave(s.player[a])
                                       /\ ~s.player[a].paired}
             sent == UNION {Range(list[w]) : w \in Worker}
             again(p) == [p EXCEPT !.again = TRUE]
             gone(p) == CommitBundle(PrepareBundle(p), p.nextNo)
             back(p) == AbortBundle(PrepareBundle(p))
             players == [a \in Account |->
                           CASE a \in ready /\ s.player[a].bundleNo # 0 -> again(s.player[a])
                             [] a \in sent -> gone(s.player[a])
                             [] a \in ready \ sent /\ s.player[a].bundleNo = 0 ->
                                  back(s.player[a])
                             [] OTHER -> s.player[a]]
             heads(w) == [i \in 1 .. Len(list[w]) |-> BundleOf(list[w][i], s.player[list[w][i]])]
             queues == [w \in Worker |->
                          [queue |-> s.slot[w].queue \o heads(w),
                           loadCount |-> s.slot[w].loadCount,
                           bundleCount |-> s.slot[w].bundleCount + Len(list[w])]]
             n == s.inflight + Cardinality(sent)
             t == PeriodBatch(s, list)
  <1>1. /\ s \in StoreState /\ s.player \in [Account -> PlayerState]
        /\ \A a \in Account : s.player[a] \in PlayerState
        /\ s.slot \in [Worker -> SlotState] /\ s.inflight \in Int /\ QueuesOK(s.slot)
        /\ s.inflight >= Cardinality(Flying(s))
    BY StoreParts DEF Sound
  <1>2. \A w \in Worker : /\ list[w] \in Seq(Account)
                          /\ \A a \in Range(list[w]) : a \in Account /\ s.player[a].bundleNo = 0
    BY BatchListsType
  <1>3. sent \subseteq Account /\ \A a \in sent : s.player[a].bundleNo = 0
    BY <1>2
  <1>4. t = [s EXCEPT !.player = players, !.slot = queues, !.inflight = n]
    BY <1>1 DEF PeriodBatch, StoreState
  <1> HIDE DEF sent, t
  <1>5. ASSUME NEW p \in PlayerState
        PROVE  /\ again(p) \in PlayerState /\ SameFace(p, again(p))
               /\ again(p).bundleNo = p.bundleNo
               /\ gone(p) \in PlayerState /\ SameFace(p, gone(p))
               /\ back(p) \in PlayerState /\ SameFace(p, back(p))
               /\ back(p).bundleNo = p.bundleNo
    <2>1. /\ again(p) \in PlayerState /\ SameFace(p, again(p))
          /\ again(p).bundleNo = p.bundleNo
      BY DEF PlayerState, SameFace
    <2>2. p.nextNo \in 0 .. SeqMax
      BY DEF PlayerState
    <2>3. /\ PrepareBundle(p) \in PlayerState /\ SameFace(p, PrepareBundle(p))
          /\ PrepareBundle(p).bundleNo = p.bundleNo
      BY PrepareBundleType
    <2>4. gone(p) \in PlayerState /\ SameFace(p, gone(p))
      BY <2>2, <2>3, CommitBundleType DEF SameFace
    <2>5. back(p) \in PlayerState /\ SameFace(p, back(p)) /\ back(p).bundleNo = p.bundleNo
      BY <2>3, AbortBundleType DEF SameFace
    <2>6. QED
      BY <2>1, <2>4, <2>5
  <1> HIDE DEF again, gone, back
  <1>6. \A a \in Account :
           /\ players[a] \in PlayerState /\ SameFace(s.player[a], players[a])
           /\ a \notin sent => players[a].bundleNo = s.player[a].bundleNo
    <2> SUFFICES ASSUME NEW a \in Account
                 PROVE  /\ players[a] \in PlayerState /\ SameFace(s.player[a], players[a])
                        /\ a \notin sent => players[a].bundleNo = s.player[a].bundleNo
      BY ZenonT(60), SMTT(60)
    <2> DEFINE p == s.player[a]
    <2>0. p \in PlayerState
      BY ZenonT(60), SMTT(60), <1>1
    <2>1. CASE a \in ready /\ p.bundleNo # 0
      <3>1. a \notin sent
        BY <1>3, <2>1
      <3>2. players[a] = again(p)
        BY SMTT(60), ZenonT(60), <2>1, <3>1
      <3>3. QED
        BY ZenonT(60), SMTT(60), <1>5, <2>0, <3>2
    <2>2. CASE a \in sent
      <3>1. p.bundleNo = 0
        BY <1>3, <2>2
      <3>2. players[a] = gone(p)
        BY ZenonT(60), SMTT(60), <2>2, <3>1
      <3>3. QED
        BY ZenonT(60), SMTT(60), <1>5, <2>0, <2>2, <3>2
    <2>3. CASE a \in ready \ sent /\ p.bundleNo = 0
      <3>1. players[a] = back(p)
        BY ZenonT(60), SMTT(60), <2>3
      <3>2. QED
        BY ZenonT(60), SMTT(60), <1>5, <2>0, <3>1
    <2>4. CASE a \notin ready /\ a \notin sent
      <3>1. players[a] = p
        BY SMTT(60), ZenonT(60), <2>4
      <3>2. QED
        BY ZenonT(60), SMTT(60), <2>0, <3>1 DEF SameFace
    <2>5. QED
      BY ZenonT(60), SMTT(60), <2>1, <2>2, <2>3, <2>4
  <1>7. players \in [Account -> PlayerState]
    BY ZenonT(60), SMTT(60), <1>6
  <1> HIDE DEF players, ready
  <1>8. QueuesOK(queues)
    <2> SUFFICES ASSUME NEW w \in Worker
                 PROVE  queues[w] \in SlotState /\ PairAdjacentIn(queues[w].queue)
      BY ZenonT(60), SMTT(60) DEF QueuesOK
    <2>1. /\ s.slot[w].queue \in Seq(Job) /\ s.slot[w].loadCount \in Nat
          /\ s.slot[w].bundleCount \in Nat /\ PairAdjacentIn(s.slot[w].queue)
      BY <1>1 DEF QueuesOK, SlotState
    <2>2. list[w] \in Seq(Account) /\ Len(list[w]) \in Nat
      BY <1>2
    <2>3. \A i \in 1 .. Len(list[w]) : /\ BundleOf(list[w][i], s.player[list[w][i]]) \in Bundle
                                       /\ BundleOf(list[w][i], s.player[list[w][i]]).pairNext = 0
      <3>1. \A i \in 1 .. Len(list[w]) : list[w][i] \in Account
        BY <2>2
      <3>2. QED
        BY <1>1, <3>1, BundleOfType
    <2>4. /\ heads(w) \in Seq(Bundle) /\ Len(heads(w)) = Len(list[w])
          /\ \A i \in 1 .. Len(heads(w)) : heads(w)[i].pairNext = 0
      BY <2>2, <2>3
    <2> HIDE DEF heads
    <2>5. s.slot[w].queue \o heads(w) \in Seq(Job) /\ PairAdjacentIn(s.slot[w].queue \o heads(w))
      BY <2>1, <2>4, AppendBundles
    <2>6. queues[w] = [queue |-> s.slot[w].queue \o heads(w),
                       loadCount |-> s.slot[w].loadCount,
                       bundleCount |-> s.slot[w].bundleCount + Len(list[w])]
      BY DEF heads
    <2> DEFINE all == s.slot[w].queue \o heads(w)
               more == s.slot[w].bundleCount + Len(list[w])
    <2>7. all \in Seq(Job) /\ PairAdjacentIn(all) /\ more \in Nat
      BY SMTT(60), <2>1, <2>2, <2>5
    <2> HIDE DEF queues, all, more
    <2>8. queues[w] = [queue |-> all, loadCount |-> s.slot[w].loadCount,
                       bundleCount |-> more]
      BY <2>6 DEF all, more
    <2>9. QED
      BY SMTT(60), <2>1, <2>7, <2>8 DEF SlotState
  <1> HIDE DEF queues
  <1>9. IsFiniteSet(sent) /\ Cardinality(sent) \in Nat
    BY <1>3, StoreAssumption, FS_Subset, FS_CardinalityType
  <1>10. /\ t \in StoreState
         /\ t.player = players /\ t.leave = s.leave /\ t.pairs = s.pairs
         /\ t.tickEnd = s.tickEnd /\ t.inflight = n /\ t.slot = queues
         /\ t.raised = s.raised
    <2>1. n \in Int /\ queues \in [Worker -> SlotState]
      BY <1>1, <1>8, <1>9 DEF QueuesOK
    <2> HIDE DEF n
    <2>2. QED
      BY <1>1, <1>4, <1>7, <2>1 DEF StoreState
  <1>11. n >= Cardinality(Flying(t))
    <2>1. Flying(t) \subseteq Flying(s) \cup sent
      BY <1>6, <1>10 DEF Flying
    <2>2. /\ IsFiniteSet(Flying(s)) /\ Cardinality(Flying(s)) \in Nat
          /\ IsFiniteSet(Flying(t)) /\ Cardinality(Flying(t)) \in Nat
      BY FlyingFinite
    <2>3. /\ IsFiniteSet(Flying(s) \cup sent)
          /\ Cardinality(Flying(s) \cup sent)
               = Cardinality(Flying(s)) + Cardinality(sent) - Cardinality(Flying(s) \cap sent)
      BY <1>9, <2>2, FS_Union
    <2>4. Cardinality(Flying(s) \cap sent) \in Nat
      BY <1>9, FS_Intersection, FS_CardinalityType
    <2>5. Cardinality(Flying(t)) <= Cardinality(Flying(s) \cup sent)
      BY <2>1, <2>3, FS_Subset
    <2>6. QED
      BY <1>1, <1>9, <2>2, <2>3, <2>4, <2>5
  <1>12. Sound(t)
    BY <1>8, <1>10, <1>11 DEF Sound
  <1>13. Quiet(s, t)
    BY <1>6, <1>10 DEF Quiet
  <1>14. QED
    BY <1>12, <1>13 DEF t

-----------------------------------------------------------------------------
(* An action that ends in a store state.                                   *)

LEMMA Settles ==
  ASSUME StoreInvariant, NEW t, Becomes(t), Good(t, {}), Overwritten \notin t.raised,
         UNCHANGED threadVars,
         results' \in Seq(LoadResult), saveReplies' \in Seq(SaveReply), stop' \in BOOLEAN,
         LoopOK', LoadsApart', Untouched(t, ToCome'), Places'
  PROVE  StoreInvariant'
  <1>1. t \in StoreState /\ QueuesOK(t.slot)
    BY DEF Good, Sound
  <1>2. Store' = t /\ slot' = t.slot /\ raised' = t.raised
    BY <1>1, BecomesStore DEF Becomes
  <1>3. WorkerTypeOK'
    BY <1>1, <1>2 DEF StoreInvariant, WorkerTypeOK, QueuesOK, threadVars
  <1>4. Paired'
    BY <1>1, <1>2 DEF StoreInvariant, Paired, QueuesOK, threadVars
  <1>5. Good(Store', {}) /\ Untouched(Store', ToCome')
    BY <1>2
  <1>6. NoRecordOverwritten'
    BY ZenonT(60), <1>2 DEF NoRecordOverwritten, Overwritten
  <1>7. QED
    BY <1>3, <1>4, <1>5, <1>6 DEF StoreInvariant

\* The store state of the invariant, and its parts.
LEMMA StoreNow ==
  ASSUME StoreInvariant
  PROVE  /\ Good(Store, {}) /\ Sound(Store) /\ Store \in StoreState
         /\ Store.player = player /\ Store.leave = leave /\ Store.pairs = pairs
         /\ Store.tickEnd = tickEnd /\ Store.slot = slot /\ Store.raised = raised
         /\ Overwritten \notin Store.raised
         /\ \A a \in Account : player[a] \in PlayerState
         /\ DOMAIN leave \subseteq Account
         /\ pc \notin Ending => \A a \in DOMAIN leave : ~InGame(a)
         /\ results \in Seq(LoadResult) /\ saveReplies \in Seq(SaveReply) /\ stop \in BOOLEAN
         /\ LoopOK /\ LoadsApart /\ Untouched(Store, ToCome)
  <1>1. Good(Store, {}) /\ Sound(Store) /\ Store \in StoreState
    BY DEF StoreInvariant, Good, Sound
  <1>2. /\ Store.player = player /\ Store.leave = leave /\ Store.pairs = pairs
        /\ Store.tickEnd = tickEnd /\ Store.slot = slot /\ Store.raised = raised
    BY DEF Store
  <1>3. QED
    BY ZenonT(60), <1>1, <1>2, StoreParts
       DEF StoreInvariant, Places, WorkerTypeOK, NoRecordOverwritten, Overwritten

\* The same when nobody enters or leaves.
LEMMA SettlesFollowing ==
  ASSUME StoreInvariant, NEW t, Becomes(t), Good(t, {}), Follows(Store, t),
         UNCHANGED <<threadVars, loading, nextSession>>,
         results' \in Seq(LoadResult), saveReplies' \in Seq(SaveReply), stop' \in BOOLEAN,
         frame' \in 0 .. PeriodFrames, inbox' \in Seq(LoadResult), lost' \subseteq Account,
         Places'
  PROVE  StoreInvariant'
  <1>1. LoopOK' /\ LoadsApart' /\ ToCome' = ToCome
    BY DEF StoreInvariant, LoopOK, LoadsApart, ToCome
  <1>2. Untouched(t, ToCome')
    BY <1>1, StoreNow, FollowsUntouched
  <1>3. Overwritten \notin t.raised
    BY StoreNow DEF Follows
  <1>4. QED
    BY <1>1, <1>2, <1>3, Settles

\* Characters and leave records stay apart when nobody enters or leaves.
LEMMA ApartFollowing ==
  ASSUME StoreInvariant, NEW t, t \in StoreState, Becomes(t), Follows(Store, t),
         pc \notin Ending
  PROVE  \A a \in DOMAIN leave' : ~InGame(a)'
  <1>1. /\ DOMAIN leave' \subseteq DOMAIN leave
        /\ \A a \in Account : player'[a].session = player[a].session
    BY StoreNow DEF Follows, Becomes
  <1>2. QED
    BY <1>1, StoreNow DEF InGame

-----------------------------------------------------------------------------
(* Characters that change in the game. *)

\* The steps of players that leave the loop where it is.
LEMMA SettlesPlaying ==
  ASSUME StoreInvariant, NEW t, Becomes(t), Good(t, {}), Follows(Store, t),
         pc \in {"events", "world"}, UNCHANGED <<pc, frame, inbox, todo, loading, nextSession, lost>>,
         UNCHANGED <<threadVars, boxVars>>
  PROVE  StoreInvariant'
  <1>1. \A a \in DOMAIN leave' : ~InGame(a)'
    BY ZenonT(60), ApartFollowing DEF Good, Sound, Ending
  <1>2. Places'
    BY ZenonT(60), <1>1 DEF Places
  <1>3. QED
    BY <1>2, StoreNow, SettlesFollowing DEF boxVars, LoopOK

LEMMA MoveOK ==
  ASSUME StoreInvariant, NEW a \in Account, Move(a)
  PROVE  StoreInvariant'
  <1> DEFINE p == [player[a] EXCEPT !.row.pos = @ + 1, !.dbDirty = TRUE]
             t == [Store EXCEPT !.player[a].row.pos = @ + 1, !.player[a].dbDirty = TRUE]
  <1>1. Good(Store, {}) /\ Sound(Store) /\ Store \in StoreState /\ Store.player = player
    BY StoreNow
  <1>2. player[a] \in PlayerState /\ player \in [Account -> PlayerState]
    BY <1>1, StoreParts
  <1>3. p \in PlayerState /\ p.bundleNo = player[a].bundleNo /\ SameFace(player[a], p)
    <2>1. [player[a].row EXCEPT !.pos = @ + 1] \in Row
      BY <1>2 DEF PlayerState, Row
    <2>2. p = [player[a] EXCEPT !.row = [player[a].row EXCEPT !.pos = @ + 1],
                                !.dbDirty = TRUE]
      BY <1>2 DEF PlayerState, Row
    <2>3. QED
      BY <1>2, <2>1, <2>2 DEF PlayerState, SameFace
  <1>4. OnlyPlayer(Store, t, a, p)
    BY ZenonT(120), <1>1, <1>2 DEF OnlyPlayer, StoreState, PlayerState, Row
  <1>5. Becomes(t) /\ pc \in {"events", "world"} /\ Keeps
    BY DEF Move, Playing
  <1> HIDE DEF p, t
  <1>6. Sound(t) /\ Quiet(Store, t)
    BY ZenonT(120), <1>1, <1>3, <1>4, OneStays
  <1>7. Good(t, {}) /\ Follows(Store, t)
    BY ZenonT(60), SMTT(60), <1>1, <1>6, QuietGood, QuietFollows
  <1>8. QED
    BY <1>5, <1>7, SettlesPlaying DEF Keeps, loopVars, ghosts

LEMMA ChangeValueOK ==
  ASSUME StoreInvariant, NEW a \in Account, ChangeValue(a)
  PROVE  StoreInvariant'
  <1> DEFINE p == [player[a] EXCEPT !.row.val = @ + 1]
             t == [Store EXCEPT !.player[a].row.val = @ + 1]
  <1>1. Good(Store, {}) /\ Sound(Store) /\ Store \in StoreState /\ Store.player = player
    BY StoreNow
  <1>2. player[a] \in PlayerState /\ player \in [Account -> PlayerState]
    BY <1>1, StoreParts
  <1>3. p \in PlayerState /\ p.bundleNo = player[a].bundleNo /\ SameFace(player[a], p)
    BY SMTT(60), <1>2 DEF PlayerState, Row, SameFace
  <1>4. OnlyPlayer(Store, t, a, p)
    BY <1>1, <1>2 DEF OnlyPlayer, StoreState, PlayerState, Row
  <1>5. /\ Becomes(t) \/ Becomes(RequestSave(t, a))
        /\ pc \in {"events", "world"} /\ Keeps /\ player[a].session # 0
    BY DEF ChangeValue, Playing, InGame
  <1> HIDE DEF p, t
  <1>6. Sound(t) /\ Quiet(Store, t)
    BY ZenonT(120), <1>1, <1>3, <1>4, OneStays
  <1>7. Good(t, {}) /\ Follows(Store, t)
    BY ZenonT(60), SMTT(60), <1>1, <1>6, QuietGood, QuietFollows
  <1>8. Good(RequestSave(t, a), {}) /\ Follows(Store, RequestSave(t, a))
    <2>1. Present(t, a)
      BY <1>1, <1>5, <1>7 DEF Follows, Present
    <2>2. Good(RequestSave(t, a), {}) /\ Follows(t, RequestSave(t, a))
      BY <1>7, <2>1, RequestSaveOK
    <2>3. QED
      BY <1>7, <2>2, FollowsTwice
  <1>9. QED
    BY <1>5, <1>7, <1>8, SettlesPlaying DEF Keeps, loopVars, ghosts

LEMMA TouchSlotOK ==
  ASSUME NEW s, Sound(s), NEW a \in Account, NEW i \in Slot
  PROVE  /\ Sound(TouchSlot(s, a, i)) /\ Quiet(s, TouchSlot(s, a, i))
         /\ \A x \in Account : TouchSlot(s, a, i).player[x].bundleNo = s.player[x].bundleNo
  <1> DEFINE p == [s.player[a] EXCEPT !.bag[i] = @ + 1, !.unsaved = @ \cup {i}]
             t == TouchSlot(s, a, i)
  <1>1. s \in StoreState /\ s.player \in [Account -> PlayerState] /\ s.player[a] \in PlayerState
    BY StoreParts DEF Sound
  <1>2. p \in PlayerState /\ p.bundleNo = s.player[a].bundleNo /\ SameFace(s.player[a], p)
    <2>1. [s.player[a].bag EXCEPT ![i] = @ + 1] \in Bag
      BY <1>1 DEF PlayerState, Bag
    <2>2. QED
      BY <1>1, <2>1 DEF PlayerState, SameFace
  <1>3. OnlyPlayer(s, t, a, p)
    BY ZenonT(60), <1>1 DEF TouchSlot, OnlyPlayer, StoreState, PlayerState
  <1> HIDE DEF p, t
  <1>4. Sound(t) /\ Quiet(s, t)
    BY ZenonT(120), <1>2, <1>3, OneStays
  <1>5. t.player = [s.player EXCEPT ![a] = p]
    BY <1>1, <1>3 DEF StoreState, OnlyPlayer
  <1>6. QED
    BY <1>1, <1>2, <1>4, <1>5 DEF t

LEMMA ChangeBagOK ==
  ASSUME StoreInvariant, NEW a \in Account, ChangeBag(a)
  PROVE  StoreInvariant'
  <1>1. Good(Store, {}) /\ Sound(Store) /\ Store.player = player
    BY StoreNow
  <1>2. PICK i \in Slot : Becomes(RequestSave(TouchSlot(Store, a, i), a))
    BY DEF ChangeBag
  <1> DEFINE t == TouchSlot(Store, a, i)
  <1>3. pc \in {"events", "world"} /\ Keeps /\ player[a].session # 0
    BY DEF ChangeBag, InGame
  <1>4. Sound(t) /\ Quiet(Store, t)
    BY <1>1, TouchSlotOK
  <1>5. Becomes(RequestSave(t, a))
    BY <1>2
  <1> HIDE DEF t
  <1>6. Good(t, {}) /\ Follows(Store, t)
    BY <1>1, <1>4, QuietGood, QuietFollows
  <1>7. Good(RequestSave(t, a), {}) /\ Follows(Store, RequestSave(t, a))
    <2>1. Present(t, a)
      BY <1>1, <1>3, <1>6 DEF Follows, Present
    <2>2. Good(RequestSave(t, a), {}) /\ Follows(t, RequestSave(t, a))
      BY <1>6, <2>1, RequestSaveOK
    <2>3. QED
      BY <1>6, <2>2, FollowsTwice
  <1>8. QED
    BY <1>3, <1>5, <1>7, SettlesPlaying DEF Keeps, loopVars, ghosts

-----------------------------------------------------------------------------
(* Trades, logins, disconnections. *)

\* The swap itself: a slot and the value of both sides.
LEMMA SwapOK ==
  ASSUME NEW s, Sound(s), NEW a \in Account, NEW b \in Account, a # b,
         NEW i \in Slot, NEW j \in Slot
  PROVE  LET t == [TouchSlot(TouchSlot(s, a, i), b, j) EXCEPT
                     !.player[a].row.val = @ + 1, !.player[b].row.val = @ + 1]
         IN  Sound(t) /\ Quiet(s, t)
  <1> DEFINE u == TouchSlot(TouchSlot(s, a, i), b, j)
             t == [u EXCEPT !.player[a].row.val = @ + 1, !.player[b].row.val = @ + 1]
             p == [u.player[a] EXCEPT !.row.val = @ + 1]
             q == [u.player[b] EXCEPT !.row.val = @ + 1]
             v == [u EXCEPT !.player = [u.player EXCEPT ![a] = p, ![b] = q]]
  <1>1. Sound(u) /\ Quiet(s, u)
    BY TouchSlotOK, QuietTwice
  <1> HIDE DEF u
  <1>2. /\ u \in StoreState /\ u.player \in [Account -> PlayerState]
        /\ u.player[a] \in PlayerState /\ u.player[b] \in PlayerState
    BY <1>1, StoreParts DEF Sound
  <1>3. p \in PlayerState /\ p.bundleNo = u.player[a].bundleNo /\ SameFace(u.player[a], p)
    <2> DEFINE old == u.player[a]
    <2>1. old \in PlayerState /\ p = [old EXCEPT !.row.val = @ + 1]
      BY <1>2
    <2> HIDE DEF old, p
    <2>2. old.row \in Row /\ old.row.val \in Nat
      BY <2>1 DEF PlayerState, Row
    <2>3. [old.row EXCEPT !.val = @ + 1] \in Row
      BY <2>2 DEF Row
    <2>4. p = [old EXCEPT !.row = [old.row EXCEPT !.val = @ + 1]]
      BY <2>1, <2>2 DEF PlayerState, Row
    <2>5. p \in PlayerState
      BY <2>1, <2>3, <2>4 DEF PlayerState
    <2>6. p.bundleNo = old.bundleNo /\ SameFace(old, p)
      BY <2>1, <2>4 DEF PlayerState, SameFace
    <2>7. QED
      BY <2>5, <2>6 DEF old
  <1>4. q \in PlayerState /\ q.bundleNo = u.player[b].bundleNo /\ SameFace(u.player[b], q)
    <2> DEFINE old == u.player[b]
    <2>1. old \in PlayerState /\ q = [old EXCEPT !.row.val = @ + 1]
      BY <1>2
    <2> HIDE DEF old, q
    <2>2. old.row \in Row /\ old.row.val \in Nat
      BY <2>1 DEF PlayerState, Row
    <2>3. [old.row EXCEPT !.val = @ + 1] \in Row
      BY <2>2 DEF Row
    <2>4. q = [old EXCEPT !.row = [old.row EXCEPT !.val = @ + 1]]
      BY <2>1, <2>2 DEF PlayerState, Row
    <2>5. q \in PlayerState
      BY <2>1, <2>3, <2>4 DEF PlayerState
    <2>6. q.bundleNo = old.bundleNo /\ SameFace(old, q)
      BY <2>1, <2>4 DEF PlayerState, SameFace
    <2>7. QED
      BY <2>5, <2>6 DEF old
  <1>5. t = v
    BY ZenonT(60), <1>2 DEF StoreState, PlayerState, Row
  <1> HIDE DEF t, p, q
  <1>6. /\ Sound(v) /\ v.player[a] = p /\ v.player[b] = q
        /\ \A x \in Account \ {a, b} : v.player[x] = u.player[x]
        /\ v.leave = u.leave /\ v.pairs = u.pairs /\ v.tickEnd = u.tickEnd
        /\ v.raised = u.raised
    <2>1. p \in PlayerState /\ p.bundleNo = u.player[a].bundleNo
      BY <1>3
    <2>2. q \in PlayerState /\ q.bundleNo = u.player[b].bundleNo
      BY <1>4
    <2>3. Sound(v)
      BY <1>1, <2>1, <2>2, TwoStay
    <2>4. QED
      BY <1>2, <2>3 DEF StoreState
  <1> HIDE DEF v
  <1>7. Quiet(u, v)
    BY <1>3, <1>4, <1>6 DEF Quiet, SameFace
  <1>8. QED
    BY ZenonT(60), <1>1, <1>5, <1>6, <1>7, QuietTwice DEF t, u

LEMMA TradeOK ==
  ASSUME StoreInvariant, NEW a \in Account, NEW b \in Account, Trade(a, b)
  PROVE  StoreInvariant'
  <1>1. Good(Store, {}) /\ Sound(Store) /\ Store.player = player
    BY ZenonT(60), SMTT(60), StoreNow
  <1>2. /\ a # b /\ pc \in {"events", "world"}
        /\ player[a].session # 0 /\ player[b].session # 0
        /\ UNCHANGED <<pc, frame, inbox, todo, loading, nextSession, lost>>
        /\ UNCHANGED <<threadVars, boxVars>>
    BY ZenonT(60), SMTT(60) DEF Trade, Playing, InGame
  <1>3. PICK i \in Slot, j \in Slot :
          Becomes(RequestSave(RequestSave(SaveTrade(
            [TouchSlot(TouchSlot(Store, a, i), b, j) EXCEPT
               !.player[a].row.val = @ + 1, !.player[b].row.val = @ + 1], a, b), a), b))
    BY ZenonT(120) DEF Trade
  <1> DEFINE u == [TouchSlot(TouchSlot(Store, a, i), b, j) EXCEPT
                     !.player[a].row.val = @ + 1, !.player[b].row.val = @ + 1]
             v == SaveTrade(u, a, b)
             w == RequestSave(v, a)
             t == RequestSave(w, b)
  <1>4. Sound(u) /\ Quiet(Store, u)
    BY ZenonT(60), <1>1, <1>2, SwapOK
  <1>5. Becomes(t)
    BY ZenonT(60), SMTT(60), <1>3
  <1> HIDE DEF u
  <1>6. Good(u, {}) /\ Follows(Store, u)
    BY <1>1, <1>4, QuietGood, QuietFollows
  <1>7. Good(v, {}) /\ Follows(u, v)
    BY <1>2, <1>6, SaveTradeOK
  <1> HIDE DEF v
  <1>8. Good(v, {}) /\ Follows(Store, v)
    BY <1>6, <1>7, FollowsTwice
  <1>9. Good(w, {}) /\ Follows(v, w)
    <2>1. Present(v, a)
      BY <1>1, <1>2, <1>8 DEF Follows, Present
    <2>2. QED
      BY <1>8, <2>1, RequestSaveOK
  <1> HIDE DEF w
  <1>10. Good(w, {}) /\ Follows(Store, w)
    BY <1>8, <1>9, FollowsTwice
  <1>11. Good(t, {}) /\ Follows(w, t)
    <2>1. Present(w, b)
      BY <1>1, <1>2, <1>10 DEF Follows, Present
    <2>2. QED
      BY <1>10, <2>1, RequestSaveOK
  <1> HIDE DEF t
  <1>12. Good(t, {}) /\ Follows(Store, t)
    BY <1>10, <1>11, FollowsTwice
  <1>13. QED
    BY <1>2, <1>5, <1>12, SettlesPlaying

\* A login leaves the account out of the game, with its session to come.
LEMMA LoginOK ==
  ASSUME StoreInvariant, NEW a \in Account, Login(a)
  PROVE  StoreInvariant'
  <1> DEFINE gone == IF InGame(a) THEN LeaveGame(Store, a) ELSE Store
             sent == IF Waiting(gone, a) THEN SendLeaveRecord(gone, a) ELSE gone
             job == [kind |-> "LOAD", account |-> a, session |-> nextSession]
             fits == LoadFits(sent.slot, a)
             t == IF fits THEN [sent EXCEPT !.slot = EnqueueLoad(sent.slot, job)] ELSE sent
  <1>1. /\ Good(Store, {}) /\ Sound(Store) /\ Store.player = player /\ Store.leave = leave
        /\ Store.tickEnd = tickEnd /\ Overwritten \notin Store.raised
        /\ results \in Seq(LoadResult) /\ saveReplies \in Seq(SaveReply) /\ stop \in BOOLEAN
        /\ LoopOK /\ LoadsApart /\ Untouched(Store, ToCome)
        /\ pc \notin Ending => \A x \in DOMAIN leave : ~InGame(x)
        /\ DOMAIN leave \subseteq Account
    BY ZenonT(60), SMTT(60), StoreNow
  <1>2. /\ pc = "events" /\ nextSession <= MaxSessions /\ nextSession' = nextSession + 1
        /\ loading' = [loading EXCEPT ![a] = IF fits THEN nextSession ELSE 0]
        /\ UNCHANGED <<pc, frame, inbox, lost>>
        /\ UNCHANGED <<threadVars, boxVars>>
    BY DEF Login, ghosts
  <1>3. Becomes(t)
    BY DEF Login
  <1>4. /\ Good(gone, {}) /\ gone.player[a].session = 0
        /\ \A x \in Account \ {a} : gone.player[x].session = player[x].session
        /\ gone.tickEnd = tickEnd
        /\ DOMAIN gone.leave \subseteq DOMAIN leave \cup {a}
        /\ Overwritten \notin gone.raised
    <2>1. CASE InGame(a)
      <3>1. Present(Store, a) /\ a \notin DOMAIN Store.leave
        BY <1>1, <1>2, <2>1 DEF Present, InGame, Ending
      <3>2. /\ Good(LeaveGame(Store, a), {})
            /\ LeaveGame(Store, a).player[a].session = 0
            /\ \A x \in Account \ {a} :
                  LeaveGame(Store, a).player[x].session = Store.player[x].session
            /\ LeaveGame(Store, a).tickEnd = Store.tickEnd
            /\ DOMAIN LeaveGame(Store, a).leave = DOMAIN Store.leave \cup {a}
            /\ Overwritten \in LeaveGame(Store, a).raised => Overwritten \in Store.raised
        BY <1>1, <3>1, LeaveGameOK
      <3>3. QED
        BY <1>1, <2>1, <3>2
    <2>2. CASE ~InGame(a)
      BY <1>1, <2>2 DEF InGame
    <2>3. QED
      BY <2>1, <2>2
  <1> HIDE DEF gone
  <1>5. Good(sent, {}) /\ Quiet(gone, sent)
    <2>1. CASE Waiting(gone, a)
      <3>1. a \in DOMAIN gone.leave /\ Sound(gone)
        BY <1>4, <2>1 DEF Waiting, Good
      <3>2. Sound(SendLeaveRecord(gone, a)) /\ Quiet(gone, SendLeaveRecord(gone, a))
        BY <3>1, SendLeaveRecordOK
      <3>3. QED
        BY <1>4, <2>1, <3>2, QuietGood
    <2>2. CASE ~Waiting(gone, a)
      BY <1>4, <2>2, NothingChanges
    <2>3. QED
      BY <2>1, <2>2
  <1> HIDE DEF sent
  <1>6. nextSession \in Nat \ {0} /\ loading \in [Account -> 0 .. MaxSessions]
    BY <1>1 DEF LoadsApart, LoopOK
  <1>7. Good(t, {}) /\ Quiet(sent, t)
    <2>1. job \in LoadJob
      BY <1>6 DEF LoadJob, Session
    <2>2. Sound(sent) /\ QueuesOK(sent.slot)
      BY <1>5 DEF Good, Sound
    <2> DEFINE queues == EnqueueLoad(sent.slot, job)
               u == [sent EXCEPT !.slot = queues]
    <2>3. QueuesOK(queues)
      BY <2>1, <2>2, EnqueueLoadOK
    <2> HIDE DEF queues
    <2>4. Sound(u) /\ Quiet(sent, u)
      BY <2>2, <2>3, QueuesChange
    <2>5. Good(u, {})
      BY <1>5, <2>4, QuietGood
    <2>6. t = u \/ t = sent
      BY DEF queues
    <2>7. QED
      BY <1>5, <2>4, <2>5, <2>6, NothingChanges
  <1>8. fits \in BOOLEAN
    BY DEF LoadFits
  <1> HIDE DEF t, fits
  <1>9. Quiet(gone, t)
    BY <1>5, <1>7, QuietTwice
  <1>10. /\ t.player[a].session = 0
         /\ \A x \in Account \ {a} : t.player[x].session = player[x].session
         /\ t.tickEnd = tickEnd
         /\ DOMAIN t.leave \subseteq DOMAIN leave \cup {a}
         /\ Overwritten \notin t.raised
    BY <1>4, <1>9 DEF Quiet, SameFace
  <1>11. LoopOK'
    <2>1. loading' \in [Account -> 0 .. MaxSessions]
      BY <1>2, <1>6, <1>8, StoreAssumption
    <2>2. QED
      BY SMTT(60), ZenonT(60), <1>1, <1>2, <2>1 DEF LoopOK
  <1>12. LoadsApart'
    <2>1. \A x \in Account : loading'[x] = IF x = a THEN (IF fits THEN nextSession ELSE 0)
                                                    ELSE loading[x]
      BY <1>2, <1>6
    <2>2. \A x \in Account : loading[x] \in Nat
      BY <1>6, StoreAssumption
    <2>3. QED
      BY <1>1, <1>2, <1>6, <1>8, <2>1, <2>2 DEF LoadsApart
  <1>13. Untouched(t, ToCome')
    <2>1. ToCome' \subseteq ToCome
      <3>1. \A x \in Account : loading'[x] \in {0, nextSession, loading[x]}
        BY <1>2, <1>6, <1>8
      <3>2. QED
        BY <1>2, <1>6, <3>1 DEF ToCome
    <2>2. \A n \in ToCome : n # 0
      BY <1>6 DEF ToCome
    <2>3. QED
      BY SMTT(60), ZenonT(60), <1>1, <1>10, <2>1, <2>2 DEF Untouched
  <1>14. Places'
    <2>1. \A x \in DOMAIN leave' : player'[x].session = 0
      BY <1>1, <1>2, <1>3, <1>10 DEF Becomes, InGame, Ending, LoopOK
    <2>2. QED
      BY <1>2, <2>1 DEF Places, InGame
  <1>15. QED
    BY <1>1, <1>2, <1>3, <1>7, <1>10, <1>11, <1>12, <1>13, <1>14, Settles DEF boxVars

LEMMA DisconnectOK ==
  ASSUME StoreInvariant, NEW a \in Account, Disconnect(a)
  PROVE  StoreInvariant'
  <1>1. /\ Good(Store, {}) /\ Sound(Store) /\ Store \in StoreState
        /\ Store.player = player /\ Store.leave = leave
        /\ Store.tickEnd = tickEnd /\ Overwritten \notin Store.raised
        /\ results \in Seq(LoadResult) /\ saveReplies \in Seq(SaveReply) /\ stop \in BOOLEAN
        /\ LoopOK /\ LoadsApart /\ Untouched(Store, ToCome)
        /\ pc \notin Ending => \A x \in DOMAIN leave : ~InGame(x)
        /\ DOMAIN leave \subseteq Account
    BY StoreNow
  <1>2. pc = "events" /\ UNCHANGED <<pc, frame, inbox, nextSession, lost, threadVars, boxVars>>
    BY DEF Disconnect, ghosts
  <1>3. CASE InGame(a) /\ Becomes(LeaveGame(Store, a)) /\ UNCHANGED loading
    <2> DEFINE t == LeaveGame(Store, a)
    <2>1. Present(Store, a) /\ a \notin DOMAIN Store.leave
      BY <1>1, <1>2, <1>3 DEF Present, InGame, Ending
    <2>2. /\ Good(t, {}) /\ t.player[a].session = 0
          /\ \A x \in Account \ {a} : t.player[x].session = Store.player[x].session
          /\ t.tickEnd = Store.tickEnd /\ DOMAIN t.leave = DOMAIN Store.leave \cup {a}
          /\ Overwritten \in t.raised => Overwritten \in Store.raised
      BY <1>1, <2>1, LeaveGameOK
    <2> HIDE DEF t
    <2>3. LoopOK' /\ LoadsApart' /\ ToCome' = ToCome
      BY <1>1, <1>2, <1>3 DEF LoopOK, LoadsApart, ToCome
    <2>4. Untouched(t, ToCome')
      <3>1. \A n \in ToCome : n # 0
        BY <1>1 DEF ToCome, LoadsApart
      <3>2. QED
        BY SMTT(60), ZenonT(60), <1>1, <2>2, <2>3, <3>1 DEF Untouched
    <2>5. Becomes(t)
      BY <1>3 DEF t
    <2>6. Places'
      <3>1. \A x \in DOMAIN leave' : player'[x].session = 0
        BY <1>1, <1>2, <2>2, <2>5 DEF Becomes, InGame, Ending
      <3>2. QED
        BY <1>2, <3>1 DEF Places, InGame
    <2>7. QED
      BY <1>1, <1>2, <2>2, <2>3, <2>4, <2>5, <2>6, Settles DEF boxVars
  <1>4. CASE loading' = [loading EXCEPT ![a] = 0] /\ UNCHANGED storeVars
    <2>1. Becomes(Store)
      BY <1>4 DEF storeVars, Becomes, Store
    <2>2. /\ loading \in [Account -> 0 .. MaxSessions]
          /\ \A x \in Account : loading'[x] = IF x = a THEN 0 ELSE loading[x]
      BY <1>1, <1>4 DEF LoopOK
    <2>3. LoopOK'
      BY <1>1, <1>2, <1>4, <2>2, StoreAssumption DEF LoopOK
    <2>4. LoadsApart'
      BY <1>1, <1>2, <2>2 DEF LoadsApart
    <2>5. Untouched(Store, ToCome')
      <3>1. ToCome' \subseteq ToCome
        BY <1>2, <2>2 DEF ToCome
      <3>2. QED
        BY <1>1, <3>1 DEF Untouched
    <2>6. Places'
      BY <1>1, <1>2, <1>4 DEF Places, InGame, storeVars, Ending
    <2>7. QED
      BY <1>1, <1>2, <2>1, <2>3, <2>4, <2>5, <2>6, Settles DEF boxVars
  <1>5. QED
    BY <1>3, <1>4 DEF Disconnect

-----------------------------------------------------------------------------
(* What the loop does with answers. *)

LEMMA ProcessDbResultsOK ==
  ASSUME StoreInvariant, ProcessDbResults
  PROVE  StoreInvariant'
  <1> DEFINE t == FoldLeft(OnReply, Store, saveReplies)
  <1>1. /\ Good(Store, {}) /\ results \in Seq(LoadResult) /\ saveReplies \in Seq(SaveReply)
        /\ stop \in BOOLEAN /\ LoopOK
    BY StoreNow
  <1>2. /\ pc = "events" /\ saveReplies' = <<>> /\ inbox' = results /\ results' = <<>>
        /\ pc' = Handling(results) /\ stop' = stop /\ Becomes(t)
        /\ UNCHANGED <<frame, loading, nextSession, lost, threadVars>>
    BY DEF ProcessDbResults, ghosts
  <1>3. t \in Kept(Store)
    BY <1>1, RepliesOK
  <1> HIDE DEF t
  <1>4. t \in StoreState /\ Good(t, {}) /\ Follows(Store, t)
    BY <1>3 DEF Kept
  <1>5. Places'
    <2>1. \A a \in DOMAIN leave' : ~InGame(a)'
      BY <1>2, <1>4, ApartFollowing DEF Ending
    <2>2. (pc' = "loads" /\ results # <<>>) \/ pc' = "world"
      BY <1>2 DEF Handling
    <2>3. QED
      BY ZenonT(60), <1>2, <2>1, <2>2 DEF Places
  <1>6. results' \in Seq(LoadResult) /\ saveReplies' \in Seq(SaveReply)
    BY <1>2
  <1>7. /\ frame' \in 0 .. PeriodFrames /\ inbox' \in Seq(LoadResult) /\ lost' \subseteq Account
        /\ stop' \in BOOLEAN /\ UNCHANGED <<threadVars, loading, nextSession>>
    BY <1>1, <1>2 DEF LoopOK
  <1>8. QED
    BY <1>2, <1>4, <1>5, <1>6, <1>7, SettlesFollowing

\* The characters a load may make.
LEMMA SpawnedType ==
  ASSUME NEW load \in LoadResult, NEW p \in Spawned(load)
  PROVE  /\ p \in PlayerState /\ p.session = load.session
         /\ p.bundleNo = 0 /\ p.listed = FALSE /\ p.paired = FALSE
  <1>1. /\ load.session \in Nat /\ load.row \in Row /\ load.bag \in Bag
        /\ [load.row EXCEPT !.pos = @ + 1] \in Row /\ FirstRow \in Row
    BY DEF LoadResult, Session, Row, FirstRow
  <1>2. \/ p = Fresh(load.session, load.row, load.bag, FALSE)
        \/ p = Fresh(load.session, [load.row EXCEPT !.pos = @ + 1], load.bag, TRUE)
        \/ p = Fresh(load.session, FirstRow, load.bag, TRUE)
    BY DEF Spawned
  <1>3. ASSUME NEW row \in Row, NEW dirty \in BOOLEAN,
               p = Fresh(load.session, row, load.bag, dirty)
        PROVE  /\ p \in PlayerState /\ p.session = load.session
               /\ p.bundleNo = 0 /\ p.listed = FALSE /\ p.paired = FALSE
    <2> DEFINE n == load.session
               bag == load.bag
    <2>1. n \in Nat /\ bag \in Bag /\ p = Fresh(n, row, bag, dirty)
      BY <1>1, <1>3
    <2>2. row.val \in Nat /\ 1 \in 1 .. SeqMax /\ 0 \in 0 .. SeqMax
      BY StoreAssumption DEF Row
    <2> HIDE DEF n, bag
    <2>3. /\ p \in PlayerState /\ p.session = n
          /\ p.bundleNo = 0 /\ p.listed = FALSE /\ p.paired = FALSE
      BY <2>1, <2>2 DEF Fresh, PlayerState
    <2>4. QED
      BY <2>3 DEF n
  <1>4. QED
    BY <1>1, <1>2, <1>3

\* A character enters, whose session nobody had.
LEMMA EntersOK ==
  ASSUME NEW s, Good(s, {}), NEW a \in Account, NEW p \in PlayerState,
         p.bundleNo = 0, p.listed = FALSE, p.paired = FALSE,
         Untouched(s, {p.session}),
         NEW t, OnlyPlayer(s, t, a, p)
  PROVE  /\ Good(t, {}) /\ t.player = [s.player EXCEPT ![a] = p]
         /\ t.leave = s.leave /\ t.tickEnd = s.tickEnd /\ t.raised = s.raised
  <1>1. /\ Sound(s) /\ Listed(s) /\ Held(s, {}) /\ s \in StoreState
        /\ s.player \in [Account -> PlayerState]
    BY StoreParts DEF Good, Sound
  <1>2. Sound(t)
    BY <1>1, OneStays
  <1>3. /\ t.player = [s.player EXCEPT ![a] = p] /\ t.leave = s.leave
        /\ t.tickEnd = s.tickEnd /\ t.pairs = s.pairs /\ t.raised = s.raised
    BY <1>1 DEF StoreState, OnlyPlayer
  <1>4. t.player[a] = p /\ \A x \in Account \ {a} : t.player[x] = s.player[x]
    BY <1>1, <1>3
  <1>5. /\ \A x \in Account : s.player[x].session # p.session
        /\ \A i \in 1 .. Len(s.tickEnd) : s.tickEnd[i] # p.session
    BY DEF Untouched
  <1>6. Listed(t)
    BY SMTT(60), ZenonT(60), <1>1, <1>3, <1>4, <1>5 DEF Listed
  <1>7. Held(t, {})
    <2>1. \A x \in Account : \A n : LinkHolds(s, x, n) => LinkHolds(t, x, n)
      BY <1>3 DEF LinkHolds
    <2>2. QED
      BY <1>1, <1>3, <1>4, <2>1 DEF Held
  <1>8. QED
    BY <1>2, <1>3, <1>6, <1>7 DEF Good

LEMMA HandleLoadOK ==
  ASSUME StoreInvariant, HandleLoad
  PROVE  StoreInvariant'
  <1> DEFINE load == Head(inbox)
             a == load.account
             wanted == loading[a] = load.session
             enters == wanted /\ load.code # "FAILED" /\ ~Blocked(load)
  <1>1. /\ Good(Store, {}) /\ Store \in StoreState
        /\ Store.player = player /\ Store.leave = leave
        /\ Overwritten \notin Store.raised /\ DOMAIN leave \subseteq Account
        /\ LoopOK /\ LoadsApart /\ Untouched(Store, ToCome)
        /\ results \in Seq(LoadResult) /\ saveReplies \in Seq(SaveReply) /\ stop \in BOOLEAN
        /\ pc \notin Ending => \A x \in DOMAIN leave : ~InGame(x)
    BY StoreNow
  <1>2. /\ pc = "loads" /\ inbox' = Tail(inbox) /\ pc' = Handling(Tail(inbox))
        /\ loading' = [loading EXCEPT ![a] = IF wanted THEN 0 ELSE @]
        /\ IF enters THEN \E p \in Spawned(load) : player' = [player EXCEPT ![a] = p]
                     ELSE player' = player
        /\ UNCHANGED <<leave, leaveSeq, pairs, tickEnd, inflight, slot, raised>>
        /\ UNCHANGED <<frame, nextSession, lost, threadVars, boxVars>>
    BY DEF HandleLoad
  <1>3. /\ inbox \in Seq(LoadResult) /\ inbox # <<>> /\ loading \in [Account -> 0 .. MaxSessions]
    BY <1>1, <1>2 DEF StoreInvariant, Places, LoopOK
  <1>4. load \in LoadResult /\ Tail(inbox) \in Seq(LoadResult)
    BY <1>3, HeadTailProperties
  <1> HIDE DEF load
  <1>5. a \in Account /\ load.session \in Nat \ {0}
    BY <1>4 DEF LoadResult, Session
  <1> HIDE DEF a
  <1>6. \A x \in Account : loading'[x] = IF x = a /\ wanted THEN 0 ELSE loading[x]
    BY <1>2, <1>3, <1>5
  <1>7. LoopOK' /\ LoadsApart'
    <2>1. loading' \in [Account -> 0 .. MaxSessions]
      BY <1>2, <1>3, <1>5, StoreAssumption
    <2>2. LoopOK'
      BY <1>1, <1>2, <1>4, <2>1 DEF LoopOK
    <2>3. LoadsApart'
      BY <1>1, <1>2, <1>6 DEF LoadsApart
    <2>4. QED
      BY <2>2, <2>3
  <1>8. ToCome' \subseteq ToCome
    BY <1>2, <1>6 DEF ToCome
  <1>9. results' \in Seq(LoadResult) /\ saveReplies' \in Seq(SaveReply) /\ stop' \in BOOLEAN
    BY <1>1, <1>2 DEF boxVars
  <1>10. ASSUME \A x \in DOMAIN leave : player'[x].session = 0
         PROVE  Places'
    <2>1. (pc' = "loads" /\ inbox' # <<>>) \/ pc' = "world"
      BY <1>2 DEF Handling
    <2>2. QED
      BY ZenonT(60), <1>2, <1>10, <2>1 DEF Places, InGame
  <1>11. CASE enters
    <2>1. PICK p \in Spawned(load) : player' = [player EXCEPT ![a] = p]
      BY ZenonT(60), SMTT(60), <1>2, <1>11
    <2>2. /\ p \in PlayerState /\ p.session = load.session
          /\ p.bundleNo = 0 /\ p.listed = FALSE /\ p.paired = FALSE
      BY <1>4, SpawnedType
    <2> DEFINE t == [Store EXCEPT !.player = [Store.player EXCEPT ![a] = p]]
    <2>3. OnlyPlayer(Store, t, a, p)
      BY DEF OnlyPlayer
    <2>4. Becomes(t)
      BY <1>1, <1>2, <2>1 DEF Becomes, Store
    <2> HIDE DEF t
    <2>5. loading[a] = p.session /\ p.session # 0
      BY <1>5, <1>11, <2>2
    <2>6. p.session \in ToCome /\ p.session \notin ToCome'
      <3>1. p.session \in ToCome
        BY <1>5, <2>2, <2>5 DEF ToCome
      <3>2. p.session < nextSession /\ p.session \in Nat /\ nextSession \in Nat
        BY <1>1, <1>5, <2>2, <2>5 DEF LoadsApart
      <3>3. \A x \in Account : loading'[x] # p.session
        BY <1>1, <1>5, <1>6, <1>11, <2>5 DEF LoadsApart
      <3>4. QED
        BY <1>2, <3>1, <3>2, <3>3 DEF ToCome
    <2>7. Untouched(Store, {p.session})
      BY <1>1, <2>6 DEF Untouched
    <2>8. /\ Good(t, {}) /\ t.player = [Store.player EXCEPT ![a] = p]
          /\ t.tickEnd = Store.tickEnd /\ t.raised = Store.raised
      <3>1. Good(t, {})
        BY <1>1, <1>5, <2>2, <2>3, <2>7, EntersOK
      <3>2. QED
        BY <1>1, <2>3, <3>1 DEF OnlyPlayer, StoreState
    <2>9. \A x \in Account : t.player[x].session \in {p.session, Store.player[x].session}
      <3>1. Store.player \in [Account -> PlayerState]
        BY <1>1, StoreParts
      <3>2. QED
        BY <2>8, <3>1
    <2>10. Untouched(t, ToCome')
      BY <1>1, <1>8, <2>6, <2>8, <2>9 DEF Untouched
    <2>11. \A x \in DOMAIN leave : player'[x].session = 0
      <3>1. a \notin DOMAIN leave
        BY <1>11 DEF Blocked, a
      <3>2. \A x \in DOMAIN leave : player'[x] = player[x]
        BY <1>1, <2>1, <3>1, StoreParts
      <3>3. QED
        BY <1>1, <1>2, <3>2 DEF InGame, Ending
    <2>12. QED
      BY SMTT(60), ZenonT(60), <1>1, <1>2, <1>7, <1>9, <1>10, <2>4, <2>8, <2>10, <2>11, Settles
  <1>12. CASE ~enters
    <2>1. Becomes(Store)
      BY ZenonT(60), SMTT(60), <1>2, <1>12 DEF Becomes, Store
    <2>2. Untouched(Store, ToCome')
      BY <1>1, <1>8 DEF Untouched
    <2>3. \A x \in DOMAIN leave : player'[x].session = 0
      BY <1>1, <1>2, <1>12 DEF InGame, Ending
    <2>4. QED
      BY SMTT(60), ZenonT(60), <1>1, <1>2, <1>7, <1>9, <1>10, <2>1, <2>2, <2>3, Settles
  <1>13. QED
    BY <1>11, <1>12

-----------------------------------------------------------------------------
(* What the loop looks at when a tick ends. *)

\* Where the loop goes: it has something to look at there.
LEMMA LookAtOK ==
  ASSUME StoreInvariant, pc \notin Ending, NEW t, t \in StoreState, Becomes(t),
         Quiet(Store, t), NEW records, records \subseteq DOMAIN leave,
         NEW links, links \subseteq 1 .. Len(pairs), LookAt(records, links)
  PROVE  Places'
  <1>1. \A a \in DOMAIN leave' : ~InGame(a)'
    BY QuietFollows, ApartFollowing
  <1>2. tickEnd' = tickEnd /\ DOMAIN leave' = DOMAIN leave /\ Len(pairs') = Len(pairs)
    BY StoreNow DEF Quiet, Becomes
  <1>3. \/ pc' = "records" /\ records # {} /\ todo' = records
        \/ pc' = "pairs" /\ links # {} /\ todo' = links
        \/ pc' = "list" /\ tickEnd # <<>>
        \/ pc' = "events"
    BY DEF LookAt, Saving
  <1>4. QED
    BY ZenonT(60), <1>1, <1>2, <1>3 DEF Places

\* A step of that part of the tick.
LEMMA SettlesLooking ==
  ASSUME StoreInvariant, pc \notin Ending, NEW t, Becomes(t), Sound(t), Quiet(Store, t),
         frame' \in 0 .. PeriodFrames,
         UNCHANGED <<inbox, loading, nextSession, ghosts, threadVars, boxVars>>,
         Places'
  PROVE  StoreInvariant'
  <1>1. Good(t, {}) /\ Follows(Store, t)
    BY StoreNow, QuietGood, QuietFollows
  <1>2. /\ results' \in Seq(LoadResult) /\ saveReplies' \in Seq(SaveReply) /\ stop' \in BOOLEAN
        /\ inbox' \in Seq(LoadResult) /\ lost' \subseteq Account
        /\ UNCHANGED <<threadVars, loading, nextSession>>
    BY StoreNow DEF boxVars, ghosts, LoopOK
  <1>3. QED
    BY <1>1, <1>2, SettlesFollowing

LEMMA UnsentLinks ==
  ASSUME NEW s, Sound(s)
  PROVE  Unsent(s) \subseteq 1 .. Len(s.pairs)
  <1>1. s.pairs \in Seq(Link)
    BY StoreParts DEF Sound
  <1>2. QED
    BY <1>1 DEF Unsent

LEMMA TickSavesOK ==
  ASSUME StoreInvariant, TickSaves
  PROVE  StoreInvariant'
  <1>1. Sound(Store) /\ Store.pairs = pairs
    BY StoreNow
  <1>2. /\ pc = "world" /\ pc \notin Ending
        /\ UNCHANGED <<inbox, loading, nextSession, ghosts, threadVars, boxVars>>
    BY DEF TickSaves, Ending
  <1>3. frame \in 0 .. PeriodFrames /\ PeriodFrames \in Nat
    BY StoreAssumption DEF StoreInvariant, LoopOK
  <1>4. CASE Due
    <2>1. /\ frame' = 0
          /\ LookAt({a \in DOMAIN leave : Waiting(Store, a)}, Unsent(Store))
      BY <1>4 DEF TickSaves
    <2>2. PICK list \in BatchLists(Store) : Becomes(PeriodBatch(Store, list))
      BY <1>4 DEF TickSaves
    <2> DEFINE t == PeriodBatch(Store, list)
    <2>3. Sound(t) /\ Quiet(Store, t)
      BY <1>1, PeriodBatchOK
    <2>4. Becomes(t)
      BY <2>2
    <2> HIDE DEF t
    <2>5. Unsent(Store) \subseteq 1 .. Len(pairs)
      BY <1>1, UnsentLinks
    <2>6. Places'
      BY <1>2, <2>1, <2>3, <2>4, <2>5, LookAtOK DEF Sound
    <2>7. frame' \in 0 .. PeriodFrames
      BY <1>3, <2>1
    <2>8. QED
      BY <1>2, <2>3, <2>4, <2>6, <2>7, SettlesLooking
  <1>5. CASE ~Due
    <2>1. frame' = frame + 1 /\ LookAt({}, {}) /\ UNCHANGED storeVars
      BY <1>5 DEF TickSaves
    <2>2. Becomes(Store)
      BY <2>1 DEF Becomes, Store, storeVars
    <2>3. Quiet(Store, Store)
      BY NothingChanges
    <2>4. Places'
      BY <1>1, <1>2, <2>1, <2>2, <2>3, LookAtOK DEF Sound
    <2>5. frame' \in 0 .. PeriodFrames
      BY <1>3, <1>5, <2>1 DEF Due
    <2>6. QED
      BY <1>1, <1>2, <2>2, <2>3, <2>4, <2>5, SettlesLooking
  <1>6. QED
    BY <1>4, <1>5

LEMMA ResendRecordOK ==
  ASSUME StoreInvariant, ResendRecord
  PROVE  StoreInvariant'
  <1>1. Sound(Store) /\ Store.pairs = pairs /\ Store.leave = leave /\ LoopOK
    BY StoreNow
  <1>2. /\ pc = "records" /\ pc \notin Ending /\ frame' = frame
        /\ UNCHANGED <<inbox, loading, nextSession, ghosts, threadVars, boxVars>>
    BY DEF ResendRecord, Ending
  <1>3. PICK a \in todo : /\ Becomes(SendLeaveRecord(Store, a))
                          /\ LookAt(todo \ {a}, Unsent(Store))
    BY DEF ResendRecord
  <1>4. todo \subseteq DOMAIN leave
    BY <1>2 DEF StoreInvariant, Places
  <1> DEFINE t == SendLeaveRecord(Store, a)
  <1>5. Sound(t) /\ Quiet(Store, t)
    BY <1>1, <1>4, SendLeaveRecordOK
  <1>6. Becomes(t)
    BY <1>3
  <1> HIDE DEF t
  <1>7. Places'
    <2>1. todo \ {a} \subseteq DOMAIN leave /\ Unsent(Store) \subseteq 1 .. Len(pairs)
      BY <1>1, <1>4, UnsentLinks
    <2>2. QED
      BY SMTT(60), ZenonT(60), <1>2, <1>3, <1>5, <1>6, <2>1, LookAtOK DEF Sound
  <1>8. frame' \in 0 .. PeriodFrames
    BY <1>1, <1>2 DEF LoopOK
  <1>9. QED
    BY <1>2, <1>5, <1>6, <1>7, <1>8, SettlesLooking

LEMMA ResendPairOK ==
  ASSUME StoreInvariant, ResendPair
  PROVE  StoreInvariant'
  <1> DEFINE i == CHOOSE n \in todo : \A m \in todo : n <= m
             t == SendPair(Store, i)
  <1>1. Sound(Store) /\ Store.pairs = pairs /\ LoopOK
    BY StoreNow
  <1>2. /\ pc = "pairs" /\ pc \notin Ending /\ frame' = frame
        /\ Becomes(t) /\ LookAt({}, todo \ {i})
        /\ UNCHANGED <<inbox, loading, nextSession, ghosts, threadVars, boxVars>>
    BY DEF ResendPair, Ending
  <1>3. todo # {} /\ todo \subseteq 1 .. Len(pairs)
    BY <1>2 DEF StoreInvariant, Places
  <1>4. i \in todo
    <2>1. todo \subseteq Nat
      BY <1>3
    <2>2. QED
      BY <1>3, <2>1, SmallestNat
  <1> HIDE DEF i
  <1>5. Sound(t) /\ Quiet(Store, t)
    BY <1>1, <1>3, <1>4, SendPairOK
  <1> HIDE DEF t
  <1>6. Places'
    BY <1>2, <1>3, <1>5, LookAtOK DEF Sound
  <1>7. frame' \in 0 .. PeriodFrames
    BY <1>1, <1>2 DEF LoopOK
  <1>8. QED
    BY <1>2, <1>5, <1>6, <1>7, SettlesLooking

\* The oldest session of the list is looked at: its character, if it is still
\* there, is not listed any more.
LEMMA TickEndSaveOK ==
  ASSUME StoreInvariant, TickEndSave
  PROVE  StoreInvariant'
  <1> DEFINE n == Head(tickEnd)
             rest == Tail(tickEnd)
             next == [Store EXCEPT !.tickEnd = rest]
             here == {a \in Account : player[a].session = n}
             unlisted(a) == [next EXCEPT !.player[a].listed = FALSE]
  <1>1. /\ Good(Store, {}) /\ Sound(Store) /\ Listed(Store) /\ Held(Store, {})
        /\ Store \in StoreState
        /\ Store.player = player /\ Store.tickEnd = tickEnd
        /\ player \in [Account -> PlayerState] /\ tickEnd \in Seq(Nat \ {0})
    BY StoreNow, StoreParts DEF Good
  <1>2. /\ pc = "list" /\ pc \notin Ending /\ frame' = frame
        /\ UNCHANGED <<inbox, loading, nextSession, ghosts, threadVars, boxVars>>
        /\ pc' = Saving({}, {}, tickEnd')
        /\ \/ here = {} /\ Becomes(next)
           \/ \E a \in here : Becomes(IF ShouldSave(player[a]) THEN SendBundle(unlisted(a), a)
                                                               ELSE unlisted(a))
    BY ZenonT(60) DEF TickEndSave, Ending, Store
  <1>3. tickEnd # <<>>
    BY ZenonT(60), <1>2 DEF StoreInvariant, Places
  <1>4. /\ n = tickEnd[1] /\ n # 0 /\ 1 \in 1 .. Len(tickEnd)
        /\ rest \in Seq(Nat \ {0}) /\ Len(rest) = Len(tickEnd) - 1
        /\ \A i \in 1 .. Len(rest) : i + 1 \in 1 .. Len(tickEnd) /\ rest[i] = tickEnd[i + 1]
    BY SMTT(60), ZenonT(60), <1>1, <1>3
  <1>5. \A i \in 1 .. Len(tickEnd) : i = 1 \/ (i - 1 \in 1 .. Len(rest) /\ rest[i - 1] = tickEnd[i])
    BY <1>1, <1>4
  <1> HIDE DEF n, rest
  <1>6. /\ Sound(next) /\ next.tickEnd = rest /\ next.player = player
        /\ next.leave = Store.leave /\ next.pairs = Store.pairs
        /\ next.raised = Store.raised
    BY <1>1, <1>4, ListChanges
  <1> HIDE DEF next
  <1>7. /\ \A i, j \in 1 .. Len(rest) : rest[i] = rest[j] => i = j
        /\ \A i \in 1 .. Len(rest) : rest[i] # n
    <2>1. \A i, j \in 1 .. Len(tickEnd) : tickEnd[i] = tickEnd[j] => i = j
      BY <1>1 DEF Listed
    <2>2. ASSUME NEW i \in 1 .. Len(rest), NEW j \in 1 .. Len(rest), rest[i] = rest[j]
          PROVE  i = j
      BY SMTT(60), <1>4, <2>1, <2>2
    <2>3. ASSUME NEW i \in 1 .. Len(rest) PROVE rest[i] # n
      BY SMTT(60), ZenonT(60), <1>4, <2>1
    <2>4. QED
      BY <2>2, <2>3
  <1>8. \A m : m # n => ((\E i \in 1 .. Len(rest) : rest[i] = m)
                         <=> (\E i \in 1 .. Len(tickEnd) : tickEnd[i] = m))
    BY SMTT(60), ZenonT(60), <1>4, <1>5
  <1>9. \A a, b \in Account : player[a].session = player[b].session
                              => a = b \/ player[a].session = 0
    BY <1>1 DEF Listed
  <1>10. \A a \in Account : player[a].session # 0 /\ player[a].session # n =>
            (player[a].listed <=> \E i \in 1 .. Len(rest) : rest[i] = player[a].session)
    <2>1. \A a \in Account : player[a].session # 0 =>
             (player[a].listed <=> \E i \in 1 .. Len(tickEnd) : tickEnd[i] = player[a].session)
      <3>1. \A a \in Account : Store.player[a].session # 0 =>
               (Store.player[a].listed <=> \E i \in 1 .. Len(Store.tickEnd) :
                                              Store.tickEnd[i] = Store.player[a].session)
        BY <1>1 DEF Listed
      <3>2. QED
        BY SMTT(60), ZenonT(60), <1>1, <3>1
    <2>2. ASSUME NEW a \in Account, player[a].session # 0, player[a].session # n
          PROVE  player[a].listed <=> \E i \in 1 .. Len(rest) : rest[i] = player[a].session
      <3> DEFINE m == player[a].session
      <3>1. player[a].listed <=> \E i \in 1 .. Len(tickEnd) : tickEnd[i] = m
        BY <2>1, <2>2
      <3>2. m # n
        BY <2>2
      <3> HIDE DEF m
      <3>3. player[a].listed <=> \E i \in 1 .. Len(rest) : rest[i] = m
        BY <1>8, <3>1, <3>2
      <3>4. QED
        BY <3>3 DEF m
    <2>3. QED
      BY <2>2
  <1>11. \A a \in Account : \A m : LinkHolds(Store, a, m) => LinkHolds(next, a, m)
    <2>1. next.pairs = Store.pairs
      BY <1>6
    <2>2. QED
      BY <2>1 DEF LinkHolds
  <1>12. ASSUME NEW t, Becomes(t), Good(t, {}), t.tickEnd = rest,
                \A a \in Account : t.player[a].session = player[a].session,
                DOMAIN t.leave = DOMAIN Store.leave,
                Overwritten \in t.raised => Overwritten \in Store.raised
         PROVE  StoreInvariant'
    <2>1. Follows(Store, t)
      BY <1>1, <1>4, <1>12 DEF Follows
    <2>2. \A a \in DOMAIN leave' : ~InGame(a)'
      BY <1>2, <1>12, <2>1, ApartFollowing DEF Good, Sound
    <2>3. (pc' = "list" /\ tickEnd' # <<>>) \/ pc' = "events"
      BY <1>2 DEF Saving
    <2>4. Places'
      BY ZenonT(60), <2>2, <2>3 DEF Places
    <2>5. /\ results' \in Seq(LoadResult) /\ saveReplies' \in Seq(SaveReply)
          /\ stop' \in BOOLEAN /\ frame' \in 0 .. PeriodFrames
          /\ inbox' \in Seq(LoadResult) /\ lost' \subseteq Account
          /\ UNCHANGED <<threadVars, loading, nextSession>>
      BY <1>2, StoreNow DEF boxVars, ghosts, LoopOK
    <2>6. QED
      BY <1>12, <2>1, <2>4, <2>5, SettlesFollowing
  <1>13. CASE here = {} /\ Becomes(next)
    <2>1. Listed(next)
      BY <1>6, <1>7, <1>9, <1>10, <1>13 DEF Listed
    <2>2. Held(next, {})
      BY <1>1, <1>6, <1>11 DEF Held
    <2>3. QED
      BY <1>6, <1>12, <1>13, <2>1, <2>2 DEF Good
  <1>14. ASSUME NEW a \in here,
                Becomes(IF ShouldSave(player[a]) THEN SendBundle(unlisted(a), a)
                                                 ELSE unlisted(a))
         PROVE  StoreInvariant'
    <2> DEFINE p == [player[a] EXCEPT !.listed = FALSE]
               u == unlisted(a)
               t == IF ShouldSave(player[a]) THEN SendBundle(u, a) ELSE u
    <2>1. a \in Account /\ player[a].session = n /\ player[a] \in PlayerState
      BY <1>1
    <2>2. /\ p \in PlayerState /\ p.session = n /\ p.listed = FALSE
          /\ p.paired = player[a].paired
      BY <2>1 DEF PlayerState
    <2>3. p.bundleNo # 0 => player[a].bundleNo # 0
      BY <2>1 DEF PlayerState
    <2>4. next \in StoreState
      BY <1>6 DEF Sound
    <2>5. OnlyPlayer(next, u, a, p)
      BY <1>1, <1>6, <2>4 DEF OnlyPlayer, StoreState
    <2>6. Becomes(t)
      BY <1>14
    <2> HIDE DEF p, u
    <2>7. Sound(u)
      BY <1>6, <2>1, <2>2, <2>3, <2>5, OneStays
    <2>8. /\ u.player = [player EXCEPT ![a] = p] /\ u.leave = Store.leave
          /\ u.pairs = Store.pairs /\ u.tickEnd = rest /\ u.raised = Store.raised
      BY <1>6, <2>4, <2>5 DEF OnlyPlayer, StoreState
    <2>9. u.player[a] = p /\ \A x \in Account \ {a} : u.player[x] = player[x]
      BY <1>1, <2>1, <2>8
    <2>10. Listed(u)
      <3>1. \A x \in Account : u.player[x].session = player[x].session
        BY <2>1, <2>2, <2>9
      <3>2. \A x \in Account \ {a} : player[x].session # n
        BY <1>4, <1>9, <2>1
      <3>3. ASSUME NEW x \in Account, player[x].session # 0
            PROVE  u.player[x].listed <=> \E i \in 1 .. Len(rest) : rest[i] = player[x].session
        <4>1. CASE x = a
          BY <1>7, <2>1, <2>2, <2>9, <4>1
        <4>2. CASE x # a
          BY <1>10, <2>9, <3>2, <3>3, <4>2
        <4>3. QED
          BY <4>1, <4>2
      <3>4. QED
        BY <1>7, <1>9, <2>8, <3>1, <3>3 DEF Listed
    <2>11. Held(u, {})
      <3>1. \A x \in Account : \A m : LinkHolds(Store, x, m) => LinkHolds(u, x, m)
        BY <2>8 DEF LinkHolds
      <3>2. \A x \in Account : /\ u.player[x].session = player[x].session
                               /\ u.player[x].paired = player[x].paired
        BY <2>1, <2>2, <2>9
      <3>3. QED
        BY <1>1, <2>8, <3>1, <3>2 DEF Held
    <2>12. Good(u, {})
      BY <2>7, <2>10, <2>11 DEF Good
    <2>13. Good(t, {}) /\ Quiet(u, t)
      <3>1. Sound(SendBundle(u, a)) /\ Quiet(u, SendBundle(u, a))
        BY <2>1, <2>7, SendBundleOK
      <3>2. QED
        BY <2>12, <3>1, QuietGood, NothingChanges
    <2> HIDE DEF t
    <2>14. /\ t.tickEnd = rest
           /\ \A x \in Account : t.player[x].session = player[x].session
           /\ DOMAIN t.leave = DOMAIN Store.leave
           /\ Overwritten \in t.raised => Overwritten \in Store.raised
      BY <2>1, <2>2, <2>8, <2>9, <2>13 DEF Quiet, SameFace
    <2>15. QED
      BY <1>12, <2>6, <2>13, <2>14
  <1>15. QED
    BY <1>2, <1>13, <1>14

-----------------------------------------------------------------------------
(* Shutdown. *)

LEMMA StopOK ==
  ASSUME StoreInvariant, Stop
  PROVE  StoreInvariant'
  <1>1. /\ pc = "events" /\ pc' = "last players"
        /\ todo' = {a \in Account : InGame(a)}
        /\ UNCHANGED <<storeVars, frame, inbox, loading, nextSession, ghosts, threadVars,
                       boxVars>>
    BY ZenonT(60) DEF Stop
  <1>2. /\ Good(Store, {}) /\ results \in Seq(LoadResult) /\ saveReplies \in Seq(SaveReply)
        /\ stop \in BOOLEAN /\ LoopOK /\ \A a \in DOMAIN leave : ~InGame(a)
    BY ZenonT(60), <1>1, StoreNow DEF Ending
  <1>3. Becomes(Store) /\ Follows(Store, Store)
    BY ZenonT(60), <1>1, NothingChanges DEF storeVars, Becomes, Store
  <1>4. Places'
    BY ZenonT(60), <1>1, <1>2 DEF Places, InGame, storeVars, Ending
  <1>5. QED
    BY ZenonT(60), <1>1, <1>2, <1>3, <1>4, SettlesFollowing DEF boxVars, ghosts, LoopOK

\* A step of the end that looks at one thing left.
LEMMA LastOfOK ==
  ASSUME StoreInvariant, NEW t, Becomes(t), Good(t, {}),
         \A x \in Account : t.player[x].session = player[x].session,
         t.tickEnd = tickEnd, Overwritten \in t.raised => Overwritten \in Store.raised,
         UNCHANGED <<pc, stop, frame, inbox, loading, nextSession, ghosts, threadVars,
                     results, saveReplies>>,
         Places'
  PROVE  StoreInvariant'
  <1>1. /\ Store.player = player /\ Store.tickEnd = tickEnd
        /\ results \in Seq(LoadResult) /\ saveReplies \in Seq(SaveReply)
        /\ stop \in BOOLEAN /\ LoopOK /\ LoadsApart /\ Untouched(Store, ToCome)
        /\ Overwritten \notin Store.raised
    BY StoreNow
  <1>2. LoopOK' /\ LoadsApart' /\ ToCome' = ToCome
    BY <1>1 DEF LoopOK, LoadsApart, ToCome, ghosts
  <1>3. Untouched(t, ToCome')
    BY <1>1, <1>2 DEF Untouched
  <1>4. QED
    BY <1>1, <1>2, <1>3, Settles

LEMMA LastPlayerOK ==
  ASSUME StoreInvariant, LastOf("last players", LeaveFinal),
         UNCHANGED <<frame, inbox, loading, nextSession, ghosts, threadVars,
                     results, saveReplies>>
  PROVE  StoreInvariant'
  <1>1. PICK a \in todo : /\ pc = "last players" /\ Becomes(LeaveFinal(Store, a))
                          /\ todo' = todo \ {a} /\ UNCHANGED <<pc, stop>>
    BY ZenonT(60) DEF LastOf
  <1>2. \A x \in todo : x \in Account /\ player[x].session # 0 /\ x \notin DOMAIN leave
    BY ZenonT(60), <1>1 DEF StoreInvariant, Places, InGame
  <1>3. /\ Good(Store, {}) /\ Store.player = player /\ Store.leave = leave
        /\ Store.tickEnd = tickEnd
    BY ZenonT(60), StoreNow
  <1> DEFINE t == LeaveFinal(Store, a)
  <1>4. Good(t, {}) /\ Leaves(Store, t, a)
    BY ZenonT(60), <1>2, <1>3, LeaveFinalOK DEF Present
  <1>5. Becomes(t)
    BY ZenonT(60), <1>1
  <1> HIDE DEF t
  <1>6. /\ \A x \in Account : t.player[x].session = player[x].session
        /\ t.tickEnd = tickEnd /\ DOMAIN t.leave = DOMAIN leave \cup {a}
        /\ Overwritten \in t.raised => Overwritten \in Store.raised
    BY ZenonT(60), <1>3, <1>4 DEF Leaves
  <1>7. Places'
    <2>1. \A x \in todo' : x \in Account /\ player'[x].session # 0 /\ x \notin DOMAIN leave'
      BY ZenonT(60), <1>1, <1>2, <1>5, <1>6 DEF Becomes
    <2>2. QED
      BY ZenonT(60), <1>1, <2>1 DEF Places, InGame, Ending
  <1>8. QED
    BY ZenonT(60), <1>1, <1>4, <1>5, <1>6, <1>7, LastOfOK

\* The same when a record or a link is sent.
LEMMA LastQuietOK ==
  ASSUME StoreInvariant, pc \in {"last records", "last pairs"}, NEW t, Becomes(t), Sound(t),
         Quiet(Store, t), todo' \subseteq todo,
         UNCHANGED <<pc, stop, frame, inbox, loading, nextSession, ghosts, threadVars,
                     results, saveReplies>>
  PROVE  StoreInvariant'
  <1>1. /\ Good(Store, {}) /\ Store.player = player /\ Store.leave = leave
        /\ Store.tickEnd = tickEnd /\ Store.pairs = pairs
    BY ZenonT(60), StoreNow
  <1>2. Good(t, {})
    BY ZenonT(60), <1>1, QuietGood
  <1>3. /\ \A x \in Account : t.player[x].session = player[x].session
        /\ t.tickEnd = tickEnd /\ DOMAIN t.leave = DOMAIN leave
        /\ Len(t.pairs) = Len(pairs)
        /\ Overwritten \in t.raised => Overwritten \in Store.raised
    BY ZenonT(60), <1>1 DEF Quiet, SameFace
  <1>4. Places'
    BY ZenonT(60), <1>3 DEF StoreInvariant, Places, Becomes, Ending
  <1>5. QED
    BY ZenonT(60), <1>2, <1>3, <1>4, LastOfOK

LEMMA SaveAllPlayersOK ==
  ASSUME StoreInvariant, SaveAllPlayers
  PROVE  StoreInvariant'
  <1>1. UNCHANGED <<frame, inbox, loading, nextSession, ghosts, threadVars,
                    results, saveReplies>>
    BY ZenonT(60) DEF SaveAllPlayers
  <1>2. /\ Sound(Store) /\ Good(Store, {}) /\ Store.leave = leave /\ Store.pairs = pairs
        /\ results \in Seq(LoadResult) /\ saveReplies \in Seq(SaveReply)
        /\ stop \in BOOLEAN /\ LoopOK /\ pairs \in Seq(Link)
    BY StoreNow, StoreParts
  <1>3. CASE LastOf("last players", LeaveFinal)
    BY ZenonT(60), <1>1, <1>3, LastPlayerOK
  <1>4. CASE LastOf("last records", SendLeaveRecord)
    <2>1. PICK a \in todo : /\ pc = "last records" /\ Becomes(SendLeaveRecord(Store, a))
                            /\ todo' = todo \ {a} /\ UNCHANGED <<pc, stop>>
      BY ZenonT(60), <1>4 DEF LastOf
    <2>2. a \in DOMAIN Store.leave
      BY ZenonT(60), <1>2, <2>1 DEF StoreInvariant, Places
    <2> DEFINE t == SendLeaveRecord(Store, a)
    <2>3. Sound(t) /\ Quiet(Store, t)
      BY <1>2, <2>2, SendLeaveRecordOK
    <2>4. Becomes(t) /\ todo' \subseteq todo
      BY ZenonT(60), <2>1
    <2> HIDE DEF t
    <2>5. QED
      BY ZenonT(60), <1>1, <2>1, <2>3, <2>4, LastQuietOK
  <1>5. CASE LastOf("last pairs", SendPair)
    <2>1. PICK i \in todo : /\ pc = "last pairs" /\ Becomes(SendPair(Store, i))
                            /\ todo' = todo \ {i} /\ UNCHANGED <<pc, stop>>
      BY ZenonT(60), <1>5 DEF LastOf
    <2>2. i \in 1 .. Len(Store.pairs)
      BY ZenonT(60), <1>2, <2>1 DEF StoreInvariant, Places
    <2> DEFINE t == SendPair(Store, i)
    <2>3. Sound(t) /\ Quiet(Store, t)
      BY <1>2, <2>2, SendPairOK
    <2>4. Becomes(t) /\ todo' \subseteq todo
      BY ZenonT(60), <2>1
    <2> HIDE DEF t
    <2>5. QED
      BY ZenonT(60), <1>1, <2>1, <2>3, <2>4, LastQuietOK
  <1>6. ASSUME UNCHANGED storeVars, stop' \in BOOLEAN, Places'
        PROVE  StoreInvariant'
    <2>1. Becomes(Store) /\ Follows(Store, Store)
      BY <1>6, NothingChanges DEF storeVars, Becomes, Store
    <2>2. /\ results' \in Seq(LoadResult) /\ saveReplies' \in Seq(SaveReply)
          /\ frame' \in 0 .. PeriodFrames /\ inbox' \in Seq(LoadResult)
          /\ lost' \subseteq Account /\ UNCHANGED <<threadVars, loading, nextSession>>
      BY <1>1, <1>2 DEF ghosts, LoopOK
    <2>3. QED
      BY SMTT(60), ZenonT(60), <1>2, <1>6, <2>1, <2>2, SettlesFollowing
  <1>7. CASE /\ pc = "last players" /\ pc' = "last records"
             /\ todo' = {a \in DOMAIN leave : Waiting(Store, a)}
             /\ UNCHANGED <<storeVars, stop>>
    <2>1. Places'
      BY ZenonT(60), <1>7 DEF Places, Ending, storeVars
    <2>2. QED
      BY ZenonT(60), <1>2, <1>6, <1>7, <2>1
  <1>8. CASE /\ pc = "last records" /\ pc' = "last pairs" /\ todo' = DOMAIN pairs
             /\ UNCHANGED <<storeVars, stop>>
    <2>1. Places'
      <3>1. todo' \subseteq 1 .. Len(pairs') /\ pc' = "last pairs"
        <4>1. DOMAIN pairs = 1 .. Len(pairs)
          BY <1>2
        <4>2. pairs' = pairs /\ todo' = DOMAIN pairs /\ pc' = "last pairs"
          BY ZenonT(60), <1>8 DEF storeVars
        <4>3. QED
          BY ZenonT(60), <4>1, <4>2
      <3>2. QED
        BY ZenonT(60), <3>1 DEF Places, Ending
    <2>2. QED
      BY ZenonT(60), <1>2, <1>6, <1>8, <2>1
  <1>9. CASE pc = "last pairs" /\ pc' = "drain" /\ stop' = TRUE /\ UNCHANGED <<storeVars, todo>>
    <2>1. Places'
      BY ZenonT(60), <1>9 DEF Places, Ending
    <2>2. QED
      BY ZenonT(60), <1>6, <1>9, <2>1
  <1>10. QED
    BY ZenonT(60), <1>3, <1>4, <1>5, <1>7, <1>8, <1>9 DEF SaveAllPlayers

\* The last replies are taken, and no record is left.
LEMMA ShutdownOK ==
  ASSUME StoreInvariant, Shutdown
  PROVE  StoreInvariant'
  <1> DEFINE final == FoldLeft(OnSaveReply, Store, saveReplies)
             none == [x \in {} |-> x]
             t == [final EXCEPT !.leave = <<>>]
  <1>1. /\ Good(Store, {}) /\ Store \in StoreState /\ saveReplies \in Seq(SaveReply)
        /\ LoopOK /\ stop \in BOOLEAN
    BY StoreNow
  <1>2. /\ pc' = "stopped" /\ saveReplies' = <<>> /\ results' = <<>> /\ stop' = stop
        /\ Becomes(t) /\ lost' = DOMAIN final.leave
        /\ UNCHANGED <<frame, inbox, loading, nextSession, threadVars>>
    BY DEF Shutdown
  <1>3. final \in Kept(Store)
    BY <1>1, LastRepliesOK
  <1> HIDE DEF final
  <1>4. final \in StoreState /\ Good(final, {}) /\ Sound(final) /\ Follows(Store, final)
    BY <1>3 DEF Kept, Good
  <1> DEFINE nothing == <<>>
  <1>5. nothing \in Records /\ DOMAIN nothing = {}
    <2>1. DOMAIN nothing = {}
      OBVIOUS
    <2>2. nothing \in [{} -> LeaveRecord]
      OBVIOUS
    <2>3. QED
      BY <2>1, <2>2, RecordsType
  <1>6. OnlyLeave(final, t, nothing)
    BY DEF OnlyLeave
  <1> HIDE DEF t, nothing
  <1>7. /\ Sound(t) /\ t.leave = nothing
        /\ t.player = final.player /\ t.pairs = final.pairs /\ t.tickEnd = final.tickEnd
        /\ t.raised = final.raised
    BY <1>4, <1>5, <1>6, LeaveChanges
  <1>8. Good(t, {})
    <2>1. Listed(t)
      BY <1>4, <1>7 DEF Good, Listed
    <2>2. \A a \in Account : \A n : LinkHolds(final, a, n) => LinkHolds(t, a, n)
      BY <1>7 DEF LinkHolds
    <2>3. Held(t, {})
      BY <1>4, <1>5, <1>7, <2>2 DEF Good, Held
    <2>4. QED
      BY <1>7, <2>1, <2>3 DEF Good
  <1>9. Follows(Store, t)
    BY <1>4, <1>5, <1>7 DEF Follows
  <1>10. Places'
    BY <1>2 DEF Places, Ending
  <1>11. lost' \subseteq Account
    BY SMTT(60), ZenonT(60), <1>2, <1>4, StoreParts
  <1>12. /\ results' \in Seq(LoadResult) /\ saveReplies' \in Seq(SaveReply) /\ stop' \in BOOLEAN
         /\ frame' \in 0 .. PeriodFrames /\ inbox' \in Seq(LoadResult)
         /\ UNCHANGED <<threadVars, loading, nextSession>>
    BY <1>1, <1>2 DEF LoopOK
  <1>13. QED
    BY <1>2, <1>8, <1>9, <1>10, <1>11, <1>12, SettlesFollowing

-----------------------------------------------------------------------------
(* The workers, and the whole. *)

LEMMA DbThreadOK ==
  ASSUME StoreInvariant, NEW w \in Worker, DbThread(w)
  PROVE  StoreInvariant'
  <1>1. /\ WorkerStep(w)
        /\ UNCHANGED <<player, leave, leaveSeq, pairs, tickEnd, inflight, raised>>
        /\ UNCHANGED <<pc, frame, inbox, todo, loading, nextSession, lost>>
    BY DEF DbThread, loopVars, ghosts
  <1>2. WorkerTypeOK' /\ Paired'
    BY <1>1, WorkerStepOK DEF StoreInvariant
  <1> DEFINE queues == slot'
             t == [Store EXCEPT !.slot = queues]
  <1>3. /\ Sound(Store) /\ Good(Store, {}) /\ Store \in StoreState
        /\ LoopOK /\ LoadsApart /\ Untouched(Store, ToCome)
    BY StoreNow
  <1>4. QueuesOK(queues)
    BY <1>2 DEF WorkerTypeOK, Paired, QueuesOK
  <1>5. Store' = t
    BY <1>1 DEF Store
  <1> HIDE DEF queues
  <1>6. Sound(t) /\ Quiet(Store, t)
    BY <1>3, <1>4, QueuesChange
  <1>7. Good(t, {}) /\ Untouched(t, ToCome)
    BY <1>3, <1>6, QuietGood, QuietFollows, FollowsUntouched
  <1> HIDE DEF t
  <1>8. LoopOK' /\ LoadsApart' /\ ToCome' = ToCome
    BY <1>1, <1>3 DEF LoopOK, LoadsApart, ToCome
  <1>9. Good(Store', {}) /\ Untouched(Store', ToCome')
    BY <1>5, <1>7, <1>8
  <1>10. Places' /\ NoRecordOverwritten'
    BY ZenonT(60), <1>1 DEF StoreInvariant, Places, InGame, NoRecordOverwritten
  <1>11. QED
    BY <1>2, <1>8, <1>9, <1>10 DEF StoreInvariant

LEMMA StutterOK ==
  ASSUME StoreInvariant, UNCHANGED vars
  PROVE  StoreInvariant'
  <1>1. /\ UNCHANGED <<player, leave, leaveSeq, pairs, tickEnd, inflight, slot, raised>>
        /\ UNCHANGED <<pc, frame, inbox, todo, loading, nextSession, lost>>
        /\ UNCHANGED <<batch, out, mysql, reconnectFailed, db, exited, faults>>
        /\ UNCHANGED <<results, saveReplies, stop>>
    BY DEF vars, storeVars, loopVars, threadVars, boxVars, ghosts
  <1>2. Store' = Store
    BY <1>1 DEF Store
  <1>3. Good(Store', {}) /\ Untouched(Store, ToCome)
    BY <1>2 DEF StoreInvariant
  <1>4. LoopOK' /\ LoadsApart' /\ ToCome' = ToCome
    BY <1>1 DEF StoreInvariant, LoopOK, LoadsApart, ToCome
  <1>5. Places' /\ NoRecordOverwritten' /\ WorkerTypeOK' /\ Paired'
    BY ZenonT(60), <1>1
       DEF StoreInvariant, Places, InGame, NoRecordOverwritten, WorkerTypeOK, Paired
  <1>6. Untouched(Store', ToCome')
    BY <1>2, <1>3, <1>4
  <1>7. QED
    BY <1>3, <1>4, <1>5, <1>6 DEF StoreInvariant

LEMMA StoreInitOK ==
  ASSUME StoreInit
  PROVE  StoreInvariant
  <1>1. WorkerInit /\ StoreIdle /\ nextSession = 1
        /\ player = [a \in Account |-> Fresh(0, NoRow, BareBag, FALSE)]
    BY DEF StoreInit
  <1>2. WorkerTypeOK /\ Paired
    BY <1>1, WorkerInitOK
  <1>3. \A a \in Account : /\ player[a] \in PlayerState /\ player[a].session = 0
                           /\ player[a].bundleNo = 0
    <2>1. NoRow \in Row /\ BareBag \in Bag /\ 0 \in Nat /\ FALSE \in BOOLEAN
      BY DEF NoRow, Row, BareBag, Bag
    <2>2. QED
      BY ZenonT(60), <1>1, <2>1, FreshType
  <1>4. /\ leave = <<>> /\ leaveSeq = 0 /\ pairs = <<>> /\ tickEnd = <<>>
        /\ inflight = 0 /\ raised = {} /\ pc = "events" /\ frame = 0 /\ inbox = <<>>
        /\ lost = {} /\ loading = [a \in Account |-> 0]
    BY <1>1 DEF StoreIdle
  <1>5. Store.player = player /\ Store.leave = leave /\ Store.pairs = pairs
        /\ Store.tickEnd = tickEnd /\ Store.slot = slot /\ Store.raised = raised
        /\ Store.inflight = inflight
    BY DEF Store
  <1>6. QueuesOK(slot)
    BY <1>2 DEF WorkerTypeOK, Paired, QueuesOK
  <1>7. Store \in StoreState
    <2>1. player \in [Account -> PlayerState]
      BY <1>1, <1>3
    <2>2. leave \in Records
      <3>1. leave \in [{} -> LeaveRecord]
        BY <1>4
      <3>2. QED
        BY <3>1, RecordsType
    <2>3. slot \in [Worker -> SlotState]
      BY <1>6 DEF QueuesOK
    <2>4. leaveSeq \in 0 .. SeqMax /\ pairs \in Seq(Link) /\ tickEnd \in Seq(Nat \ {0})
          /\ inflight \in Int /\ raised \in SUBSET Errors
      BY <1>4, StoreAssumption
    <2>5. QED
      BY <2>1, <2>2, <2>3, <2>4 DEF Store, StoreState
  <1>8. Flying(Store) = {}
    BY <1>3, <1>5 DEF Flying
  <1>9. Sound(Store)
    BY <1>4, <1>5, <1>6, <1>7, <1>8, FS_EmptySet DEF Sound
  <1>10. DOMAIN leave = {} /\ Len(tickEnd) = 0
    BY <1>4
  <1>11. Listed(Store)
    BY <1>3, <1>5, <1>10 DEF Listed
  <1>12. Held(Store, {})
    BY <1>3, <1>5, <1>10 DEF Held
  <1>13. LoopOK /\ LoadsApart
    BY <1>1, <1>4, StoreAssumption DEF LoopOK, LoadsApart
  <1>14. Untouched(Store, ToCome)
    <2>1. \A n \in ToCome : n # 0
      BY <1>1 DEF ToCome
    <2>2. QED
      BY <1>3, <1>5, <1>10, <2>1 DEF Untouched
  <1>15. Places /\ NoRecordOverwritten
    BY <1>4, <1>10 DEF Places, Ending, NoRecordOverwritten
  <1>16. QED
    BY <1>2, <1>9, <1>11, <1>12, <1>13, <1>14, <1>15 DEF StoreInvariant, Good

\* Every step of the game loop, of a player and of a worker keeps the invariant.
LEMMA StoreNextOK ==
  ASSUME StoreInvariant, [Next]_vars
  PROVE  StoreInvariant'
  <1>1. CASE GameLoop
    BY <1>1, ProcessDbResultsOK, HandleLoadOK, TickSavesOK, ResendRecordOK, ResendPairOK,
       TickEndSaveOK, SaveAllPlayersOK, ShutdownOK DEF GameLoop
  <1>2. CASE Players
    BY SMTT(60), ZenonT(60), <1>2, LoginOK, DisconnectOK, MoveOK, ChangeValueOK, ChangeBagOK,
       TradeOK DEF Players
  <1>3. CASE Stop
    BY <1>3, StopOK
  <1>4. CASE \E w \in Worker : DbThread(w)
    BY <1>4, DbThreadOK
  <1>5. CASE Finished \/ UNCHANGED vars
    BY <1>5, StutterOK DEF Finished
  <1>6. QED
    BY <1>1, <1>2, <1>3, <1>4, <1>5 DEF Next

LEMMA StoreInvariantHolds == Spec => []StoreInvariant
  <1>1. StoreInit => StoreInvariant
    BY StoreInitOK
  <1>2. StoreInvariant /\ [Next]_vars => StoreInvariant'
    BY StoreNextOK
  <1>3. QED
    BY <1>1, <1>2, PTL DEF Spec

-----------------------------------------------------------------------------
(* The theorems. *)

LEMMA SmallSequences ==
  ASSUME NEW S, NEW f \in [1 .. 2 -> S]
  PROVE  f \in Seq(S)
  <1>1. Seq(S) = UNION {[1 .. n -> S] : n \in Nat}
    BY SeqDef
  <1>2. 2 \in Nat
    OBVIOUS
  <1>3. QED
    BY <1>1, <1>2, Zenon

\* Every variable of the store keeps its type: bundle numbers, and with them
\* the numbers of leave records, stay in their width; the queues, the link
\* vector and the list hold what they are for; the gauge is not negative.
THEOREM StoreTypes == Spec => []TypeOK
  <1>1. ASSUME StoreInvariant
        PROVE  TypeOK
    <2>1. /\ Sound(Store) /\ Store \in StoreState /\ LoopOK /\ WorkerTypeOK
          /\ Store.player = player /\ Store.leave = leave /\ Store.pairs = pairs
          /\ Store.tickEnd = tickEnd
      BY <1>1, StoreNow DEF StoreInvariant
    <2>2. /\ player \in [Account -> PlayerState] /\ DOMAIN leave \subseteq Account
          /\ \A a \in DOMAIN leave : leave[a] \in LeaveRecord
          /\ pairs \in Seq(Link) /\ tickEnd \in Seq(Nat \ {0})
      BY <2>1, StoreParts
    <2>3. leaveSeq \in 0 .. SeqMax /\ inflight \in Int /\ inflight >= Cardinality(Flying(Store))
      BY <2>1 DEF Sound, StoreState, Store
    <2>4. inflight \in Nat
      BY <2>3, FlyingFinite
    <2>5. \A link \in Link : link \in PairLink
      BY SmallSequences DEF Link, PairLink
    <2>6. pairs \in Seq(PairLink)
      BY <2>2, <2>5
    <2>7. QED
      BY SMTT(60), ZenonT(60), <2>1, <2>2, <2>3, <2>4, <2>6 DEF TypeOK, LoopOK
  <1>2. QED
    BY <1>1, StoreInvariantHolds, PTL

\* The gauge that SetInflight asserts not to be negative covers every bundle on
\* its way, whatever is refused, fails, loses its owner or is answered late.
GaugeCovers == inflight >= Cardinality({a \in Account : player[a].bundleNo # 0})

THEOREM GaugeNeverTooLow == Spec => []GaugeCovers
  <1>1. StoreInvariant => GaugeCovers
    BY StoreNow DEF Sound, Flying, Store, GaugeCovers
  <1>2. QED
    BY <1>1, StoreInvariantHolds, PTL

\* A character marked as listed is in the tick-end list exactly once, and only
\* then: no request to save it is swallowed by a mark that nothing clears.
THEOREM ListedOnce == Spec => []ListedIsListed
  <1>1. ASSUME StoreInvariant, NEW a \in Account, InGame(a)
        PROVE  Cardinality({i \in DOMAIN tickEnd : tickEnd[i] = player[a].session})
                 = (IF player[a].listed THEN 1 ELSE 0)
    <2> DEFINE n == player[a].session
               places == {i \in DOMAIN tickEnd : tickEnd[i] = n}
    <2>1. /\ Listed(Store) /\ Store.player = player /\ Store.tickEnd = tickEnd
          /\ tickEnd \in Seq(Nat \ {0}) /\ player[a] \in PlayerState
      BY <1>1, StoreNow, StoreParts DEF Good
    <2>2. DOMAIN tickEnd = 1 .. Len(tickEnd)
      BY <2>1
    <2>3. /\ \A i, j \in places : i = j
          /\ player[a].listed <=> places # {}
      BY SMTT(60), <1>1, <2>1, <2>2 DEF Listed, InGame
    <2> HIDE DEF places
    <2>4. CASE player[a].listed
      <3>1. PICK i \in places : TRUE
        BY <2>3, <2>4
      <3>2. places = {i}
        BY <2>3, <3>1
      <3>3. QED
        BY <2>4, <3>2, FS_Singleton DEF places
    <2>5. CASE ~player[a].listed
      BY <2>3, <2>5, FS_EmptySet DEF places
    <2>6. QED
      BY <2>4, <2>5
  <1>2. StoreInvariant => ListedIsListed
    BY <1>1 DEF ListedIsListed
  <1>3. QED
    BY <1>2, StoreInvariantHolds, PTL

\* Whoever is held back by a trade - a character, or the record it left - is
\* held by a link that is still there to release it: no account is locked out,
\* and no character kept from being saved, by a hold nobody owns.
THEOREM HoldsAreOwned == Spec => []HoldsHaveLinks
  <1>1. ASSUME StoreInvariant
        PROVE  HoldsHaveLinks
    <2> DEFINE Holds(link, a, session) ==
                 \E k \in 1 .. 2 : link.account[k] = a /\ link.session[k] = session
    <2>1. /\ Held(Store, {}) /\ Store.player = player /\ Store.leave = leave
          /\ Store.pairs = pairs /\ pairs \in Seq(Link)
      BY <1>1, StoreNow, StoreParts DEF Good
    <2>2. ASSUME NEW a \in Account, NEW n, LinkHolds(Store, a, n)
          PROVE  \E link \in Range(pairs) : Holds(link, a, n)
      <3>1. PICK i \in 1 .. Len(pairs), k \in 1 .. 2 :
              pairs[i].account[k] = a /\ pairs[i].session[k] = n
        BY <2>1, <2>2 DEF LinkHolds
      <3>2. pairs[i] \in Range(pairs)
        BY <2>1, <3>1 DEF Range
      <3>3. QED
        BY <3>1, <3>2
    <2>3. QED
      BY <2>1, <2>2 DEF Held, HoldsHaveLinks, InGame
  <1>2. QED
    BY <1>1, StoreInvariantHolds, PTL

\* No leave record ever overwrites another, which the comment on PutLeaveRecord
\* calls impossible: while an account has one, nobody enters with that account.
THEOREM RecordsNotOverwritten == Spec => []NoRecordOverwritten
  <1>1. StoreInvariant => NoRecordOverwritten
    BY DEF StoreInvariant
  <1>2. QED
    BY <1>1, StoreInvariantHolds, PTL

=============================================================================
