--------------------------- MODULE CharacterStore ---------------------------
(***************************************************************************)
(* The character store of the game server (CharacterStore.cpp) on top of   *)
(* the database workers: what is saved, when, and what happens to it when  *)
(* queues refuse, connections break, players leave and come back while     *)
(* their last save is under way, two players trade, and the server stops.  *)
(*                                                                         *)
(* One thread, the game loop, runs everything here; pc says where in its   *)
(* tick it is.  The workers run beside it, so each iteration of a loop     *)
(* that takes a lock is a step of its own.  The functions of the store are *)
(* operators from a store state to a store state, named as in the source,  *)
(* and an action is the composition of the calls its handler makes.        *)
(***************************************************************************)
EXTENDS DBWorker, TLC, SequencesExt

CONSTANTS SeqMax,        \* largest bundle number (UINT32_MAX); 0 is never used
          PeriodFrames,  \* ticks between two periodic saves
          MaxVersion,    \* bound on the changes of a character
          MaxSessions,   \* bound on the logins of a behaviour
          Deeds,         \* what players do in this instance
          Stopping       \* does the server stop in this instance

ASSUME StoreAssumption ==
    /\ IsFiniteSet(Account)
    /\ SeqMax \in Nat \ {0}
    /\ PeriodFrames \in Nat \ {0}
    /\ MaxVersion \in Nat \ {0}
    /\ MaxSessions \in Nat
    /\ Deeds \subseteq {"move", "value", "bag", "trade"}
    /\ Stopping \in BOOLEAN

VARIABLES
    pc,           \* where the game loop is
    frame,        \* ticks since the last periodic save
    inbox,        \* loads ProcessDbResults swapped out and has not handled
    player,       \* player[a]: the character in memory; outside the game,
                  \* row and bag are what it last had there
    leave,        \* leave records, a function from accounts
    leaveSeq,     \* number of the last leave-record bundle
    pairs,        \* pair links, oldest first
    tickEnd,      \* sessions to look at when the tick ends
    inflight,     \* gauge: characters in the game with a bundle on its way
    loading,      \* loading[a]: session that waits for a's load, or 0
    nextSession,  \* number of the next session
    todo,         \* accounts, then links, a loop over records has left
    swaps,        \* trades so far, with the versions both sides reached
    raised,       \* error logs the source calls impossible, once written
    lost,         \* accounts whose last save was given up at shutdown
    rolledBack    \* accounts that came back to an older state than they left

storeVars == <<player, leave, leaveSeq, pairs, tickEnd, inflight, slot, raised>>
ghosts == <<swaps, lost, rolledBack>>
boxVars == <<results, saveReplies, stop>>
loopVars == <<pc, frame, inbox, todo, loading, nextSession, ghosts>>
threadVars == <<batch, out, mysql, reconnectFailed, db, exited, faults>>
vars == <<storeVars, loopVars, threadVars, boxVars>>

Store == [player |-> player, leave |-> leave, leaveSeq |-> leaveSeq,
          pairs |-> pairs, tickEnd |-> tickEnd, inflight |-> inflight,
          slot |-> slot, raised |-> raised]

Becomes(s) ==
    /\ player' = s.player
    /\ leave' = s.leave
    /\ leaveSeq' = s.leaveSeq
    /\ pairs' = s.pairs
    /\ tickEnd' = s.tickEnd
    /\ inflight' = s.inflight
    /\ slot' = s.slot
    /\ raised' = s.raised

-----------------------------------------------------------------------------
(* One character. *)

FirstRow == [pos |-> 1, val |-> 1]
BareBag == [s \in Slot |-> 0]

\* A character in memory with nothing marked and nothing on its way.
Fresh(session, row, bag, dirty) ==
    [session |-> session, row |-> row, bag |-> bag,
     dbDirty |-> dirty, saved |-> row.val, unsaved |-> {},
     nextNo |-> 1, bundleNo |-> 0, again |-> FALSE, listed |-> FALSE,
     paired |-> FALSE, savedBefore |-> row.val, posDirty |-> FALSE, slots |-> {}]

InGame(a) == player[a].session # 0

\* What a character is now, or was when it was last in the game.
Memory(a) == [row |-> player[a].row, bag |-> player[a].bag]

ShouldSave(p) == p.dbDirty \/ p.unsaved # {} \/ p.row.val # p.saved

\* Mutated form: the wrap comes one number too late.
NextNoLate(n) == IF n > SeqMax THEN 1 ELSE n + 1

NextNo(n) == IF n = SeqMax THEN 1 ELSE n + 1

Carried(bag, slots) == [s \in Slot |-> IF s \in slots THEN bag[s] ELSE NotCarried]

BundleOf(a, p) ==
    [kind |-> "SAVE", account |-> a, session |-> p.session, no |-> p.nextNo,
     row |-> p.row, rows |-> Carried(p.bag, p.unsaved), pairNext |-> 0]

\* PrepareBundle moves the marks into the flight record, AbortBundle puts them
\* back, CommitBundle makes the flight real.
PrepareBundle(p) ==
    [p EXCEPT !.nextNo = NextNo(@),
              !.savedBefore = p.saved, !.saved = p.row.val,
              !.posDirty = p.dbDirty, !.dbDirty = FALSE,
              !.slots = p.unsaved, !.unsaved = {}]

\* Mutated forms: slots, or the compared values, are not put back.
AbortBundleLosesSlots(p) ==
    [p EXCEPT !.saved = p.savedBefore, !.dbDirty = @ \/ p.posDirty, !.slots = {}]

AbortBundleLosesMark(p) ==
    [p EXCEPT !.saved = p.savedBefore, !.unsaved = @ \cup p.slots, !.slots = {}]

AbortBundle(p) ==
    [p EXCEPT !.saved = p.savedBefore,
              !.dbDirty = @ \/ p.posDirty,
              !.unsaved = @ \cup p.slots, !.slots = {}]

CommitBundle(p, no) == [p EXCEPT !.bundleNo = no, !.again = FALSE]

-----------------------------------------------------------------------------
(* Saves of characters in the game. *)

\* Mutated form: every request lists the character again.
RequestSaveAgain(s, a) ==
    [s EXCEPT !.player[a].listed = TRUE,
              !.tickEnd = Append(@, s.player[a].session)]

RequestSave(s, a) ==
    IF s.player[a].listed THEN s
    ELSE [s EXCEPT !.player[a].listed = TRUE,
                   !.tickEnd = Append(@, s.player[a].session)]

\* Mutated form: a character held by a link is saved by itself.
SendBundleThoughPaired(s, a) ==
    LET p == s.player[a]
    IN  IF p.bundleNo # 0 THEN [s EXCEPT !.player[a].again = TRUE]
        ELSE IF ~SaveFits(s.slot, SlotIndex(a)) THEN s
        ELSE [s EXCEPT !.player[a] = CommitBundle(PrepareBundle(p), p.nextNo),
                       !.slot = EnqueueSave(@, BundleOf(a, p)),
                       !.inflight = @ + 1]

\* The save of one character, when a tick ends.
SendBundle(s, a) ==
    LET p == s.player[a]
    IN  CASE p.paired -> s
          [] ~p.paired /\ p.bundleNo # 0 -> [s EXCEPT !.player[a].again = TRUE]
          [] ~p.paired /\ p.bundleNo = 0 /\ SaveFits(s.slot, SlotIndex(a)) ->
               [s EXCEPT !.player[a] = CommitBundle(PrepareBundle(p), p.nextNo),
                         !.slot = EnqueueSave(@, BundleOf(a, p)),
                         !.inflight = @ + 1]
          [] OTHER -> [s EXCEPT !.player[a] = AbortBundle(PrepareBundle(p))]

-----------------------------------------------------------------------------
(* Leave records: the last bundle of a character that is gone. *)

LeaveBundle(a, rec) ==
    [kind |-> "SAVE", account |-> a, session |-> 0, no |-> rec.no,
     row |-> rec.row, rows |-> rec.rows, pairNext |-> 0]

\* The next number goes to the record whether or not the queue takes it.
NumberRecord(s, a) ==
    LET no == NextNo(s.leaveSeq)
    IN  [s EXCEPT !.leaveSeq = no, !.leave[a].no = no]

SendLeaveRecord(s, a) ==
    LET t == NumberRecord(s, a)
        fits == SaveFits(s.slot, SlotIndex(a))
    IN  [t EXCEPT !.leave[a].inFlight = fits,
                  !.slot = IF fits THEN EnqueueSave(@, LeaveBundle(a, t.leave[a])) ELSE @]

\* Mutated form: held records count as waiting too.
WaitingOrHeld(s, a) == a \in DOMAIN s.leave /\ ~s.leave[a].inFlight

Waiting(s, a) == a \in DOMAIN s.leave /\ ~s.leave[a].inFlight /\ ~s.leave[a].paired

LinksOf(s, a) == {i \in DOMAIN s.pairs : a \in Range(s.pairs[i].account)}

\* The first link of an account, in the order of the vector; side in it.
FindPair(s, a) == CHOOSE i \in LinksOf(s, a) : \A j \in LinksOf(s, a) : i <= j

SideOf(link, a) == IF link.account[1] = a THEN 1 ELSE 2

\* Mutated form: the gauge keeps counting the bundle.
DisownUncounted(s, a) == [s EXCEPT !.player[a].bundleNo = 0]

\* The bundle on its way loses its owner.
Disown(s, a) ==
    IF s.player[a].bundleNo = 0 THEN s
    ELSE [s EXCEPT !.player[a].bundleNo = 0, !.inflight = @ - 1]

\* Mutated form: the link keeps the session of the character that left.
HandOverNothing(s, a) == s

\* The side of a link passes from the character to its leave record.
HandOver(s, a) ==
    IF ~s.player[a].paired \/ LinksOf(s, a) = {} THEN s
    ELSE LET i == FindPair(s, a)
         IN  [s EXCEPT !.pairs[i].session[SideOf(s.pairs[i], a)] = 0]

PutLeaveRecord(s, a, rec) ==
    [s EXCEPT !.leave = [x \in DOMAIN @ \cup {a} |-> IF x = a THEN rec ELSE @[x]],
              !.raised = IF a \in DOMAIN s.leave
                         THEN @ \cup {"leave record overwritten"} ELSE @]

\* The last bundle of a character: the marked slots and those on their way.  A
\* character held by a link leaves a held record, which is not sent by itself.
LeaveFinal(s, a) ==
    LET p == s.player[a]
        rec == [row |-> p.row, rows |-> Carried(p.bag, p.unsaved \cup p.slots),
                no |-> 0, inFlight |-> FALSE, paired |-> p.paired]
        put == [PutLeaveRecord(HandOver(Disown(s, a), a), a, rec) EXCEPT
                  !.player[a] = [@ EXCEPT !.unsaved = {}, !.slots = {},
                                          !.paired = FALSE]]
    IN  IF p.paired THEN put ELSE SendLeaveRecord(put, a)

\* ReleasePlayer: the last save, then the player object goes away.
LeaveGame(s, a) ==
    LET t == LeaveFinal(s, a)
    IN  [t EXCEPT !.player[a] = Fresh(0, @.row, @.bag, FALSE)]

-----------------------------------------------------------------------------
(* Pair links: a trade whose two sides are not yet saved. *)

Alive(link, k) == link.session[k] # 0

\* A side that left must have a leave record held by the link.
SideMissing(s, link, k) ==
    /\ ~Alive(link, k)
    /\ ~(link.account[k] \in DOMAIN s.leave /\ s.leave[link.account[k]].paired)

\* A link names the session of a character that is gone; the code asserts that
\* no link does, and uses the character it did not find.
SideGone(s, link, k) ==
    Alive(link, k) /\ s.player[link.account[k]].session # link.session[k]

PrepareSide(s, link, k) ==
    LET a == link.account[k]
    IN  IF Alive(link, k) THEN [s EXCEPT !.player[a] = PrepareBundle(@)]
                          ELSE NumberRecord(s, a)

AbortSide(s, link, k) ==
    IF Alive(link, k) THEN [s EXCEPT !.player[link.account[k]] = AbortBundle(@)] ELSE s

CommitSide(s, link, k, no) ==
    LET a == link.account[k]
    IN  IF Alive(link, k)
        THEN [s EXCEPT !.player[a] = CommitBundle(@, no), !.inflight = @ + 1]
        ELSE [s EXCEPT !.leave[a].inFlight = TRUE]

SideHead(s, prepared, link, k) ==
    LET a == link.account[k]
    IN  IF Alive(link, k) THEN BundleOf(a, s.player[a])
                          ELSE LeaveBundle(a, prepared.leave[a])

\* Both sides in one bundle: what the living side has now, or the held record
\* of the side that left.
SendPair(s, i) ==
    LET link == s.pairs[i]
        one == PrepareSide(s, link, 1)
        both == PrepareSide(one, link, 2)
        head == [k \in 1 .. 2 |-> SideHead(s, both, link, k)]
        no == [k \in 1 .. 2 |-> head[k].no]
        missing == "pair side missing"
        committed == CommitSide(CommitSide(both, link, 1, no[1]), link, 2, no[2])
        aborted == AbortSide(AbortSide(both, link, 1), link, 2)
        gone == SideGone(s, link, 1) \/ (~SideMissing(s, link, 1) /\ SideGone(s, link, 2))
    IN  CASE gone -> [s EXCEPT !.raised = @ \cup {"pair player gone"}]
          [] ~gone /\ SideMissing(s, link, 1) -> [s EXCEPT !.raised = @ \cup {missing}]
          [] ~gone /\ ~SideMissing(s, link, 1) /\ SideMissing(s, link, 2) ->
               [AbortSide(one, link, 1) EXCEPT !.raised = @ \cup {missing}]
          [] ~gone /\ ~SideMissing(s, link, 1) /\ ~SideMissing(s, link, 2)
             /\ ~PairFits(s.slot, PairSlot(link.account[1], link.account[2])) ->
               [aborted EXCEPT !.pairs[i].inFlight = FALSE]
          [] OTHER ->
               [committed EXCEPT
                  !.slot = EnqueueSavePair(@, head[1], head[2]),
                  !.pairs[i] = [@ EXCEPT !.no = no, !.replied = <<FALSE, FALSE>>,
                                         !.ok = TRUE, !.inFlight = TRUE]]

CanSaveTradeNow(a, b) ==
    \A c \in {a, b} : player[c].bundleNo = 0 /\ ~player[c].paired

SaveTrade(s, a, b) ==
    LET link == [account |-> <<a, b>>,
                 session |-> <<s.player[a].session, s.player[b].session>>,
                 no |-> <<0, 0>>, replied |-> <<FALSE, FALSE>>,
                 ok |-> TRUE, inFlight |-> FALSE]
        t == [s EXCEPT !.player[a].paired = TRUE, !.player[b].paired = TRUE,
                       !.pairs = Append(@, link)]
    IN  SendPair(t, Len(t.pairs))

\* One side of a link that is done: a living side may save by itself again, a
\* held record the pair did not carry is sent.
ReleasePairSide(s, a, session) ==
    CASE session # 0 /\ s.player[a].session = session ->
           RequestSave([s EXCEPT !.player[a].paired = FALSE], a)
      [] session = 0 /\ a \in DOMAIN s.leave /\ s.leave[a].paired ->
           LET t == [s EXCEPT !.leave[a].paired = FALSE]
           IN  IF t.leave[a].inFlight THEN t ELSE SendLeaveRecord(t, a)
      [] OTHER -> s

-----------------------------------------------------------------------------
(* Replies. *)

OnSaveReply(s, reply) ==
    LET a == reply.account
        p == s.player[a]
        landed == [s EXCEPT !.player[a] = [p EXCEPT !.bundleNo = 0, !.again = FALSE,
                                                    !.slots = {}],
                            !.inflight = @ - 1]
        failed == [s EXCEPT !.player[a] = AbortBundle([p EXCEPT !.bundleNo = 0,
                                                                !.again = FALSE]),
                            !.inflight = @ - 1]
        ofPlayer == reply.session # 0 /\ p.session = reply.session /\ p.bundleNo = reply.no
        ofRecord == /\ reply.session = 0
                    /\ a \in DOMAIN s.leave
                    /\ s.leave[a].inFlight
                    /\ s.leave[a].no = reply.no
    IN  CASE ofPlayer /\ reply.ok -> IF p.again THEN RequestSave(landed, a) ELSE landed
          [] ofPlayer /\ ~reply.ok -> failed
          [] ofRecord /\ reply.ok ->
               [s EXCEPT !.leave = [x \in DOMAIN @ \ {a} |-> @[x]]]
          [] ofRecord /\ ~reply.ok -> [s EXCEPT !.leave[a].inFlight = FALSE]
          [] OTHER -> s     \* an orphan: its owner left, or was overtaken

OnPairReply(s, reply) ==
    LET i == FindPair(s, reply.account)
        link == s.pairs[i]
        k == SideOf(link, reply.account)
        noted == [link EXCEPT !.replied[k] = TRUE, !.ok = @ /\ reply.ok]
        expected == /\ LinksOf(s, reply.account) # {}
                    /\ link.inFlight
                    /\ link.no[k] = reply.no
                    /\ ~link.replied[k]
        complete == noted.replied = <<TRUE, TRUE>>
        unlinked == [s EXCEPT !.pairs = RemoveAt(@, i)]
    IN  CASE ~expected -> s
          [] expected /\ ~complete -> [s EXCEPT !.pairs[i] = noted]
          [] expected /\ complete /\ ~noted.ok ->
               [s EXCEPT !.pairs[i] = [noted EXCEPT !.inFlight = FALSE]]
          [] OTHER ->
               ReleasePairSide(ReleasePairSide(unlinked, link.account[1], link.session[1]),
                               link.account[2], link.session[2])

-----------------------------------------------------------------------------
\* Nothing is under way.
StoreIdle ==
    /\ pc = "events"
    /\ frame = 0
    /\ inbox = <<>>
    /\ leave = <<>>
    /\ leaveSeq = 0
    /\ pairs = <<>>
    /\ tickEnd = <<>>
    /\ inflight = 0
    /\ loading = [a \in Account |-> 0]
    /\ todo = {}
    /\ swaps = {}
    /\ raised = {}
    /\ lost = {}
    /\ rolledBack = {}

StoreInit ==
    /\ WorkerInit
    /\ StoreIdle
    /\ player = [a \in Account |-> Fresh(0, NoRow, BareBag, FALSE)]
    /\ nextSession = 1


-----------------------------------------------------------------------------
(* The event phase of a tick: logins and disconnections. *)

\* A login kicks whoever plays or waits with this account, then asks for the
\* character; a leave record that waits is sent ahead of the load.
Login(a) ==
    LET gone == IF InGame(a) THEN LeaveGame(Store, a) ELSE Store
        sent == IF Waiting(gone, a) THEN SendLeaveRecord(gone, a) ELSE gone
        job == [kind |-> "LOAD", account |-> a, session |-> nextSession]
        fits == LoadFits(sent.slot, a)
    IN  /\ pc = "events"
        /\ nextSession <= MaxSessions
        /\ nextSession' = nextSession + 1
        /\ loading' = [loading EXCEPT ![a] = IF fits THEN nextSession ELSE 0]
        /\ Becomes(IF fits THEN [sent EXCEPT !.slot = EnqueueLoad(@, job)] ELSE sent)
        /\ UNCHANGED <<pc, frame, inbox, todo, ghosts, threadVars, boxVars>>

Disconnect(a) ==
    /\ pc = "events"
    /\ \/ /\ InGame(a)
          /\ Becomes(LeaveGame(Store, a))
          /\ UNCHANGED loading
       \/ /\ loading[a] # 0
          /\ loading' = [loading EXCEPT ![a] = 0]
          /\ UNCHANGED storeVars
    /\ UNCHANGED <<pc, frame, inbox, todo, nextSession, ghosts, threadVars, boxVars>>

-----------------------------------------------------------------------------
(* The game itself, as far as the store sees it: characters change. *)

Playing(a) == pc \in {"events", "world"} /\ InGame(a)

Keeps == UNCHANGED <<loopVars, threadVars, boxVars>>

Move(a) ==
    /\ "move" \in Deeds
    /\ Playing(a)
    /\ player[a].row.pos < MaxVersion
    /\ Becomes([Store EXCEPT !.player[a].row.pos = @ + 1,
                             !.player[a].dbDirty = TRUE])
    /\ Keeps

\* Experience, hit points, money: compared, not marked; some changes also ask
\* for a save when the tick ends.
ChangeValue(a) ==
    /\ "value" \in Deeds
    /\ Playing(a)
    /\ player[a].row.val < MaxVersion
    /\ LET changed == [Store EXCEPT !.player[a].row.val = @ + 1]
       IN  Becomes(changed) \/ Becomes(RequestSave(changed, a))
    /\ Keeps

TouchSlot(s, a, i) ==
    [s EXCEPT !.player[a].bag[i] = @ + 1, !.player[a].unsaved = @ \cup {i}]

\* Bags change in handlers of network events only, and in trades.
ChangeBag(a) ==
    /\ "bag" \in Deeds
    /\ pc = "events"
    /\ InGame(a)
    /\ \E i \in Slot :
         /\ player[a].bag[i] < MaxVersion
         /\ Becomes(RequestSave(TouchSlot(Store, a, i), a))
    /\ Keeps

\* The swap of a trade, once the store can take it: an item and money change
\* on both sides, the pair is saved, and both inventories are flushed.
Trade(a, b) ==
    /\ "trade" \in Deeds
    /\ a # b
    /\ Playing(a) /\ Playing(b)
    /\ CanSaveTradeNow(a, b)
    /\ \A c \in {a, b} : player[c].row.val < MaxVersion
    /\ \E i, j \in Slot :
         /\ player[a].bag[i] < MaxVersion
         /\ player[b].bag[j] < MaxVersion
         /\ LET swapped == [TouchSlot(TouchSlot(Store, a, i), b, j) EXCEPT
                              !.player[a].row.val = @ + 1,
                              !.player[b].row.val = @ + 1]
            IN  /\ Becomes(RequestSave(RequestSave(SaveTrade(swapped, a, b), a), b))
                /\ swaps' = swaps \cup {[a |-> a, b |-> b, slotA |-> i, slotB |-> j,
                                         bagA |-> player[a].bag[i] + 1,
                                         bagB |-> player[b].bag[j] + 1,
                                         valA |-> player[a].row.val + 1,
                                         valB |-> player[b].row.val + 1]}
    /\ UNCHANGED <<pc, frame, inbox, todo, loading, nextSession, lost, rolledBack,
                   threadVars, boxVars>>

-----------------------------------------------------------------------------
(* ProcessDbResults: swap the box out, then every reply, then every load.  *)
(* Handling the replies is one step with the swap: it takes a lock again   *)
(* only to send a released record, which worker threads see either way     *)
(* behind everything queued before.                                        *)

OnReply(s, reply) == OnPairReply(OnSaveReply(s, reply), reply)

Handling(loads) == IF loads # <<>> THEN "loads" ELSE "world"

ProcessDbResults ==
    /\ pc = "events"
    /\ Becomes(FoldLeft(OnReply, Store, saveReplies))
    /\ saveReplies' = <<>>
    /\ inbox' = results
    /\ results' = <<>>
    /\ pc' = Handling(results)
    /\ UNCHANGED <<frame, todo, loading, nextSession, ghosts, threadVars, stop>>

\* A load is refused while the account has a leave record; a load nobody waits
\* for any more is dropped.  A saved position that cannot be used any more is
\* replaced, and the character is marked.
\* Mutated form: loads are accepted whatever is still to be saved.
BlockedNever(load) == FALSE

Blocked(load) == load.account \in DOMAIN leave

Spawned(load) ==
    IF load.code = "FOUND"
    THEN {Fresh(load.session, load.row, load.bag, FALSE)}
         \cup (IF load.row.pos < MaxVersion
               THEN {Fresh(load.session, [load.row EXCEPT !.pos = @ + 1], load.bag, TRUE)}
               ELSE {})
    ELSE {Fresh(load.session, FirstRow, load.bag, TRUE)}

HandleLoad ==
    LET load == Head(inbox)
        a == load.account
        wanted == loading[a] = load.session
    IN  /\ pc = "loads"
        /\ inbox' = Tail(inbox)
        /\ pc' = Handling(Tail(inbox))
        /\ loading' = [loading EXCEPT ![a] = IF wanted THEN 0 ELSE @]
        /\ IF wanted /\ load.code # "FAILED" /\ ~Blocked(load)
           THEN /\ \E p \in Spawned(load) : player' = [player EXCEPT ![a] = p]
                /\ rolledBack' = IF player[a].row # NoRow
                                    /\ [row |-> load.row, bag |-> load.bag] # Memory(a)
                                 THEN rolledBack \cup {a} ELSE rolledBack
           ELSE UNCHANGED <<player, rolledBack>>
        /\ UNCHANGED <<leave, leaveSeq, pairs, tickEnd, inflight, slot, raised, frame,
                       todo, nextSession, swaps, lost,
                       threadVars, boxVars>>

-----------------------------------------------------------------------------
(* TickSaves, the last thing a tick does. *)

Due == frame + 1 >= PeriodFrames

\* The players of one worker enter its queue in the order of their session
\* slots, which may be any; those that find no room are put back.
Lists(S, n) == {list \in [1 .. n -> S] : \A i, j \in 1 .. n : list[i] = list[j] => i = j}

Smaller(m, n) == IF m < n THEN m ELSE n

PeriodBatch(s, list) ==
    LET ready == {a \in Account : /\ s.player[a].session # 0
                                  /\ ShouldSave(s.player[a])
                                  /\ ~s.player[a].paired}
        sent == UNION {Range(list[w]) : w \in Worker}
    IN  [s EXCEPT
           !.player = [a \in Account |->
                         CASE a \in ready /\ s.player[a].bundleNo # 0 ->
                                [@[a] EXCEPT !.again = TRUE]
                           [] a \in sent -> CommitBundle(PrepareBundle(@[a]), @[a].nextNo)
                           [] a \in ready \ sent /\ s.player[a].bundleNo = 0 ->
                                AbortBundle(PrepareBundle(@[a]))
                           [] OTHER -> @[a]],
           !.slot = [w \in Worker |->
                       [queue |-> @[w].queue \o
                          [i \in 1 .. Len(list[w]) |->
                             BundleOf(list[w][i], s.player[list[w][i]])],
                        loadCount |-> @[w].loadCount,
                        bundleCount |-> @[w].bundleCount + Len(list[w])]],
           !.inflight = @ + Cardinality(sent)]

\* Whom a batch takes: per worker, as many as the queue has room for.
BatchLists(s) ==
    LET idle(w) == {a \in Account : /\ SlotIndex(a) = w
                                    /\ s.player[a].session # 0
                                    /\ ShouldSave(s.player[a])
                                    /\ ~s.player[a].paired
                                    /\ s.player[a].bundleNo = 0}
        room(w) == QueueMax - s.slot[w].bundleCount
    IN  {list \in [Worker -> UNION {Lists(S, n) : S \in SUBSET Account,
                                                  n \in 0 .. Cardinality(Account)}] :
           \A w \in Worker :
             list[w] \in Lists(idle(w), Smaller(Cardinality(idle(w)), room(w)))}

\* Mutated form: failed links are not looked at again.
UnsentIgnored(s) == {}

Unsent(s) == {i \in DOMAIN s.pairs : ~s.pairs[i].inFlight}

\* Where the loop goes when records, links and sessions are left to look at.
Saving(records, links, sessions) ==
    IF records # {} THEN "records"
    ELSE IF links # {} THEN "pairs"
    ELSE IF sessions # <<>> THEN "list" ELSE "events"

LookAt(records, links) ==
    /\ pc' = Saving(records, links, tickEnd)
    /\ todo' = IF records # {} THEN records ELSE links

TickSaves ==
    /\ pc = "world"
    /\ IF Due
       THEN /\ frame' = 0
            /\ \E list \in BatchLists(Store) : Becomes(PeriodBatch(Store, list))
            /\ LookAt({a \in DOMAIN leave : Waiting(Store, a)}, Unsent(Store))
       ELSE /\ frame' = frame + 1
            /\ LookAt({}, {})
            /\ UNCHANGED storeVars
    /\ UNCHANGED <<inbox, loading, nextSession, ghosts, threadVars, boxVars>>

ResendRecord ==
    /\ pc = "records"
    /\ \E a \in todo :
         /\ Becomes(SendLeaveRecord(Store, a))
         /\ LookAt(todo \ {a}, Unsent(Store))
    /\ UNCHANGED <<frame, inbox, loading, nextSession, ghosts, threadVars, boxVars>>

\* The links that are not on their way, in the order of the vector.
ResendPair ==
    LET i == CHOOSE n \in todo : \A m \in todo : n <= m
    IN  /\ pc = "pairs"
        /\ Becomes(SendPair(Store, i))
        /\ LookAt({}, todo \ {i})
        /\ UNCHANGED <<frame, inbox, loading, nextSession, ghosts, threadVars, boxVars>>

\* The sessions that asked for a save; who has left meanwhile is skipped.
TickEndSave ==
    LET next == [Store EXCEPT !.tickEnd = Tail(@)]
        here == {a \in Account : player[a].session = Head(tickEnd)}
    IN  /\ pc = "list"
        /\ \/ /\ here = {}
              /\ Becomes(next)
           \/ \E a \in here :
                LET unlisted == [next EXCEPT !.player[a].listed = FALSE]
                IN  Becomes(IF ShouldSave(player[a]) THEN SendBundle(unlisted, a)
                                                     ELSE unlisted)
        /\ pc' = Saving({}, {}, tickEnd')
        /\ UNCHANGED <<frame, inbox, todo, loading, nextSession, ghosts, threadVars, boxVars>>

-----------------------------------------------------------------------------
(* Shutdown, after the game loop has ended: a last save of everybody, the  *)
(* records that wait, every link; then the workers drain, and what no      *)
(* reply confirmed is given up.                                            *)

Stop ==
    /\ Stopping
    /\ pc = "events"
    /\ pc' = "last players"
    /\ todo' = {a \in Account : InGame(a)}
    /\ UNCHANGED <<storeVars, frame, inbox, loading, nextSession, ghosts, threadVars, boxVars>>

LastOf(phase, send(_, _)) ==
    \E x \in todo :
        /\ pc = phase
        /\ phase = "last pairs" => \A y \in todo : x <= y
        /\ Becomes(send(Store, x))
        /\ todo' = todo \ {x}
        /\ UNCHANGED <<pc, stop>>

SaveAllPlayers ==
    /\ \/ LastOf("last players", LeaveFinal)
       \/ LastOf("last records", SendLeaveRecord)
       \/ LastOf("last pairs", SendPair)
       \/ /\ pc = "last players" /\ todo = {}
          /\ pc' = "last records"
          /\ todo' = {a \in DOMAIN leave : Waiting(Store, a)}
          /\ UNCHANGED <<storeVars, stop>>
       \/ /\ pc = "last records" /\ todo = {}
          /\ pc' = "last pairs"
          /\ todo' = DOMAIN pairs
          /\ UNCHANGED <<storeVars, stop>>
       \/ /\ pc = "last pairs" /\ todo = {}
          /\ pc' = "drain"
          /\ stop' = TRUE
          /\ UNCHANGED <<storeVars, todo>>
    /\ UNCHANGED <<frame, inbox, loading, nextSession, ghosts, threadVars,
                   results, saveReplies>>

\* The workers have ended: their replies are taken, loads are dropped, links
\* are not looked at any more.
Shutdown ==
    /\ pc = "drain"
    /\ exited = Worker
    /\ LET final == FoldLeft(OnSaveReply, Store, saveReplies)
       IN  /\ Becomes([final EXCEPT !.leave = <<>>])
           /\ lost' = DOMAIN final.leave
    /\ pc' = "stopped"
    /\ saveReplies' = <<>>
    /\ results' = <<>>
    /\ UNCHANGED <<frame, inbox, todo, loading, nextSession, swaps, rolledBack,
                   threadVars, stop>>

-----------------------------------------------------------------------------
\* The step the game loop takes by itself, wherever it is.
GameLoop ==
    \/ ProcessDbResults \/ HandleLoad
    \/ TickSaves \/ ResendRecord \/ ResendPair \/ TickEndSave
    \/ SaveAllPlayers \/ Shutdown

\* What players do: at any time of their choice, or never.
Players ==
    \/ \E a \in Account : Login(a) \/ Disconnect(a)
    \/ \E a \in Account : Move(a) \/ ChangeValue(a) \/ ChangeBag(a)
    \/ \E a, b \in Account : Trade(a, b)

DbThread(w) ==
    /\ WorkerStep(w)
    /\ UNCHANGED <<player, leave, leaveSeq, pairs, tickEnd, inflight, raised, loopVars>>

Finished == pc = "stopped" /\ UNCHANGED vars

Next ==
    \/ GameLoop
    \/ Players
    \/ Stop
    \/ \E w \in Worker : DbThread(w)
    \/ Finished

Spec == StoreInit /\ [][Next]_vars

\* The game loop ticks and the workers run; players owe nothing.
\* The first conjunct is WF_vars(GameLoop) with its ENABLED spelled out.
Ticking == pc # "stopped" /\ (pc = "drain" => exited = Worker)

Fairness ==
    /\ []<>~Ticking \/ []<><<GameLoop>>_vars
    /\ \A w \in Worker : WF_vars(DbThread(w))

FairSpec == Spec /\ Fairness

-----------------------------------------------------------------------------
(* Properties. *)

PlayerState ==
    [session : Nat, row : Row, bag : Bag, dbDirty : BOOLEAN, saved : Nat,
     unsaved : SUBSET Slot, nextNo : 1 .. SeqMax, bundleNo : 0 .. SeqMax,
     again : BOOLEAN, listed : BOOLEAN, paired : BOOLEAN, savedBefore : Nat,
     posDirty : BOOLEAN, slots : SUBSET Slot]

LeaveRecord == [row : Row, rows : BagRows, no : 0 .. SeqMax,
                inFlight : BOOLEAN, paired : BOOLEAN]

PairLink == [account : Seq(Account), session : Seq(Nat), no : Seq(0 .. SeqMax),
             replied : Seq(BOOLEAN), ok : BOOLEAN, inFlight : BOOLEAN]

TypeOK ==
    /\ WorkerTypeOK
    /\ player \in [Account -> PlayerState]
    /\ DOMAIN leave \subseteq Account
    /\ \A a \in DOMAIN leave : leave[a] \in LeaveRecord
    /\ leaveSeq \in 0 .. SeqMax
    /\ pairs \in Seq(PairLink)
    /\ tickEnd \in Seq(Nat \ {0})
    /\ inflight \in Nat
    /\ loading \in [Account -> 0 .. MaxSessions]
    /\ frame \in 0 .. PeriodFrames
    /\ inbox \in Seq(LoadResult)
    /\ lost \subseteq Account

\* SetInflight asserts that the gauge of bundles on their way never goes below
\* zero: it counts the characters in memory whose bundle has no answer yet, over
\* refusals, failures, leaving and coming back.
InflightGauge ==
    inflight = Cardinality({a \in Account : player[a].bundleNo # 0})

\* A character marked as listed has its session in the tick-end list exactly
\* once: were the mark to stay without the session, no request to save it
\* would ever be heard again.
ListedIsListed ==
    \A a \in Account :
        InGame(a) => LET n == player[a].session
                     IN  Cardinality({i \in DOMAIN tickEnd : tickEnd[i] = n})
                         = (IF player[a].listed THEN 1 ELSE 0)

\* A hold of a pair link - on a character or on a leave record - is held by a
\* link; a hold without one would keep the character from ever being saved, or
\* the account from ever coming back.
HoldsHaveLinks ==
    LET links == Range(pairs)
        Holds(link, a, session) ==
            \E k \in 1 .. 2 : link.account[k] = a /\ link.session[k] = session
    IN  \A a \in Account :
          /\ InGame(a) /\ player[a].paired =>
               \E link \in links : Holds(link, a, player[a].session)
          /\ a \in DOMAIN leave /\ leave[a].paired =>
               \E link \in links : Holds(link, a, 0)

\* The memory of a character and its tables agree.
Durable(a) == player[a].row = NoRow \/ db[a] = Memory(a)

\* In the game: what differs from the tables is marked, or is on its way in a
\* bundle whose failure would mark it again.
ChangeTracked(a) ==
    LET p == player[a]
        sent == p.bundleNo # 0
    IN  /\ p.row # db[a].row =>
             p.dbDirty \/ p.row.val # p.saved
             \/ (sent /\ (p.posDirty \/ p.savedBefore # p.row.val))
        /\ \A i \in Slot : p.bag[i] # db[a].bag[i] =>
             i \in p.unsaved \/ (sent /\ i \in p.slots)

\* No change of a character is ever forgotten: in the game it is tracked, a
\* leave record holds everything the tables lack, and without either the
\* tables are up to date.  (RecordSaved, TakeUnsaved and AbortBundle move
\* marks about; an accepted, refused, failed, disowned or late bundle must
\* never leave a change unmarked.)
NothingForgotten ==
    pc # "stopped" =>
        \A a \in Account \ rolledBack :
            IF a \in DOMAIN leave THEN Written(db[a], leave[a]) = Memory(a)
            ELSE IF InGame(a) THEN ChangeTracked(a) ELSE Durable(a)

\* What shutdown could not confirm is in the log as lost: everybody else's last
\* state is in the tables.
LossIsReported ==
    pc = "stopped" =>
        \A a \in Account \ (lost \cup rolledBack) : Durable(a)

\* The tables never go back to an older state, though bundles of one account
\* may sit in two queues and a disowned bundle may be written late.
NeverBack ==
    [][\A a \in Account \ rolledBack :
         /\ db'[a].row.val >= db[a].row.val
         /\ db'[a].row.pos >= db[a].row.pos
         /\ \A i \in Slot : db'[a].bag[i] >= db[a].bag[i]]_vars

\* A trade is in the tables for both sides or for neither, for the item and the
\* money alike: nothing is ever duplicated or destroyed by a crash.
TradeWhole ==
    \A t \in {x \in swaps : {x.a, x.b} \cap rolledBack = {}} :
        LET valA == db[t.a].row.val >= t.valA
            valB == db[t.b].row.val >= t.valB
            bagA == db[t.a].bag[t.slotA] >= t.bagA
            bagB == db[t.b].bag[t.slotB] >= t.bagB
        IN  valA = valB /\ valA = bagA /\ valA = bagB

\* A player who comes back finds what it had: ProcessDbResults refuses a load
\* while the account has a leave record, because it may have read the state
\* before the last save.
EntryFresh == rolledBack = {}

\* PutLeaveRecord logs that a record overwrites another, which its comment
\* calls impossible.
NoRecordOverwritten == "leave record overwritten" \notin raised

\* The writes of a character are never in two queues at once, where either could
\* overtake the other: while a pair is on its way, the bundles and the leave
\* records of its two sides are held back.
OneQueueAtATime ==
    LET Writes(jobs, a) == \E b \in Range(jobs) : b.kind = "SAVE" /\ b.account = a
    IN  \A a \in Account, v, w \in Worker :
          Writes(batch[v] \o slot[v].queue, a) /\ Writes(batch[w] \o slot[w].queue, a)
          => v = w

\* SendPair logs that a side which left has no held record, which its comment
\* calls impossible.
NoSideMissing == "pair side missing" \notin raised

\* Every character in the end reaches the tables, unless the server stops first
\* (LossIsReported says what is known then): after the last fault, refusal and
\* change, marks, records and links drain, and stay drained.
EventuallyDurable ==
    <>[](pc = "stopped" \/ \A a \in Account \ rolledBack : Durable(a))

\* No session waits for ever: its load is answered, or it leaves.
LoadAnswered ==
    \A a \in Account, n \in 1 .. MaxSessions : loading[a] = n ~> loading[a] # n

=============================================================================
