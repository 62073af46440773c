----------------------------- MODULE TradeSystem -----------------------------
(***************************************************************************)
(* Trading between two players (TradeSystem.cpp, TradeHandler.cpp) and     *)
(* everything on the game thread that can come in between: the bag used,   *)
(* bought into and sold from, walking off, changing maps, dying, leaving,  *)
(* a store that is still busy with a save.  A message is handled whole, a  *)
(* tick of the trade system is one step.                                   *)
(*                                                                         *)
(* Frames are counted down from the moment that matters: left is what a    *)
(* request still has to live, waited how long a closed trade has waited.   *)
(***************************************************************************)
EXTENDS Inventory, SequencesExt

CONSTANTS Player,
          Zone, TradeZone,    \* maps, and those where trading is allowed
          Spot,               \* where to stand: in reach of each other or not
          OfferMax,           \* TRADE_MAX_ITEMS
          AskFrames,          \* ASK_TIMEOUT_FRAMES
          WaitFrames,         \* TRADE_SAVE_WAIT_FRAMES
          RequestMax,         \* largest request number; 0 is never used
          AmountMax,          \* bound on the amounts in messages
          StartCells, StartMoney,
          NoWin,              \* no trade window on the screen
          Deeds               \* Deeds[p]: what p does in this instance besides trading

NoOne == "no one"

ASSUME TradeAssumption ==
    /\ NoOne \notin Player /\ IsFiniteSet(Player) /\ Zone \subseteq Nat \ {0}
    /\ TradeZone \subseteq Zone /\ TradeZone # {} /\ Spot \subseteq Nat /\ Spot # {}
    /\ OfferMax \in Nat /\ AskFrames \in Nat /\ WaitFrames \in Nat
    /\ RequestMax \in Nat \ {0} /\ AmountMax \in Nat
    /\ StartCells \in [Player -> [Index -> Cell]]
    /\ \A p \in Player, i \in Index : Fits(i, StartCells[p][i])
    /\ StartMoney \in [Player -> 0 .. MoneyMax]

VARIABLES
    player,     \* player[p]: place, life, bag, and what its client shows
    requests,   \* trades asked for and not answered; no look-up depends on the
    sessions,   \* open trades                          order of these two lists
    nextId,     \* number of the next request
    defect      \* was "offer changed under lock" ever logged

vars == <<player, requests, sessions, nextId, defect>>

Out == 0      \* the zone of a player that is not in the game
NotReady == -1

Offer == [index : Index \ Worn, item : Item, count : Nat \ {0}]
Half == [player : Player, items : Seq(Offer), money : 0 .. MoneyMax, closed : BOOLEAN]
Session == [side : [1 .. 2 -> Half], waited : NotReady .. WaitFrames]
Request == [id : 1 .. RequestMax, from : Player, to : Player, left : 0 .. AskFrames]

\* What S2C_TRADE_STATE carries of a half.
Sight == [items : Seq(Offer), money : 0 .. MoneyMax, closed : BOOLEAN]

\* A trade window: its player's half first.
Window == [mine : Sight, theirs : Sight]

PlayerState ==
    [zone : Zone \cup {Out}, spot : Spot, life : {"alive", "dying", "dead"},
     bag : Bag, shown : [cells : [Index -> Cell], money : 0 .. MoneyMax],
     ask : 0 .. RequestMax, win : Window \cup {NoWin}]

\* Counts and sums of money a message may carry.
Amount == 1 .. AmountMax

State == [player |-> player, requests |-> requests, sessions |-> sessions,
          defect |-> defect]

Becomes(st) ==
    /\ player' = st.player
    /\ requests' = st.requests
    /\ sessions' = st.sessions
    /\ defect' = st.defect

-----------------------------------------------------------------------------
(* Places. *)

Online(p) == player[p].zone # Out

Alive(pl) == pl.life = "alive"

InReach(a, b) == a.zone = b.zone /\ a.spot = b.spot

Involves(r, p) == r.from = p \/ r.to = p

Trades(t, p) == t.side[1].player = p \/ t.side[2].player = p

\* Mutated form: whoever is being asked does not count as busy.
BusyUnlessAsked(p) ==
    \/ \E r \in requests : r.from = p
    \/ \E t \in sessions : Trades(t, p)

Busy(p) ==
    \/ \E r \in requests : Involves(r, p)
    \/ \E t \in sessions : Trades(t, p)

InTrade(p) == \E t \in sessions : Trades(t, p)

SessionOf(p) == CHOOSE t \in sessions : Trades(t, p)

SideOf(t, p) == IF t.side[1].player = p THEN 1 ELSE 2

-----------------------------------------------------------------------------
(* What clients are told. *)

SightOf(half) == [items |-> half.items, money |-> half.money, closed |-> half.closed]

WindowOf(t, s) == [mine |-> SightOf(t.side[s]), theirs |-> SightOf(t.side[3 - s])]

SendState(players, t) ==
    [players EXCEPT ![t.side[1].player].win = WindowOf(t, 1),
                    ![t.side[2].player].win = WindowOf(t, 2)]

\* A request ends: who was asked is told so by number, who asked is told too.
\* Mutated form: only the one who asked is told.
TellSenderOnly(players, gone, skip) ==
    [p \in Player |-> [players[p] EXCEPT
        !.win = IF p # skip /\ (\E r \in gone : r.from = p) THEN NoWin ELSE @]]

TellRequestsEnd(players, gone, skip) ==
    [p \in Player |-> [players[p] EXCEPT
        !.ask = IF p # skip /\ (\E r \in gone : r.to = p /\ r.id = @) THEN 0 ELSE @,
        !.win = IF p # skip /\ (\E r \in gone : r.from = p) THEN NoWin ELSE @]]

\* Changed cells and money go to the client, in their final state.
FlushInventory(pl) ==
    [pl EXCEPT !.shown =
                  [cells |-> [i \in Index |-> IF i \in pl.bag.changed THEN pl.bag.cells[i]
                                              ELSE @.cells[i]],
                   money |-> IF pl.bag.moneyChanged THEN pl.bag.money ELSE @.money],
               !.bag.changed = {}, !.bag.moneyChanged = FALSE]

-----------------------------------------------------------------------------
(* Ending. *)

Released(pl, told) ==
    [pl EXCEPT !.bag = UnlockAll(@), !.win = IF told THEN NoWin ELSE @]

\* Mutated form: only one of the two bags is unlocked.
EndSessionForOne(st, t, skip) ==
    LET a == t.side[1].player
        b == t.side[2].player
    IN  [st EXCEPT !.sessions = @ \ {t},
                   !.player[a] = Released(@, a # skip),
                   !.player[b].win = IF b # skip THEN NoWin ELSE @]

\* Both bags are unlocked, and both players told but skip.
EndSession(st, t, skip) ==
    LET a == t.side[1].player
        b == t.side[2].player
    IN  [st EXCEPT !.sessions = @ \ {t},
                   !.player[a] = Released(@, a # skip),
                   !.player[b] = Released(@, b # skip)]

EndRequests(st, gone, skip) ==
    [st EXCEPT !.requests = @ \ gone,
               !.player = TellRequestsEnd(@, gone, skip)]

\* Mutated form: only requests are dropped, a trade goes on.
DropRequests(st, p, skip) ==
    EndRequests(st, {r \in st.requests : Involves(r, p)}, skip)

\* Every request and trade of p ends; skip is not told.
Drop(st, p, skip) ==
    LET idle == EndRequests(st, {r \in st.requests : Involves(r, p)}, skip)
        mine == {t \in st.sessions : Trades(t, p)}
    IN  IF mine = {} THEN idle
        ELSE EndSession(idle, CHOOSE t \in mine : TRUE, skip)

-----------------------------------------------------------------------------
(* The swap. *)

\* Does a bag still hold what was laid out of it, locked?
SameAsOffered(bag, half) ==
    /\ bag.lockedMoney = half.money /\ bag.money >= half.money
    /\ \A k \in DOMAIN half.items :
          LET o == half.items[k]
          IN  /\ o.index \in bag.locked
              /\ bag.cells[o.index].item = o.item
              /\ bag.cells[o.index].count >= o.count

\* A copy of the bag without locks and without what is given.
Given(bag, half) ==
    LET rest == FoldLeft(LAMBDA b, o : RemoveFrom(b, o.index, o.count),
                         UnlockAll(bag), half.items)
    IN  IF half.money > 0 THEN SpendMoney(rest, half.money) ELSE rest

\* What is received goes in, item by item, until something does not fit.
Received(bag, half) ==
    LET items == FoldLeft(LAMBDA r, o : IF r.why = "OK" THEN TryAdd(r.bag, o.item, o.count)
                                        ELSE r,
                          [why |-> "OK", bag |-> bag], half.items)
    IN  IF items.why = "OK" /\ half.money > 0 THEN TryAddMoney(items.bag, half.money)
        ELSE items

\* Mutated form: the first bag is replaced before the second is tried.
SwapInPlace(players, t) ==
    LET a == t.side[1].player
        b == t.side[2].player
        newA == Received(Given(players[a].bag, t.side[1]), t.side[2])
        newB == Received(Given(players[b].bag, t.side[2]), t.side[1])
        first == IF newA.why = "OK" THEN [players EXCEPT ![a].bag = newA.bag] ELSE players
    IN  IF ~InReach(players[a], players[b]) THEN [why |-> "NOT_IN_REACH", player |-> players]
        ELSE IF ~ /\ SameAsOffered(players[a].bag, t.side[1])
                  /\ SameAsOffered(players[b].bag, t.side[2])
        THEN [why |-> "CHANGED", player |-> players]
        ELSE IF newA.why # "OK" \/ newB.why # "OK" THEN [why |-> "FULL", player |-> first]
        ELSE [why |-> "DONE", player |-> [first EXCEPT ![b].bag = newB.bag]]

\* Both bags are tried on copies and replaced only if both can be.
Swap(players, t) ==
    LET a == t.side[1].player
        b == t.side[2].player
        newA == Received(Given(players[a].bag, t.side[1]), t.side[2])
        newB == Received(Given(players[b].bag, t.side[2]), t.side[1])
    IN  IF ~InReach(players[a], players[b]) THEN [why |-> "NOT_IN_REACH", player |-> players]
        ELSE IF ~ /\ SameAsOffered(players[a].bag, t.side[1])
                  /\ SameAsOffered(players[b].bag, t.side[2])
        THEN [why |-> "CHANGED", player |-> players]
        ELSE IF newA.why # "OK" \/ newB.why # "OK"
        THEN [why |-> "FULL", player |-> players]
        ELSE [why |-> "DONE",
              player |-> [players EXCEPT ![a].bag = newA.bag, ![b].bag = newB.bag]]

\* The store is asked to save both, and both clients see their new bags.
OnTradeSwapped(players, t) ==
    [players EXCEPT ![t.side[1].player] = FlushInventory(@),
                    ![t.side[2].player] = FlushInventory(@)]

\* Mutated form: when the wait is over, it begins again.
WaitAgain(st, t) ==
    IF t.waited >= WaitFrames
    THEN [st EXCEPT !.sessions = (@ \ {t}) \cup {[t EXCEPT !.waited = 0]}]
    ELSE st

\* The store is busy: wait for it, but not too long.
WaitForStore(st, t) ==
    IF t.waited >= WaitFrames THEN EndSession(st, t, NoOne) ELSE st

\* A trade closed on both sides.  saving: players with a bundle on its way.
TryExecute(st, t, saving) ==
    LET a == t.side[1].player
        b == t.side[2].player
        r == Swap(st.player, t)
    IN  IF ~Alive(st.player[a]) \/ ~Alive(st.player[b]) THEN EndSession(st, t, NoOne)
        ELSE IF saving \cap {a, b} # {} THEN WaitForStore(st, t)
        ELSE IF r.why = "DONE"
        THEN EndSession([st EXCEPT !.player = OnTradeSwapped(r.player, t)], t, NoOne)
        ELSE EndSession([st EXCEPT !.player = r.player,
                                   !.defect = @ \/ r.why = "CHANGED"], t, NoOne)

-----------------------------------------------------------------------------
(* Requests of players. *)

FindPlayerAround(p) == {q \in Player : player[q].zone = player[p].zone}

AskFor(me, target) ==
    /\ Online(me) /\ target \in FindPlayerAround(me)
    /\ target # me
    /\ player[me].zone \in TradeZone
    /\ Alive(player[me]) /\ Alive(player[target])
    /\ ~Busy(me) /\ ~Busy(target)
    /\ InReach(player[me], player[target])
    /\ nextId' = IF nextId = RequestMax THEN 1 ELSE nextId + 1
    /\ requests' = requests \cup {[id |-> nextId, from |-> me, to |-> target,
                                  left |-> AskFrames]}
    /\ player' = [player EXCEPT ![target].ask = nextId]
    /\ UNCHANGED <<sessions, defect>>

\* The request a client answers: the one its window shows.
Asked(me) == {r \in requests : r.id = player[me].ask /\ r.to = me}

\* The click closes that window.
Clicked(me) == [State EXCEPT !.player[me].ask = 0]

Decline(me) ==
    /\ Asked(me) # {}
    /\ Becomes(EndRequests(Clicked(me), Asked(me), NoOne))
    /\ UNCHANGED nextId

BareHalf(p) == [player |-> p, items |-> <<>>, money |-> 0, closed |-> FALSE]

Accept(me) ==
    /\ \E r \in Asked(me) :
          LET t == [side |-> <<BareHalf(r.from), BareHalf(me)>>, waited |-> NotReady]
              fine == /\ Alive(player[me]) /\ Alive(player[r.from])
                      /\ InReach(player[me], player[r.from])
              taken == [Clicked(me) EXCEPT !.requests = @ \ {r}]
          IN  IF fine
              THEN Becomes([taken EXCEPT !.sessions = @ \cup {t},
                                         !.player = SendState(@, t)])
              ELSE Becomes(EndRequests(Clicked(me), {r}, NoOne))
    /\ UNCHANGED nextId

\* The trade of me, in which my half may still be changed.
Open(me) == InTrade(me) /\ Alive(player[me]) /\ ~SessionOf(me).side[SideOf(SessionOf(me), me)].closed

\* Session t with its half of me replaced, shown to both.
WithHalf(st, t, me, half) ==
    LET changed == [t EXCEPT !.side[SideOf(t, me)] = half]
    IN  [st EXCEPT !.sessions = (@ \ {t}) \cup {changed},
                   !.player = SendState(@, changed)]

LayOut(me, i, n) ==
    /\ Open(me)
    /\ LET t == SessionOf(me)
           half == t.side[SideOf(t, me)]
           cell == player[me].bag.cells[i]
       IN  /\ i \in Index \ Worn /\ cell.item # NoItem
           /\ i \notin player[me].bag.locked
           /\ Def[cell.item].tradable
           /\ n \in 1 .. cell.count
           /\ Len(half.items) < OfferMax
           /\ Becomes(WithHalf([State EXCEPT !.player[me].bag = LockSlot(@, i)], t, me,
                [half EXCEPT !.items =
                    Append(@, [index |-> i, item |-> cell.item, count |-> n])]))
    /\ UNCHANGED nextId

AddMoney(me, n) ==
    /\ Open(me)
    /\ n \in 1 .. SpendableMoney(player[me].bag)
    /\ LET t == SessionOf(me)
           half == t.side[SideOf(t, me)]
       IN  Becomes(WithHalf([State EXCEPT !.player[me].bag = LockMoney(@, n)], t, me,
                            [half EXCEPT !.money = @ + n]))
    /\ UNCHANGED nextId

Commit(me, saving) ==
    /\ Open(me)
    /\ LET t == SessionOf(me)
           s == SideOf(t, me)
           both == t.side[3 - s].closed
           closed == [t EXCEPT !.side[s].closed = TRUE,
                               !.waited = IF both THEN 0 ELSE @]
           told == [State EXCEPT !.sessions = (@ \ {t}) \cup {closed},
                                 !.player = SendState(@, closed)]
       IN  Becomes(IF both THEN TryExecute(told, closed, saving) ELSE told)
    /\ UNCHANGED nextId

\* The open trade, or else the request that was sent.  Who was asked is told;
\* who cancels a request is not.
Cancel(me) ==
    /\ IF InTrade(me)
       THEN Becomes(EndSession(State, SessionOf(me), NoOne))
       ELSE \E r \in {r \in requests : r.from = me} :
               Becomes(EndRequests(State, {r}, me))
    /\ UNCHANGED nextId

-----------------------------------------------------------------------------
(* Everything else a player does. *)

WithBag(p, bag) ==
    /\ player' = [player EXCEPT ![p] = FlushInventory([@ EXCEPT !.bag = bag])]
    /\ UNCHANGED <<requests, sessions, nextId, defect>>

UseItem(p, i) ==
    /\ "use" \in Deeds[p] /\ Online(p) /\ Alive(player[p])
    /\ CanUse(player[p].bag, i)
    /\ WithBag(p, RemoveFrom(player[p].bag, i, 1))

Equip(p, i) ==
    /\ "equip" \in Deeds[p] /\ Online(p) /\ Alive(player[p])
    /\ \/ /\ CanEquip(player[p].bag, i)
          /\ WithBag(p, Equipped(player[p].bag, i))
       \/ /\ CanUnequip(player[p].bag, i)
          /\ WithBag(p, Unequipped(player[p].bag, i))

Buy(p, it, n) ==
    /\ "shop" \in Deeds[p] /\ Online(p) /\ Alive(player[p])
    /\ CanBuy(player[p].bag, it, n)
    /\ WithBag(p, Bought(player[p].bag, it, n))

Sell(p, i, n) ==
    /\ "shop" \in Deeds[p] /\ Online(p) /\ Alive(player[p])
    /\ CanSell(player[p].bag, i, n)
    /\ WithBag(p, Sold(player[p].bag, i, n))

\* Picked up, or given by a room's reward or a command, dead or alive.
Gain(p, it, n) ==
    /\ "gain" \in Deeds[p] /\ Online(p)
    /\ TryAdd(player[p].bag, it, n).why = "OK"
    /\ WithBag(p, TryAdd(player[p].bag, it, n).bag)

Walk(p, spot) ==
    /\ "walk" \in Deeds[p] /\ Online(p) /\ Alive(player[p])
    /\ player' = [player EXCEPT ![p].spot = spot]
    /\ UNCHANGED <<requests, sessions, nextId, defect>>

\* A player that dies lies there for some frames: the trades' tick sees it first.
Die(p) ==
    /\ "die" \in Deeds[p] /\ Online(p) /\ Alive(player[p])
    /\ player' = [player EXCEPT ![p].life = "dying"]
    /\ UNCHANGED <<requests, sessions, nextId, defect>>

\* Out of one zone and into another.
Moved(st, p, zone) ==
    [Drop(st, p, NoOne) EXCEPT !.player[p] = [@ EXCEPT !.zone = zone, !.spot = Min(Spot)]]

TransferPlayer(p, zone) ==
    /\ Online(p) /\ Alive(player[p]) /\ zone # player[p].zone
    /\ Becomes(Moved(State, p, zone))
    /\ UNCHANGED nextId

\* Who leaves is taken off the list of the dead.
Respawn(p, zone) ==
    /\ Online(p) /\ player[p].life = "dead"
    /\ LET up == [State EXCEPT !.player[p].life = "alive"]
       IN  IF zone = player[p].zone THEN Becomes(up)
           ELSE Becomes(Moved(up, p, zone))
    /\ UNCHANGED nextId

\* Out of the zone, then out of the game, with the client.  A dead player that
\* leaves comes back alive: the entry restores it.
LeaveGame(p) ==
    /\ Online(p)
    /\ Becomes([Drop(Drop(State, p, NoOne), p, p) EXCEPT
                  !.player[p] = [@ EXCEPT !.zone = Out, !.life = "alive", !.spot = Min(Spot),
                                          !.ask = 0, !.win = NoWin]])
    /\ UNCHANGED nextId

EnterGame(p, zone) ==
    /\ ~Online(p)
    /\ LET bag == Loaded(player[p].bag.cells, player[p].bag.money)
       IN  player' = [player EXCEPT ![p] = [@ EXCEPT
                        !.zone = zone, !.bag = bag,
                        !.shown = [cells |-> bag.cells, money |-> bag.money]]]
    /\ UNCHANGED <<requests, sessions, nextId, defect>>

-----------------------------------------------------------------------------
(* The tick. *)

TickRequests(st) ==
    EndRequests(st,
        {r \in st.requests : \/ ~Alive(st.player[r.from]) \/ ~Alive(st.player[r.to])
                                    \/ r.left = 0},
        NoOne)

TickSession(st, t, saving) ==
    IF \E s \in 1 .. 2 : ~Alive(st.player[t.side[s].player]) THEN EndSession(st, t, NoOne)
    ELSE IF t.side[1].closed /\ t.side[2].closed THEN TryExecute(st, t, saving)
    ELSE st

NextFrame(st) ==
    [st EXCEPT
        !.requests = {[r EXCEPT !.left = @ - 1] : r \in st.requests},
        !.sessions = {[t EXCEPT !.waited = IF @ = NotReady THEN @ ELSE @ + 1] :
                         t \in st.sessions},
        !.player = [p \in Player |->
            [st.player[p] EXCEPT !.life = IF @ = "dying" THEN "dead" ELSE @]]]

Tick(saving) ==
    /\ LET asked == TickRequests(State)
       IN  Becomes(NextFrame(FoldSet(LAMBDA t, st : TickSession(st, t, saving),
                                     asked, asked.sessions)))
    /\ UNCHANGED nextId

Init ==
    /\ player = [p \in Player |->
          [zone |-> Min(TradeZone), spot |-> Min(Spot), life |-> "alive",
           bag |-> Loaded(StartCells[p], StartMoney[p]),
           shown |-> [cells |-> StartCells[p], money |-> StartMoney[p]],
           ask |-> 0, win |-> NoWin]]
    /\ requests = {}
    /\ sessions = {}
    /\ nextId = 1
    /\ defect = FALSE

Trading(p) ==
    \/ \E q \in Player : AskFor(p, q)
    \/ Decline(p)
    \/ Accept(p)
    \/ \E i \in Index, n \in Amount : LayOut(p, i, n)
    \/ \E n \in Amount : AddMoney(p, n)
    \/ \E saving \in SUBSET Player : Commit(p, saving)
    \/ Cancel(p)

Living(p) ==
    \/ \E i \in Index : UseItem(p, i) \/ Equip(p, i)
    \/ \E it \in Item, n \in Amount : Buy(p, it, n) \/ Gain(p, it, n)
    \/ \E i \in Index, n \in Amount : Sell(p, i, n)
    \/ \E spot \in Spot : Walk(p, spot)
    \/ Die(p)
    \/ \E zone \in Zone : TransferPlayer(p, zone) \/ Respawn(p, zone) \/ EnterGame(p, zone)
    \/ LeaveGame(p)

GameTick == \E saving \in SUBSET Player : Tick(saving)

Next == GameTick \/ \E p \in Player : Trading(p) \/ Living(p)

Spec == Init /\ [][Next]_vars

\* A tick changes something: WF_vars(GameTick) has its ENABLED spelled out.
Ticking ==
    \/ requests # {}
    \/ \E t \in sessions : \/ t.waited # NotReady
                           \/ \A s \in 1 .. 2 : t.side[s].closed
                           \/ \E s \in 1 .. 2 : ~Alive(player[t.side[s].player])
    \/ \E p \in Player : player[p].life = "dying"

\* The game loop ticks for ever; players and the store owe nothing.
FairSpec == Spec /\ ([]<>~Ticking \/ []<><<GameTick>>_vars)

-----------------------------------------------------------------------------
(* Properties. *)

\* Every variable keeps its type: bags within their bounds, in every cell a stack
\* that loading would accept there, offers of cells that exist, waits no longer
\* than their limit.
TradeTypeOK ==
    /\ player \in [Player -> PlayerState]
    /\ \A p \in Player, i \in Index : Fits(i, player[p].bag.cells[i])
    /\ requests \subseteq Request
    /\ sessions \subseteq Session
    /\ nextId \in 1 .. RequestMax
    /\ defect \in BOOLEAN

\* The lists hold players across ticks: whoever is in one is in the game, in the
\* same map as its partner, on a map that allows trading, although maps are
\* compared only when a trade begins and ends (TradeSystem.h:27, Drop).
PartnersTogether ==
    LET Met(a, b) == /\ a # b /\ Online(a)
                     /\ player[a].zone = player[b].zone
                     /\ player[a].zone \in TradeZone
    IN  /\ \A r \in requests : Met(r.from, r.to)
        /\ \A t \in sessions : Met(t.side[1].player, t.side[2].player)

\* A player is in one request or one trade at most (Busy): the lookups by player
\* take the first they find, and ending it ends everything of that player.
OneTradeEach ==
    \A p \in Player :
        Cardinality({r \in requests : Involves(r, p)})
          + Cardinality({t \in sessions : Trades(t, p)}) <= 1

\* What is locked in a bag is what its owner has laid out, cell by cell and in
\* money, whatever else was done to the bag since; without a trade nothing is
\* locked, so no way of ending one leaves a lock behind.
LocksAreOffers ==
    \A p \in Player :
        IF ~InTrade(p) THEN player[p].bag = UnlockAll(player[p].bag)
        ELSE LET half == SessionOf(p).side[SideOf(SessionOf(p), p)]
             IN  /\ player[p].bag.locked = {o.index : o \in ToSet(half.items)}
                 /\ Cardinality(player[p].bag.locked) = Len(half.items)
                 /\ SameAsOffered(player[p].bag, half)

\* "Offer changed under lock" is never logged (TradeSystem.cpp:433, 447).
NeverChanged == ~defect

Held(bag, it) ==
    MapThenSumSet(LAMBDA i : IF bag.cells[i].item = it THEN bag.cells[i].count ELSE 0, Index)

Laid(half, it) ==
    MapThenSumSet(LAMBDA k : IF half.items[k].item = it THEN half.items[k].count ELSE 0,
                  DOMAIN half.items)

\* What a step does to a trade and to those in it.
Ended(t) == ~ \E u \in sessions' :
                 \A s \in 1 .. 2 : u.side[s].player = t.side[s].player

Kept(p) == /\ \A it \in Item : Held(player'[p].bag, it) = Held(player[p].bag, it)
           /\ player'[p].bag.money = player[p].bag.money

Exchanged(t, s) ==
    LET p == t.side[s].player
        gives == t.side[s]
        gets == t.side[3 - s]
    IN  /\ \A it \in Item : Held(player'[p].bag, it)
               = Held(player[p].bag, it) - Laid(gives, it) + Laid(gets, it)
        /\ player'[p].bag.money = player[p].bag.money - gives.money + gets.money

Ready(t) == /\ \E s \in 1 .. 2 : t.side[s].closed
            /\ \A s \in 1 .. 2 : Alive(player[t.side[s].player])
            /\ InReach(player[t.side[1].player], player[t.side[2].player])

\* A trade that ends has either moved exactly what both sides laid out, with both
\* alive, in reach and with nothing left to add, or nothing at all: no item or
\* money is made, lost or kept by both, however the bags are filled.
SwapWhole ==
    [][\A t \in sessions : Ended(t) =>
            \/ \A s \in 1 .. 2 : Kept(t.side[s].player)
            \/ Ready(t) /\ \A s \in 1 .. 2 : Exchanged(t, s)]_vars

\* A client shows what the server holds: the request it may answer, its trade with
\* both halves, its bag and money.  So every path that ends, changes or swaps tells
\* everybody it concerns.
ScreensAgree ==
    \A p \in Player : Online(p) =>
        /\ player[p].ask # 0 <=> \E r \in requests : r.to = p
        /\ \A r \in requests : r.to = p => player[p].ask = r.id
        /\ player[p].win = IF InTrade(p) THEN WindowOf(SessionOf(p), SideOf(SessionOf(p), p))
                           ELSE NoWin
        /\ player[p].shown = [cells |-> player[p].bag.cells, money |-> player[p].bag.money]

\* No request and no trade closed on both sides lasts for ever, even if the store
\* is never ready for the swap.
EveryTradeSettles ==
    \A p \in Player :
        /\ []<>(~ \E r \in requests : r.from = p)
        /\ []<>(~ (InTrade(p) /\ \A s \in 1 .. 2 : SessionOf(p).side[s].closed))

=============================================================================
