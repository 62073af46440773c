# MMO_Zone: verification project

TLA+ modules, TLC runs and TLAPS proofs about the game server in
`src/MMOServer/MMOServer` (C++), and about the way from it to a browser in
`src/WebClient` (JavaScript): the relay, the protocol and the town. File names
below are relative to these two directories. The modules say what the code does, line by line in the `map` of
`PROJECT.json`; this file says what is modelled, what is checked, and why the
bounds are enough.

Run everything from this directory:

    tlc -workers 2 -config MCStoreTrade.cfg MCCharacterStore
    tlapm Relay_proofs.tla

## 1. The system

One process, one game thread, K database threads, and the threads of a network
library (`ServerCore`, `LockFree`: git submodules, not in this tree).

| Part | State | Operations | Talks to |
|---|---|---|---|
| Network library (external) | sessions, an event queue, send queues | connect, disconnect, receive, send, disconnect-on-request | hands events to the game loop, swapped out once a tick |
| Game loop (`GameServer.cpp`) | tick number | one tick: network events, database results, monsters, NPCs, map, sight changes, respawns, buffs, party, rooms, trade, ground items, sync, sends, closing rooms, saves | calls everything below in that order |
| Database workers (`DB/DBWorker.cpp`) | per worker: queue, two counters, connection, batch; one result box | enqueue load / save / pair / batch, swap results, shut down | game thread ↔ worker threads through mutexes; MySQL |
| Character store (`CharacterStore.cpp`) | per character: marks and a flight record; leave records, pair links, tick-end list, numbers | request a save, tick's saves, leave, trade, load, handle replies, shut down | the workers; told of loads by `ICharacterLoadEvents` |
| Entry (`EntryHandler.cpp`), sessions (`SessionHub.h`) | pending table with two gauges; session slots | connected, enter game, kick duplicate, loaded, spawn, disconnected | store, placement |
| Placement (`PlayerPlacement.cpp`) | - | leave game, transfer between zones | store, zones, sight, party, trade |
| Trade (`TradeSystem.cpp`, `TradeHandler.cpp`) | requests, sessions of two halves | request, answer, offer, add money, commit, cancel, tick, forget | inventories, store |
| Inventory and items | slots, money, locks, display marks, unsaved marks | add, take, move, equip, use, lock | store (marks), trade (locks), shop |
| Party, rooms | parties, requests, room locks | invite, answer, leave, kick, tick | placement, maps |
| Maps, zones, sectors, sight | channels, membership per sector, pending moves | enter, leave, move, cross sectors, close a room | every handler that broadcasts |
| Combat, buffs, stats, monsters, rewards, ground items, shop, chat, commands | health, cool-downs, dead list, spawn slots, items on the ground | handlers and ticks | - |
| Relay (`relay.js`) | a pair of sockets per browser | open, data either way, close, error | page (WebSocket), network library (TCP) |
| Protocol (`Shared/Protocol/Protocol.h`, `proto.js`) | the Reassembler's buffer | lay out, decode, encode | server and page, the same layouts written twice |
| Page (`live.html`) | what it has of its line, two tables, the pictures | connect, reconnect, requests, load the town | relay, `serve.js` |
| Town tools (`tools/town/`), `serve.js` | `assets/town.js`, `Run/bin/BlockTable.csv` | build, write the walls, serve | server (the table, read at start), page |
| Game client, load tests, monitoring | - | - | - |

What is hard here: the game thread is one, so most handlers are sequential
code; the hard part is what crosses ticks and threads. A character is saved by
bundles that take several ticks, may be refused, fail, be written and reported
as failed, or be answered after their owner has left. Two queues can hold
bundles of one account (its own, and the one of the smaller account of a trade).
The owner of the last bundle is not the player but a record. Loads of an
account that just left race with that record. Shutdown is the same again,
without a next tick. On the way to the browser two sockets open and close on their own, a
byte stream comes in any pieces, and every layout exists twice. The town is one
layout from which two programs make two files that must agree, beside a developer.

What makes each part correct:

- *Workers*: every accepted job is answered exactly once; an ok means written; the
  outcome of a bundle is known before the result of a load queued behind it; a
  pair is one transaction; nothing is queued beyond the bound; shutdown drains
  and returns.
- *Store*: whatever differs between memory and tables is marked or on its way;
  a trade is in the tables for both sides or for neither; the tables never go
  back; who comes back finds what it left; all of it drains in the end, and what
  a shutdown could not save is reported.
- *Entry*: one character per account, each session waiting, loading, playing or
  gone, and the gauges count them.
- *Trade*: locked slots belong to exactly one open trade; a swap conserves items and
  money; every trade that is closed ends, and every end unlocks.
- *Inventory*: operations conserve items, or say what they lost; marks are exact.
- *Party, rooms*: membership and the players' party numbers agree; no request
  refers to somebody gone.
- *Relay, protocol, page*: both streams arrive without gaps, nobody keeps half a pair
  of sockets, and the page makes of every packet what the server meant, also in
  pieces and after a lost line.
- *Town*: the walls are where the houses are drawn, the ground has no tears, and
  everybody can walk everywhere that is not a wall.
- *Zones and sight*: a client knows exactly the characters in its neighbourhood,
  after any sequence of enters, moves, crossings and leaves.

`PROJECT.json` lists every component, and the hazards at their lines. Three hazards
of the server are known and have no property, because what they need is outside the
models: a value that returns to what was saved before after a bundle that was written
but reported as failed (`CharacterStore.cpp:112`; versions here only grow); the two
gauges of the pending table (`EntryHandler.cpp:139`); and party numbers that outlive
their party (`PartySystem.cpp:23`).

## 2. How the modules fit together

    DBWorker -> DBWorkerPool -> DBWorkerPool_proofs       workers and their proofs
       |                           /
       |\-> DBWorker_proofs ------+
       |                           \
       \--> CharacterStore -> CharacterStore_proofs     the store on top of the workers
                                   |
                    Folds_proofs --+
                                   |
    Inventory -> TradeSystem ------+-> TradeSystem_proofs  trades on top of bags
    Pipe <- Relay -> Relay_proofs                         the relay implements a connection
              \-> WebLink <- Proto <- Protocol            server, relay and page end to end;
                                                          WebLink, Relay_proofs -> WebLink_proofs
    Terrain, Town0 -> Town -> Town_proofs                 from the layout to what is walked on

(`->`: is extended by; `Pipe <- Relay` is a refinement. `DBWorker_proofs` serves both
users of the workers, `Folds_proofs` serves `CharacterStore_proofs`,
`TradeSystem_proofs` and `WebLink_proofs`.) Each `MC...` module gives
values to the constants of the last module of its line.

`Pipe` is the abstract specification here: what a connection promises, whatever
carries it. `Relay` is shown to implement it twice, by TLC with its liveness
(`CarriesBoth`) and by proof without. An abstract specification of the store (one
character in memory, one in the tables, and saves that move the second after the
first, atomically for pairs) is not written: `NothingForgotten`, `TradeWhole` and
`NeverBack` say its parts about the detailed module.

## 3. Modules

**`DBWorker`** has the state of the threads: `slot[w]` is `DBWorkerSlot` (queue
and the two counters), `batch[w]` the local vector of `WorkerThread`, `out[w]`
the answers computed and not yet pushed (each push takes the lock of the result
box by itself), `mysql[w]` and `reconnectFailed[w]` the connection and the flag
of the batch, `results` and `saveReplies` the box, `db` the tables. Enqueueing is
a set of functions from queues to queues with the names of the source; `SwapOut`,
`Exit`, `RunLoad`, `RunBundle`, `Push` are the steps of the thread, cut where
another thread can look. `Executes` is one job with its reconnect and its second
try: the connection may break before or after the write reached the tables, the
statement may fail, the rollback may fail too. A row is two versions (`pos` for
the columns that are marked, `val` for those that are compared), a bag a
version per slot, so "older" has a meaning and content has not.

**`DBWorkerPool`** adds an arbitrary client and the steps of the condition
variable: `CheckPredicate` with the mutex held, `FallAsleep`, and the
notifications. `SetStop`, `WakeForStop`, `Join` are `CDBWorker::Shutdown`. `issued`,
`refused`, `taken` and `applied` are history.

**`CharacterStore`** is the game thread. `pc` is the place in the tick: `events` ->
(`ProcessDbResults`) `loads` -> `world` -> (`TickSaves`) `records` -> `pairs` -> `list`
-> `events`; shutdown goes through `last players`, `last records`, `last pairs`,
`drain`, `stopped`. `player[a]` holds the character and its `DbFlight`; `leave`,
`pairs`, `tickEnd`, `leaveSeq`, `inflight` are the members of the class. Its
functions are operators from a store state to a store state with the names of the
source, and an action is the composition its handler makes (`SendPair` with the three
ways in which a side of a link may be missing, and what is logged of each); a bundle
number is never 0, which means "none"; a loop whose body takes a lock is cut between iterations, because a worker may run there. `swaps`,
`lost`, `rolledBack` and `raised` are history: the trades made, what shutdown
reported, who came back older, which "cannot be" log lines were written.

What the models leave out or fold together:

- a load's two SELECTs (row, inventory) read one state;
- `EnqueueSaveBatch` takes its locks, one per worker, in one step; so does the
  handling of the replies of a swap (a released record goes to the end of a queue
  either way);
- a transaction open on a lost connection is resolved before any later
  statement on that row (row locks of the database);
- moving is repeated `Move`; each marks the position;
- a load that starts without a connection may be tried a third time, which adds
  no outcome;
- versions only grow. A value that returns to an earlier one after a bundle that
  was written and reported as failed is outside the model (listed as a hazard);
- `MaxFaults` counts jobs that go wrong, `MaxJobs`, `MaxVersion`, `MaxSessions` bound
  the behaviour; none of these is in the code.

**`Inventory`** is a bag as a value: cells (as in the source numbered tab after tab,
the worn ones last), money, what is locked of both, what is still to be shown. Its
operators carry the names of `CInventory`. `TryAdd` is the result of the three loops
of the source: a cell gets what is left after the cells filled before it
(`FilledBefore`: those that hold the item, in order, then the empty ones), and
nothing changes when all cells together cannot take it. `CanUse`, `CanEquip`,
`CanBuy`, `CanSell` are what the checks of `CItemSystem` and `CShopSystem` let pass.

**`TradeSystem`** is the game thread again, seen by two lists, `requests` and
`sessions`; both are sets, because nobody is in two elements of them (`OneTradeEach`), so
no look-up, and no order in which a tick goes through them, depends on an order. `player[p]` has the place (zone, and a spot that stands for coordinates:
same spot is in reach), life, bag, and the client: `shown` (its bag), `ask` (the
number of the request its window shows, 0 for none) and `win` (its trade window, as
`S2C_TRADE_STATE` describes it). A message is one action with everything it sends:
`AskFor` (`Request`), `Accept` and `Decline` (`Answer`), `LayOut` (`Offer`), `AddMoney`,
`Commit`, `Cancel`. `Tick` is `CTradeSystem::Tick` and ends the frame. A death between
two ticks is `dying` until the tick has seen it, because a respawn takes longer than
one frame. `saving` is the answer of `CanSaveSwap`, free at every call: what the store
does with the pair is `CharacterStore`. `defect` is set where the source logs "offer
changed under lock".

Left out there: refusals (they change nothing but a counter), trade numbers, the
reach and goods of a shop, cool-downs, full health, which only refuse; respawn places
(any zone); `frame` is counted relative to the request or trade. The client closes a
request's window when its player clicks: that is the client's, not the server's.

**`Relay`** has four ends per connection: the browser's WebSocket (`bws`), the
relay's (`ws`), the relay's TCP socket (`tcp`) and the server's session (`srv`), and
between them, in each direction, what was sent, what is on each of the two ways and
what arrived. The relay's handlers are the actions: `Connection`, `WsMessage`, `TcpData`,
`TcpError`, `TcpClosed`, and `WsGone` in its three occasions (the browser closed, the
closing handshake timed out, the connection broke). `bye` is `TcpDestroy` with `WsClose`,
each without effect on a socket that is already going. What Node, the browser and the
server do on their own is external: a destroyed socket loses any end of what was
written, a closed peer is noticed later, a frame is as long as the relay's `data` was.
A unit is opaque there.

**`Protocol`** is `Protocol.h`: `MsgType` in its order, every struct as names and types
from which places follow (the structs are packed), the lists and their limits,
the enums, the routes and the smallest size each takes. **`Proto`** is `proto.js`: the
same knowledge, but as the page has it, where places are literal numbers. `Reads`
is `decodePacket`, `enc` the encoders. Both are data and functions; they meet in **`WebLink`**:
a script says which packets the server sends and what the player asks for; packets
go through `Relay` in three pieces (size, number, body), `Reassemble` is the loop of
the Reassembler (`PushRound` one round of it), and `given` is what `onPacket` got. `holds` is what the page has of its
line, which decides what it may ask (`Needs`). `moving` is the page's mark that its last move
was a start; `connect()` does not touch it, and the chat box sends the stop on that mark alone
(`PageStopsToChat`), also on a line without a character. `acts` counts the player's requests over
all lines, so the second line goes on with what the first left of the script. A `WebLink` behaviour
is a `Relay` behaviour in which page and server choose what to send.

**`Terrain`** is the tile table as families: the sheet draws the border of a terrain
always at the same distances from its fill, so 600 rows become a few lines; the rows
are those of the file, exceptions included. **`Town0`** is the layout. **`Town`** has
`build.js` (read the layout, lay the ground, draw, empty the file, fill it, call the
next), `blocks.js` as run by `build.js` and by hand (load the layout, read the table,
empty it, write it), `serve.js` and the page's two requests, each cut where another of
them may come in, and a developer who edits either file, deletes the table or stops a
program. Coordinates are integers (tenths and hundredths of a cell), so nothing is
rounded but where the code rounds. `calm`, `lost` and `others` are history: whether the
last build went through undisturbed, and which rows of other maps were written by hand.

Left out of these: bytes (a field is its place and width, a text its length), pictures
and how Chrome cuts them, the check mode of
`blocks.js`, trees, credits, which paths `serve.js` opens.

`MCDBWorkerPool`, `MCCharacterStore`, `MCTradeSystem`, `MCWebLink` and `MCTown` are the instances. The trading instances
start with both characters in the game and saved (`InGameInit`), a state two logins
and a periodic save lead to; `two_links` starts with a pair written and the first of its
two replies in the box (`HalfAnsweredInit`, which TLC reached from `InGameInit` as well).

## 4. Runs

| Run | Shows | Bounds |
|---|---|---|
| `pool_safety` | types, pairs adjacent, exact counters, each job in one place, saves answered before later loads, ok means written, drained on exit | 2 accounts on 2 workers, queue of 2, 3 jobs, 1 fault |
| `pool_liveness` | every accepted job is answered, shutdown returns | the same, 2 jobs |
| `store_solo` | types, the gauge, the tick-end list, nothing forgotten | 1 account, queue of 1, all deeds, numbers that wrap at 2, 2 sessions, 1 fault |
| `store_trade` | holds have links, nothing forgotten, losses reported, trades whole, tables never back, no record overwritten | 2 accounts on 2 workers, queue of 2, trades and returns only, 2 versions, 3 sessions, 1 fault, stop at any time |
| `store_live` | everything reaches the tables, no load waits for ever | 2 accounts on 1 worker, 3 sessions, 1 fault |
| `trade_bags` | types, locks are what was offered, no offer ever changes under its lock, a swap is whole or nothing | 2 players, 4 cells, 2 items, stacks of 2, 1 money; one equips and walks, one uses and deals with a shop |
| `trade_ends` | partners in one place, one trade each, clients see what is; every request and every closed trade ends | 3 players, 2 zones of which one allows trading, deaths, gains, leaving and coming back; a request lives no frame, a closed trade waits 1 |
| `wire` | both streams without gaps, packets decoded as meant, nothing parked in the Reassembler, requests the server takes, none before the character but the end of a walk that was cut off; the relay is a pipe; no end is left behind | 2 lines one after the other; every packet and every request once, with no line, one line and full lists, every value of its enumerated byte; for lines that break: one login, one walk and its end |
| `town` | walls under the houses, the page shows the town, no seams, everything walkable | the real layout and three others, 2 edits, rows of another map or none; builds, hand runs, stops and page loads without bound |
| `stale_load` | finding 1 | 1 account, bag changes only |
| `side_missing` | finding 2 | as `store_trade` |
| `two_links` | finding 3 | 3 accounts on 2 workers, trades and returns only, 4 sessions, no stop |

Why the bounds are enough: a queue of two refuses a pair when one bundle is in
it and takes it when empty; a queue of one refuses everything behind the first.
Two workers are what it takes for an account to have bundles in two queues
(with one worker everything of everybody is in order). One fault gives every
single failure: refused, failed, lost and written, lost and not written, a dead
database for a batch (later reconnects that fail cost more, so a second fault is
what "dead for two batches" would need: not explored). A wrap of numbers at two
lets a number come back after one other. Two trades and a return put an
old link, a held record and a new session side by side. Three accounts are what it takes
for one account in two unfinished links: `two_links` has them, from the middle of a trade
on. The passing runs of the store have two, and what they show of trades is claimed for
two only; the theorems of section 6 are for any number.

For trades: two cells per tab with stacks of two make an offer spread over several
cells and make a bag too full, one unit of money makes it too rich; a request that
lives no frame and a wait of none (`trade_bags`) still let every other action come first,
a wait of one (`trade_ends`) lets a tick come between; the third
player is needed for a request against one that is already asked. What a player does
besides trading is split between the players (`Deeds`), which loses only that both do
the same.

Every property of a passing run has a mutated form of the code that violates it
(the operators commented "Mutated form" or "MUTANT", listed under `mutants`): dropped holds,
lost marks, wrong order, wrong bound, early exit, missed notification.

For the wire: a packet is checked by itself, because the decoder keeps nothing from
packet to packet but the Reassembler's buffer, which the pieces of one packet and the
broken line exercise; three pieces put a cut into the header, behind it and
nowhere. Two lines are a line and its successor. The script that breaks lines
is short because every socket may end in every state of the others: the player's character is
announced, the player starts to walk and may go into the chat box, before and after the loss.

For the town: an edit between the programs' two readings of the layout and one
after them are the two that matter; the layouts are the town, the town with a
house moved and a footpath drawn, a ground for which a tile is missing, an object without a picture. A
second run of `blocks.js` by hand covers the overlap with the one of a build.

**Fairness.** Threads that can run do run (`WF` of the workers' steps and of the game
loop); the game loop ticks at a fixed rate and each of its phases ends. Players owe
nothing: no fairness on logins, moves, trades, disconnects, or the stop. For trades
only the tick is fair, and the store may stay busy for ever: the wait's bound is what
ends a closed trade. A trade that is not closed may stay open, as in the code.
On the wire the event loops, the browser and the network get on (`WF` of `CarryOn` for
every line: a started action of the sockets ends, `close` follows an end, the closing
handshake has a timeout of its own); server, player and breaking lines owe nothing.
`Ticking` is the enabledness of the loop's step written out (`GameLoop` of the store, `GameTick`
of the trades, where TLC confirmed that it is `ENABLED <<GameTick>>_vars`). Liveness holds because
faults, versions and sessions are bounded, that is, after the last fault; with
a database that never comes back it does not hold and the code does not promise it.

## 5. Findings

1. `stale_load` (`EntryFresh`). A load is refused while its account has a leave
   record, tested when the result is *handled* (`CharacterStore.cpp:963`). A
   record's save fails; a load already behind it in the batch reads the old
   row; the failure is handled in one tick and the period re-sends the record,
   behind the load; result and reply then come in one swap, the reply is handled
   first and erases the record, and the old result is accepted. The comment at
   961-962 says this must not happen.
2. `side_missing` (`NoSideMissing`). The comment at `CharacterStore.cpp:492` calls
   "pair side missing" impossible. The two replies of a pair enter the box under two
   locks; after the first alone, one held record is erased and the link stays. A stop
   between the two sends the link again, finds one side without record, and leaves the
   other side's last record unsent. It is reported as lost, so `LossIsReported` holds.
3. `two_links` (`OneQueueAtATime`). The header (`CharacterStore.h:90-91`) says that a
   character has one write under way at a time, and the comment at
   `CharacterStore.cpp:792-793` why a held record must wait for its pair. After the first
   of a pair's two replies its side is free: the record is erased, the account comes
   back, trades with a third and leaves, all before the second reply.
   `FindPair` gives the first link of the account, the old one, so the leave marks
   that one's side (:799), the new link keeps the session of somebody gone, and the old
   link's second reply releases the new record, which goes to a queue by itself while
   the new pair is in another. If the pair is written last the tables go back
   (`NeverBack` fails the same way once characters move).

The other "cannot be" of the store, a record overwritten by another
(`CharacterStore.cpp:812`), is true: `store_trade` checks it and
`RecordsNotOverwritten` proves it for any number of accounts. Properties other than
`EntryFresh` exclude accounts already rolled back by finding 1.

## 6. Proofs

`DBWorker_proofs` and `Folds_proofs` hold what the others rest on. The first: every operator of
the queues and every step of a worker keeps the types, and keeps pairs next to each
other. The second: a fold over a finite set or a sequence exists, and what each of its steps keeps
holds of the whole (by well-founded induction on sets, with functions in the place of
operators). It has sums too: a sum over a finite set does not depend on the order, takes one
term out, splits, and follows a change of one term.

`DBWorkerPool_proofs` proves, for every value of the constants under the named
assumptions of `DBWorker` and `DBWorkerPool` (accounts positive, at least one worker, a
queue bound of at least one):

- `PoolTypeCorrect`: the type invariant is inductive by itself; one lemma per action.
- `PairsStayAdjacent`: adjacency alone is not inductive. The strengthening says of
  every queue, and of every batch, that it is *paired*: a first head is
  followed by its second, a second head is not itself a first. Appending a load, a
  bundle or a whole pair, swapping, taking the front job or the front pair
  preserve it; a worker that takes two heads takes exactly a pair.
- `DrainedBeforeExit`: needs that the client queues nothing after the stop flag and that
  a worker exits only with an empty line.
- `OkIsWritten`: a transaction that finds nothing to change answers ok too, so the invariant
  (`Honest`) says where rows come from: a row in the tables carries the number of a job that
  was applied, and each bundle in a queue writes its own.

The second half of `DBWorkerPool_proofs` follows a job. What worker w has
before it is one sequence, `Line(w)`: the answers it has not pushed, its batch, its queue. A
step leaves a line alone, appends to it, replaces its first open job by the answer, or moves
its first answer to the box.

- `CountersAreExact` is inductive with the types: one lemma per way of enqueueing.
- `SavesAreAnsweredFirst`: the property speaks of answers only; the invariant (`Ordered`) says
  that every line is in the order of the numbers issued and holds nothing issued before a load
  already answered. Routing by account makes the rest: a load and the saves before
  it are in one line.
- `EachJobIsOnce`: the invariant (`Accounted`) counts how often a number occurs, as the
  cardinality of its places in a sequence, so that no induction over sequences is
  needed: every accepted number is once in one line, once in the box, or handled; every
  refused one nowhere; none beyond `issued` anywhere.

`CharacterStore_proofs` proves five properties of the store for any number of accounts, workers,
slots, sessions, changes and faults, any bound of a queue and any width of a number
(`StoreAssumption`, `DBAssumption`). They come from one invariant (`StoreInvariant`), which TLC
checked on the instances first; its parts are predicates of a store state, so every function of
the source has a lemma that says what it keeps, and an action's proof names the functions
its handler calls.

- `StoreTypes`: the types, and with them that a number stays in its width and the gauge
  is not negative. The gauge is taken down once per bundle that ends, so this needs that it
  covers the bundles under way (`Sound`): `GaugeNeverTooLow`, which is what `SetInflight`
  asserts.
- `ListedOnce`: whoever is marked as listed is in the tick-end list once, and only then
  (`Listed`). It needs that no session belongs to two characters, that no session still
  to come is known yet (`Untouched`, `LoadsApart`), or a leave would take another
  character's entry away.
- `HoldsAreOwned`: a held character, and a held record, has a link (`Held`). A link is
  removed before its holds are released, and in between they are named: `Held(s, but)`.
- `RecordsNotOverwritten`: a leave finds no record of its account, because until the server
  stops nobody in the game has one (`Places`), and in a stop those still to be looked at
  have none. What a loop has left to look at is there: `Places` says that for every loop,
  since its body is an action and other steps come between.

`TradeSystem_proofs` says first, of every operator of a bag, what it keeps, for any items, cells,
stacks and amounts: the result is a bag (money in bounds, no negative count), each change is
noted for the client, and what a player does alone leaves the locked cells, and the money
laid out, as they are (`Tended`: use, equip, take off, buy, sell, gain). `TryAdd` sums the room in
cells by a fold. Two things are said of every cell and every sum: a stack stays one that
`LoadSlot` would accept (`Fits`: an item of the cell's tab, at least one, at most its stack
size), and `Owned`, how many of an item a bag holds, grows by exactly what `TryAdd` was
given, falls by exactly what `Remove` was, and changes by nothing else. For `TryAdd`
this is a sum over the cells it fills, each taking what those before left (`Pouring`, in
`Folds_proofs`: poured into vessels in a fixed order, the smaller of the amount and the
room is in them at the end).

Then it proves the six invariants of the trade runs, and that swaps are whole, for any finite set of
players, any maps, spots, bags, item tables, amounts and limits (`TradeAssumption`,
`InventoryAssumption`: some map allows trading, some cell is worn, there is a spot, a request
number): `TradeTypes`, `PartnersStayTogether`, `OneTradeForEach`, `OffersStayLocked`,
`OffersNeverChange`, `ClientsShowTheTruth`. They are proved together, from one invariant
(`TradeInvariant`), because none is inductive alone:

- an offer stays what it was because its cells are locked, and they stay locked because the
  bag's owner is in one trade only;
- a player is in one because a request turns into a trade only while both are in nothing else;
- a window is closed by whoever ends a trade because both players are found by it, and they are
  found because they are in the game, together;
- a wait stays below its bound because only a trade closed on both sides waits (`Waits`), which
  no run's property says.

The handlers of the source call each other on one state of the game, so the invariant is a
predicate of such a state (`Good`), every function has a lemma that keeps it (`EndRequestsGood`,
`EndSessionGood`, `DropGood`, `SwapDone`, `TryExecuteGood`, ...), and an action's proof names the
functions it is made of. A tick goes through the trades by a fold: `TickSessionGood` is its step, and
`Ticked` says what holds with some of the trades looked at. TLC checked `TradeInvariant` on both
trading instances before.

`SwapsAreWhole` (`SwapWhole`) is a statement of steps, and of sums: cells are emptied, split,
topped up and filled anew, so what is the same before and after is a number, not a place.
It needs three things.

- Every cell holds what loading would accept (`Holds`, kept by every step: `CellsAreLawful`; part of
  `TradeTypeOK`): without it `TryAdd` could meet a cell fuller than its stack size, "fill"
  it with a negative amount and make items of nothing. `TradeAssumption` says it of the bags players
  start with (`LoadSlot` refuses the others, `Inventory.cpp:251-264`), and
  `InventoryAssumption` says that an item has a tab exactly if it is kept in cells
  (`ItemTable.cpp:111-124`).
- The two loops of `Swap` conserve: taking out what was laid out lowers what is owned by the sum of the
  offers, which is right because the offers are in different cells and each cell still
  holds its offer (`LocksAreOffers`, proved before); putting in raises it by the
  sum, if every `TryAdd` says ok. If one does not, both bags stay (`SwapDone`, `TradedThen`).
- Each function on the way says what it does to every trade of its state (`Conserves`: each
  trade goes on, or has settled, `Settles`), and these compose, also through the fold of
  a tick (`TickSessionSettles`, `Settled`): a player is in one trade at most, so what
  the loop does to other trades leaves the bags of this one alone. What has settled
  was settled from what the step began with, so `Ready` is about the state the player last saw.

`Relay_proofs` proves, for any set of connections and any units, with whatever server and
browser send:

- `RelayTypes`: the types of all ends and queues.
- `RelayInOrder` (`NothingSkipped`): per direction, what arrived and is on the last way is
  a prefix of what was sent, and as long as the socket takes bytes, arrived, under way and
  not yet taken together are all of it. The second half is what makes the first
  inductive: a message is written only while nothing before it was dropped. The
  invariant adds what holds of the sockets meanwhile (a TCP socket is there
  exactly when its server-side WebSocket is, the game server has accepted only once the
  socket is connected, and a closed WebSocket has its TCP socket destroyed or
  closed).
- `RelayIsAPipe`: under the refinement mapping of `Relay` (`standing` makes one state of four
  ends) every step is a step of `Pipe` or a stutter. The lemmas about prefixes come first,
  then one lemma per kind of step: those that only move an end, those that send, those
  that arrive.

`WebLink_proofs` proves the whole line, for any lines, units and scripts
(`LinkAssumption`: what a script is made of, and that the server tells a session of its own
character before anything a request waits for, as `PlayerPlacement` does):

- `LinkIsARelay`: every behaviour of the line is one of `Relay`, so `LineInOrder`
  (`NothingSkipped`) follows from `RelayInOrder`, and every other proof here starts from it.
- `PageReadsAsSent` (`DecodedAsSent`), `NothingKeptBack` (`NothingParked`), `AsksWithACharacter`
  (`AsksInTheWorld`). What these say is about cuts: bytes come in any pieces and
  any number at a time, over any number of lines, and every packet is read once, in order, from
  where it starts. What a single packet is read as is a finite table, and not a matter
  of proof: it is the hypothesis `[]ReadsAlone` (the packet the server is about to send, taken by
  itself, is decoded as it is meant, reads nothing behind its end and has a size the
  Reassembler takes), which the run `wire` checks for every packet of `Protocol.h`,
  empty and full lists included (`MessagesAgree`). TLC needs both to say that the page reads right in one
  instance; the theorem needs the table only.

`AsksInTheWorld` has one exception, which is what the code does: a walk that a lost line cut off leaves
`moving` set, and on the next line the chat box (`live.html:850`) sends its `C2S_MOVE_STOP`
whether that line has a character yet or not (the server drops it). The property says how far
this goes: while a line has no character such a request is its only stop, an earlier line
ended walking, and no line between has sent one. In the proof, `WalkFrom` ties `moving` to the line whose last move was a
start (`AskInv`), and the lemmas (`StopsAndWalks`, `AskedOnce`) say what one more request does to that.

The invariant (`LinkInv`) says what everything sent on a line consists of: its packets one after the
other (`Cut` names the places where one ends), of which the page has some number of units;
the packets that end before that were given, and the rest is the buffer. A push is a fold over its
pieces, so the lemma is about one round: with less than the next packet at hand it changes nothing
(`RoundWaits`), with all of it, it gives that packet and no more (`RoundTakes`); there are
never fewer rounds than packets, so the loop ends only when it waits.

`Town_proofs` proves, for any layouts, any rows written by hand and any number of edits:

- `WallsStayUnderHouses` (`WallsFollowHouses`) and `PagesShowTheTown` (`PageShowsTheTown`). One half is
  arithmetic: rounding a span up and down to cells (`cellSpan`) gives exactly the cells whose middle
  is in it, and every house `build.js` can draw has a footprint (`RowsAreTheWalls`). The other
  half is who wrote which file when, and needs an invariant (`TownInv`) of what the programs carry
  between their steps: the layout each has read is still the one in the file as long as nothing went
  wrong (`Calm`), no rows of other maps are only in the memory of a `blocks.js` that somebody may stop
  (`NothingLost`), and what a page has got so far is what the files still hold (`Undisturbed`).
- `GroundHasNoSeams` (`NoSeams`). A tile shows what its corners ask for, whichever of the candidates
  `nth` takes (`NthIs`), because no two tiles have one number; the corners of neighbours
  are the same points of the grid (`Neighbours`, `KeyIs`); and a ground with a missing tile
  is never written (`Running`).

They assume of a layout (`LayoutsAssumption`) that it is a square of at least one tile and that the walls
of its houses lie on the map, as the server demands of the rows (`BlockTable.cpp:61`), and of
the tile table (`TilesAssumption`) that it gives every tile a number of its own. TLC evaluates
both, the second on the whole table.

Not proved and left to TLC: everything under fairness (`ENABLED` is out of the
prover's reach); of the store, that the gauge is exact (`InflightGauge`; that it never is too low is proved), and
`NothingForgotten`, `TradeWhole`, `NeverBack`, `LossIsReported`: the first rests on each reply
being credited to its own link, the others on one write under way per character, and finding 3
upsets both when there are three accounts; of the town, that everybody
can walk everywhere (`TownWalkable`), which is about the one layout that is there; the tables of `Protocol` and `Proto`, that is `MessagesAgree` (`ReadsAlone` for packets, `RequestsUnderstood` for requests: each of them by
itself), which are finite and which TLC goes through.

## 7. Not modelled

See `components` in `PROJECT.json`. Of the server: loading's checks of slots and cool-downs,
the rest of entry, maps, zones and sight, party, combat, monsters and rewards. They are
sequential handlers of the game thread on their own state; the modules here cover what
crosses threads, ticks, processes or machines, and these would come next (party with its
rooms, then sight against the definition of a neighbourhood). Table parsing, monitoring,
the native clients and load tests keep no state whose order matters, or none of the
server's. Of the web client: drawing, prediction and windows of `live.html`; the pictures
in `assets/`, which are data; cutting the houses out of a preview (pixel work inside
Chrome). `ServerCore` and `LockFree` are submodules and not in the tree; they appear as the
external actions of `DBWorkerPool`, `CharacterStore` and `Relay`.
