-------------------------- MODULE TradeSystem_proofs --------------------------
(***************************************************************************)
(* Trades, proved for any players, maps, bags, items, amounts and limits:  *)
(* what is locked is what was offered, nobody is in two trades, partners   *)
(* are together, an offer never changes under its lock, clients see what   *)
(* the server holds, and a trade that ends has moved all it was about or   *)
(* nothing.                                                                *)
(*                                                                         *)
(* First what the operators of a bag keep, for every table of items, shape *)
(* of bag and amount: a bag stays a bag, a cell that changes is noted,     *)
(* what is locked is not touched by anything its owner does alone, every   *)
(* stack stays one that loading would accept, and what is put in or taken  *)
(* out is exactly what the amount says.                                    *)
(*                                                                         *)
(* The handlers of the source call each other on one state of the game, so *)
(* the invariant is said of such a state, st, and each function is shown   *)
(* to keep it; an action then only names the functions it is made of.      *)
(***************************************************************************)
EXTENDS TradeSystem, Folds_proofs

-----------------------------------------------------------------------------
(* Smaller and larger. *)

LEMMA MinOfNats ==
  ASSUME NEW S, S \subseteq Nat, S # {}
  PROVE  Min(S) \in S
  BY SmallestNat DEF Min

LEMMA MinOfTwo ==
  ASSUME NEW a \in Int, NEW b \in Int
  PROVE  Min({a, b}) = IF a <= b THEN a ELSE b
  BY DEF Min

LEMMA MaxOfTwo ==
  ASSUME NEW a \in Int, NEW b \in Int
  PROVE  Max({a, b}) = IF a >= b THEN a ELSE b
  BY DEF Max

-----------------------------------------------------------------------------
(* What a change of a bag respects. *)

\* Whatever differs between two bags is noted in the second, to be shown.
Noted(old, new) ==
    /\ old.changed \subseteq new.changed
    /\ old.moneyChanged => new.moneyChanged
    /\ \A i \in Index : i \in new.changed \/ new.cells[i] = old.cells[i]
    /\ new.moneyChanged \/ new.money = old.money

SameLocks(old, new) ==
    new.locked = old.locked /\ new.lockedMoney = old.lockedMoney

\* A bag for another, with what is locked as it was.
Tended(old, new) ==
    /\ new \in Bag
    /\ Noted(old, new)
    /\ SameLocks(old, new)
    /\ \A i \in old.locked : new.cells[i] = old.cells[i]
    /\ old.lockedMoney <= old.money => new.lockedMoney <= new.money

\* Nothing is locked but what holds an item.
LockedHold(bag) == \A i \in bag.locked : bag.cells[i].item # NoItem

LEMMA NotedTwice ==
  ASSUME NEW a, NEW b, NEW c, Noted(a, b), Noted(b, c)
  PROVE  Noted(a, c)
  BY DEF Noted

\* Put changes the cells it is given, notes them, and nothing else.
LEMMA PutBag ==
  ASSUME NEW bag \in Bag, NEW new, NEW D \in SUBSET Index, new \in [D -> Cell]
  PROVE  /\ Put(bag, new) \in Bag
         /\ Noted(bag, Put(bag, new))
         /\ SameLocks(bag, Put(bag, new))
         /\ \A i \in Index \ D : Put(bag, new).cells[i] = bag.cells[i]
         /\ Put(bag, new).money = bag.money
         /\ Put(bag, new).moneyChanged = bag.moneyChanged
  <1> DEFINE cells == [i \in Index |-> IF i \in DOMAIN new THEN new[i] ELSE bag.cells[i]]
  <1>1. cells \in [Index -> Cell] /\ \A i \in Index \ D : cells[i] = bag.cells[i]
    BY DEF Bag
  <1>2. Put(bag, new) = [bag EXCEPT !.cells = cells, !.changed = @ \cup D]
    BY DEF Put
  <1>3. bag.changed \cup D \in SUBSET Index
    BY DEF Bag
  <1> HIDE DEF cells
  <1>4. QED
    BY ZenonT(60), <1>1, <1>2, <1>3 DEF Bag, Noted, SameLocks

LEMMA RemoveFromBag ==
  ASSUME NEW bag \in Bag, NEW i \in Index, NEW n \in Nat
  PROVE  /\ RemoveFrom(bag, i, n) \in Bag
         /\ Noted(bag, RemoveFrom(bag, i, n))
         /\ SameLocks(bag, RemoveFrom(bag, i, n))
         /\ \A j \in Index \ {i} : RemoveFrom(bag, i, n).cells[j] = bag.cells[j]
         /\ RemoveFrom(bag, i, n).money = bag.money
  <1> DEFINE left == IF bag.cells[i].count <= n THEN EmptyCell
                     ELSE [bag.cells[i] EXCEPT !.count = @ - n]
  <1>1. left \in Cell
    BY DEF Bag, Cell, EmptyCell
  <1> HIDE DEF left
  <1>2. [j \in {i} |-> left] \in [{i} -> Cell]
    BY <1>1
  <1>3. RemoveFrom(bag, i, n) = Put(bag, [j \in {i} |-> left])
    BY DEF RemoveFrom, left
  <1>4. QED
    BY <1>2, <1>3, PutBag, {i} \in SUBSET Index

LEMMA SwapSlotsBag ==
  ASSUME NEW bag \in Bag, NEW i \in Index, NEW j \in Index
  PROVE  /\ SwapSlots(bag, i, j) \in Bag
         /\ Noted(bag, SwapSlots(bag, i, j))
         /\ SameLocks(bag, SwapSlots(bag, i, j))
         /\ \A k \in Index \ {i, j} : SwapSlots(bag, i, j).cells[k] = bag.cells[k]
         /\ SwapSlots(bag, i, j).money = bag.money
  <1>1. [k \in {i, j} |-> IF k = i THEN bag.cells[j] ELSE bag.cells[i]] \in [{i, j} -> Cell]
    BY DEF Bag
  <1>2. QED
    BY <1>1, PutBag, {i, j} \in SUBSET Index DEF SwapSlots

\* Money goes in if it fits, with why saying so.
LEMMA TryAddMoneyBag ==
  ASSUME NEW bag \in Bag, NEW n \in Nat
  PROVE  /\ TryAddMoney(bag, n).bag \in Bag
         /\ Noted(bag, TryAddMoney(bag, n).bag)
         /\ SameLocks(bag, TryAddMoney(bag, n).bag)
         /\ TryAddMoney(bag, n).bag.cells = bag.cells
         /\ TryAddMoney(bag, n).bag.money >= bag.money
  <1>1. MoneyMax \in Nat
    BY InventoryAssumption
  <1>2. bag.money \in 0 .. MoneyMax
    BY DEF Bag
  <1>3. CASE n > MoneyMax - bag.money
    BY <1>1, <1>2, <1>3 DEF TryAddMoney, Noted, SameLocks
  <1>4. CASE ~ (n > MoneyMax - bag.money)
    <2>1. TryAddMoney(bag, n).bag = [bag EXCEPT !.money = @ + n, !.moneyChanged = TRUE]
      BY <1>4 DEF TryAddMoney
    <2>2. bag.money + n \in 0 .. MoneyMax
      BY <1>1, <1>2, <1>4
    <2>3. /\ TryAddMoney(bag, n).bag.money = bag.money + n
          /\ TryAddMoney(bag, n).bag.moneyChanged = TRUE
          /\ TryAddMoney(bag, n).bag.cells = bag.cells
          /\ TryAddMoney(bag, n).bag.changed = bag.changed
          /\ TryAddMoney(bag, n).bag.locked = bag.locked
          /\ TryAddMoney(bag, n).bag.lockedMoney = bag.lockedMoney
      BY <2>1 DEF Bag
    <2>4. TryAddMoney(bag, n).bag \in Bag
      BY <2>1, <2>2 DEF Bag
    <2>5. bag.money + n >= bag.money
      BY <1>2, <1>1
    <2>6. QED
      BY <2>3, <2>4, <2>5 DEF Noted, SameLocks
  <1>5. QED
    BY <1>3, <1>4

LEMMA SpendMoneyBag ==
  ASSUME NEW bag \in Bag, NEW n \in Nat, n <= bag.money
  PROVE  /\ SpendMoney(bag, n) \in Bag
         /\ Noted(bag, SpendMoney(bag, n))
         /\ SameLocks(bag, SpendMoney(bag, n))
         /\ SpendMoney(bag, n).cells = bag.cells
         /\ SpendMoney(bag, n).money = bag.money - n
  <1>1. MoneyMax \in Nat /\ bag.money \in 0 .. MoneyMax
    BY InventoryAssumption DEF Bag
  <1>2. bag.money - n \in 0 .. MoneyMax
    BY <1>1
  <1>3. QED
    BY <1>1, <1>2 DEF SpendMoney, Bag, Noted, SameLocks

LEMMA UnlockAllBag ==
  ASSUME NEW bag \in Bag
  PROVE  /\ UnlockAll(bag) \in Bag
         /\ UnlockAll(bag).locked = {} /\ UnlockAll(bag).lockedMoney = 0
         /\ UnlockAll(bag).cells = bag.cells /\ UnlockAll(bag).money = bag.money
         /\ UnlockAll(bag).changed = bag.changed
         /\ UnlockAll(bag).moneyChanged = bag.moneyChanged
         /\ Noted(bag, UnlockAll(bag))
  <1>1. 0 \in 0 .. MoneyMax
    BY InventoryAssumption
  <1>2. /\ UnlockAll(bag) \in Bag
        /\ UnlockAll(bag).locked = {} /\ UnlockAll(bag).lockedMoney = 0
    BY <1>1 DEF UnlockAll, Bag
  <1>3. /\ UnlockAll(bag).cells = bag.cells /\ UnlockAll(bag).money = bag.money
        /\ UnlockAll(bag).changed = bag.changed
        /\ UnlockAll(bag).moneyChanged = bag.moneyChanged
    BY DEF UnlockAll, Bag
  <1>4. QED
    BY <1>2, <1>3 DEF Noted

-----------------------------------------------------------------------------
(* Adding. *)

\* The row of an item.
LEMMA RowOf ==
  ASSUME NEW it \in Item
  PROVE  /\ Def[it].maxStack \in Nat \ {0} /\ Def[it].price \in Nat
         /\ Def[it].store \in {"SLOT", "MONEY"} /\ Def[it].usable \in BOOLEAN
         /\ Def[it].tradable \in BOOLEAN
  BY InventoryAssumption DEF ItemDef

LEMMA RoomIsInt ==
  ASSUME NEW bag \in Bag, NEW it \in Item, NEW i \in Index
  PROVE  Room(bag, it, i) \in Int
  <1>1. bag.cells[i].count \in Nat
    BY DEF Bag, Cell
  <1>2. QED
    BY <1>1, RowOf DEF Room

Rooms(bag, it) == [i \in Index |-> Room(bag, it, i)]

\* The room of some cells together is a number: a sum over a finite set.
LEMMA RoomInIsTotal ==
  ASSUME NEW bag \in Bag, NEW it \in Item, NEW S \in SUBSET Index
  PROVE  RoomIn(bag, it, S) = Total(Rooms(bag, it), S) /\ RoomIn(bag, it, S) \in Int
  <1> DEFINE rooms == Rooms(bag, it)
             Sum(g) == g = [T \in SUBSET S |->
                              IF T = {} THEN 0
                              ELSE Room(bag, it, CHOOSE x \in T : TRUE)
                                     + g[T \ {CHOOSE x \in T : TRUE}]]
             sum == CHOOSE g : Sum(g)
  <1>1. IsFiniteSet(S) /\ \A i \in S : rooms[i] \in Int
    BY InventoryAssumption, FS_Subset, RoomIsInt DEF Rooms
  <1>2. \A T \in SUBSET S : T # {} => rooms[FirstOf(T)] = Room(bag, it, CHOOSE x \in T : TRUE)
    <2>1. \A T \in SUBSET S : T # {} => FirstOf(T) \in Index
      BY FirstIsOne
    <2>2. QED
      BY <2>1 DEF Rooms, FirstOf
  <1> HIDE DEF rooms
  <1>3. ASSUME NEW g
        PROVE  Sum(g) <=> IsSum(g, S, rooms)
    BY ZenonT(120), <1>2 DEF IsSum, FirstOf
  <1>4. PICK g : IsSum(g, S, rooms)
    BY <1>1, SumExists
  <1>5. Sum(sum)
    <2>1. Sum(g)
      <3> HIDE DEF Sum
      <3>1. QED
        BY ZenonT(60), SMTT(60), <1>3, <1>4
    <2>2. QED
      BY ZenonT(60), <2>1
  <1>6. RoomIn(bag, it, S) = sum[S]
    BY DEF RoomIn, MapThenSumSet, MapThenFoldSet
  <1> HIDE DEF sum, Sum
  <1>7. sum[S] = Total(rooms, S)
    BY <1>1, <1>3, <1>5, SumIsTotal, S \in SUBSET S
  <1>8. Total(rooms, S) \in Int
    BY <1>1, TotalParts
  <1>9. QED
    BY <1>6, <1>7, <1>8 DEF rooms

\* What a cell gets is a number; a locked cell gets nothing.
LEMMA ShareOf ==
  ASSUME NEW bag \in Bag, NEW it \in Item, NEW n \in Int, NEW i \in Index
  PROVE  /\ Share(bag, it, n, i) \in Int
         /\ i \in bag.locked => ~ (Share(bag, it, n, i) > 0)
  <1> DEFINE before == RoomIn(bag, it, FilledBefore(bag, it, i))
             rest == Max({0, n - before})
  <1>1. before \in Int
    BY RoomInIsTotal DEF FilledBefore, TabSlots
  <1> HIDE DEF before
  <1>2. rest \in Int /\ rest >= 0
    BY <1>1, MaxOfTwo
  <1> HIDE DEF rest
  <1>3. Share(bag, it, n, i) = Min({Room(bag, it, i), rest})
    BY DEF Share, rest, before
  <1>4. i \in bag.locked => Room(bag, it, i) = 0
    BY DEF Room
  <1>5. QED
    BY <1>2, <1>3, <1>4, RoomIsInt, MinOfTwo

\* Whatever comes of adding is a bag in which nothing locked was touched.
LEMMA TryAddBag ==
  ASSUME NEW bag \in Bag, NEW it \in Item, NEW n \in Int
  PROVE  /\ TryAdd(bag, it, n).bag \in Bag
         /\ Noted(bag, TryAdd(bag, it, n).bag)
         /\ SameLocks(bag, TryAdd(bag, it, n).bag)
         /\ \A i \in bag.locked : TryAdd(bag, it, n).bag.cells[i] = bag.cells[i]
         /\ TryAdd(bag, it, n).bag.money >= bag.money
  <1>1. bag.money \in Int /\ bag.locked \subseteq Index
    BY InventoryAssumption DEF Bag
  <1>2. CASE n < 1
    BY <1>1, <1>2 DEF TryAdd, Noted, SameLocks
  <1>3. CASE ~ (n < 1) /\ Def[it].store = "MONEY"
    <2>1. TryAdd(bag, it, n) = TryAddMoney(bag, n) /\ n \in Nat
      BY <1>3 DEF TryAdd
    <2>2. QED
      BY <2>1, TryAddMoneyBag
  <1>4. CASE ~ (n < 1) /\ Def[it].store # "MONEY" /\ RoomIn(bag, it, TabSlots(it)) < n
    BY <1>1, <1>4 DEF TryAdd, Noted, SameLocks
  <1>5. CASE ~ (n < 1) /\ Def[it].store # "MONEY" /\ ~ (RoomIn(bag, it, TabSlots(it)) < n)
    <2> DEFINE fed == {i \in TabSlots(it) : Share(bag, it, n, i) > 0}
               new == [i \in fed |->
                         [item |-> it, count |-> bag.cells[i].count + Share(bag, it, n, i)]]
    <2>1. fed \in SUBSET Index
      BY DEF TabSlots
    <2>2. \A i \in fed : Share(bag, it, n, i) \in Int /\ Share(bag, it, n, i) > 0
                         /\ i \notin bag.locked /\ bag.cells[i].count \in Nat
      BY <2>1, ShareOf DEF Bag, Cell
    <2>3. \A i \in fed : bag.cells[i].count + Share(bag, it, n, i) \in Nat
      BY <2>2
    <2>4. new \in [fed -> Cell]
      BY <2>3 DEF Cell
    <2>5. TryAdd(bag, it, n).bag = Put(bag, new)
      BY <1>5 DEF TryAdd
    <2>6. \A i \in bag.locked : i \in Index \ fed
      BY <2>2, <1>1
    <2> HIDE DEF fed, new
    <2>7. QED
      BY <1>1, <2>1, <2>4, <2>5, <2>6, PutBag
  <1>6. QED
    BY <1>2, <1>3, <1>4, <1>5

\* What is not money leaves the money as it is.
LEMMA TryAddKeepsMoney ==
  ASSUME NEW bag \in Bag, NEW it \in Item, NEW n \in Int, Def[it].store = "SLOT"
  PROVE  TryAdd(bag, it, n).bag.money = bag.money
  <1>1. CASE n < 1 \/ RoomIn(bag, it, TabSlots(it)) < n
    BY <1>1 DEF TryAdd
  <1>2. CASE ~ (n < 1) /\ ~ (RoomIn(bag, it, TabSlots(it)) < n)
    BY <1>2 DEF TryAdd, Put, Bag
  <1>3. QED
    BY <1>1, <1>2

-----------------------------------------------------------------------------
(* What a player does alone leaves what is locked as it is. *)

LEMMA UseTends ==
  ASSUME NEW bag \in Bag, NEW i \in Index, CanUse(bag, i)
  PROVE  Tended(bag, RemoveFrom(bag, i, 1))
  <1>1. i \notin bag.locked /\ bag.locked \subseteq Index
    BY DEF CanUse, Bag
  <1>2. QED
    BY <1>1, RemoveFromBag DEF Tended, SameLocks

LEMMA EquipTends ==
  ASSUME NEW bag \in Bag, NEW i \in Index, CanEquip(bag, i)
  PROVE  Tended(bag, Equipped(bag, i))
  <1>1. Min(Worn) \in Worn
    BY MinOfNats, InventoryAssumption
  <1>2. Min(Worn) \in Index /\ bag.locked \subseteq Index \ {i, Min(Worn)}
    BY ZenonT(120), <1>1, InventoryAssumption DEF CanEquip, Bag
  <1>3. QED
    BY SMTT(60), ZenonT(60), <1>2, SwapSlotsBag DEF Equipped, Tended, SameLocks

LEMMA UnequipTends ==
  ASSUME NEW bag \in Bag, NEW i \in Index, CanUnequip(bag, i), LockedHold(bag)
  PROVE  Tended(bag, Unequipped(bag, i))
  <1> DEFINE j == Min(EmptyIn(bag, "EQUIP"))
  <1>1. EmptyIn(bag, "EQUIP") \subseteq Nat
    BY InventoryAssumption DEF EmptyIn
  <1>2. j \in EmptyIn(bag, "EQUIP")
    BY <1>1, MinOfNats DEF CanUnequip
  <1>3. j \in Index /\ bag.cells[j].item = NoItem
    BY <1>2 DEF EmptyIn
  <1>4. Unequipped(bag, i) = SwapSlots(bag, i, j)
    BY DEF Unequipped
  <1> HIDE DEF j
  <1>5. bag.locked \subseteq Index \ {i, j}
    BY <1>3 DEF CanUnequip, Bag, LockedHold
  <1>6. QED
    BY SMTT(60), ZenonT(60), <1>3, <1>4, <1>5, SwapSlotsBag DEF Tended, SameLocks

LEMMA GainTends ==
  ASSUME NEW bag \in Bag, NEW it \in Item, NEW n \in Int
  PROVE  Tended(bag, TryAdd(bag, it, n).bag)
  <1>1. /\ TryAdd(bag, it, n).bag \in Bag
        /\ bag.lockedMoney \in Int /\ bag.money \in Int /\ TryAdd(bag, it, n).bag.money \in Int
    BY TryAddBag, InventoryAssumption DEF Bag
  <1>2. QED
    BY <1>1, TryAddBag DEF Tended, SameLocks

LEMMA BuyTends ==
  ASSUME NEW bag \in Bag, NEW it \in Item, NEW n \in Int, CanBuy(bag, it, n)
  PROVE  Tended(bag, Bought(bag, it, n))
  <1> DEFINE more == TryAdd(bag, it, n).bag
             cost == Def[it].price * n
  <1>1. n \in Nat /\ Def[it].price \in Nat
    BY RowOf DEF CanBuy
  <1>2. cost \in Nat
    BY <1>1
  <1>3. /\ more \in Bag /\ Noted(bag, more) /\ SameLocks(bag, more)
        /\ \A i \in bag.locked : more.cells[i] = bag.cells[i]
        /\ more.money = bag.money
    BY TryAddBag, TryAddKeepsMoney DEF CanBuy
  <1>4. cost <= bag.money - bag.lockedMoney
    BY DEF CanBuy, SpendableMoney
  <1>5. Bought(bag, it, n) = SpendMoney(more, cost)
    BY DEF Bought
  <1>6. bag.money \in Nat /\ bag.lockedMoney \in Nat
    BY InventoryAssumption DEF Bag
  <1> HIDE DEF more, cost
  <1>7. cost <= more.money
    BY <1>2, <1>3, <1>4, <1>6
  <1>8. /\ SpendMoney(more, cost) \in Bag
        /\ Noted(more, SpendMoney(more, cost))
        /\ SameLocks(more, SpendMoney(more, cost))
        /\ SpendMoney(more, cost).cells = more.cells
        /\ SpendMoney(more, cost).money = bag.money - cost
    BY <1>2, <1>3, <1>7, SpendMoneyBag
  <1>9. bag.lockedMoney <= bag.money - cost
    BY <1>2, <1>4, <1>6
  <1>10. QED
    BY <1>3, <1>5, <1>8, <1>9, NotedTwice DEF Tended, SameLocks

LEMMA SellTends ==
  ASSUME NEW bag \in Bag, NEW i \in Index, NEW n \in Int, CanSell(bag, i, n)
  PROVE  Tended(bag, Sold(bag, i, n))
  <1> DEFINE less == RemoveFrom(bag, i, n)
             gain == SellPriceOf(bag.cells[i].item) * n
  <1>1. bag.cells[i].item \in Item /\ bag.cells[i].count \in Nat
    BY DEF CanSell, Bag, Cell
  <1>2. n \in Nat /\ SellPriceOf(bag.cells[i].item) \in Nat
    BY <1>1, RowOf DEF CanSell, SellPriceOf
  <1>3. gain \in Nat
    BY <1>2
  <1>4. i \notin bag.locked /\ bag.locked \subseteq Index
    BY DEF CanSell, Bag
  <1>5. /\ less \in Bag /\ Noted(bag, less) /\ SameLocks(bag, less)
        /\ \A j \in bag.locked : less.cells[j] = bag.cells[j]
        /\ less.money = bag.money
    BY <1>2, <1>4, RemoveFromBag
  <1>6. Sold(bag, i, n) = TryAddMoney(less, gain).bag
    BY DEF Sold
  <1> HIDE DEF less, gain
  <1>7. /\ TryAddMoney(less, gain).bag \in Bag
        /\ Noted(less, TryAddMoney(less, gain).bag)
        /\ SameLocks(less, TryAddMoney(less, gain).bag)
        /\ TryAddMoney(less, gain).bag.cells = less.cells
        /\ TryAddMoney(less, gain).bag.money >= bag.money
    BY <1>3, <1>5, TryAddMoneyBag
  <1>8. /\ bag.money \in Int /\ bag.lockedMoney \in Int
        /\ TryAddMoney(less, gain).bag.money \in Int
    BY <1>7, InventoryAssumption DEF Bag
  <1>9. QED
    BY <1>5, <1>6, <1>7, <1>8, NotedTwice DEF Tended, SameLocks

-----------------------------------------------------------------------------
(* Stacks that fit, and how much of an item a bag holds. *)

\* Every cell holds what loading would accept there.
Lawful(bag) == \A i \in Index : Fits(i, bag.cells[i])

Counts(bag, it) ==
    [i \in Index |-> IF bag.cells[i].item = it THEN bag.cells[i].count ELSE 0]

Owned(bag, it) == Total(Counts(bag, it), Index)

LEMMA CountsAreNats ==
  ASSUME NEW bag \in Bag, NEW it \in Item
  PROVE  /\ IsFiniteSet(Index) /\ Owned(bag, it) \in Int
         /\ \A i \in Index : Counts(bag, it)[i] \in Nat
  <1>1. IsFiniteSet(Index)
    BY InventoryAssumption
  <1>2. \A i \in Index : bag.cells[i].count \in Nat
    BY DEF Bag, Cell
  <1>3. \A i \in Index : Counts(bag, it)[i] \in Nat
    BY <1>2 DEF Counts
  <1> DEFINE f == Counts(bag, it)
  <1>4. \A i \in Index : f[i] \in Int
    BY <1>3
  <1> HIDE DEF f
  <1>5. Total(f, Index) \in Int
    BY <1>1, <1>4, TotalParts
  <1>6. QED
    BY <1>1, <1>3, <1>5 DEF Owned, f

LEMMA PutCells ==
  ASSUME NEW bag \in Bag, NEW D, NEW new, DOMAIN new = D
  PROVE  Put(bag, new).cells = [i \in Index |-> IF i \in D THEN new[i] ELSE bag.cells[i]]
  BY DEF Put, Bag

\* One cell after something was taken out of it.
Less(cell, n) == IF cell.count <= n THEN EmptyCell ELSE [cell EXCEPT !.count = @ - n]

LEMMA RemoveFromCells ==
  ASSUME NEW bag \in Bag, NEW i \in Index, NEW n
  PROVE  RemoveFrom(bag, i, n).cells
           = [j \in Index |-> IF j = i THEN Less(bag.cells[i], n) ELSE bag.cells[j]]
  <1> DEFINE new == [j \in {i} |-> Less(bag.cells[i], n)]
  <1>1. RemoveFrom(bag, i, n) = Put(bag, new)
    BY DEF RemoveFrom, Less
  <1>2. DOMAIN new = {i} /\ new[i] = Less(bag.cells[i], n)
    OBVIOUS
  <1> HIDE DEF new
  <1>3. Put(bag, new).cells = [j \in Index |-> IF j \in {i} THEN new[j] ELSE bag.cells[j]]
    BY <1>2, PutCells
  <1>4. QED
    BY <1>1, <1>2, <1>3

\* Taking out leaves a stack, or nothing.
LEMMA RemoveFromFits ==
  ASSUME NEW bag \in Bag, Lawful(bag), NEW i \in Index, NEW n \in Nat
  PROVE  Lawful(RemoveFrom(bag, i, n))
  <1>1. bag.cells[i] \in Cell /\ Fits(i, bag.cells[i])
    BY DEF Bag, Lawful
  <1>2. \A it \in Item : Def[it].maxStack \in Nat
    BY RowOf
  <1>3. Fits(i, Less(bag.cells[i], n))
    <2>1. CASE bag.cells[i].count <= n
      BY <2>1 DEF Less, Fits
    <2>2. CASE ~ (bag.cells[i].count <= n)
      <3> DEFINE cell == bag.cells[i]
      <3>1. cell.count \in Nat /\ cell.item \in Item
        BY <1>1, <2>2 DEF Fits, Cell, EmptyCell
      <3>2. Less(cell, n) = [cell EXCEPT !.count = @ - n]
        BY <2>2 DEF Less
      <3>3. Less(cell, n).item = cell.item /\ Less(cell, n).count = cell.count - n
        BY <1>1, <3>2 DEF Cell
      <3>4. cell.count - n \in 1 .. Def[cell.item].maxStack
        BY <1>1, <1>2, <2>2, <3>1 DEF Fits, EmptyCell
      <3>5. Def[cell.item].tab = TabOf[i]
        BY <1>1, <2>2, <3>1 DEF Fits, EmptyCell
      <3> HIDE DEF cell
      <3>6. Fits(i, Less(cell, n))
        BY <3>1, <3>3, <3>4, <3>5 DEF Fits
      <3>7. QED
        BY <3>6 DEF cell
    <2>3. QED
      BY <2>1, <2>2
  <1> DEFINE new == RemoveFrom(bag, i, n)
  <1>4. new.cells = [j \in Index |-> IF j = i THEN Less(bag.cells[i], n) ELSE bag.cells[j]]
    BY RemoveFromCells
  <1> HIDE DEF new
  <1>5. Lawful(new)
    BY <1>3, <1>4 DEF Lawful
  <1>6. QED
    BY <1>5 DEF new

\* What is taken out of a stack is gone from its item, and from no other.
LEMMA RemoveFromCount ==
  ASSUME NEW bag \in Bag, NEW i \in Index, NEW n \in Nat,
         bag.cells[i].item \in Item, n <= bag.cells[i].count, NEW it \in Item
  PROVE  Owned(RemoveFrom(bag, i, n), it)
           = Owned(bag, it) - (IF bag.cells[i].item = it THEN n ELSE 0)
  <1> DEFINE new == RemoveFrom(bag, i, n)
             f == Counts(bag, it)
             h == Counts(new, it)
  <1>1. new \in Bag
    BY RemoveFromBag
  <1>2. new.cells = [j \in Index |-> IF j = i THEN Less(bag.cells[i], n) ELSE bag.cells[j]]
    BY RemoveFromCells
  <1>3. bag.cells[i] \in Cell /\ NoItem # it
    BY InventoryAssumption DEF Bag
  <1>4. h[i] = f[i] - (IF bag.cells[i].item = it THEN n ELSE 0)
    <2>1. bag.cells[i].count \in Nat
      BY <1>3 DEF Cell
    <2>2. CASE bag.cells[i].count <= n
      <3>1. new.cells[i] = EmptyCell /\ bag.cells[i].count = n
        BY <1>2, <2>1, <2>2 DEF Less
      <3> HIDE DEF new
      <3>2. h[i] = 0 /\ f[i] = IF bag.cells[i].item = it THEN n ELSE 0
        BY <1>3, <3>1 DEF Counts, EmptyCell
      <3>3. QED
        BY <3>2
    <2>3. CASE ~ (bag.cells[i].count <= n)
      <3>1. new.cells[i] = [bag.cells[i] EXCEPT !.count = @ - n]
        BY <1>2, <2>3 DEF Less
      <3>2. new.cells[i].item = bag.cells[i].item
            /\ new.cells[i].count = bag.cells[i].count - n
        BY <1>3, <3>1 DEF Cell
      <3> HIDE DEF new
      <3>3. QED
        BY <2>1, <3>2 DEF Counts
    <2>4. QED
      BY <2>2, <2>3
  <1>5. \A j \in Index \ {i} : f[j] = h[j]
    BY <1>2 DEF Counts
  <1> HIDE DEF new
  <1>6. /\ IsFiniteSet(Index) /\ Owned(bag, it) \in Int
        /\ \A j \in Index : f[j] \in Int /\ h[j] \in Int
    BY <1>1, CountsAreNats
  <1> HIDE DEF f, h
  <1>7. Total(h, Index) = Total(f, Index) - f[i] + h[i]
    BY <1>5, <1>6, TotalChange
  <1>8. Total(f, Index) \in Int /\ f[i] \in Int
    BY <1>6 DEF Owned, f
  <1>9. QED
    BY <1>4, <1>7, <1>8 DEF Owned, f, h, new

\* Stacks of cells of one tab may change places.
LEMMA SwapSlotsFits ==
  ASSUME NEW bag \in Bag, Lawful(bag), NEW i \in Index, NEW j \in Index,
         TabOf[i] = TabOf[j]
  PROVE  Lawful(SwapSlots(bag, i, j))
  <1> DEFINE new == [k \in {i, j} |-> IF k = i THEN bag.cells[j] ELSE bag.cells[i]]
  <1>1. DOMAIN new = {i, j} /\ new[i] = bag.cells[j] /\ (j # i => new[j] = bag.cells[i])
    OBVIOUS
  <1>2. SwapSlots(bag, i, j) = Put(bag, new)
    BY DEF SwapSlots
  <1> HIDE DEF new
  <1>3. SwapSlots(bag, i, j).cells
          = [k \in Index |-> IF k \in {i, j} THEN new[k] ELSE bag.cells[k]]
    BY <1>1, <1>2, PutCells
  <1>4. Fits(i, bag.cells[j]) /\ Fits(j, bag.cells[i])
    BY DEF Lawful, Fits
  <1>5. QED
    BY <1>1, <1>3, <1>4 DEF Lawful

\* The cells that adding may fill, and the order it fills them in.
Vessels(bag, it) == {i \in TabSlots(it) : bag.cells[i].item \in {it, NoItem}}

LEMMA VesselsInOrder ==
  ASSUME NEW bag \in Bag, NEW it \in Item
  PROVE  LET R == Vessels(bag, it)
             before == [i \in R |-> FilledBefore(bag, it, i)]
         IN  /\ \A i \in R : before[i] \in SUBSET R /\ i \notin before[i]
             /\ \A i \in R : \A j \in before[i] : before[j] \subseteq before[i]
             /\ \A i \in R, j \in R : i # j => i \in before[j] \/ j \in before[i]
  <1> DEFINE R == Vessels(bag, it)
             before == [i \in R |-> FilledBefore(bag, it, i)]
  <1>1. NoItem # it /\ \A i \in R : i \in Nat /\ i \in TabSlots(it)
                                    /\ (bag.cells[i].item = it \/ bag.cells[i].item = NoItem)
    BY InventoryAssumption DEF Vessels, TabSlots
  <1>2. ASSUME NEW i \in R
        PROVE  before[i] = {j \in R : \/ bag.cells[j].item = it /\ bag.cells[i].item = NoItem
                                      \/ bag.cells[j].item = bag.cells[i].item /\ j < i}
    <2>1. before[i] = FilledBefore(bag, it, i)
      OBVIOUS
    <2>2. \A j \in FilledBefore(bag, it, i) : j \in R
      BY <1>1 DEF FilledBefore, Vessels
    <2> HIDE DEF before
    <2>3. QED
      BY <1>1, <2>1, <2>2 DEF FilledBefore
  <1> HIDE DEF before, R
  <1>3. \A i \in R : before[i] \in SUBSET R /\ i \notin before[i]
    BY <1>1, <1>2
  <1>4. \A i \in R : \A j \in before[i] : before[j] \subseteq before[i]
    <2>1. ASSUME NEW i \in R, NEW j \in before[i], NEW k \in before[j]
          PROVE  k \in before[i]
      <3>1. j \in R /\ k \in R
        BY <1>3, <2>1
      <3>2. i \in Nat /\ j \in Nat /\ k \in Nat
        BY <1>1, <3>1
      <3>3. \/ bag.cells[j].item = it /\ bag.cells[i].item = NoItem
            \/ bag.cells[j].item = bag.cells[i].item /\ j < i
        BY <1>2
      <3>4. \/ bag.cells[k].item = it /\ bag.cells[j].item = NoItem
            \/ bag.cells[k].item = bag.cells[j].item /\ k < j
        BY <1>2, <3>1
      <3>5. \/ bag.cells[k].item = it /\ bag.cells[i].item = NoItem
            \/ bag.cells[k].item = bag.cells[i].item /\ k < i
        BY <1>1, <3>2, <3>3, <3>4
      <3>6. QED
        BY <1>2, <3>1, <3>5
    <2>2. QED
      BY <2>1
  <1>5. \A i \in R, j \in R : i # j => i \in before[j] \/ j \in before[i]
    BY <1>1, <1>2
  <1>6. QED
    BY <1>3, <1>4, <1>5 DEF R, before

\* What adding pours into each cell.
Shares(bag, it, n) ==
    [i \in Index |-> IF i \in TabSlots(it) THEN Share(bag, it, n, i) ELSE 0]

\* If there is room for n, the cells get n together, none more than it has room for.
LEMMA SharesOfAll ==
  ASSUME NEW bag \in Bag, Lawful(bag), NEW it \in Item, NEW n \in Nat,
         n <= RoomIn(bag, it, TabSlots(it))
  PROVE  /\ Total(Shares(bag, it, n), Index) = n
         /\ \A i \in Index : /\ Shares(bag, it, n)[i] \in Nat
                             /\ i \notin Vessels(bag, it) => Shares(bag, it, n)[i] = 0
                             /\ Shares(bag, it, n)[i] > 0
                                  => bag.cells[i].count + Shares(bag, it, n)[i]
                                        \in 1 .. Def[it].maxStack
  <1> DEFINE R == Vessels(bag, it)
             rooms == Rooms(bag, it)
             before == [i \in R |-> FilledBefore(bag, it, i)]
             share == Shares(bag, it, n)
             Rest(i) == n - RoomIn(bag, it, FilledBefore(bag, it, i))
  <1>1. R \in SUBSET TabSlots(it) /\ TabSlots(it) \in SUBSET Index /\ R \in SUBSET Index
    BY DEF Vessels, TabSlots
  <1>2. IsFiniteSet(Index) /\ IsFiniteSet(TabSlots(it)) /\ IsFiniteSet(R)
    BY <1>1, InventoryAssumption, FS_Subset
  <1>3. \A i \in Index : /\ rooms[i] = Room(bag, it, i) /\ rooms[i] \in Int
                         /\ bag.cells[i].count \in Nat
    BY RoomIsInt DEF Rooms, Bag, Cell
  <1>4. \A i \in R : rooms[i] \in Nat /\ (rooms[i] = 0 \/ rooms[i] = Def[it].maxStack - bag.cells[i].count)
    <2>1. ASSUME NEW i \in R
          PROVE  rooms[i] \in Nat
                 /\ (rooms[i] = 0 \/ rooms[i] = Def[it].maxStack - bag.cells[i].count)
      <3>1. i \in Index /\ Fits(i, bag.cells[i]) /\ bag.cells[i].item \in {it, NoItem}
        BY <1>1 DEF Lawful, Vessels
      <3>2. Def[it].maxStack \in Nat
        BY RowOf
      <3>3. bag.cells[i].count <= Def[it].maxStack
        BY <3>1, <3>2, InventoryAssumption DEF Fits, EmptyCell
      <3>4. bag.cells[i].count \in Nat
        BY <1>3, <3>1
      <3>5. Room(bag, it, i) = 0 \/ Room(bag, it, i) = Def[it].maxStack - bag.cells[i].count
        BY DEF Room
      <3>6. QED
        BY <1>3, <3>1, <3>2, <3>3, <3>4, <3>5
    <2>2. QED
      BY <2>1
  <1>5. \A i \in TabSlots(it) \ R : rooms[i] = 0
    <2>1. \A i \in TabSlots(it) \ R : i \in Index /\ bag.cells[i].item \notin {it, NoItem}
      BY <1>1 DEF Vessels
    <2>2. QED
      BY <1>3, <2>1 DEF Room
  <1>6. \A i \in Index : /\ Rest(i) \in Int
                         /\ Rest(i) = n - Total(rooms, FilledBefore(bag, it, i))
    <2>1. \A i \in Index : FilledBefore(bag, it, i) \in SUBSET Index
      BY <1>1 DEF FilledBefore
    <2>2. \A i \in Index : /\ RoomIn(bag, it, FilledBefore(bag, it, i)) \in Int
                           /\ RoomIn(bag, it, FilledBefore(bag, it, i))
                                = Total(rooms, FilledBefore(bag, it, i))
      BY <2>1, RoomInIsTotal
    <2> HIDE DEF rooms
    <2>3. QED
      BY <2>2
  <1>7. ASSUME NEW i \in TabSlots(it), rooms[i] >= 0
        PROVE  share[i] = IF Rest(i) <= 0 THEN 0
                          ELSE IF rooms[i] <= Rest(i) THEN rooms[i] ELSE Rest(i)
    <2>1. share[i] = Min({Room(bag, it, i), Max({0, Rest(i)})})
      BY <1>1, <1>7 DEF Shares, Share
    <2>2. Rest(i) \in Int /\ rooms[i] = Room(bag, it, i) /\ rooms[i] \in Int
      BY <1>1, <1>3, <1>6, <1>7
    <2> HIDE DEF Rest, rooms, share
    <2>3. Max({0, Rest(i)}) = IF 0 >= Rest(i) THEN 0 ELSE Rest(i)
      BY <2>2, MaxOfTwo
    <2> DEFINE m == Max({0, Rest(i)})
    <2>4. m \in Int
      BY <2>2, <2>3
    <2> HIDE DEF m
    <2>5. Min({rooms[i], m}) = IF rooms[i] <= m THEN rooms[i] ELSE m
      BY <2>2, <2>4, MinOfTwo
    <2>6. QED
      BY <1>7, <2>1, <2>2, <2>3, <2>5 DEF m
  <1>8. Total(rooms, TabSlots(it)) = Total(rooms, R)
        /\ RoomIn(bag, it, TabSlots(it)) = Total(rooms, TabSlots(it))
        /\ Total(rooms, R) \in Int
    <2>1. RoomIn(bag, it, TabSlots(it)) = Total(rooms, TabSlots(it))
      BY <1>1, RoomInIsTotal
    <2>2. /\ \A i \in TabSlots(it) : rooms[i] \in Int
          /\ \A i \in R : rooms[i] \in Int
      BY <1>1, <1>3
    <2> HIDE DEF rooms
    <2> HIDE DEF R
    <2>3. Total(rooms, TabSlots(it)) = Total(rooms, R)
      BY <1>1, <1>2, <1>5, <2>2, TotalOfPart
    <2>4. Total(rooms, R) \in Int
      BY <1>2, <2>2, TotalParts
    <2>5. QED
      BY <2>1, <2>3, <2>4
  <1>9. \A i \in R : share[i] = LET rest == n - Total(rooms, before[i])
                                IN  IF rest <= 0 THEN 0
                                    ELSE IF rooms[i] <= rest THEN rooms[i] ELSE rest
    <2>1. ASSUME NEW i \in R
          PROVE  share[i] = LET rest == n - Total(rooms, before[i])
                            IN  IF rest <= 0 THEN 0
                                ELSE IF rooms[i] <= rest THEN rooms[i] ELSE rest
      <3>1. i \in TabSlots(it) /\ i \in Index /\ rooms[i] >= 0
        BY <1>1, <1>4
      <3>2. before[i] = FilledBefore(bag, it, i)
        OBVIOUS
      <3>3. Rest(i) = n - Total(rooms, before[i])
        BY <1>6, <3>1, <3>2
      <3> HIDE DEF before, share, rooms, Rest
      <3>4. QED
        BY <1>7, <3>1, <3>3
    <2>2. QED
      BY <2>1
  <1>10. /\ \A i \in R : before[i] \in SUBSET R /\ i \notin before[i]
         /\ \A i \in R : \A j \in before[i] : before[j] \subseteq before[i]
         /\ \A i \in R, j \in R : i # j => i \in before[j] \/ j \in before[i]
    BY ZenonT(60), SMTT(60), VesselsInOrder
  <1>11. ASSUME NEW i \in Index, i \notin R
         PROVE  share[i] = 0
    <2>1. CASE i \in TabSlots(it)
      <3>1. rooms[i] = 0 /\ Rest(i) \in Int
        BY <1>5, <1>6, <1>11, <2>1
      <3> HIDE DEF rooms, Rest, share
      <3>2. QED
        BY <1>7, <2>1, <3>1
    <2>2. CASE i \notin TabSlots(it)
      BY <2>2 DEF Shares
    <2>3. QED
      BY <2>1, <2>2
  <1>12. \A i \in R : \E rest \in Int : share[i] = IF rest <= 0 THEN 0
                                    ELSE IF rooms[i] <= rest THEN rooms[i] ELSE rest
    <2>1. \A i \in R : rooms[i] >= 0 /\ i \in TabSlots(it) /\ Rest(i) \in Int
      BY <1>1, <1>4, <1>6
    <2> HIDE DEF rooms, Rest, share, R
    <2>2. QED
      BY <1>7, <2>1
  <1>13. ASSUME NEW i \in R
         PROVE  /\ share[i] \in Nat
                /\ share[i] > 0 => bag.cells[i].count + share[i] \in 1 .. Def[it].maxStack
    <2>1. PICK rest \in Int : share[i] = IF rest <= 0 THEN 0
                                    ELSE IF rooms[i] <= rest THEN rooms[i] ELSE rest
      BY <1>12
    <2>2. rooms[i] \in Nat /\ (rooms[i] = 0 \/ rooms[i] = Def[it].maxStack - bag.cells[i].count)
      BY <1>4
    <2>3. bag.cells[i].count \in Nat /\ Def[it].maxStack \in Nat
      BY <1>1, <1>3, RowOf
    <2> HIDE DEF rooms, share
    <2>4. share[i] \in Nat /\ share[i] <= rooms[i]
      BY <2>1, <2>2
    <2>5. QED
      BY <2>2, <2>3, <2>4
  <1>14. Total(share, Index) = n
    <2>1. Total(share, R) = IF Total(rooms, R) <= n THEN Total(rooms, R) ELSE n
      <3> HIDE DEF rooms, share, before, R, Rest
      <3>1. \A i \in R : rooms[i] \in Nat
        BY <1>4
      <3>2. QED
        BY <1>2, <1>9, <1>10, <3>1, Pouring
    <2>2. \A i \in Index : share[i] \in Int
      BY <1>11, <1>13
    <2> HIDE DEF rooms, share, R
    <2>3. Total(share, Index) = Total(share, R)
      BY <1>1, <1>2, <1>11, <2>2, TotalOfPart
    <2>4. QED
      BY <1>8, <2>1, <2>3
  <1>15. \A i \in Index : /\ share[i] \in Nat
                          /\ i \notin R => share[i] = 0
                          /\ share[i] > 0 => bag.cells[i].count + share[i] \in 1 .. Def[it].maxStack
    <2> HIDE DEF share, R
    <2>1. QED
      BY <1>11, <1>13
  <1>16. QED
    BY <1>14, <1>15

\* All n of what is added are there afterwards, in stacks that fit, and no other item
\* has become more or less.
LEMMA TryAddCount ==
  ASSUME NEW bag \in Bag, Lawful(bag), NEW it \in Item, Def[it].store = "SLOT",
         NEW n \in Nat, TryAdd(bag, it, n).why = "OK"
  PROVE  /\ Lawful(TryAdd(bag, it, n).bag)
         /\ \A any \in Item : Owned(TryAdd(bag, it, n).bag, any)
                                = Owned(bag, any) + (IF any = it THEN n ELSE 0)
  <1> DEFINE share == Shares(bag, it, n)
             fed == {i \in TabSlots(it) : Share(bag, it, n, i) > 0}
             pour == [i \in fed |->
                        [item |-> it, count |-> bag.cells[i].count + Share(bag, it, n, i)]]
             new == TryAdd(bag, it, n).bag
  <1>1. ~ (n < 1) /\ ~ (RoomIn(bag, it, TabSlots(it)) < n)
    BY DEF TryAdd
  <1>2. new = Put(bag, pour)
    BY <1>1 DEF TryAdd
  <1>3. new \in Bag
    BY TryAddBag
  <1>4. RoomIn(bag, it, TabSlots(it)) \in Int
    BY RoomInIsTotal DEF TabSlots
  <1>5. n <= RoomIn(bag, it, TabSlots(it))
    BY <1>1, <1>4
  <1>6. /\ Total(share, Index) = n
        /\ \A i \in Index : /\ share[i] \in Nat
                            /\ i \notin Vessels(bag, it) => share[i] = 0
                            /\ share[i] > 0 => bag.cells[i].count + share[i]
                                                 \in 1 .. Def[it].maxStack
    BY <1>5, SharesOfAll
  <1>7. TabSlots(it) \subseteq Index
    BY DEF TabSlots
  <1>8. \A i \in TabSlots(it) : share[i] = Share(bag, it, n, i)
    BY <1>7 DEF Shares
  <1>9. \A i \in Index \ TabSlots(it) : share[i] = 0
    BY DEF Shares
  <1> HIDE DEF new, share
  <1>10. \A i \in Index : i \in fed <=> share[i] > 0
    BY <1>6, <1>7, <1>8, <1>9
  <1>11. \A i \in fed : /\ i \in Index /\ i \in Vessels(bag, it)
                        /\ Def[it].tab = TabOf[i]
                        /\ pour[i] = [item |-> it, count |-> bag.cells[i].count + share[i]]
    <2>1. ASSUME NEW i \in fed
          PROVE  /\ i \in Index /\ i \in Vessels(bag, it)
                 /\ Def[it].tab = TabOf[i]
                 /\ pour[i] = [item |-> it, count |-> bag.cells[i].count + share[i]]
      <3>1. i \in Index /\ i \in TabSlots(it) /\ share[i] > 0
        BY <1>7, <1>10
      <3>2. i \in Vessels(bag, it)
        BY <1>6, <3>1
      <3>3. Def[it].tab = TabOf[i]
        BY <3>1 DEF TabSlots
      <3>4. QED
        BY <1>8, <3>1, <3>2, <3>3
    <2>2. QED
      BY <2>1
  <1>12. DOMAIN pour = fed
    OBVIOUS
  <1> HIDE DEF pour, fed
  <1>13. new.cells = [i \in Index |-> IF i \in fed THEN pour[i] ELSE bag.cells[i]]
    BY <1>2, <1>12, PutCells
  <1> DEFINE Poured(i) ==
                /\ new.cells[i].item = it
                /\ new.cells[i].count = bag.cells[i].count + share[i]
                /\ \/ bag.cells[i].item = it
                   \/ bag.cells[i].item = NoItem /\ bag.cells[i].count = 0
  <1>14. ASSUME NEW i \in fed
         PROVE  Poured(i)
    <2>1. i \in Index /\ i \in Vessels(bag, it) /\ new.cells[i] = pour[i]
      BY <1>11, <1>13
    <2>2. pour[i] = [item |-> it, count |-> bag.cells[i].count + share[i]]
      BY <1>11
    <2>3. Fits(i, bag.cells[i]) /\ bag.cells[i].item \in {it, NoItem}
      BY <2>1 DEF Vessels, Lawful
    <2>4. bag.cells[i].item = NoItem => bag.cells[i].count = 0
      BY <2>3, InventoryAssumption DEF Fits, EmptyCell
    <2> HIDE DEF pour, fed
    <2>5. QED
      BY <2>1, <2>2, <2>3, <2>4
  <1> HIDE DEF Poured
  <1>15. Lawful(new)
    <2>1. ASSUME NEW i \in Index
          PROVE  Fits(i, new.cells[i])
      <3>1. CASE i \in fed
        <4>1. /\ new.cells[i].item = it /\ new.cells[i].count = bag.cells[i].count + share[i]
              /\ Def[it].tab = TabOf[i]
          BY <1>11, <1>14, <3>1 DEF Poured
        <4>2. new.cells[i].count \in 1 .. Def[it].maxStack
          BY <1>6, <1>10, <3>1, <4>1
        <4>3. QED
          BY <4>1, <4>2 DEF Fits
      <3>2. CASE i \notin fed
        BY <1>13, <3>2 DEF Lawful
      <3>3. QED
        BY <3>1, <3>2
    <2>2. QED
      BY <2>1 DEF Lawful
  <1>16. ASSUME NEW any \in Item
         PROVE  Owned(new, any) = Owned(bag, any) + (IF any = it THEN n ELSE 0)
    <2> DEFINE f == Counts(bag, any)
               k == Counts(new, any)
    <2>1. NoItem # it /\ NoItem # any
      BY InventoryAssumption
    <2>2. ASSUME NEW i \in Index
          PROVE  k[i] = IF any = it THEN f[i] + share[i] ELSE f[i]
      <3>1. bag.cells[i].count \in Nat /\ share[i] \in Nat
        BY <1>6 DEF Bag, Cell
      <3>2. CASE i \in fed
        <4>1. new.cells[i].item = it /\ new.cells[i].count = bag.cells[i].count + share[i]
          BY <1>14, <3>2 DEF Poured
        <4>2. \/ bag.cells[i].item = it
              \/ bag.cells[i].item = NoItem /\ bag.cells[i].count = 0
          BY <1>14, <3>2 DEF Poured
        <4>3. QED
          BY <2>1, <3>1, <4>1, <4>2 DEF Counts
      <3>3. CASE i \notin fed
        <4>1. new.cells[i] = bag.cells[i] /\ share[i] = 0
          BY <1>10, <1>13, <3>1, <3>3
        <4>2. f[i] \in Nat
          BY CountsAreNats
        <4>3. k[i] = f[i]
          BY <4>1 DEF Counts
        <4> HIDE DEF k, f
        <4>4. QED
          BY <4>1, <4>2, <4>3
      <3>4. QED
        BY <3>2, <3>3
    <2>3. /\ IsFiniteSet(Index) /\ Total(f, Index) \in Int
          /\ \A i \in Index : f[i] \in Int
      BY CountsAreNats DEF Owned
    <2>4. \A i \in Index : share[i] \in Int
      BY <1>6
    <2> HIDE DEF f, k
    <2>5. CASE any = it
      <3>1. Total(k, Index) = Total(f, Index) + Total(share, Index)
        BY <2>2, <2>3, <2>4, <2>5, TotalPlus
      <3>2. QED
        BY <1>6, <2>5, <3>1 DEF Owned, f, k
    <2>6. CASE any # it
      <3>1. Total(f, Index) = Total(k, Index)
        BY <2>2, <2>3, <2>6, TotalSame
      <3>2. Owned(new, any) = Total(f, Index) /\ Owned(bag, any) = Total(f, Index)
        BY <3>1 DEF Owned, f, k
      <3>3. QED
        BY <2>3, <2>6, <3>2
    <2>7. QED
      BY <2>5, <2>6
  <1>17. QED
    BY <1>15, <1>16 DEF new

\* What lies in a cell is not money.
LEMMA StacksAreNotMoney ==
  ASSUME NEW bag, Lawful(bag), NEW i \in Index, bag.cells[i].item \in Item
  PROVE  /\ Def[bag.cells[i].item].store = "SLOT"
         /\ Def[bag.cells[i].item].tab = TabOf[i]
  <1>1. Fits(i, bag.cells[i]) /\ bag.cells[i].item # NoItem
    BY InventoryAssumption DEF Lawful
  <1>2. Def[bag.cells[i].item].tab = TabOf[i]
    BY <1>1 DEF Fits, EmptyCell
  <1>3. TabOf[i] # NoTab
    BY InventoryAssumption DEF Tab, NoTab
  <1>4. QED
    BY <1>2, <1>3, InventoryAssumption

\* Whatever comes of adding, what lies in the cells fits.
LEMMA TryAddFits ==
  ASSUME NEW bag \in Bag, Lawful(bag), NEW it \in Item, NEW n \in Int
  PROVE  Lawful(TryAdd(bag, it, n).bag)
  <1>1. CASE TryAdd(bag, it, n).why = "OK" /\ Def[it].store = "SLOT"
    <2>1. n \in Nat
      BY <1>1 DEF TryAdd
    <2>2. QED
      BY <1>1, <2>1, TryAddCount
  <1>2. CASE TryAdd(bag, it, n).why # "OK"
    <2>1. TryAdd(bag, it, n).bag = bag
      BY <1>2 DEF TryAdd, TryAddMoney
    <2>2. QED
      BY <2>1
  <1>3. CASE Def[it].store = "MONEY"
    <2>1. \/ TryAdd(bag, it, n).bag = bag
          \/ n \in Nat /\ TryAdd(bag, it, n) = TryAddMoney(bag, n)
      BY <1>3 DEF TryAdd
    <2>2. TryAdd(bag, it, n).bag.cells = bag.cells
      BY <2>1, TryAddMoneyBag
    <2>3. QED
      BY <2>2 DEF Lawful
  <1>4. QED
    BY <1>1, <1>2, <1>3, RowOf

LEMMA EquipFits ==
  ASSUME NEW bag \in Bag, Lawful(bag), NEW i \in Index, CanEquip(bag, i)
  PROVE  Lawful(Equipped(bag, i))
  <1>1. Min(Worn) \in Worn
    BY MinOfNats, InventoryAssumption
  <1>2. Min(Worn) \in Index /\ TabOf[Min(Worn)] = "EQUIP"
    BY <1>1, InventoryAssumption
  <1>3. bag.cells[i].item \in Item /\ Def[bag.cells[i].item].tab = "EQUIP"
    BY DEF CanEquip, Bag, Cell
  <1>4. TabOf[i] = "EQUIP"
    BY <1>3, StacksAreNotMoney
  <1>5. QED
    BY <1>2, <1>4, SwapSlotsFits DEF Equipped

LEMMA UnequipFits ==
  ASSUME NEW bag \in Bag, Lawful(bag), NEW i \in Index, CanUnequip(bag, i)
  PROVE  Lawful(Unequipped(bag, i))
  <1> DEFINE j == Min(EmptyIn(bag, "EQUIP"))
  <1>1. EmptyIn(bag, "EQUIP") \subseteq Nat
    BY InventoryAssumption DEF EmptyIn
  <1>2. j \in EmptyIn(bag, "EQUIP")
    BY <1>1, MinOfNats DEF CanUnequip
  <1>3. j \in Index /\ TabOf[j] = "EQUIP"
    BY <1>2 DEF EmptyIn
  <1>4. Unequipped(bag, i) = SwapSlots(bag, i, j)
    BY DEF Unequipped
  <1> HIDE DEF j
  <1>5. TabOf[i] = "EQUIP"
    BY InventoryAssumption DEF CanUnequip
  <1>6. QED
    BY <1>3, <1>4, <1>5, SwapSlotsFits

LEMMA BuyFits ==
  ASSUME NEW bag \in Bag, Lawful(bag), NEW it \in Item, NEW n \in Int
  PROVE  Lawful(Bought(bag, it, n))
  <1> DEFINE more == TryAdd(bag, it, n).bag
  <1>1. more \in Bag /\ Lawful(more)
    BY TryAddBag, TryAddFits
  <1>2. Bought(bag, it, n) = SpendMoney(more, Def[it].price * n)
    BY DEF Bought
  <1> HIDE DEF more
  <1>3. Bought(bag, it, n).cells = more.cells
    BY <1>1, <1>2 DEF SpendMoney, Bag
  <1>4. QED
    BY <1>1, <1>3 DEF Lawful

LEMMA SellFits ==
  ASSUME NEW bag \in Bag, Lawful(bag), NEW i \in Index, NEW n \in Int, CanSell(bag, i, n)
  PROVE  Lawful(Sold(bag, i, n))
  <1> DEFINE less == RemoveFrom(bag, i, n)
             gain == SellPriceOf(bag.cells[i].item) * n
  <1>1. bag.cells[i].item \in Item /\ bag.cells[i].count \in Nat
    BY SMTT(60), ZenonT(60) DEF CanSell, Bag, Cell
  <1>2. n \in Nat /\ SellPriceOf(bag.cells[i].item) \in Nat
    BY <1>1, RowOf DEF CanSell, SellPriceOf
  <1>3. gain \in Nat
    BY <1>2
  <1>4. less \in Bag /\ Lawful(less)
    BY <1>2, RemoveFromBag, RemoveFromFits
  <1>5. Sold(bag, i, n) = TryAddMoney(less, gain).bag
    BY DEF Sold
  <1> HIDE DEF less, gain
  <1>6. Sold(bag, i, n).cells = less.cells
    BY <1>3, <1>4, <1>5, TryAddMoneyBag
  <1>7. QED
    BY <1>4, <1>6 DEF Lawful

-----------------------------------------------------------------------------
(* The state of the game. *)

StateType == [player : [Player -> PlayerState], requests : SUBSET Request,
              sessions : SUBSET Session, defect : BOOLEAN]

-----------------------------------------------------------------------------
(* The invariant. *)

\* a and b stand on the same map, and trading is allowed there.
Met(st, a, b) ==
    /\ a # b
    /\ st.player[a].zone = st.player[b].zone
    /\ st.player[a].zone \in TradeZone

Together(st) ==
    /\ \A r \in st.requests : Met(st, r.from, r.to)
    /\ \A t \in st.sessions : Met(st, t.side[1].player, t.side[2].player)

\* Nobody is in two of them.
Alone(st) ==
    \A p \in Player :
        /\ \A r1, r2 \in st.requests : Involves(r1, p) /\ Involves(r2, p) => r1 = r2
        /\ \A t1, t2 \in st.sessions : Trades(t1, p) /\ Trades(t2, p) => t1 = t2
        /\ \A r \in st.requests, t \in st.sessions : ~ (Involves(r, p) /\ Trades(t, p))

\* The bag of half's owner: what it has laid out is there, locked, and nothing
\* else is.
LaidOut(bag, half) ==
    /\ bag.locked = {o.index : o \in ToSet(half.items)}
    /\ Cardinality(bag.locked) = Len(half.items)
    /\ SameAsOffered(bag, half)

Free(bag) == bag.locked = {} /\ bag.lockedMoney = 0

TradesNot(st, p) == \A t \in st.sessions : ~ Trades(t, p)

Locks(st) ==
    /\ \A p \in Player : TradesNot(st, p) => Free(st.player[p].bag)
    /\ \A t \in st.sessions : \A s \in 1 .. 2 :
          LaidOut(st.player[t.side[s].player].bag, t.side[s])

\* Only a trade closed on both sides waits.
Waits(st) ==
    \A t \in st.sessions : t.waited # NotReady => t.side[1].closed /\ t.side[2].closed

\* The window of a request shows the one to its player, if there is one.
Asks(st, p) ==
    /\ st.player[p].ask # 0 => \E r \in st.requests : r.to = p
    /\ \A r \in st.requests : r.to = p => st.player[p].ask = r.id

Windows(st) ==
    /\ \A p \in Player : TradesNot(st, p) => st.player[p].win = NoWin
    /\ \A t \in st.sessions : \A s \in 1 .. 2 :
          st.player[t.side[s].player].win = WindowOf(t, s)

Shows(pl) == pl.zone # Out => pl.shown = [cells |-> pl.bag.cells, money |-> pl.bag.money]

Good(st) ==
    /\ st \in StateType
    /\ Together(st)
    /\ Alone(st)
    /\ Locks(st)
    /\ Waits(st)
    /\ \A p \in Player : Asks(st, p)
    /\ Windows(st)
    /\ \A p \in Player : Shows(st.player[p])
    /\ ~ st.defect

TradeInvariant == Good(State) /\ nextId \in 1 .. RequestMax

-----------------------------------------------------------------------------
(* Parts of a state. *)

LEMMA Parts ==
  ASSUME NEW st \in StateType
  PROVE  /\ st.player \in [Player -> PlayerState]
         /\ \A p \in Player : st.player[p] \in PlayerState /\ st.player[p].bag \in Bag
         /\ st.requests \subseteq Request /\ st.sessions \subseteq Session
         /\ st.defect \in BOOLEAN
  BY DEF StateType, PlayerState

LEMMA RequestParts ==
  ASSUME NEW r \in Request
  PROVE  /\ r.from \in Player /\ r.to \in Player
         /\ r.id \in 1 .. RequestMax /\ r.left \in 0 .. AskFrames
         /\ r = [id |-> r.id, from |-> r.from, to |-> r.to, left |-> r.left]
  BY DEF Request

LEMMA SessionParts ==
  ASSUME NEW t \in Session
  PROVE  /\ t.side \in [1 .. 2 -> Half] /\ t.waited \in NotReady .. WaitFrames
         /\ \A s \in 1 .. 2 : t.side[s] \in Half /\ t.side[s].player \in Player
         /\ t.side[1] \in Half /\ t.side[1].player \in Player
         /\ t.side[2] \in Half /\ t.side[2].player \in Player
  BY DEF Session, Half

LEMMA HalfParts ==
  ASSUME NEW h \in Half
  PROVE  /\ h.player \in Player /\ h.items \in Seq(Offer)
         /\ h.money \in 0 .. MoneyMax /\ h.closed \in BOOLEAN
         /\ SightOf(h) \in Sight
  BY DEF Half, SightOf, Sight

\* Who trades has a side of its own.
LEMMA SideOfPlayer ==
  ASSUME NEW t \in Session, NEW p \in Player, Trades(t, p)
  PROVE  /\ SideOf(t, p) \in 1 .. 2 /\ t.side[SideOf(t, p)].player = p
         /\ 3 - SideOf(t, p) \in 1 .. 2
  BY DEF Trades, SideOf

LEMMA WindowIsWindow ==
  ASSUME NEW t \in Session, NEW s \in 1 .. 2
  PROVE  WindowOf(t, s) \in Window
  <1>1. 3 - s \in 1 .. 2
    OBVIOUS
  <1>2. QED
    BY <1>1, SessionParts, HalfParts DEF WindowOf, Window

\* The trade of a player, found by looking for it.
LEMMA SessionFound ==
  ASSUME Good(State), NEW p \in Player, InTrade(p)
  PROVE  /\ SessionOf(p) \in sessions /\ Trades(SessionOf(p), p)
         /\ SessionOf(p) \in Session
         /\ \A t \in sessions : Trades(t, p) => t = SessionOf(p)
  <1>1. SessionOf(p) \in sessions /\ Trades(SessionOf(p), p)
    BY DEF InTrade, SessionOf
  <1>2. sessions = State.sessions /\ State \in StateType
    BY DEF State, Good
  <1>3. QED
    BY <1>1, <1>2, Parts DEF Good, Alone

-----------------------------------------------------------------------------
(* The properties of the runs follow from the invariant. *)

\* In every cell of every bag lies what loading would accept there.
Holds(st) == \A p \in Player : Lawful(st.player[p].bag)

LEMMA GoodTypes ==
  ASSUME TradeInvariant, Holds(State)
  PROVE  TradeTypeOK
  <1>1. State \in StateType
    BY DEF TradeInvariant, Good
  <1>2. /\ player \in [Player -> PlayerState]
        /\ requests \subseteq Request /\ sessions \subseteq Session /\ defect \in BOOLEAN
    BY <1>1, Parts DEF State
  <1>3. \A p \in Player, i \in Index : Fits(i, player[p].bag.cells[i])
    BY DEF Holds, Lawful, State
  <1>4. QED
    BY <1>2, <1>3 DEF TradeTypeOK, TradeInvariant

LEMMA GoodTogether ==
  ASSUME TradeInvariant
  PROVE  PartnersTogether
  <1>1. Together(State) /\ State.requests = requests /\ State.sessions = sessions
        /\ State.player = player
    BY DEF TradeInvariant, Good, State
  <1>2. \A z \in TradeZone : z # Out
    BY TradeAssumption DEF Out
  <1>3. QED
    BY <1>1, <1>2 DEF PartnersTogether, Together, Met, Online

\* A set with one element at most.
LEMMA OneAtMost ==
  ASSUME NEW S, \A x, y \in S : x = y
  PROVE  /\ Cardinality(S) \in Nat /\ Cardinality(S) <= 1
         /\ S # {} => Cardinality(S) = 1
         /\ S = {} => Cardinality(S) = 0
  <1>1. CASE S = {}
    BY <1>1, FS_EmptySet
  <1>2. CASE S # {}
    <2>1. PICK x : S = {x}
      BY <1>2
    <2>2. Cardinality(S) = 1
      BY <2>1, FS_Singleton, Zenon
    <2>3. QED
      BY <1>2, <2>2
  <1>3. QED
    BY <1>1, <1>2

LEMMA GoodAlone ==
  ASSUME TradeInvariant
  PROVE  OneTradeEach
  <1>1. Alone(State) /\ State.requests = requests /\ State.sessions = sessions
    BY DEF TradeInvariant, Good, State
  <1>2. ASSUME NEW p \in Player
        PROVE  Cardinality({r \in requests : Involves(r, p)})
                 + Cardinality({t \in sessions : Trades(t, p)}) <= 1
    <2> DEFINE R == {r \in requests : Involves(r, p)}
               T == {t \in sessions : Trades(t, p)}
    <2>1. (\A x, y \in R : x = y) /\ (\A x, y \in T : x = y) /\ (R = {} \/ T = {})
      BY <1>1 DEF Alone
    <2> HIDE DEF R, T
    <2>2. /\ Cardinality(R) \in Nat /\ Cardinality(R) <= 1
          /\ Cardinality(T) \in Nat /\ Cardinality(T) <= 1
          /\ Cardinality(R) = 0 \/ Cardinality(T) = 0
      BY <2>1, OneAtMost
    <2>3. Cardinality(R) + Cardinality(T) <= 1
      BY <2>2
    <2>4. QED
      BY <2>3 DEF R, T
  <1>3. QED
    BY <1>2 DEF OneTradeEach

LEMMA GoodLocks ==
  ASSUME TradeInvariant
  PROVE  LocksAreOffers
  <1>1. /\ Good(State) /\ Locks(State) /\ State \in StateType
        /\ State.sessions = sessions /\ State.player = player
    BY DEF TradeInvariant, Good, State
  <1>2. ASSUME NEW p \in Player, ~ InTrade(p)
        PROVE  player[p].bag = UnlockAll(player[p].bag)
    <2>1. Free(player[p].bag) /\ player[p].bag \in Bag
      BY <1>1, <1>2, Parts DEF Locks, TradesNot, InTrade
    <2>2. QED
      BY <2>1 DEF Free, UnlockAll, Bag
  <1>3. ASSUME NEW p \in Player, InTrade(p)
        PROVE  LaidOut(player[p].bag, SessionOf(p).side[SideOf(SessionOf(p), p)])
    <2> DEFINE t == SessionOf(p)
    <2>1. t \in sessions /\ t \in Session /\ Trades(t, p)
      BY <1>1, <1>3, SessionFound
    <2> HIDE DEF t
    <2>2. SideOf(t, p) \in 1 .. 2 /\ t.side[SideOf(t, p)].player = p
      BY <2>1, SideOfPlayer
    <2>3. LaidOut(player[p].bag, t.side[SideOf(t, p)])
      BY <1>1, <2>1, <2>2 DEF Locks
    <2>4. QED
      BY <2>3 DEF t
  <1>4. QED
    BY <1>2, <1>3 DEF LocksAreOffers, LaidOut

LEMMA GoodScreens ==
  ASSUME TradeInvariant
  PROVE  ScreensAgree
  <1>1. /\ Good(State) /\ Windows(State) /\ State \in StateType
        /\ State.sessions = sessions /\ State.player = player
        /\ State.requests = requests
    BY DEF TradeInvariant, Good, State
  <1>2. ASSUME NEW p \in Player
        PROVE  /\ player[p].ask # 0 <=> \E r \in requests : r.to = p
               /\ \A r \in requests : r.to = p => player[p].ask = r.id
               /\ Online(p) => player[p].shown
                    = [cells |-> player[p].bag.cells, money |-> player[p].bag.money]
    <2>1. \A r \in requests : r.id # 0
      BY <1>1, Parts, RequestParts
    <2>2. Asks(State, p) /\ Shows(State.player[p])
      BY <1>1 DEF Good
    <2>3. QED
      BY <1>1, <2>1, <2>2 DEF Asks, Shows, Online
  <1>3. ASSUME NEW p \in Player, ~ InTrade(p)
        PROVE  player[p].win = NoWin
    BY <1>1, <1>3 DEF Windows, TradesNot, InTrade
  <1>4. ASSUME NEW p \in Player, InTrade(p)
        PROVE  player[p].win = WindowOf(SessionOf(p), SideOf(SessionOf(p), p))
    <2> DEFINE t == SessionOf(p)
    <2>1. t \in sessions /\ t \in Session /\ Trades(t, p)
      BY <1>1, <1>4, SessionFound
    <2> HIDE DEF t
    <2>2. SideOf(t, p) \in 1 .. 2 /\ t.side[SideOf(t, p)].player = p
      BY <2>1, SideOfPlayer
    <2>3. player[p].win = WindowOf(t, SideOf(t, p))
      BY <1>1, <2>1, <2>2 DEF Windows
    <2>4. QED
      BY <2>3 DEF t
  <1>5. QED
    BY <1>2, <1>3, <1>4 DEF ScreensAgree

-----------------------------------------------------------------------------
(* Changes of one player, or of all, that no request or trade is about. *)

\* A player that got another bag, as its client is told.
Rebagged(pl, bag) == FlushInventory([pl EXCEPT !.bag = bag])

\* The bag's state is shown: shown is made equal to it.
LEMMA Flushed ==
  ASSUME NEW pl \in PlayerState, NEW bag \in Bag, Noted(pl.bag, bag),
         pl.shown = [cells |-> pl.bag.cells, money |-> pl.bag.money]
  PROVE  /\ Rebagged(pl, bag) \in PlayerState
         /\ Rebagged(pl, bag).zone = pl.zone /\ Rebagged(pl, bag).spot = pl.spot
         /\ Rebagged(pl, bag).life = pl.life
         /\ Rebagged(pl, bag).ask = pl.ask /\ Rebagged(pl, bag).win = pl.win
         /\ Rebagged(pl, bag).bag.cells = bag.cells
         /\ Rebagged(pl, bag).bag.money = bag.money
         /\ Rebagged(pl, bag).bag.locked = bag.locked
         /\ Rebagged(pl, bag).bag.lockedMoney = bag.lockedMoney
         /\ Rebagged(pl, bag).shown = [cells |-> bag.cells, money |-> bag.money]
  <1> DEFINE mid == [pl EXCEPT !.bag = bag]
             cells == [i \in Index |-> IF i \in bag.changed THEN bag.cells[i]
                                       ELSE pl.bag.cells[i]]
             money == IF bag.moneyChanged THEN bag.money ELSE pl.bag.money
             quiet == [bag EXCEPT !.changed = {}, !.moneyChanged = FALSE]
             new == Rebagged(pl, bag)
  <1>1. /\ mid \in PlayerState /\ mid.bag = bag
        /\ mid.shown = [cells |-> pl.bag.cells, money |-> pl.bag.money]
        /\ mid.zone = pl.zone /\ mid.spot = pl.spot /\ mid.life = pl.life
        /\ mid.ask = pl.ask /\ mid.win = pl.win
    BY DEF PlayerState
  <1>2. bag.cells \in [Index -> Cell] /\ bag.money \in 0 .. MoneyMax
    BY DEF Bag
  <1>3. cells = bag.cells
    BY <1>2 DEF Noted
  <1>4. money = bag.money
    BY DEF Noted
  <1>5. /\ quiet \in Bag /\ quiet.cells = bag.cells /\ quiet.money = bag.money
        /\ quiet.locked = bag.locked /\ quiet.lockedMoney = bag.lockedMoney
    BY DEF Bag
  <1> HIDE DEF mid
  <1>6. new = [mid EXCEPT !.shown = [cells |-> cells, money |-> money], !.bag = quiet]
    <2>1. FlushInventory(mid) = [mid EXCEPT
             !.shown = [cells |-> [i \in Index |-> IF i \in mid.bag.changed
                                                   THEN mid.bag.cells[i]
                                                   ELSE mid.shown.cells[i]],
                        money |-> IF mid.bag.moneyChanged THEN mid.bag.money
                                  ELSE mid.shown.money],
             !.bag = [mid.bag EXCEPT !.changed = {}, !.moneyChanged = FALSE]]
      BY <1>1 DEF FlushInventory, PlayerState
    <2>2. mid.shown.cells = pl.bag.cells /\ mid.shown.money = pl.bag.money
      BY <1>1
    <2>3. new = FlushInventory(mid)
      BY DEF Rebagged, mid
    <2>4. QED
      BY <1>1, <2>1, <2>2, <2>3
  <1> HIDE DEF cells, money, quiet, new
  <1>7. new = [mid EXCEPT !.shown = [cells |-> bag.cells, money |-> bag.money],
                          !.bag = quiet]
    BY <1>3, <1>4, <1>6
  <1>8. /\ new \in PlayerState /\ new.bag = quiet
        /\ new.shown = [cells |-> bag.cells, money |-> bag.money]
        /\ new.zone = mid.zone /\ new.spot = mid.spot /\ new.life = mid.life
        /\ new.ask = mid.ask /\ new.win = mid.win
    BY <1>1, <1>2, <1>5, <1>7 DEF PlayerState
  <1>9. QED
    BY <1>1, <1>5, <1>8 DEF new, mid

\* The same, of a player in the game.
LEMMA RebaggedShows ==
  ASSUME NEW pl \in PlayerState, NEW bag \in Bag, Noted(pl.bag, bag),
         pl.zone # Out, Shows(pl)
  PROVE  /\ Rebagged(pl, bag) \in PlayerState
         /\ Rebagged(pl, bag).zone = pl.zone /\ Rebagged(pl, bag).spot = pl.spot
         /\ Rebagged(pl, bag).life = pl.life
         /\ Rebagged(pl, bag).ask = pl.ask /\ Rebagged(pl, bag).win = pl.win
         /\ Rebagged(pl, bag).bag.cells = bag.cells
         /\ Rebagged(pl, bag).bag.money = bag.money
         /\ Rebagged(pl, bag).bag.locked = bag.locked
         /\ Rebagged(pl, bag).bag.lockedMoney = bag.lockedMoney
         /\ Shows(Rebagged(pl, bag))
  <1>1. pl.shown = [cells |-> pl.bag.cells, money |-> pl.bag.money]
    BY DEF Shows
  <1> DEFINE new == Rebagged(pl, bag)
  <1>2. /\ new \in PlayerState
        /\ new.zone = pl.zone /\ new.spot = pl.spot
        /\ new.life = pl.life /\ new.ask = pl.ask /\ new.win = pl.win
        /\ new.bag.cells = bag.cells /\ new.bag.money = bag.money
        /\ new.bag.locked = bag.locked /\ new.bag.lockedMoney = bag.lockedMoney
        /\ new.shown = [cells |-> bag.cells, money |-> bag.money]
    BY <1>1, Flushed
  <1> HIDE DEF new
  <1>3. Shows(new)
    BY SMTT(60), ZenonT(60), <1>2 DEF Shows
  <1>4. QED
    BY <1>2, <1>3 DEF new

\* What lies in a trade is still there in a bag that was tended.
LEMMA TendedLaidOut ==
  ASSUME NEW bag \in Bag, NEW new, NEW half \in Half, LaidOut(bag, half),
         new.locked = bag.locked, new.lockedMoney = bag.lockedMoney,
         \A i \in bag.locked : new.cells[i] = bag.cells[i],
         bag.lockedMoney <= bag.money => new.lockedMoney <= new.money,
         new.money \in Int
  PROVE  LaidOut(new, half)
  <1>1. half.money \in Int /\ bag.money \in Int
    BY InventoryAssumption DEF Half, Bag
  <1>2. bag.lockedMoney = half.money /\ bag.money >= half.money
    BY DEF LaidOut, SameAsOffered
  <1>3. new.lockedMoney = half.money /\ new.money >= half.money
    BY <1>1, <1>2
  <1>4. \A k \in DOMAIN half.items :
           /\ half.items[k].index \in new.locked
           /\ new.cells[half.items[k].index].item = half.items[k].item
           /\ new.cells[half.items[k].index].count >= half.items[k].count
    BY DEF LaidOut, SameAsOffered
  <1>5. QED
    BY ZenonT(60), SMTT(60), <1>3, <1>4 DEF LaidOut, SameAsOffered

\* What is laid out is an item.
LEMMA LaidOutHolds ==
  ASSUME NEW bag \in Bag, NEW half \in Half, LaidOut(bag, half)
  PROVE  LockedHold(bag)
  <1>1. ASSUME NEW i \in bag.locked
        PROVE  bag.cells[i].item # NoItem
    <2>1. half.items \in Seq(Offer)
      BY HalfParts
    <2>2. PICK k \in DOMAIN half.items : i = half.items[k].index
      BY <1>1 DEF LaidOut, ToSet
    <2>3. half.items[k] \in Offer
      BY <2>1, <2>2
    <2>4. half.items[k].item \in Item
      BY <2>3 DEF Offer
    <2>5. bag.cells[i].item = half.items[k].item
      BY <2>2 DEF LaidOut, SameAsOffered
    <2>6. QED
      BY <2>4, <2>5, InventoryAssumption
  <1>2. QED
    BY <1>1 DEF LockedHold

\* Requests and trades as they were, and players that differ at most in where they
\* stand on their map, whether they live, and a bag that was tended.
LEMMA PlayersAside ==
  ASSUME NEW st, Good(st), NEW st2 \in StateType,
         st2.requests = st.requests, st2.sessions = st.sessions, st2.defect = st.defect,
         \A p \in Player :
            /\ st2.player[p].zone = st.player[p].zone
            /\ st2.player[p].ask = st.player[p].ask
            /\ st2.player[p].win = st.player[p].win
            /\ st2.player[p].bag.locked = st.player[p].bag.locked
            /\ st2.player[p].bag.lockedMoney = st.player[p].bag.lockedMoney
            /\ \A i \in st.player[p].bag.locked :
                  st2.player[p].bag.cells[i] = st.player[p].bag.cells[i]
            /\ st.player[p].bag.lockedMoney <= st.player[p].bag.money
                  => st2.player[p].bag.lockedMoney <= st2.player[p].bag.money
            /\ Shows(st2.player[p])
  PROVE  Good(st2)
  <1>1. st \in StateType
    BY DEF Good
  <1>2. Together(st2)
    <2>1. \A r \in st.requests : r.from \in Player /\ r.to \in Player
      BY <1>1, Parts, RequestParts
    <2>2. \A t \in st.sessions : t.side[1].player \in Player /\ t.side[2].player \in Player
      BY <1>1, Parts, SessionParts
    <2>3. \A a, b \in Player : Met(st, a, b) => Met(st2, a, b)
      BY SMTT(60), ZenonT(60) DEF Met
    <2>4. QED
      BY <2>1, <2>2, <2>3 DEF Good, Together
  <1>3. Alone(st2)
    BY SMTT(60), ZenonT(60) DEF Good, Alone
  <1>4. Locks(st2)
    <2>1. ASSUME NEW p \in Player, TradesNot(st2, p)
          PROVE  Free(st2.player[p].bag)
      BY ZenonT(60), SMTT(60), <2>1 DEF Good, Locks, Free, TradesNot
    <2>2. ASSUME NEW t \in st2.sessions, NEW s \in 1 .. 2
          PROVE  LaidOut(st2.player[t.side[s].player].bag, t.side[s])
      <3>1. t \in Session /\ t.side[s] \in Half /\ t.side[s].player \in Player
        BY <1>1, <2>2, Parts, SessionParts
      <3>2. LaidOut(st.player[t.side[s].player].bag, t.side[s])
        BY ZenonT(60), SMTT(60), <2>2 DEF Good, Locks
      <3>3. st.player[t.side[s].player].bag \in Bag
        BY ZenonT(60), SMTT(60), <1>1, <3>1, Parts
      <3>4. st2.player[t.side[s].player].bag.money \in Int
        <4>1. st2.player[t.side[s].player].bag \in Bag
          BY <3>1, Parts
        <4> DEFINE bag == st2.player[t.side[s].player].bag
        <4>2. bag \in Bag
          BY ZenonT(60), <4>1
        <4> HIDE DEF bag
        <4>3. bag.money \in Int
          BY <4>2, InventoryAssumption DEF Bag
        <4>4. QED
          BY ZenonT(60), <4>3 DEF bag
      <3>5. QED
        BY ZenonT(60), SMTT(60), <3>1, <3>2, <3>3, <3>4, TendedLaidOut
    <2>3. QED
      BY <2>1, <2>2 DEF Locks
  <1>5. Waits(st2)
    BY DEF Good, Waits
  <1>6. \A p \in Player : Asks(st2, p)
    BY DEF Good, Asks
  <1>7. Windows(st2)
    <2>1. \A t \in st.sessions : \A s \in 1 .. 2 : t.side[s].player \in Player
      BY <1>1, Parts, SessionParts
    <2>2. QED
      BY ZenonT(60), SMTT(60), <2>1 DEF Good, Windows, TradesNot
  <1>8. QED
    BY <1>2, <1>3, <1>4, <1>5, <1>6, <1>7 DEF Good

\* A player that is in no request and no trade, and stays so, may change otherwise.
LEMMA OneAside ==
  ASSUME NEW st, Good(st), NEW st2 \in StateType, NEW p \in Player,
         st2.requests = st.requests, st2.sessions = st.sessions, st2.defect = st.defect,
         \A q \in Player \ {p} : st2.player[q] = st.player[q],
         \A r \in st.requests : ~ Involves(r, p), TradesNot(st, p),
         Free(st2.player[p].bag), st2.player[p].ask = 0, st2.player[p].win = NoWin,
         Shows(st2.player[p])
  PROVE  Good(st2)
  <1>1. st \in StateType
    BY DEF Good
  <1>2. \A r \in st.requests : /\ r.from \in Player \ {p} /\ r.to \in Player \ {p}
                               /\ r.id \in 1 .. RequestMax
    BY <1>1, Parts, RequestParts DEF Involves
  <1>3. \A t \in st.sessions :
           /\ t.side[1].player \in Player \ {p} /\ t.side[2].player \in Player \ {p}
           /\ \A s \in 1 .. 2 : t.side[s].player \in Player \ {p}
    <2>1. \A t \in st.sessions : /\ t.side[1].player # p /\ t.side[2].player # p
      BY DEF TradesNot, Trades
    <2>2. QED
      BY <1>1, <2>1, Parts, SessionParts
  <1>4. Together(st2)
    <2>1. \A a, b \in Player \ {p} : Met(st, a, b) => Met(st2, a, b)
      BY DEF Met
    <2>2. QED
      BY <1>2, <1>3, <2>1 DEF Good, Together
  <1>5. Alone(st2)
    BY DEF Good, Alone
  <1>6. Locks(st2)
    <2>1. \A q \in Player : TradesNot(st2, q) => Free(st2.player[q].bag)
      BY DEF Good, Locks, TradesNot
    <2>2. \A t \in st2.sessions : \A s \in 1 .. 2 :
             LaidOut(st2.player[t.side[s].player].bag, t.side[s])
      BY ZenonT(60), SMTT(60), <1>3 DEF Good, Locks
    <2>3. QED
      BY <2>1, <2>2 DEF Locks
  <1>7. Waits(st2)
    BY DEF Good, Waits
  <1>8. \A q \in Player : Asks(st2, q)
    BY SMTT(60), ZenonT(60), <1>2 DEF Good, Asks
  <1>9. Windows(st2)
    <2>1. \A q \in Player : TradesNot(st2, q) => st2.player[q].win = NoWin
      BY SMTT(60), ZenonT(60) DEF Good, Windows, TradesNot
    <2>2. \A t \in st2.sessions : \A s \in 1 .. 2 :
             st2.player[t.side[s].player].win = WindowOf(t, s)
      BY SMTT(60), ZenonT(60), <1>3 DEF Good, Windows
    <2>3. QED
      BY ZenonT(60), SMTT(60), <2>1, <2>2 DEF Windows
  <1>10. \A q \in Player : Shows(st2.player[q])
    BY DEF Good
  <1>11. QED
    BY <1>4, <1>5, <1>6, <1>7, <1>8, <1>9, <1>10 DEF Good

-----------------------------------------------------------------------------
(* Ending requests. *)

\* The parts of a state after requests have ended.
LEMMA EndRequestsParts ==
  ASSUME NEW st \in StateType, NEW gone, NEW skip
  PROVE  LET e == EndRequests(st, gone, skip)
         IN  /\ e \in StateType
             /\ e.requests = st.requests \ gone
             /\ e.sessions = st.sessions /\ e.defect = st.defect
             /\ \A p \in Player :
                   /\ e.player[p].zone = st.player[p].zone
                   /\ e.player[p].spot = st.player[p].spot
                   /\ e.player[p].life = st.player[p].life
                   /\ e.player[p].bag = st.player[p].bag
                   /\ e.player[p].shown = st.player[p].shown
                   /\ e.player[p].ask =
                         IF p # skip /\ (\E r \in gone : r.to = p /\ r.id = st.player[p].ask)
                         THEN 0 ELSE st.player[p].ask
                   /\ e.player[p].win =
                         IF p # skip /\ (\E r \in gone : r.from = p)
                         THEN NoWin ELSE st.player[p].win
  <1> DEFINE told == TellRequestsEnd(st.player, gone, skip)
  <1>1. \A p \in Player : st.player[p] \in PlayerState
    BY Parts
  <1>2. 0 \in 0 .. RequestMax
    BY TradeAssumption
  <1>3. ASSUME NEW p \in Player
        PROVE  /\ told[p] \in PlayerState
               /\ told[p].zone = st.player[p].zone
               /\ told[p].spot = st.player[p].spot
               /\ told[p].life = st.player[p].life
               /\ told[p].bag = st.player[p].bag
               /\ told[p].shown = st.player[p].shown
               /\ told[p].ask =
                     IF p # skip /\ (\E r \in gone : r.to = p /\ r.id = st.player[p].ask)
                     THEN 0 ELSE st.player[p].ask
               /\ told[p].win =
                     IF p # skip /\ (\E r \in gone : r.from = p)
                     THEN NoWin ELSE st.player[p].win
    <2> DEFINE asked == p # skip /\ (\E r \in gone : r.to = p /\ r.id = st.player[p].ask)
               asking == p # skip /\ (\E r \in gone : r.from = p)
    <2>1. told[p] = [st.player[p] EXCEPT !.ask = IF asked THEN 0 ELSE @,
                                         !.win = IF asking THEN NoWin ELSE @]
      BY DEF TellRequestsEnd
    <2> HIDE DEF asked, asking, told
    <2>2. st.player[p] \in PlayerState
      BY <1>1
    <2>3. /\ told[p] \in PlayerState
          /\ told[p].zone = st.player[p].zone
          /\ told[p].spot = st.player[p].spot
          /\ told[p].life = st.player[p].life
          /\ told[p].bag = st.player[p].bag
          /\ told[p].shown = st.player[p].shown
          /\ told[p].ask = IF asked THEN 0 ELSE st.player[p].ask
          /\ told[p].win = IF asking THEN NoWin ELSE st.player[p].win
      BY ZenonT(60), <1>2, <2>1, <2>2 DEF PlayerState
    <2>4. QED
      BY <2>3 DEF asked, asking
  <1>4. told \in [Player -> PlayerState]
    <2>1. told = [p \in Player |-> told[p]]
      BY DEF TellRequestsEnd
    <2> HIDE DEF told
    <2>2. QED
      BY <1>3, <2>1
  <1>5. EndRequests(st, gone, skip) = [st EXCEPT !.requests = @ \ gone, !.player = told]
    BY DEF EndRequests
  <1> HIDE DEF told
  <1>6. LET e == EndRequests(st, gone, skip)
        IN  /\ e \in StateType /\ e.requests = st.requests \ gone
            /\ e.sessions = st.sessions /\ e.defect = st.defect /\ e.player = told
    BY <1>4, <1>5 DEF StateType
  <1>7. QED
    BY <1>3, <1>6

\* Requests end in a state that is good but for windows their players have already
\* closed; skip is not one of those that were asked.
LEMMA EndRequestsGood ==
  ASSUME NEW st0, Good(st0), NEW gone, gone \subseteq st0.requests,
         NEW st \in StateType, NEW skip, \A r \in gone : r.to # skip,
         st.requests = st0.requests, st.sessions = st0.sessions, st.defect = st0.defect,
         \A p \in Player :
            /\ st.player[p].zone = st0.player[p].zone
            /\ st.player[p].bag = st0.player[p].bag
            /\ st.player[p].shown = st0.player[p].shown
            /\ st.player[p].win = st0.player[p].win
            /\ \/ st.player[p].ask = st0.player[p].ask
               \/ st.player[p].ask = 0 /\ \E r \in gone : r.to = p
  PROVE  Good(EndRequests(st, gone, skip))
  <1> DEFINE e == EndRequests(st, gone, skip)
  <1>1. st0 \in StateType
    BY DEF Good
  <1>2. /\ e \in StateType
        /\ e.requests = st0.requests \ gone
        /\ e.sessions = st0.sessions /\ e.defect = st0.defect
        /\ \A p \in Player :
              /\ e.player[p].zone = st0.player[p].zone
              /\ e.player[p].bag = st0.player[p].bag
              /\ e.player[p].shown = st0.player[p].shown
              /\ e.player[p].ask =
                    IF p # skip /\ (\E r \in gone : r.to = p /\ r.id = st.player[p].ask)
                    THEN 0 ELSE st.player[p].ask
              /\ e.player[p].win = IF p # skip /\ (\E r \in gone : r.from = p)
                                   THEN NoWin ELSE st0.player[p].win
    BY EndRequestsParts
  <1> HIDE DEF e
  <1>3. \A r \in st0.requests : r.from \in Player /\ r.to \in Player /\ r.id # 0
    BY <1>1, Parts, RequestParts
  <1>4. \A t \in st0.sessions : /\ t.side[1].player \in Player /\ t.side[2].player \in Player
                                /\ \A s \in 1 .. 2 : t.side[s].player \in Player
    BY <1>1, Parts, SessionParts
  <1>5. Together(e)
    <2>1. \A a, b \in Player : Met(st0, a, b) => Met(e, a, b)
      BY <1>2 DEF Met
    <2>2. QED
      BY <1>2, <1>3, <1>4, <2>1 DEF Good, Together
  <1>6. Alone(e)
    BY <1>2 DEF Good, Alone
  <1>7. Locks(e)
    <2>1. \A q \in Player : TradesNot(e, q) => Free(e.player[q].bag)
      BY SMTT(60), ZenonT(60), <1>2 DEF Good, Locks, TradesNot
    <2>2. \A t \in e.sessions : \A s \in 1 .. 2 :
             LaidOut(e.player[t.side[s].player].bag, t.side[s])
      BY SMTT(60), <1>2, <1>4 DEF Good, Locks
    <2>3. QED
      BY <2>1, <2>2 DEF Locks
  <1>8. Waits(e)
    BY <1>2 DEF Good, Waits
  <1>9. ASSUME NEW p \in Player
        PROVE  Asks(e, p)
    <2>1. Asks(st0, p)
      BY DEF Good
    <2>2. CASE \E r \in gone : r.to = p
      <3>1. PICK r \in gone : r.to = p
        BY <2>2
      <3>2. r \in st0.requests /\ p # skip /\ st0.player[p].ask = r.id
        BY <2>1, <3>1 DEF Asks
      <3>3. e.player[p].ask = 0
        BY <1>2, <3>1, <3>2
      <3>4. \A r2 \in st0.requests : r2.to = p => r2 = r
        BY <3>1, <3>2 DEF Good, Alone, Involves
      <3>5. QED
        BY <1>2, <3>1, <3>3, <3>4 DEF Asks
    <2>3. CASE ~ \E r \in gone : r.to = p
      <3>1. e.player[p].ask = st0.player[p].ask
        BY <1>2, <2>3
      <3>2. QED
        BY <1>2, <2>1, <2>3, <3>1 DEF Asks
    <2>4. QED
      BY <2>2, <2>3
  <1>10. Windows(e)
    <2>1. \A q \in Player : TradesNot(e, q) => e.player[q].win = NoWin
      BY SMTT(60), ZenonT(60), <1>2 DEF Good, Windows, TradesNot
    <2>2. ASSUME NEW t \in e.sessions, NEW s \in 1 .. 2
          PROVE  e.player[t.side[s].player].win = WindowOf(t, s)
      <3>1. t \in st0.sessions /\ t.side[s].player \in Player
        BY <1>2, <1>4
      <3>2. s = 1 \/ s = 2
        OBVIOUS
      <3>3. Trades(t, t.side[s].player)
        BY <3>2 DEF Trades
      <3>4. \A r \in gone : r.from # t.side[s].player
        BY <3>1, <3>3 DEF Good, Alone, Involves
      <3>5. st0.player[t.side[s].player].win = WindowOf(t, s)
        BY SMTT(60), ZenonT(60), <3>1 DEF Good, Windows
      <3>6. QED
        BY <1>2, <3>1, <3>4, <3>5
    <2>3. QED
      BY SMTT(60), ZenonT(60), <2>1, <2>2 DEF Windows
  <1>11. \A q \in Player : Shows(e.player[q])
    BY <1>2 DEF Good, Shows
  <1>12. Good(e)
    BY <1>2, <1>5, <1>6, <1>7, <1>8, <1>9, <1>10, <1>11 DEF Good
  <1>13. QED
    BY <1>12 DEF e

-----------------------------------------------------------------------------
(* Ending a trade. *)

\* The parts of a state after a trade has ended and both sides were told.
LEMMA EndSessionParts ==
  ASSUME NEW st \in StateType, NEW t \in Session,
         t.side[1].player # t.side[2].player
  PROVE  LET e == EndSession(st, t, NoOne)
         IN  /\ e \in StateType
             /\ e.sessions = st.sessions \ {t}
             /\ e.requests = st.requests /\ e.defect = st.defect
             /\ \A p \in Player :
                   /\ e.player[p].zone = st.player[p].zone
                   /\ e.player[p].spot = st.player[p].spot
                   /\ e.player[p].life = st.player[p].life
                   /\ e.player[p].shown = st.player[p].shown
                   /\ e.player[p].ask = st.player[p].ask
                   /\ e.player[p].bag.cells = st.player[p].bag.cells
                   /\ e.player[p].bag.money = st.player[p].bag.money
             /\ \A p \in Player : ~ Trades(t, p) => e.player[p] = st.player[p]
             /\ \A p \in Player : Trades(t, p) =>
                   Free(e.player[p].bag) /\ e.player[p].win = NoWin
  <1> DEFINE a == t.side[1].player
             b == t.side[2].player
             e == EndSession(st, t, NoOne)
             freed == [p \in Player |-> IF p = a \/ p = b THEN Released(st.player[p], TRUE)
                                        ELSE st.player[p]]
  <1>1. a \in Player /\ b \in Player /\ a # b /\ a # NoOne /\ b # NoOne
    BY SessionParts, TradeAssumption
  <1>2. \A p \in Player : Trades(t, p) <=> p = a \/ p = b
    BY DEF Trades
  <1>3. \A p \in Player : st.player[p] \in PlayerState /\ st.player[p].bag \in Bag
    BY Parts
  <1>4. ASSUME NEW p \in Player
        PROVE  LET new == Released(st.player[p], TRUE)
               IN  /\ new \in PlayerState
                   /\ new.zone = st.player[p].zone /\ new.spot = st.player[p].spot
                   /\ new.life = st.player[p].life /\ new.shown = st.player[p].shown
                   /\ new.ask = st.player[p].ask /\ new.win = NoWin
                   /\ new.bag = UnlockAll(st.player[p].bag)
    <2>1. UnlockAll(st.player[p].bag) \in Bag
      BY <1>3, UnlockAllBag
    <2>2. Released(st.player[p], TRUE)
            = [st.player[p] EXCEPT !.bag = UnlockAll(st.player[p].bag), !.win = NoWin]
      BY <1>3 DEF Released, PlayerState
    <2>3. QED
      BY <1>3, <2>1, <2>2 DEF PlayerState
  <1>5. \A p \in Player : /\ UnlockAll(st.player[p].bag).cells = st.player[p].bag.cells
                          /\ UnlockAll(st.player[p].bag).money = st.player[p].bag.money
                          /\ Free(UnlockAll(st.player[p].bag))
    BY <1>3, UnlockAllBag DEF Free
  <1>6. freed \in [Player -> PlayerState]
    BY <1>3, <1>4
  <1>7. e = [st EXCEPT !.sessions = @ \ {t}, !.player = freed]
    <2>1. st.player \in [Player -> PlayerState]
      BY Parts
    <2>2. [[st.player EXCEPT ![a] = Released(@, TRUE)] EXCEPT ![b] = Released(@, TRUE)]
            = freed
      BY <1>1, <2>1
    <2>3. e = [st EXCEPT !.sessions = @ \ {t},
                         !.player = [[st.player EXCEPT ![a] = Released(@, TRUE)]
                                        EXCEPT ![b] = Released(@, TRUE)]]
      BY <1>1 DEF EndSession, StateType
    <2>4. QED
      BY ZenonT(60), SMTT(60), <2>2, <2>3
  <1> HIDE DEF freed, e
  <1>8. /\ e \in StateType /\ e.sessions = st.sessions \ {t}
        /\ e.requests = st.requests /\ e.defect = st.defect /\ e.player = freed
    BY <1>6, <1>7 DEF StateType
  <1>9. ASSUME NEW p \in Player, Trades(t, p)
        PROVE  /\ e.player[p].zone = st.player[p].zone
               /\ e.player[p].spot = st.player[p].spot
               /\ e.player[p].life = st.player[p].life
               /\ e.player[p].shown = st.player[p].shown
               /\ e.player[p].ask = st.player[p].ask
               /\ e.player[p].win = NoWin
               /\ e.player[p].bag.cells = st.player[p].bag.cells
               /\ e.player[p].bag.money = st.player[p].bag.money
               /\ Free(e.player[p].bag)
    <2>1. e.player[p] = Released(st.player[p], TRUE)
      BY <1>2, <1>8, <1>9 DEF freed
    <2>2. e.player[p].bag = UnlockAll(st.player[p].bag)
      BY <1>4, <2>1
    <2>3. QED
      BY ZenonT(60), <1>4, <1>5, <2>1, <2>2
  <1>10. \A p \in Player : ~ Trades(t, p) => e.player[p] = st.player[p]
    BY <1>2, <1>8 DEF freed
  <1>11. \A p \in Player :
            /\ e.player[p].zone = st.player[p].zone
            /\ e.player[p].spot = st.player[p].spot
            /\ e.player[p].life = st.player[p].life
            /\ e.player[p].shown = st.player[p].shown
            /\ e.player[p].ask = st.player[p].ask
            /\ e.player[p].bag.cells = st.player[p].bag.cells
            /\ e.player[p].bag.money = st.player[p].bag.money
    BY <1>9, <1>10
  <1>12. QED
    BY <1>8, <1>9, <1>10, <1>11 DEF e

\* A trade ends in a state that is good but for the bags of the two, which may have
\* been swapped.
LEMMA EndSessionGood ==
  ASSUME NEW st0, Good(st0), NEW t \in st0.sessions, NEW st \in StateType,
         st.requests = st0.requests, st.sessions = st0.sessions, ~ st.defect,
         \A p \in Player :
            /\ st.player[p].zone = st0.player[p].zone
            /\ st.player[p].ask = st0.player[p].ask
            /\ st.player[p].win = st0.player[p].win
            /\ ~ Trades(t, p) => st.player[p].bag = st0.player[p].bag
            /\ Shows(st.player[p])
  PROVE  /\ Good(EndSession(st, t, NoOne))
         /\ EndSession(st, t, NoOne).requests = st0.requests
         /\ EndSession(st, t, NoOne).sessions = st0.sessions \ {t}
         /\ \A p \in Player : EndSession(st, t, NoOne).player[p].life = st.player[p].life
         /\ \A p \in Player : EndSession(st, t, NoOne).player[p].zone = st0.player[p].zone
  <1> DEFINE e == EndSession(st, t, NoOne)
  <1>1. st0 \in StateType /\ Together(st0) /\ Alone(st0) /\ Locks(st0) /\ Windows(st0)
    BY DEF Good
  <1>2. t \in Session /\ t.side[1].player # t.side[2].player
    BY <1>1, Parts DEF Together, Met
  <1>3. /\ e \in StateType
        /\ e.sessions = st0.sessions \ {t}
        /\ e.requests = st0.requests /\ ~ e.defect
        /\ \A p \in Player :
              /\ e.player[p].zone = st0.player[p].zone
              /\ e.player[p].life = st.player[p].life
              /\ e.player[p].shown = st.player[p].shown
              /\ e.player[p].ask = st0.player[p].ask
              /\ e.player[p].bag.cells = st.player[p].bag.cells
              /\ e.player[p].bag.money = st.player[p].bag.money
        /\ \A p \in Player : ~ Trades(t, p) =>
              e.player[p].bag = st0.player[p].bag /\ e.player[p].win = st0.player[p].win
        /\ \A p \in Player : Trades(t, p) =>
              Free(e.player[p].bag) /\ e.player[p].win = NoWin
    BY SMTT(60), <1>2, EndSessionParts
  <1> HIDE DEF e
  <1>4. \A r \in st0.requests : r.from \in Player /\ r.to \in Player
    BY <1>1, Parts, RequestParts
  <1>5. \A u \in st0.sessions : /\ u.side[1].player \in Player /\ u.side[2].player \in Player
                                /\ \A s \in 1 .. 2 : u.side[s].player \in Player
    BY <1>1, Parts, SessionParts
  <1>6. ASSUME NEW u \in e.sessions, NEW s \in 1 .. 2
        PROVE  u \in st0.sessions /\ ~ Trades(t, u.side[s].player)
    <2>1. u \in st0.sessions /\ u # t
      BY <1>3
    <2>2. s = 1 \/ s = 2
      OBVIOUS
    <2>3. Trades(u, u.side[s].player)
      BY <2>2 DEF Trades
    <2>4. QED
      BY <1>1, <1>5, <2>1, <2>3 DEF Alone
  <1>7. Together(e)
    <2>1. \A x, y \in Player : Met(st0, x, y) => Met(e, x, y)
      BY <1>3 DEF Met
    <2>2. QED
      BY <1>1, <1>3, <1>4, <1>5, <2>1 DEF Together
  <1>8. Alone(e)
    BY <1>1, <1>3 DEF Alone
  <1>9. \A q \in Player : TradesNot(e, q) => Trades(t, q) \/ TradesNot(st0, q)
    BY <1>3 DEF TradesNot
  <1>10. Locks(e)
    <2>1. \A q \in Player : TradesNot(e, q) => Free(e.player[q].bag)
      BY SMTT(60), ZenonT(60), <1>1, <1>3, <1>9 DEF Locks
    <2>2. ASSUME NEW u \in e.sessions, NEW s \in 1 .. 2
          PROVE  LaidOut(e.player[u.side[s].player].bag, u.side[s])
      BY <1>1, <1>3, <1>5, <1>6, <2>2 DEF Locks
    <2>3. QED
      BY <2>1, <2>2 DEF Locks
  <1>11. Waits(e)
    BY <1>3 DEF Good, Waits
  <1>12. \A q \in Player : Asks(e, q)
    BY <1>3 DEF Good, Asks
  <1>13. Windows(e)
    <2>1. \A q \in Player : TradesNot(e, q) => e.player[q].win = NoWin
      BY <1>1, <1>3, <1>9 DEF Windows
    <2>2. ASSUME NEW u \in e.sessions, NEW s \in 1 .. 2
          PROVE  e.player[u.side[s].player].win = WindowOf(u, s)
      BY ZenonT(60), SMTT(60), <1>1, <1>3, <1>5, <1>6, <2>2 DEF Windows
    <2>3. QED
      BY <2>1, <2>2 DEF Windows
  <1>14. \A q \in Player : Shows(e.player[q])
    BY SMTT(60), ZenonT(60), <1>3 DEF Shows
  <1>15. Good(e)
    BY <1>3, <1>7, <1>8, <1>10, <1>11, <1>12, <1>13, <1>14 DEF Good
  <1>16. QED
    BY <1>3, <1>15 DEF e

\* After Drop nothing of p is left.
LEMMA DropGood ==
  ASSUME NEW st, Good(st), NEW p \in Player
  PROVE  LET d == Drop(st, p, NoOne)
         IN  /\ Good(d)
             /\ \A r \in d.requests : ~ Involves(r, p)
             /\ TradesNot(d, p)
             /\ \A q \in Player : d.player[q].zone = st.player[q].zone
  <1> DEFINE gone == {r \in st.requests : Involves(r, p)}
             mine == {t \in st.sessions : Trades(t, p)}
             idle == EndRequests(st, gone, NoOne)
             t == CHOOSE t \in mine : TRUE
  <1>1. st \in StateType /\ Alone(st)
    BY DEF Good
  <1>2. \A r \in gone : r \in st.requests /\ r.to # NoOne
    BY <1>1, Parts, RequestParts, TradeAssumption
  <1>3. Good(idle)
    BY <1>1, <1>2, EndRequestsGood
  <1>4. idle.requests = st.requests \ gone /\ idle.sessions = st.sessions
        /\ \A q \in Player : idle.player[q].zone = st.player[q].zone
    BY <1>1, EndRequestsParts
  <1>5. Drop(st, p, NoOne) = IF mine = {} THEN idle ELSE EndSession(idle, t, NoOne)
    BY DEF Drop
  <1> HIDE DEF idle
  <1>6. CASE mine = {}
    BY <1>3, <1>4, <1>5, <1>6 DEF TradesNot
  <1>7. CASE mine # {}
    <2>1. t \in mine
      BY <1>7
    <2>2. \A u \in mine : u = t
      BY <1>1, <2>1 DEF Alone
    <2> HIDE DEF t
    <2>3. t \in idle.sessions /\ idle \in StateType /\ ~ idle.defect
          /\ \A q \in Player : Shows(idle.player[q])
      BY <1>3, <1>4, <2>1 DEF Good
    <2>4. /\ Good(EndSession(idle, t, NoOne))
          /\ EndSession(idle, t, NoOne).requests = idle.requests
          /\ EndSession(idle, t, NoOne).sessions = idle.sessions \ {t}
          /\ \A q \in Player :
                EndSession(idle, t, NoOne).player[q].zone = idle.player[q].zone
      BY <1>3, <2>3, EndSessionGood
    <2>5. QED
      BY <1>4, <1>5, <1>7, <2>2, <2>4 DEF TradesNot
  <1>8. QED
    BY <1>6, <1>7

\* Where nothing of p is left, Drop changes nothing, whoever is not to be told.
LEMMA DropAgain ==
  ASSUME NEW st, Good(st), NEW p \in Player, NEW skip,
         \A r \in st.requests : ~ Involves(r, p), TradesNot(st, p)
  PROVE  LET d == Drop(st, p, skip)
         IN  /\ Good(d)
             /\ \A r \in d.requests : ~ Involves(r, p)
             /\ TradesNot(d, p)
  <1> DEFINE gone == {r \in st.requests : Involves(r, p)}
             e == EndRequests(st, gone, skip)
  <1>1. gone = {} /\ {t \in st.sessions : Trades(t, p)} = {}
    BY DEF TradesNot
  <1>2. Drop(st, p, skip) = e
    BY <1>1 DEF Drop
  <1>3. st \in StateType
    BY DEF Good
  <1> HIDE DEF gone
  <1>4. Good(e)
    BY <1>1, <1>3, EndRequestsGood
  <1>5. e.requests = st.requests \ gone /\ e.sessions = st.sessions
    BY SMTT(60), ZenonT(60), <1>3, EndRequestsParts
  <1> HIDE DEF e
  <1>6. QED
    BY <1>1, <1>2, <1>4, <1>5 DEF TradesNot

\* Who is in nothing has no window open and nothing locked.
LEMMA Idle ==
  ASSUME NEW st, Good(st), NEW p \in Player,
         \A r \in st.requests : ~ Involves(r, p), TradesNot(st, p)
  PROVE  /\ Free(st.player[p].bag) /\ st.player[p].win = NoWin /\ st.player[p].ask = 0
         /\ st.player[p] \in PlayerState
  <1>1. st \in StateType /\ Locks(st) /\ Windows(st) /\ Asks(st, p)
    BY DEF Good
  <1>2. st.player[p].ask = 0
    BY <1>1 DEF Asks, Involves
  <1>3. QED
    BY <1>1, <1>2, Parts DEF Locks, Windows

-----------------------------------------------------------------------------
(* A trade changed on one side, and shown to both. *)

\* The parts of a state in which t has become u.
LEMMA SendStateParts ==
  ASSUME NEW players \in [Player -> PlayerState], NEW u \in Session,
         u.side[1].player # u.side[2].player
  PROVE  LET new == SendState(players, u)
         IN  /\ new \in [Player -> PlayerState]
             /\ \A p \in Player :
                   /\ new[p].zone = players[p].zone
                   /\ new[p].spot = players[p].spot
                   /\ new[p].life = players[p].life
                   /\ new[p].bag = players[p].bag
                   /\ new[p].shown = players[p].shown
                   /\ new[p].ask = players[p].ask
             /\ \A p \in Player : ~ Trades(u, p) => new[p].win = players[p].win
             /\ \A s \in 1 .. 2 : new[u.side[s].player].win = WindowOf(u, s)
  <1> DEFINE a == u.side[1].player
             b == u.side[2].player
             wa == WindowOf(u, 1)
             wb == WindowOf(u, 2)
             new == SendState(players, u)
  <1>1. a \in Player /\ b \in Player /\ a # b
    BY SessionParts
  <1>2. wa \in Window /\ wb \in Window
    BY WindowIsWindow
  <1>3. new = [players EXCEPT ![a].win = wa, ![b].win = wb]
    BY DEF SendState
  <1>4. \A p \in Player : Trades(u, p) <=> p = a \/ p = b
    BY DEF Trades
  <1>5. \A s \in 1 .. 2 : (s = 1 \/ s = 2)
    OBVIOUS
  <1> HIDE DEF a, b, wa, wb, new
  <1>6. new \in [Player -> PlayerState]
    <2>1. \A p \in Player : \A w \in Window : [players[p] EXCEPT !.win = w] \in PlayerState
      BY ZenonT(60), SMTT(60) DEF PlayerState
    <2>2. QED
      BY <1>1, <1>2, <1>3, <2>1
  <1>7. /\ new[a] = [players[a] EXCEPT !.win = wa]
        /\ new[b] = [players[b] EXCEPT !.win = wb]
        /\ \A p \in Player : p # a /\ p # b => new[p] = players[p]
    BY <1>1, <1>3
  <1>8. new[a].win = wa /\ new[b].win = wb
    BY <1>1, <1>7 DEF PlayerState
  <1>9. \A p \in Player :
           /\ new[p].zone = players[p].zone
           /\ new[p].spot = players[p].spot
           /\ new[p].life = players[p].life
           /\ new[p].bag = players[p].bag
           /\ new[p].shown = players[p].shown
           /\ new[p].ask = players[p].ask
    BY <1>1, <1>7 DEF PlayerState
  <1>10. \A s \in 1 .. 2 : new[u.side[s].player].win = WindowOf(u, s)
    BY <1>5, <1>8 DEF a, b, wa, wb
  <1>11. \A p \in Player : ~ Trades(u, p) => new[p].win = players[p].win
    BY <1>4, <1>7
  <1>12. QED
    BY <1>6, <1>9, <1>10, <1>11 DEF new

\* From st0 to st trade t has become u, between the same players, and nothing else:
\* each side's bag is laid out as u says, and the windows show u.
TurnsInto(st0, st, t, u) ==
    /\ st.requests = st0.requests
    /\ st.sessions = (st0.sessions \ {t}) \cup {u}
    /\ st.defect = st0.defect
    /\ \A p \in Player :
          /\ st.player[p].zone = st0.player[p].zone
          /\ st.player[p].ask = st0.player[p].ask
          /\ ~ Trades(t, p) => /\ st.player[p].bag = st0.player[p].bag
                               /\ st.player[p].win = st0.player[p].win
          /\ Shows(st.player[p])
    /\ \A s \in 1 .. 2 : u.side[s].player = t.side[s].player
    /\ u.waited # NotReady => u.side[1].closed /\ u.side[2].closed
    /\ \A s \in 1 .. 2 : /\ LaidOut(st.player[u.side[s].player].bag, u.side[s])
                         /\ st.player[u.side[s].player].win = WindowOf(u, s)

LEMMA TwoSides == 1 \in 1 .. 2 /\ 2 \in 1 .. 2 /\ \A s \in 1 .. 2 : s = 1 \/ s = 2
  <1>1. 1 \in 1 .. 2 /\ 2 \in 1 .. 2
    OBVIOUS
  <1>2. \A s \in 1 .. 2 : s = 1 \/ s = 2
    OBVIOUS
  <1>3. QED
    BY ZenonT(60), <1>1, <1>2

\* What both sides of a trade hold is laid out in their windows.
LEMMA BothLaidOut ==
  ASSUME NEW st, Locks(st), NEW t \in st.sessions
  PROVE  /\ SameAsOffered(st.player[t.side[1].player].bag, t.side[1])
         /\ SameAsOffered(st.player[t.side[2].player].bag, t.side[2])
  <1>1. \A s \in 1 .. 2 : LaidOut(st.player[t.side[s].player].bag, t.side[s])
    BY ZenonT(60), SMTT(60) DEF Locks
  <1>2. /\ LaidOut(st.player[t.side[1].player].bag, t.side[1])
        /\ LaidOut(st.player[t.side[2].player].bag, t.side[2])
    BY ZenonT(60), SMTT(60), <1>1, TwoSides
  <1>3. QED
    BY ZenonT(60), SMTT(60), <1>2 DEF LaidOut

LEMMA TurnsIntoParts ==
  ASSUME NEW st0, NEW st, NEW t, NEW u, TurnsInto(st0, st, t, u)
  PROVE  /\ st.requests = st0.requests
         /\ st.sessions = (st0.sessions \ {t}) \cup {u}
         /\ st.defect = st0.defect
         /\ u.waited # NotReady => u.side[1].closed /\ u.side[2].closed
         /\ u.side[1].player = t.side[1].player
         /\ u.side[2].player = t.side[2].player
  BY ZenonT(60), SMTT(60), TwoSides DEF TurnsInto

LEMMA TurnsIntoKeeps ==
  ASSUME NEW st0, NEW st, NEW t, NEW u, TurnsInto(st0, st, t, u), NEW p \in Player
  PROVE  /\ st.player[p].zone = st0.player[p].zone
         /\ st.player[p].ask = st0.player[p].ask
         /\ ~ Trades(t, p) => /\ st.player[p].bag = st0.player[p].bag
                              /\ st.player[p].win = st0.player[p].win
         /\ Shows(st.player[p])
  BY ZenonT(60), SMTT(60) DEF TurnsInto

LEMMA TurnsIntoShown ==
  ASSUME NEW st0, NEW st, NEW t, NEW u, TurnsInto(st0, st, t, u), NEW s \in 1 .. 2
  PROVE  /\ LaidOut(st.player[u.side[s].player].bag, u.side[s])
         /\ st.player[u.side[s].player].win = WindowOf(u, s)
  BY ZenonT(60), SMTT(60) DEF TurnsInto

LEMMA TurnsIntoGood ==
  ASSUME NEW st0, Good(st0), NEW t \in st0.sessions, NEW u \in Session,
         NEW st \in StateType, TurnsInto(st0, st, t, u)
  PROVE  Good(st)
  <1>1. st0 \in StateType /\ Together(st0) /\ Alone(st0) /\ Locks(st0) /\ Windows(st0)
    BY DEF Good
  <1>2. \A r \in st0.requests : r.from \in Player /\ r.to \in Player
    BY <1>1, Parts, RequestParts
  <1>3. \A v \in st0.sessions : /\ v.side[1].player \in Player /\ v.side[2].player \in Player
                                /\ \A s \in 1 .. 2 : v.side[s].player \in Player
    BY <1>1, Parts, SessionParts
  <1>4. u.side[1].player = t.side[1].player /\ u.side[2].player = t.side[2].player
    BY TurnsIntoParts
  <1>5. \A p \in Player : Trades(u, p) <=> Trades(t, p)
    BY <1>4 DEF Trades
  <1>6. ASSUME NEW v \in st.sessions, v # u, NEW s \in 1 .. 2
        PROVE  v \in st0.sessions /\ ~ Trades(t, v.side[s].player)
    <2>1. v \in st0.sessions /\ v # t
      BY <1>6, TurnsIntoParts
    <2>2. s = 1 \/ s = 2
      BY TwoSides
    <2>3. Trades(v, v.side[s].player)
      BY <2>2 DEF Trades
    <2>4. QED
      BY <1>1, <1>3, <2>1, <2>3 DEF Alone
  <1>7. Together(st)
    <2>1. \A x, y \in Player : Met(st0, x, y) => Met(st, x, y)
      BY TurnsIntoKeeps DEF Met
    <2>2. QED
      BY <1>1, <1>2, <1>3, <1>4, <2>1, TurnsIntoParts DEF Together
  <1>8. Alone(st)
    BY <1>1, <1>5, TurnsIntoParts DEF Alone
  <1>9. \A q \in Player : TradesNot(st, q) => ~ Trades(t, q) /\ TradesNot(st0, q)
    BY <1>5, TurnsIntoParts DEF TradesNot
  <1>10. Locks(st)
    <2>1. \A q \in Player : TradesNot(st, q) => Free(st.player[q].bag)
      BY <1>1, <1>9, TurnsIntoKeeps DEF Locks
    <2>2. ASSUME NEW v \in st.sessions, NEW s \in 1 .. 2
          PROVE  LaidOut(st.player[v.side[s].player].bag, v.side[s])
      <3>1. CASE v = u
        BY ZenonT(60), SMTT(60), <3>1, TurnsIntoShown
      <3>2. CASE v # u
        <4>1. v \in st0.sessions /\ ~ Trades(t, v.side[s].player)
          BY <1>6, <2>2, <3>2
        <4>2. v.side[s].player \in Player
          BY <1>3, <4>1
        <4>3. st.player[v.side[s].player].bag = st0.player[v.side[s].player].bag
          BY <4>1, <4>2, TurnsIntoKeeps
        <4>4. QED
          BY ZenonT(60), SMTT(60), <1>1, <4>1, <4>3 DEF Locks
      <3>3. QED
        BY <3>1, <3>2
    <2>3. QED
      BY <2>1, <2>2 DEF Locks
  <1>11. Waits(st)
    BY TurnsIntoParts DEF Good, Waits
  <1>12. \A q \in Player : Asks(st, q)
    BY TurnsIntoParts, TurnsIntoKeeps DEF Good, Asks
  <1>13. Windows(st)
    <2>1. \A q \in Player : TradesNot(st, q) => st.player[q].win = NoWin
      BY <1>1, <1>9, TurnsIntoKeeps DEF Windows
    <2>2. ASSUME NEW v \in st.sessions, NEW s \in 1 .. 2
          PROVE  st.player[v.side[s].player].win = WindowOf(v, s)
      <3>1. CASE v = u
        BY SMTT(60), <3>1, TurnsIntoShown
      <3>2. CASE v # u
        <4>1. v \in st0.sessions /\ ~ Trades(t, v.side[s].player)
          BY <1>6, <2>2, <3>2
        <4>2. v.side[s].player \in Player
          BY <1>3, <4>1
        <4>3. st.player[v.side[s].player].win = st0.player[v.side[s].player].win
          BY <4>1, <4>2, TurnsIntoKeeps
        <4>4. QED
          BY ZenonT(60), SMTT(60), <1>1, <4>1, <4>3 DEF Windows
      <3>3. QED
        BY <3>1, <3>2
    <2>3. QED
      BY <2>1, <2>2 DEF Windows
  <1>14. QED
    BY <1>7, <1>8, <1>10, <1>11, <1>12, <1>13, TurnsIntoParts, TurnsIntoKeeps DEF Good

-----------------------------------------------------------------------------
(* The swap. *)

\* The copy of a bag from which what is laid out is taken: unlocked, every change
\* noted, no money touched.
Cleared(bag) == {b \in Bag : Noted(bag, b) /\ Free(b) /\ b.money = bag.money}

\* Taking out the items, one after the other.
Emptied(bag, items) ==
    FoldLeft(LAMBDA b, o : RemoveFrom(b, o.index, o.count), UnlockAll(bag), items)

\* g[T] is the bag after the offers in T were taken out, the last one last.
Takings(bag, items, g) ==
    g = [T \in SUBSET DOMAIN items |->
            IF T = {} THEN UnlockAll(bag)
            ELSE RemoveFrom(g[T \ {Max(T)}], items[Max(T)].index, items[Max(T)].count)]

LEMMA EmptiedChain ==
  ASSUME NEW bag \in Bag, NEW items \in Seq(Offer)
  PROVE  \E g : /\ Takings(bag, items, g) /\ Emptied(bag, items) = g[DOMAIN items]
               /\ g[DOMAIN items] \in Cleared(bag)
  <1> DEFINE S == DOMAIN items
             next == [T \in SUBSET S |-> Max(T)]
             Take(b, k) == RemoveFrom(b, items[k].index, items[k].count)
             step == [T \in SUBSET S |-> [b \in Bag |-> Take(b, next[T])]]
             V == [T \in SUBSET S |-> Cleared(bag)]
             Chain(g) == g = [T \in SUBSET S |->
                                IF T = {} THEN UnlockAll(bag)
                                ELSE Take(g[T \ {Max(T)}], Max(T))]
             chain == CHOOSE g : Chain(g)
  <1>1. S = 1 .. Len(items) /\ Len(items) \in Nat
    OBVIOUS
  <1>2. IsFiniteSet(S)
    BY <1>1, FS_Interval
  <1>3. \A T \in SUBSET S : T # {} => /\ next[T] = Max(T) /\ next[T] \in T /\ next[T] \in S
                                      /\ T \ {next[T]} \in SUBSET S
    BY <1>1, MaxOfPlaces
  <1>4. ASSUME NEW k \in S, NEW b \in Cleared(bag)
        PROVE  Take(b, k) \in Cleared(bag)
    <2>1. items[k].index \in Index /\ items[k].count \in Nat /\ b \in Bag
      <3>1. items[k] \in Offer
        BY <1>4
      <3>2. QED
        BY <3>1, <1>4 DEF Offer, Cleared
    <2>2. /\ Take(b, k) \in Bag /\ Noted(b, Take(b, k)) /\ SameLocks(b, Take(b, k))
          /\ Take(b, k).money = b.money
      BY <2>1, RemoveFromBag
    <2> HIDE DEF Take
    <2>3. QED
      BY <2>2, NotedTwice DEF Cleared, SameLocks, Free
  <1>5. UnlockAll(bag) \in Cleared(bag)
    BY UnlockAllBag DEF Cleared, Free
  <1>6. ASSUME NEW T \in SUBSET S, T # {}, NEW b \in V[T \ {next[T]}]
        PROVE  step[T][b] \in V[T] /\ step[T][b] = Take(b, Max(T))
    <2>1. V[T \ {next[T]}] = Cleared(bag) /\ V[T] = Cleared(bag)
      BY <1>3, <1>6
    <2>2. b \in Bag
      BY <1>6, <2>1 DEF Cleared
    <2>3. step[T][b] = Take(b, Max(T))
      BY <1>3, <1>6, <2>2
    <2> HIDE DEF step, next, Take, S, V
    <2>4. QED
      BY <1>3, <1>4, <1>6, <2>1, <2>3
  <1>7. UnlockAll(bag) \in V[{}]
    BY <1>5, {} \in SUBSET S
  <1>8. PICK g : /\ IsFold(g, S, next, UnlockAll(bag), step)
                 /\ \A T \in SUBSET S : g[T] \in V[T]
    <2> HIDE DEF step, V, next, Take, S
    <2>1. \A T \in SUBSET S : T # {} => \A v \in V[T \ {next[T]}] : step[T][v] \in V[T]
      BY <1>6
    <2>2. \A T \in SUBSET S : T # {} => next[T] \in T
      BY SMTT(60), ZenonT(60), <1>3
    <2>3. QED
      BY <1>2, <1>7, <2>1, <2>2, FoldExists
  <1>9. Chain(g)
    <2>1. ASSUME NEW T \in SUBSET S, T # {}
          PROVE  step[T][g[T \ {next[T]}]] = Take(g[T \ {Max(T)}], Max(T))
      <3> HIDE DEF step, V, next, Take, S
      <3>1. g[T \ {next[T]}] \in V[T \ {next[T]}] /\ next[T] = Max(T)
        BY SMTT(60), ZenonT(60), <1>3, <1>8, <2>1
      <3>2. QED
        BY <3>1, <1>6, <2>1
    <2> HIDE DEF step, next, Take, S
    <2>2. QED
      BY ZenonT(60), SMTT(60), <1>8, <2>1 DEF IsFold
  <1>10. Chain(chain)
    BY <1>9
  <1>11. chain[{}] \in V[{}]
    <2> HIDE DEF chain, V, Take, S
    <2>1. chain[{}] = UnlockAll(bag)
      BY <1>10, {} \in SUBSET S
    <2>2. QED
      BY <2>1, <1>7
  <1>12. ASSUME NEW T \in SUBSET S, T # {}, chain[T \ {next[T]}] \in V[T \ {next[T]}]
         PROVE  chain[T] \in V[T]
    <2>1. V[T] = Cleared(bag) /\ V[T \ {next[T]}] = Cleared(bag)
      BY <1>3, <1>12
    <2> HIDE DEF chain, V, Take, next, S
    <2>2. chain[T] = Take(chain[T \ {next[T]}], next[T])
      BY <1>3, <1>10, <1>12
    <2>3. QED
      BY <1>3, <1>4, <1>12, <2>1, <2>2
  <1>13. chain[S] \in V[S]
    <2> HIDE DEF chain, V, Take, next, S
    <2>1. \A T \in SUBSET S : T # {} /\ chain[T \ {next[T]}] \in V[T \ {next[T]}]
                                => chain[T] \in V[T]
      BY <1>12
    <2>2. \A T \in SUBSET S : T # {} => next[T] \in T
      BY <1>3
    <2>3. \A T \in SUBSET S : chain[T] \in V[T]
      BY <1>2, <1>11, <2>1, <2>2, FoldInvariant
    <2>4. QED
      BY <2>3, S \in SUBSET S
  <1>14. Emptied(bag, items) = chain[S]
    BY DEF Emptied, FoldLeft, MapThenFoldSet
  <1>15. V[S] = Cleared(bag)
    BY S \in SUBSET S
  <1>16. Takings(bag, items, chain)
    <2> HIDE DEF chain
    <2>1. QED
      BY <1>10 DEF Takings
  <1> HIDE DEF chain, V, S
  <1>17. Emptied(bag, items) = chain[S] /\ chain[S] \in Cleared(bag)
    BY <1>13, <1>14, <1>15
  <1>18. QED
    BY <1>16, <1>17 DEF S

LEMMA EmptiedBag ==
  ASSUME NEW bag \in Bag, NEW items \in Seq(Offer)
  PROVE  Emptied(bag, items) \in Cleared(bag)
  BY EmptiedChain

LEMMA GivenBag ==
  ASSUME NEW bag \in Bag, NEW half \in Half, SameAsOffered(bag, half)
  PROVE  /\ Given(bag, half) \in Bag
         /\ Noted(bag, Given(bag, half)) /\ Free(Given(bag, half))
  <1> DEFINE rest == Emptied(bag, half.items)
  <1>1. half.items \in Seq(Offer) /\ half.money \in Nat /\ half.money <= bag.money
    BY InventoryAssumption DEF Half, SameAsOffered, Bag
  <1>2. rest \in Bag /\ Noted(bag, rest) /\ Free(rest) /\ rest.money = bag.money
    BY <1>1, EmptiedBag DEF Cleared
  <1>3. Given(bag, half) = IF half.money > 0 THEN SpendMoney(rest, half.money) ELSE rest
    BY DEF Given, Emptied
  <1> HIDE DEF rest
  <1>4. /\ SpendMoney(rest, half.money) \in Bag
        /\ Noted(rest, SpendMoney(rest, half.money))
        /\ SameLocks(rest, SpendMoney(rest, half.money))
    BY <1>1, <1>2, SpendMoneyBag
  <1>5. QED
    BY <1>2, <1>3, <1>4, NotedTwice DEF SameLocks, Free

\* What may come of putting things into a bag without locks.
Outcome == [why : {"OK", "BAD_COUNT", "TAB_FULL", "MONEY_FULL"}, bag : Bag]
Filled(bag) == {r \in Outcome : Noted(bag, r.bag) /\ Free(r.bag)}

LEMMA TryAddMoneyFills ==
  ASSUME NEW bag \in Bag, NEW r \in Filled(bag), NEW n \in Nat
  PROVE  TryAddMoney(r.bag, n) \in Filled(bag)
  <1>1. r.bag \in Bag /\ Noted(bag, r.bag) /\ Free(r.bag)
    BY DEF Filled, Outcome
  <1>2. /\ TryAddMoney(r.bag, n).bag \in Bag
        /\ Noted(r.bag, TryAddMoney(r.bag, n).bag)
        /\ SameLocks(r.bag, TryAddMoney(r.bag, n).bag)
    BY <1>1, TryAddMoneyBag
  <1>3. \E why \in {"OK", "MONEY_FULL"} : \E b : TryAddMoney(r.bag, n) = [why |-> why, bag |-> b]
    BY DEF TryAddMoney
  <1>4. TryAddMoney(r.bag, n) \in Outcome
    BY <1>2, <1>3 DEF Outcome
  <1>5. QED
    BY <1>1, <1>2, <1>4, NotedTwice DEF Filled, SameLocks, Free

LEMMA TryAddFills ==
  ASSUME NEW bag \in Bag, NEW r \in Filled(bag), NEW it \in Item, NEW n \in Nat
  PROVE  TryAdd(r.bag, it, n) \in Filled(bag)
  <1>1. r.bag \in Bag /\ Noted(bag, r.bag) /\ Free(r.bag)
    BY DEF Filled, Outcome
  <1>2. /\ TryAdd(r.bag, it, n).bag \in Bag
        /\ Noted(r.bag, TryAdd(r.bag, it, n).bag)
        /\ SameLocks(r.bag, TryAdd(r.bag, it, n).bag)
    BY <1>1, TryAddBag
  <1>3. \E why \in {"OK", "BAD_COUNT", "TAB_FULL", "MONEY_FULL"} : \E b :
           TryAdd(r.bag, it, n) = [why |-> why, bag |-> b]
    BY DEF TryAdd, TryAddMoney
  <1>4. TryAdd(r.bag, it, n) \in Outcome
    BY <1>2, <1>3 DEF Outcome
  <1>5. QED
    BY <1>1, <1>2, <1>4, NotedTwice DEF Filled, SameLocks, Free

\* Putting in the items, one after the other, until one does not fit.
PutIn(r, o) == IF r.why = "OK" THEN TryAdd(r.bag, o.item, o.count) ELSE r

Stuffed(bag, items) ==
    FoldLeft(LAMBDA r, o : IF r.why = "OK" THEN TryAdd(r.bag, o.item, o.count) ELSE r,
             [why |-> "OK", bag |-> bag], items)

\* g[T] is what came of putting in the offers in T, the last one last.
Stuffings(bag, items, g) ==
    g = [T \in SUBSET DOMAIN items |->
            IF T = {} THEN [why |-> "OK", bag |-> bag]
            ELSE PutIn(g[T \ {Max(T)}], items[Max(T)])]

LEMMA StuffedChain ==
  ASSUME NEW bag \in Bag, Free(bag), NEW items \in Seq(Offer)
  PROVE  \E g : /\ Stuffings(bag, items, g) /\ Stuffed(bag, items) = g[DOMAIN items]
               /\ g[DOMAIN items] \in Filled(bag)
  <1> DEFINE S == DOMAIN items
             next == [T \in SUBSET S |-> Max(T)]
             start == [why |-> "OK", bag |-> bag]
             step == [T \in SUBSET S |-> [r \in Outcome |-> PutIn(r, items[next[T]])]]
             V == [T \in SUBSET S |-> Filled(bag)]
             Chain(g) == g = [T \in SUBSET S |->
                                IF T = {} THEN start
                                ELSE PutIn(g[T \ {Max(T)}], items[Max(T)])]
             chain == CHOOSE g : Chain(g)
  <1>1. S = 1 .. Len(items) /\ Len(items) \in Nat
    OBVIOUS
  <1>2. IsFiniteSet(S)
    BY <1>1, FS_Interval
  <1>3. \A T \in SUBSET S : T # {} => /\ next[T] = Max(T) /\ next[T] \in T /\ next[T] \in S
                                      /\ T \ {next[T]} \in SUBSET S
    BY <1>1, MaxOfPlaces
  <1>4. ASSUME NEW k \in S, NEW r \in Filled(bag)
        PROVE  PutIn(r, items[k]) \in Filled(bag)
    <2>1. items[k] \in Offer
      BY <1>4
    <2>2. items[k].item \in Item /\ items[k].count \in Nat
      BY <2>1 DEF Offer
    <2>3. QED
      BY <2>2, TryAddFills DEF PutIn
  <1>5. start \in Filled(bag)
    BY DEF Filled, Outcome, Noted
  <1>6. ASSUME NEW T \in SUBSET S, T # {}, NEW r \in V[T \ {next[T]}]
        PROVE  step[T][r] \in V[T] /\ step[T][r] = PutIn(r, items[Max(T)])
    <2>1. V[T \ {next[T]}] = Filled(bag) /\ V[T] = Filled(bag)
      BY <1>3, <1>6
    <2>2. r \in Outcome
      BY <1>6, <2>1 DEF Filled
    <2>3. step[T][r] = PutIn(r, items[Max(T)])
      BY <1>3, <1>6, <2>2
    <2> HIDE DEF step, next, S, V
    <2>4. QED
      BY <1>3, <1>4, <1>6, <2>1, <2>3
  <1>7. start \in V[{}]
    BY <1>5, {} \in SUBSET S
  <1>8. PICK g : /\ IsFold(g, S, next, start, step)
                 /\ \A T \in SUBSET S : g[T] \in V[T]
    <2> HIDE DEF step, V, next, S, start
    <2>1. \A T \in SUBSET S : T # {} => \A v \in V[T \ {next[T]}] : step[T][v] \in V[T]
      BY <1>6
    <2>2. \A T \in SUBSET S : T # {} => next[T] \in T
      BY <1>3
    <2>3. QED
      BY <1>2, <1>7, <2>1, <2>2, FoldExists
  <1>9. Chain(g)
    <2>1. ASSUME NEW T \in SUBSET S, T # {}
          PROVE  step[T][g[T \ {next[T]}]] = PutIn(g[T \ {Max(T)}], items[Max(T)])
      <3> HIDE DEF step, V, next, S
      <3>1. g[T \ {next[T]}] \in V[T \ {next[T]}] /\ next[T] = Max(T)
        BY <1>3, <1>8, <2>1
      <3>2. QED
        BY <3>1, <1>6, <2>1
    <2> HIDE DEF step, next, S, start
    <2>2. QED
      BY ZenonT(60), SMTT(60), <1>8, <2>1 DEF IsFold
  <1>10. Chain(chain)
    BY <1>9
  <1>11. chain[{}] \in V[{}]
    <2> HIDE DEF chain, V, S, start
    <2>1. chain[{}] = start
      BY <1>10, {} \in SUBSET S
    <2>2. QED
      BY <2>1, <1>7
  <1>12. ASSUME NEW T \in SUBSET S, T # {}, chain[T \ {next[T]}] \in V[T \ {next[T]}]
         PROVE  chain[T] \in V[T]
    <2>1. V[T] = Filled(bag) /\ V[T \ {next[T]}] = Filled(bag)
      BY <1>3, <1>12
    <2> HIDE DEF chain, V, next, S
    <2>2. chain[T] = PutIn(chain[T \ {next[T]}], items[next[T]])
      BY <1>3, <1>10, <1>12
    <2>3. QED
      BY <1>3, <1>4, <1>12, <2>1, <2>2
  <1>13. chain[S] \in V[S]
    <2> HIDE DEF chain, V, next, S
    <2>1. \A T \in SUBSET S : T # {} /\ chain[T \ {next[T]}] \in V[T \ {next[T]}]
                                => chain[T] \in V[T]
      BY <1>12
    <2>2. \A T \in SUBSET S : T # {} => next[T] \in T
      BY <1>3
    <2>3. \A T \in SUBSET S : chain[T] \in V[T]
      BY <1>2, <1>11, <2>1, <2>2, FoldInvariant
    <2>4. QED
      BY <2>3, S \in SUBSET S
  <1>14. Stuffed(bag, items) = chain[S]
    BY DEF Stuffed, FoldLeft, MapThenFoldSet, PutIn
  <1>15. V[S] = Filled(bag)
    BY S \in SUBSET S
  <1>16. Stuffings(bag, items, chain)
    <2> HIDE DEF chain
    <2>1. QED
      BY <1>10 DEF Stuffings
  <1> HIDE DEF chain, V, S
  <1>17. Stuffed(bag, items) = chain[S] /\ chain[S] \in Filled(bag)
    BY <1>13, <1>14, <1>15
  <1>18. QED
    BY <1>16, <1>17 DEF S

LEMMA StuffedBag ==
  ASSUME NEW bag \in Bag, Free(bag), NEW items \in Seq(Offer)
  PROVE  Stuffed(bag, items) \in Filled(bag)
  BY StuffedChain

LEMMA ReceivedBag ==
  ASSUME NEW bag \in Bag, Free(bag), NEW half \in Half
  PROVE  Received(bag, half) \in Filled(bag)
  <1> DEFINE r == Stuffed(bag, half.items)
  <1>1. half.items \in Seq(Offer) /\ half.money \in Nat
    BY InventoryAssumption DEF Half
  <1>2. r \in Filled(bag)
    BY <1>1, StuffedBag
  <1>3. Received(bag, half) = IF r.why = "OK" /\ half.money > 0
                              THEN TryAddMoney(r.bag, half.money) ELSE r
    BY DEF Received, Stuffed
  <1> HIDE DEF r
  <1>4. QED
    BY <1>1, <1>2, <1>3, TryAddMoneyFills

\* A bag after the swap: every change is noted.
LEMMA SwappedBag ==
  ASSUME NEW bag \in Bag, NEW gives \in Half, NEW gets \in Half,
         SameAsOffered(bag, gives)
  PROVE  /\ Received(Given(bag, gives), gets).bag \in Bag
         /\ Noted(bag, Received(Given(bag, gives), gets).bag)
  <1> DEFINE less == Given(bag, gives)
  <1>1. less \in Bag /\ Noted(bag, less) /\ Free(less)
    BY GivenBag
  <1> HIDE DEF less
  <1>2. Received(less, gets) \in Filled(less)
    BY <1>1, ReceivedBag
  <1>3. Received(less, gets).bag \in Bag /\ Noted(less, Received(less, gets).bag)
    BY <1>2 DEF Filled, Outcome
  <1>4. Noted(bag, Received(less, gets).bag)
    BY ZenonT(60), SMTT(60), <1>1, <1>3, NotedTwice
  <1>5. QED
    BY <1>3, <1>4 DEF less

\* What came of giving and receiving, on a copy of the bag of side s.
Tried(st, t, s) ==
    Received(Given(st.player[t.side[s].player].bag, t.side[s]), t.side[3 - s])

Swapped(st, t) == [st EXCEPT !.player = OnTradeSwapped(Swap(st.player, t).player, t)]

\* From st to done the swap of t was tried and shown: the cells and the money of the
\* two are what was tried, and nothing else is another.
OnlyBagsSwapped(st, t, done) ==
    /\ done \in StateType
    /\ done.requests = st.requests /\ done.sessions = st.sessions
    /\ done.defect = st.defect
    /\ \A p \in Player :
          /\ done.player[p].zone = st.player[p].zone
          /\ done.player[p].spot = st.player[p].spot
          /\ done.player[p].life = st.player[p].life
          /\ done.player[p].ask = st.player[p].ask
          /\ done.player[p].win = st.player[p].win
          /\ ~ Trades(t, p) => done.player[p].bag = st.player[p].bag
          /\ Shows(done.player[p])
    /\ \A s \in 1 .. 2 :
          /\ done.player[t.side[s].player].bag.cells = Tried(st, t, s).bag.cells
          /\ done.player[t.side[s].player].bag.money = Tried(st, t, s).bag.money

\* A swap that is done and shown changes the bags of the two and nothing else.
LEMMA SwapDone ==
  ASSUME NEW st, Good(st), NEW t \in st.sessions, Swap(st.player, t).why = "DONE"
  PROVE  OnlyBagsSwapped(st, t, Swapped(st, t))
  <1> DEFINE a == t.side[1].player
             b == t.side[2].player
             bagA == Received(Given(st.player[a].bag, t.side[1]), t.side[2]).bag
             bagB == Received(Given(st.player[b].bag, t.side[2]), t.side[1]).bag
             newA == Rebagged(st.player[a], bagA)
             newB == Rebagged(st.player[b], bagB)
             players == OnTradeSwapped(Swap(st.player, t).player, t)
             done == Swapped(st, t)
  <1>1. st \in StateType /\ Together(st) /\ Locks(st)
    BY DEF Good
  <1>2. t \in Session /\ a \in Player /\ b \in Player /\ a # b
        /\ t.side[1] \in Half /\ t.side[2] \in Half
    BY <1>1, Parts, SessionParts DEF Together, Met
  <1>3. /\ st.player \in [Player -> PlayerState]
        /\ st.player[a] \in PlayerState /\ st.player[b] \in PlayerState
        /\ st.player[a].bag \in Bag /\ st.player[b].bag \in Bag
    BY SMTT(60), ZenonT(60), <1>1, <1>2, Parts
  <1>4. st.player[a].zone # Out /\ st.player[b].zone # Out
    <2>1. st.player[a].zone \in TradeZone /\ st.player[a].zone = st.player[b].zone
      BY <1>1 DEF Together, Met
    <2>2. Out \notin TradeZone
      BY TradeAssumption DEF Out
    <2>3. QED
      BY ZenonT(60), SMTT(60), <2>1, <2>2
  <1>5. SameAsOffered(st.player[a].bag, t.side[1]) /\ SameAsOffered(st.player[b].bag, t.side[2])
    BY SMTT(60), ZenonT(60), <1>1, BothLaidOut
  <1>6. /\ bagA \in Bag /\ Noted(st.player[a].bag, bagA)
        /\ bagB \in Bag /\ Noted(st.player[b].bag, bagB)
    <2> DEFINE hadA == st.player[a].bag
               hadB == st.player[b].bag
               givesA == t.side[1]
               givesB == t.side[2]
    <2>1. /\ hadA \in Bag /\ hadB \in Bag /\ givesA \in Half /\ givesB \in Half
          /\ SameAsOffered(hadA, givesA) /\ SameAsOffered(hadB, givesB)
      BY ZenonT(60), SMTT(60), <1>2, <1>3, <1>5
    <2>2. bagA = Received(Given(hadA, givesA), givesB).bag
          /\ bagB = Received(Given(hadB, givesB), givesA).bag
      OBVIOUS
    <2> HIDE DEF bagA, bagB, hadA, hadB, givesA, givesB
    <2>3. /\ bagA \in Bag /\ Noted(hadA, bagA)
          /\ bagB \in Bag /\ Noted(hadB, bagB)
      BY <2>1, <2>2, SwappedBag
    <2>4. QED
      BY ZenonT(60), SMTT(60), <2>3 DEF hadA, hadB
  <1>7. Swap(st.player, t).player = [st.player EXCEPT ![a].bag = bagA, ![b].bag = bagB]
    BY ZenonT(60) DEF Swap
  <1>8. \A p \in Player : Trades(t, p) <=> p = a \/ p = b
    BY DEF Trades
  <1>9. Shows(st.player[a]) /\ Shows(st.player[b])
    BY <1>2 DEF Good
  <1>10. Tried(st, t, 1).bag = bagA /\ Tried(st, t, 2).bag = bagB
    BY DEF Tried
  <1> HIDE DEF a, b, bagA, bagB, players
  <1>11. /\ newA \in PlayerState /\ newA.zone = st.player[a].zone
         /\ newA.spot = st.player[a].spot
         /\ newA.bag.cells = bagA.cells /\ newA.bag.money = bagA.money
         /\ newA.life = st.player[a].life /\ newA.ask = st.player[a].ask
         /\ newA.win = st.player[a].win
         /\ Shows(newA)
    BY <1>3, <1>4, <1>6, <1>9, RebaggedShows
  <1>12. /\ newB \in PlayerState /\ newB.zone = st.player[b].zone
         /\ newB.spot = st.player[b].spot
         /\ newB.bag.cells = bagB.cells /\ newB.bag.money = bagB.money
         /\ newB.life = st.player[b].life /\ newB.ask = st.player[b].ask
         /\ newB.win = st.player[b].win
         /\ Shows(newB)
    BY <1>3, <1>4, <1>6, <1>9, RebaggedShows
  <1>13. players = [st.player EXCEPT ![a] = newA, ![b] = newB]
    <2>1. players = [Swap(st.player, t).player EXCEPT ![a] = FlushInventory(@),
                                                      ![b] = FlushInventory(@)]
      BY DEF players, OnTradeSwapped, a, b
    <2> DEFINE mid == [st.player EXCEPT ![a].bag = bagA, ![b].bag = bagB]
    <2>2. /\ DOMAIN mid = Player /\ mid[a] = [st.player[a] EXCEPT !.bag = bagA]
          /\ mid[b] = [st.player[b] EXCEPT !.bag = bagB]
          /\ \A p \in Player : p # a /\ p # b => mid[p] = st.player[p]
      BY <1>2, <1>3
    <2>3. players = [mid EXCEPT ![a] = FlushInventory(@), ![b] = FlushInventory(@)]
      BY <1>7, <2>1
    <2>4. mid = [p \in Player |-> mid[p]]
      BY <1>3
    <2> HIDE DEF mid
    <2>5. players = [p \in Player |-> IF p = a THEN newA ELSE IF p = b THEN newB
                                      ELSE st.player[p]]
      BY <1>2, <2>2, <2>3, <2>4 DEF Rebagged
    <2> HIDE DEF newA, newB
    <2>6. QED
      BY <1>2, <1>3, <2>5
  <1> HIDE DEF newA, newB
  <1>14. players \in [Player -> PlayerState]
    BY <1>2, <1>3, <1>11, <1>12, <1>13
  <1>15. /\ done \in StateType /\ done.player = players
         /\ done.requests = st.requests /\ done.sessions = st.sessions
         /\ done.defect = st.defect
    BY <1>1, <1>14 DEF StateType, players, Swapped
  <1>16. /\ players[a] = newA /\ players[b] = newB
         /\ \A p \in Player : p # a /\ p # b => players[p] = st.player[p]
    BY <1>2, <1>3, <1>13
  <1>17. \A p \in Player : Shows(st.player[p])
    BY DEF Good
  <1>18. ASSUME NEW p \in Player
         PROVE  /\ players[p].zone = st.player[p].zone
                /\ players[p].spot = st.player[p].spot
                /\ players[p].life = st.player[p].life
                /\ players[p].ask = st.player[p].ask
                /\ players[p].win = st.player[p].win
                /\ ~ Trades(t, p) => players[p].bag = st.player[p].bag
                /\ Shows(players[p])
    <2>1. CASE p = a
      BY <1>8, <1>11, <1>16, <2>1
    <2>2. CASE p = b
      BY <1>8, <1>12, <1>16, <2>2
    <2>3. CASE p # a /\ p # b
      BY <1>16, <1>17, <2>3
    <2>4. QED
      BY <2>1, <2>2, <2>3
  <1>19. \A s \in 1 .. 2 : /\ players[t.side[s].player].bag.cells = Tried(st, t, s).bag.cells
                           /\ players[t.side[s].player].bag.money = Tried(st, t, s).bag.money
    <2>1. players[a].bag.cells = bagA.cells /\ players[a].bag.money = bagA.money
      BY <1>11, <1>16
    <2>2. players[b].bag.cells = bagB.cells /\ players[b].bag.money = bagB.money
      BY <1>12, <1>16
    <2>3. QED
      BY SMTT(60), ZenonT(60), <1>10, <2>1, <2>2, TwoSides DEF a, b
  <1>20. QED
    BY ZenonT(60), SMTT(60), <1>15, <1>18, <1>19 DEF OnlyBagsSwapped

\* A swap that is not done changes nothing, and not because an offer changed.
LEMMA SwapRefused ==
  ASSUME NEW players, NEW t,
         SameAsOffered(players[t.side[1].player].bag, t.side[1]),
         SameAsOffered(players[t.side[2].player].bag, t.side[2]),
         Swap(players, t).why # "DONE"
  PROVE  Swap(players, t).player = players /\ Swap(players, t).why # "CHANGED"
  <1> DEFINE a == t.side[1].player
             b == t.side[2].player
             newA == Received(Given(players[a].bag, t.side[1]), t.side[2])
             newB == Received(Given(players[b].bag, t.side[2]), t.side[1])
             near == InReach(players[a], players[b])
             full == newA.why # "OK" \/ newB.why # "OK"
             new == [players EXCEPT ![a].bag = newA.bag, ![b].bag = newB.bag]
  <1>1. Swap(players, t) = IF ~ near THEN [why |-> "NOT_IN_REACH", player |-> players]
                           ELSE IF full THEN [why |-> "FULL", player |-> players]
                           ELSE [why |-> "DONE", player |-> new]
    BY ZenonT(60), SMTT(60) DEF Swap
  <1> HIDE DEF near, full, new
  <1>2. QED
    BY SMTT(60), <1>1

\* A trade that both have closed ends, or waits for the store within its bound; in
\* no case has an offer changed.
LEMMA TryExecuteGood ==
  ASSUME NEW st, Good(st), NEW t \in st.sessions, NEW saving
  PROVE  LET e == TryExecute(st, t, saving)
         IN  /\ Good(e) /\ e.requests = st.requests
             /\ \A p \in Player : e.player[p].life = st.player[p].life
             /\ \/ e.sessions = st.sessions \ {t}
                \/ e.sessions = st.sessions /\ ~ (t.waited >= WaitFrames)
  <1> DEFINE a == t.side[1].player
             b == t.side[2].player
             r == Swap(st.player, t)
             e == TryExecute(st, t, saving)
  <1>1. st \in StateType /\ Locks(st) /\ ~ st.defect /\ \A p \in Player : Shows(st.player[p])
    BY DEF Good
  <1>2. /\ Good(EndSession(st, t, NoOne))
        /\ EndSession(st, t, NoOne).requests = st.requests
        /\ EndSession(st, t, NoOne).sessions = st.sessions \ {t}
        /\ \A p \in Player : EndSession(st, t, NoOne).player[p].life = st.player[p].life
    BY SMTT(60), <1>1, EndSessionGood
  <1>3. CASE ~ Alive(st.player[a]) \/ ~ Alive(st.player[b])
    BY ZenonT(60), SMTT(60), <1>2, <1>3 DEF TryExecute
  <1>4. CASE ~ (~ Alive(st.player[a]) \/ ~ Alive(st.player[b])) /\ saving \cap {a, b} # {}
    <2>1. e = WaitForStore(st, t)
      BY <1>4 DEF TryExecute
    <2>2. QED
      BY <1>2, <2>1 DEF WaitForStore
  <1>5. CASE /\ ~ (~ Alive(st.player[a]) \/ ~ Alive(st.player[b]))
             /\ ~ (saving \cap {a, b} # {}) /\ r.why = "DONE"
    <2> DEFINE done == Swapped(st, t)
    <2>1. e = EndSession(done, t, NoOne)
      BY ZenonT(60), SMTT(60), <1>5 DEF TryExecute, Swapped
    <2>2. /\ done \in StateType
          /\ done.requests = st.requests /\ done.sessions = st.sessions
          /\ done.defect = st.defect
          /\ \A p \in Player :
                /\ done.player[p].zone = st.player[p].zone
                /\ done.player[p].life = st.player[p].life
                /\ done.player[p].ask = st.player[p].ask
                /\ done.player[p].win = st.player[p].win
                /\ ~ Trades(t, p) => done.player[p].bag = st.player[p].bag
                /\ Shows(done.player[p])
      <3>1. OnlyBagsSwapped(st, t, done)
        BY ZenonT(60), SMTT(60), <1>5, SwapDone
      <3> HIDE DEF done
      <3>2. QED
        BY ZenonT(60), SMTT(60), <3>1 DEF OnlyBagsSwapped
    <2> HIDE DEF done, e
    <2>3. /\ Good(EndSession(done, t, NoOne))
          /\ EndSession(done, t, NoOne).requests = st.requests
          /\ EndSession(done, t, NoOne).sessions = st.sessions \ {t}
          /\ \A p \in Player : EndSession(done, t, NoOne).player[p].life
                                 = done.player[p].life
      BY <1>1, <2>2, EndSessionGood
    <2>4. QED
      BY <2>1, <2>2, <2>3 DEF e
  <1>6. CASE /\ ~ (~ Alive(st.player[a]) \/ ~ Alive(st.player[b]))
             /\ ~ (saving \cap {a, b} # {}) /\ r.why # "DONE"
    <2> DEFINE kept == [st EXCEPT !.player = r.player, !.defect = @ \/ r.why = "CHANGED"]
    <2>1. e = EndSession(kept, t, NoOne)
      BY <1>6 DEF TryExecute
    <2>2. SameAsOffered(st.player[a].bag, t.side[1])
          /\ SameAsOffered(st.player[b].bag, t.side[2])
      BY ZenonT(60), SMTT(60), <1>1, BothLaidOut
    <2>3. r.player = st.player /\ r.why # "CHANGED"
      BY ZenonT(60), SMTT(60), <1>6, <2>2, SwapRefused
    <2>4. st.defect \in BOOLEAN
      BY <1>1, Parts
    <2> HIDE DEF r
    <2>5. /\ kept \in StateType /\ ~ kept.defect /\ kept.player = st.player
          /\ kept.requests = st.requests /\ kept.sessions = st.sessions
      BY <1>1, <2>3, <2>4 DEF StateType
    <2> HIDE DEF kept, e
    <2>6. /\ Good(EndSession(kept, t, NoOne))
          /\ EndSession(kept, t, NoOne).requests = st.requests
          /\ EndSession(kept, t, NoOne).sessions = st.sessions \ {t}
          /\ \A p \in Player : EndSession(kept, t, NoOne).player[p].life
                                 = kept.player[p].life
      BY SMTT(60), ZenonT(60), <1>1, <2>5, EndSessionGood
    <2>7. QED
      BY <2>1, <2>5, <2>6 DEF e
  <1>7. QED
    BY <1>3, <1>4, <1>5, <1>6

-----------------------------------------------------------------------------
(* Every action keeps the invariant. *)

\* The state an action arrives at.
LEMMA Arrived ==
  ASSUME NEW st, Good(st), Becomes(st), nextId' \in 1 .. RequestMax
  PROVE  TradeInvariant'
  <1>1. st \in StateType
    BY DEF Good
  <1>2. State' = st
    BY <1>1 DEF State, StateType, Becomes
  <1>3. Good(State')
    BY <1>2
  <1>4. QED
    BY <1>3 DEF TradeInvariant

LEMMA Here ==
  ASSUME TradeInvariant
  PROVE  /\ Good(State) /\ State \in StateType /\ nextId \in 1 .. RequestMax
         /\ State.player = player /\ State.requests = requests
         /\ State.sessions = sessions /\ State.defect = defect
         /\ \A p \in Player : player[p] \in PlayerState /\ player[p].bag \in Bag
         /\ player \in [Player -> PlayerState]
         /\ requests \subseteq Request /\ sessions \subseteq Session /\ defect = FALSE
  <1>1. Good(State) /\ State \in StateType /\ nextId \in 1 .. RequestMax /\ ~ State.defect
    BY DEF TradeInvariant, Good
  <1>2. /\ State.player = player /\ State.requests = requests
        /\ State.sessions = sessions /\ State.defect = defect
    BY DEF State
  <1>3. QED
    BY <1>1, <1>2, Parts

\* What is locked holds something.
LEMMA HoldsLocked ==
  ASSUME NEW st, Good(st), NEW p \in Player
  PROVE  LockedHold(st.player[p].bag)
  <1>1. st \in StateType /\ Locks(st)
    BY DEF Good
  <1>2. CASE TradesNot(st, p)
    BY <1>1, <1>2 DEF Locks, Free, LockedHold
  <1>3. CASE ~ TradesNot(st, p)
    <2>1. PICK t \in st.sessions : Trades(t, p)
      BY <1>3 DEF TradesNot
    <2>2. PICK s \in 1 .. 2 : t.side[s].player = p
      BY <2>1 DEF Trades
    <2>3. LaidOut(st.player[p].bag, t.side[s])
      BY <1>1, <2>2 DEF Locks
    <2>4. t.side[s] \in Half /\ st.player[p].bag \in Bag
      BY <1>1, Parts, SessionParts
    <2>5. QED
      BY <2>3, <2>4, LaidOutHolds
  <1>4. QED
    BY <1>2, <1>3

\* One player does something that no request or trade is about.
LEMMA OneChanged ==
  ASSUME TradeInvariant, NEW p \in Player, NEW pl \in PlayerState,
         player' = [player EXCEPT ![p] = pl],
         UNCHANGED <<requests, sessions, nextId, defect>>,
         pl.zone = player[p].zone, pl.ask = player[p].ask, pl.win = player[p].win,
         SameLocks(player[p].bag, pl.bag),
         \A i \in player[p].bag.locked : pl.bag.cells[i] = player[p].bag.cells[i],
         player[p].bag.lockedMoney <= player[p].bag.money => pl.bag.lockedMoney <= pl.bag.money,
         Shows(pl)
  PROVE  TradeInvariant'
  <1> DEFINE new == [player EXCEPT ![p] = pl]
             st == [player |-> new, requests |-> requests, sessions |-> sessions,
                    defect |-> defect]
  <1>1. /\ Good(State) /\ State \in StateType /\ nextId \in 1 .. RequestMax
        /\ State.player = player /\ State.requests = requests
        /\ State.sessions = sessions /\ State.defect = defect
        /\ player \in [Player -> PlayerState]
        /\ requests \subseteq Request /\ sessions \subseteq Session /\ defect = FALSE
    BY Here
  <1>2. /\ new \in [Player -> PlayerState] /\ new[p] = pl
        /\ \A q \in Player : q # p => new[q] = player[q]
    BY <1>1
  <1> HIDE DEF new
  <1>3. /\ st \in StateType /\ st.player = new
        /\ st.requests = requests /\ st.sessions = sessions /\ st.defect = defect
    BY <1>1, <1>2 DEF StateType
  <1>4. Becomes(st)
    BY <1>3 DEF Becomes, new
  <1> HIDE DEF st
  <1>5. \A q \in Player : Shows(player[q])
    BY SMTT(60), ZenonT(60), <1>1 DEF Good
  <1>6. ASSUME NEW q \in Player
        PROVE  /\ st.player[q].zone = State.player[q].zone
               /\ st.player[q].ask = State.player[q].ask
               /\ st.player[q].win = State.player[q].win
               /\ st.player[q].bag.locked = State.player[q].bag.locked
               /\ st.player[q].bag.lockedMoney = State.player[q].bag.lockedMoney
               /\ \A i \in State.player[q].bag.locked :
                     st.player[q].bag.cells[i] = State.player[q].bag.cells[i]
               /\ State.player[q].bag.lockedMoney <= State.player[q].bag.money
                     => st.player[q].bag.lockedMoney <= st.player[q].bag.money
               /\ Shows(st.player[q])
    <2>1. CASE q = p
      BY <1>1, <1>2, <1>3, <2>1 DEF SameLocks
    <2>2. CASE q # p
      BY ZenonT(60), SMTT(60), <1>1, <1>2, <1>3, <1>5, <2>2
    <2>3. QED
      BY ZenonT(60), SMTT(60), <2>1, <2>2
  <1>7. Good(st)
    BY SMTT(120), <1>1, <1>3, <1>6, PlayersAside
  <1>8. nextId' \in 1 .. RequestMax
    BY <1>1
  <1>9. QED
    BY <1>4, <1>7, <1>8, Arrived

\* A player tends its own bag and sees it.
LEMMA WithBagGood ==
  ASSUME TradeInvariant, NEW p \in Player, Online(p),
         NEW bag, Tended(player[p].bag, bag), WithBag(p, bag)
  PROVE  TradeInvariant'
  <1> DEFINE pl == Rebagged(player[p], bag)
  <1>1. /\ player[p] \in PlayerState /\ player[p].zone # Out
        /\ Good(State) /\ State.player = player
    BY Here DEF Online
  <1>2. Shows(player[p])
    BY <1>1 DEF Good
  <1>3. bag \in Bag /\ Noted(player[p].bag, bag)
    BY DEF Tended
  <1>4. /\ pl \in PlayerState
        /\ pl.zone = player[p].zone /\ pl.ask = player[p].ask /\ pl.win = player[p].win
        /\ pl.bag.cells = bag.cells /\ pl.bag.money = bag.money
        /\ pl.bag.locked = bag.locked /\ pl.bag.lockedMoney = bag.lockedMoney
        /\ Shows(pl)
    BY <1>1, <1>2, <1>3, RebaggedShows
  <1>5. player' = [player EXCEPT ![p] = pl]
    BY DEF WithBag, Rebagged
  <1>6. UNCHANGED <<requests, sessions, nextId, defect>>
    BY DEF WithBag
  <1> HIDE DEF pl
  <1>7. /\ SameLocks(player[p].bag, pl.bag)
        /\ \A i \in player[p].bag.locked : pl.bag.cells[i] = player[p].bag.cells[i]
        /\ player[p].bag.lockedMoney <= player[p].bag.money
             => pl.bag.lockedMoney <= pl.bag.money
    BY <1>4 DEF Tended, SameLocks
  <1>8. QED
    BY <1>4, <1>5, <1>6, <1>7, OneChanged

LEMMA UseAndEquip ==
  ASSUME TradeInvariant, NEW p \in Player, NEW i \in Index, UseItem(p, i) \/ Equip(p, i)
  PROVE  TradeInvariant'
  <1> DEFINE bag == player[p].bag
  <1>1. bag \in Bag /\ Good(State) /\ State.player = player
    BY Here
  <1>2. LockedHold(bag)
    BY <1>1, HoldsLocked
  <1>3. CASE UseItem(p, i)
    <2>1. CanUse(bag, i) /\ Online(p) /\ WithBag(p, RemoveFrom(bag, i, 1))
      BY <1>3 DEF UseItem
    <2>2. Tended(bag, RemoveFrom(bag, i, 1))
      BY <1>1, <2>1, UseTends
    <2>3. QED
      BY <2>1, <2>2, WithBagGood
  <1>4. CASE Equip(p, i)
    <2>1. CASE CanEquip(bag, i) /\ WithBag(p, Equipped(bag, i))
      <3>1. Tended(bag, Equipped(bag, i))
        BY <1>1, <2>1, EquipTends
      <3>2. Online(p)
        BY <1>4 DEF Equip
      <3>3. QED
        BY <2>1, <3>1, <3>2, WithBagGood
    <2>2. CASE CanUnequip(bag, i) /\ WithBag(p, Unequipped(bag, i))
      <3>1. Tended(bag, Unequipped(bag, i))
        BY <1>1, <1>2, <2>2, UnequipTends
      <3>2. Online(p)
        BY <1>4 DEF Equip
      <3>3. QED
        BY <2>2, <3>1, <3>2, WithBagGood
    <2>3. QED
      BY <1>4, <2>1, <2>2 DEF Equip
  <1>5. QED
    BY <1>3, <1>4

LEMMA BuyAndGain ==
  ASSUME TradeInvariant, NEW p \in Player, NEW it \in Item, NEW n \in Amount,
         Buy(p, it, n) \/ Gain(p, it, n)
  PROVE  TradeInvariant'
  <1> DEFINE bag == player[p].bag
  <1>1. n \in Int
    BY TradeAssumption DEF Amount
  <1>2. bag \in Bag /\ Good(State) /\ State.player = player
    BY Here
  <1>3. CASE Buy(p, it, n)
    <2>1. CanBuy(bag, it, n) /\ Online(p) /\ WithBag(p, Bought(bag, it, n))
      BY <1>3 DEF Buy
    <2>2. Tended(bag, Bought(bag, it, n))
      BY <1>1, <1>2, <2>1, BuyTends
    <2>3. QED
      BY <2>1, <2>2, WithBagGood
  <1>4. CASE Gain(p, it, n)
    <2>1. Online(p) /\ WithBag(p, TryAdd(bag, it, n).bag)
      BY <1>4 DEF Gain
    <2>2. Tended(bag, TryAdd(bag, it, n).bag)
      BY <1>1, <1>2, GainTends
    <2>3. QED
      BY <2>1, <2>2, WithBagGood
  <1>5. QED
    BY <1>3, <1>4

LEMMA SellGood ==
  ASSUME TradeInvariant, NEW p \in Player, NEW i \in Index, NEW n \in Amount, Sell(p, i, n)
  PROVE  TradeInvariant'
  <1> DEFINE bag == player[p].bag
  <1>1. n \in Int
    BY TradeAssumption DEF Amount
  <1>2. bag \in Bag /\ Good(State) /\ State.player = player
    BY Here
  <1>3. CASE Sell(p, i, n)
    <2>1. CanSell(bag, i, n) /\ Online(p) /\ WithBag(p, Sold(bag, i, n))
      BY <1>3 DEF Sell
    <2>2. Tended(bag, Sold(bag, i, n))
      BY <1>1, <1>2, <2>1, SellTends
    <2>3. QED
      BY <2>1, <2>2, WithBagGood
  <1>4. QED
    BY <1>3

\* Walking off and dying: the trades hear of it later.
LEMMA WalkAndDie ==
  ASSUME TradeInvariant, NEW p \in Player,
         Die(p) \/ \E spot \in Spot : Walk(p, spot)
  PROVE  TradeInvariant'
  <1>1. /\ player[p] \in PlayerState /\ Good(State) /\ State.player = player
        /\ player[p].bag \in Bag
    BY Here
  <1>2. Shows(player[p])
    BY <1>1 DEF Good
  <1>3. CASE Die(p)
    <2> DEFINE pl == [player[p] EXCEPT !.life = "dying"]
    <2>1. /\ pl \in PlayerState /\ pl.zone = player[p].zone /\ pl.ask = player[p].ask
          /\ pl.win = player[p].win /\ pl.bag = player[p].bag /\ pl.shown = player[p].shown
      BY <1>1 DEF PlayerState
    <2>2. /\ player' = [player EXCEPT ![p] = pl]
          /\ UNCHANGED <<requests, sessions, nextId, defect>>
      BY <1>3 DEF Die
    <2> HIDE DEF pl
    <2>3. Shows(pl) /\ SameLocks(player[p].bag, pl.bag)
      BY <1>2, <2>1 DEF Shows, SameLocks
    <2>4. QED
      BY <2>1, <2>2, <2>3, OneChanged
  <1>4. ASSUME NEW spot \in Spot, Walk(p, spot)
        PROVE  TradeInvariant'
    <2> DEFINE pl == [player[p] EXCEPT !.spot = spot]
    <2>1. /\ pl \in PlayerState /\ pl.zone = player[p].zone /\ pl.ask = player[p].ask
          /\ pl.win = player[p].win /\ pl.bag = player[p].bag /\ pl.shown = player[p].shown
      BY <1>1 DEF PlayerState
    <2>2. /\ player' = [player EXCEPT ![p] = pl]
          /\ UNCHANGED <<requests, sessions, nextId, defect>>
      BY <1>4 DEF Walk
    <2> HIDE DEF pl
    <2>3. Shows(pl) /\ SameLocks(player[p].bag, pl.bag)
      BY <1>2, <2>1 DEF Shows, SameLocks
    <2>4. QED
      BY <2>1, <2>2, <2>3, OneChanged
  <1>5. QED
    BY <1>3, <1>4

\* One player of a state replaced.
Placed(st, p, pl) == [st EXCEPT !.player[p] = pl]

LEMMA PlacedGood ==
  ASSUME NEW st, Good(st), NEW p \in Player, NEW pl \in PlayerState,
         \A r \in st.requests : ~ Involves(r, p), TradesNot(st, p),
         Free(pl.bag), pl.ask = 0, pl.win = NoWin, Shows(pl)
  PROVE  Good(Placed(st, p, pl))
  <1> DEFINE st2 == Placed(st, p, pl)
             new == [st.player EXCEPT ![p] = pl]
  <1>1. st \in StateType
    BY DEF Good
  <1>2. st.player \in [Player -> PlayerState]
    BY <1>1, Parts
  <1>3. /\ new \in [Player -> PlayerState] /\ new[p] = pl
        /\ \A q \in Player \ {p} : new[q] = st.player[q]
    BY <1>2
  <1>4. st2 = [st EXCEPT !.player = new]
    BY <1>1 DEF StateType, Placed
  <1> HIDE DEF st2, new
  <1>5. /\ st2 \in StateType /\ st2.player = new /\ st2.requests = st.requests
        /\ st2.sessions = st.sessions /\ st2.defect = st.defect
    BY <1>1, <1>3, <1>4 DEF StateType
  <1>6. Good(st2)
    BY <1>3, <1>5, OneAside
  <1>7. QED
    BY <1>6 DEF st2

\* Out of one map and into another: what was going on is over.
LEMMA MovedGood ==
  ASSUME NEW st, Good(st), NEW p \in Player, st.player[p].zone # Out, NEW zone \in Zone
  PROVE  Good(Moved(st, p, zone))
  <1> DEFINE d == Drop(st, p, NoOne)
             was == d.player[p]
             pl == [was EXCEPT !.zone = zone, !.spot = Min(Spot)]
  <1>1. Good(d) /\ (\A r \in d.requests : ~ Involves(r, p)) /\ TradesNot(d, p)
        /\ d.player[p].zone = st.player[p].zone
    BY DropGood
  <1>2. was.zone # Out
    BY <1>1
  <1>3. Moved(st, p, zone) = Placed(d, p, pl)
    BY DEF Moved, Placed
  <1>4. Min(Spot) \in Spot
    BY TradeAssumption, MinOfNats
  <1> HIDE DEF d
  <1>5. Free(was.bag) /\ was.win = NoWin /\ was.ask = 0 /\ was \in PlayerState
    BY <1>1, Idle
  <1>6. Shows(was)
    BY <1>1 DEF Good
  <1> HIDE DEF was
  <1>7. /\ pl \in PlayerState /\ pl.bag = was.bag /\ pl.win = was.win /\ pl.ask = was.ask
        /\ pl.shown = was.shown
    BY <1>4, <1>5 DEF PlayerState
  <1> HIDE DEF pl
  <1>8. Shows(pl)
    BY <1>2, <1>6, <1>7 DEF Shows
  <1>9. QED
    BY <1>1, <1>3, <1>5, <1>7, <1>8, PlacedGood

LEMMA TransferGood ==
  ASSUME TradeInvariant, NEW p \in Player, NEW zone \in Zone, TransferPlayer(p, zone)
  PROVE  TradeInvariant'
  <1>1. Good(State) /\ State.player = player /\ nextId \in 1 .. RequestMax
    BY Here
  <1>2. State.player[p].zone # Out
    BY <1>1 DEF TransferPlayer, Online
  <1>3. Good(Moved(State, p, zone))
    BY <1>1, <1>2, MovedGood
  <1>4. Becomes(Moved(State, p, zone)) /\ nextId' \in 1 .. RequestMax
    BY <1>1 DEF TransferPlayer
  <1>5. QED
    BY <1>3, <1>4, Arrived

\* A dead player stands up again.
LEMMA UpGood ==
  ASSUME TradeInvariant, NEW p \in Player, player[p].zone # Out
  PROVE  LET up == [State EXCEPT !.player[p].life = "alive"]
         IN  Good(up) /\ up.player[p].zone = player[p].zone
  <1> DEFINE pl == [player[p] EXCEPT !.life = "alive"]
             new == [player EXCEPT ![p] = pl]
             up == [State EXCEPT !.player[p].life = "alive"]
  <1>1. /\ Good(State) /\ State \in StateType /\ nextId \in 1 .. RequestMax
        /\ State.player = player /\ player \in [Player -> PlayerState]
        /\ player[p] \in PlayerState /\ player[p].zone # Out
    BY Here
  <1>2. /\ pl \in PlayerState /\ pl.zone = player[p].zone /\ pl.ask = player[p].ask
        /\ pl.win = player[p].win /\ pl.bag = player[p].bag /\ pl.shown = player[p].shown
    BY <1>1 DEF PlayerState
  <1>3. up = [State EXCEPT !.player = new]
    BY <1>1 DEF State
  <1> HIDE DEF pl
  <1>4. /\ new \in [Player -> PlayerState] /\ new[p] = pl
        /\ \A q \in Player : q # p => new[q] = player[q]
    BY <1>1, <1>2
  <1> HIDE DEF new, up
  <1>5. /\ up \in StateType /\ up.player = new /\ up.requests = State.requests
        /\ up.sessions = State.sessions /\ up.defect = State.defect
    BY <1>1, <1>3, <1>4 DEF StateType
  <1>6. \A q \in Player : Shows(player[q])
    BY <1>1 DEF Good
  <1>7. ASSUME NEW q \in Player
        PROVE  /\ up.player[q].zone = State.player[q].zone
               /\ up.player[q].ask = State.player[q].ask
               /\ up.player[q].win = State.player[q].win
               /\ up.player[q].bag.locked = State.player[q].bag.locked
               /\ up.player[q].bag.lockedMoney = State.player[q].bag.lockedMoney
               /\ \A i \in State.player[q].bag.locked :
                     up.player[q].bag.cells[i] = State.player[q].bag.cells[i]
               /\ State.player[q].bag.lockedMoney <= State.player[q].bag.money
                     => up.player[q].bag.lockedMoney <= up.player[q].bag.money
               /\ Shows(up.player[q])
    <2>1. CASE q = p
      <3>1. Shows(pl)
        BY <1>2, <1>6 DEF Shows
      <3>2. QED
        BY <1>1, <1>2, <1>4, <1>5, <2>1, <3>1
    <2>2. CASE q # p
      BY SMTT(60), ZenonT(60), <1>1, <1>4, <1>5, <1>6, <2>2
    <2>3. QED
      BY <2>1, <2>2
  <1>8. Good(up)
    BY SMTT(120), <1>1, <1>5, <1>7, PlayersAside
  <1>9. QED
    BY <1>2, <1>4, <1>5, <1>8 DEF up

LEMMA RespawnGood ==
  ASSUME TradeInvariant, NEW p \in Player, NEW zone \in Zone, Respawn(p, zone)
  PROVE  TradeInvariant'
  <1> DEFINE up == [State EXCEPT !.player[p].life = "alive"]
  <1>1. nextId' \in 1 .. RequestMax
    BY Here DEF Respawn
  <1>2. player[p].zone # Out
    BY DEF Respawn, Online
  <1>3. Good(up) /\ up.player[p].zone # Out
    BY <1>2, UpGood
  <1>4. Becomes(up) \/ Becomes(Moved(up, p, zone))
    BY DEF Respawn
  <1> HIDE DEF up
  <1>5. Good(Moved(up, p, zone))
    BY <1>3, MovedGood
  <1>6. QED
    BY <1>1, <1>3, <1>4, <1>5, Arrived

LEMMA LeaveGood ==
  ASSUME TradeInvariant, NEW p \in Player, LeaveGame(p)
  PROVE  TradeInvariant'
  <1> DEFINE once == Drop(State, p, NoOne)
             d == Drop(once, p, p)
             was == d.player[p]
             pl == [was EXCEPT !.zone = Out, !.life = "alive", !.spot = Min(Spot),
                               !.ask = 0, !.win = NoWin]
  <1>1. Good(State) /\ nextId \in 1 .. RequestMax
    BY Here
  <1>2. Good(once) /\ (\A r \in once.requests : ~ Involves(r, p)) /\ TradesNot(once, p)
    BY <1>1, DropGood
  <1>3. Becomes(Placed(d, p, pl)) /\ nextId' \in 1 .. RequestMax
    BY <1>1 DEF LeaveGame, Placed
  <1> HIDE DEF once
  <1>4. Good(d) /\ (\A r \in d.requests : ~ Involves(r, p)) /\ TradesNot(d, p)
    BY <1>2, DropAgain
  <1>5. Min(Spot) \in Spot /\ RequestMax \in Nat
    BY TradeAssumption, MinOfNats
  <1> HIDE DEF d
  <1>6. Free(was.bag) /\ was \in PlayerState
    BY <1>4, Idle
  <1> HIDE DEF was
  <1>7. /\ pl \in PlayerState /\ pl.bag = was.bag /\ pl.win = NoWin /\ pl.ask = 0
        /\ pl.zone = Out
    <2>1. 0 \in 0 .. RequestMax
      BY <1>5
    <2> DEFINE half == [was EXCEPT !.zone = Out, !.life = "alive", !.spot = Min(Spot)]
    <2>2. half \in PlayerState /\ half.bag = was.bag /\ half.zone = Out
      BY <1>5, <1>6 DEF PlayerState
    <2>3. pl = [half EXCEPT !.ask = 0, !.win = NoWin]
      BY <1>6 DEF PlayerState
    <2> HIDE DEF half
    <2>4. QED
      BY <2>1, <2>2, <2>3 DEF PlayerState
  <1> HIDE DEF pl
  <1>8. Good(Placed(d, p, pl))
    <2>1. Shows(pl)
      BY <1>7 DEF Shows
    <2>2. QED
      BY <1>4, <1>6, <1>7, <2>1, PlacedGood
  <1>9. QED
    BY <1>3, <1>8, Arrived

LEMMA EnterGood ==
  ASSUME TradeInvariant, NEW p \in Player, NEW zone \in Zone, EnterGame(p, zone)
  PROVE  TradeInvariant'
  <1> DEFINE was == player[p]
             bag == Loaded(was.bag.cells, was.bag.money)
             pl == [was EXCEPT !.zone = zone, !.bag = bag,
                               !.shown = [cells |-> bag.cells, money |-> bag.money]]
             st == Placed(State, p, pl)
  <1>1. /\ Good(State) /\ State \in StateType /\ nextId \in 1 .. RequestMax
        /\ State.player = player /\ player \in [Player -> PlayerState]
        /\ was \in PlayerState /\ was.bag \in Bag /\ was.zone = Out
    BY Here DEF EnterGame, Online
  <1>2. (\A r \in State.requests : ~ Involves(r, p)) /\ TradesNot(State, p)
    <2>1. Together(State)
      BY <1>1 DEF Good
    <2>2. \A z \in TradeZone : z # Out
      BY TradeAssumption DEF Out
    <2>3. QED
      BY <1>1, <2>1, <2>2 DEF Together, Met, Involves, Trades, TradesNot
  <1>3. was.ask = 0 /\ was.win = NoWin
    BY <1>1, <1>2, Idle
  <1>4. player' = [player EXCEPT ![p] = pl]
    BY DEF EnterGame
  <1>5. Becomes(st)
    BY <1>1, <1>4 DEF Becomes, Placed, State, EnterGame
  <1>6. bag \in Bag /\ Free(bag)
    BY <1>1, InventoryAssumption DEF Loaded, Bag, Free
  <1> HIDE DEF was, bag
  <1>7. bag.cells \in [Index -> Cell] /\ bag.money \in 0 .. MoneyMax
    BY <1>6 DEF Bag
  <1>8. /\ pl \in PlayerState /\ pl.bag = bag /\ pl.ask = was.ask /\ pl.win = was.win
        /\ pl.shown = [cells |-> bag.cells, money |-> bag.money]
    BY <1>1, <1>6, <1>7 DEF PlayerState
  <1> HIDE DEF pl
  <1>9. Good(st)
    <2>1. Shows(pl)
      BY <1>8 DEF Shows
    <2>2. QED
      BY <1>1, <1>2, <1>3, <1>6, <1>8, <2>1, PlacedGood
  <1>10. nextId' \in 1 .. RequestMax
    BY <1>1 DEF EnterGame
  <1> HIDE DEF st
  <1>11. QED
    BY <1>5, <1>9, <1>10, Arrived

LEMMA RequestNumbers ==
  RequestMax \in Nat \ {0}
  BY TradeAssumption

\* Who asks and who is asked were in nothing, so they are in this request alone.
LEMMA AskGood ==
  ASSUME TradeInvariant, NEW me \in Player, NEW target \in Player, AskFor(me, target)
  PROVE  TradeInvariant'
  <1> DEFINE r0 == [id |-> nextId, from |-> me, to |-> target, left |-> AskFrames]
             pl == [player[target] EXCEPT !.ask = nextId]
             new == [player EXCEPT ![target] = pl]
             st == [player |-> new, requests |-> requests \cup {r0},
                    sessions |-> sessions, defect |-> defect]
  <1>1. /\ Good(State) /\ State \in StateType /\ nextId \in 1 .. RequestMax
        /\ State.player = player /\ State.requests = requests
        /\ State.sessions = sessions /\ State.defect = defect
        /\ player \in [Player -> PlayerState] /\ player[target] \in PlayerState
        /\ requests \subseteq Request /\ sessions \subseteq Session /\ defect = FALSE
    BY Here
  <1>2. /\ target # me /\ player[me].zone \in TradeZone
        /\ player[me].zone = player[target].zone
        /\ \A p \in {me, target} : /\ \A r \in requests : ~ Involves(r, p)
                                   /\ \A t \in sessions : ~ Trades(t, p)
    BY DEF AskFor, Busy, InReach
  <1>3. Becomes(st)
    BY DEF Becomes, AskFor
  <1>4. nextId' \in 1 .. RequestMax
    <2>1. nextId' = IF nextId = RequestMax THEN 1 ELSE nextId + 1
      BY DEF AskFor
    <2>2. QED
      BY <1>1, <2>1, RequestNumbers
  <1>5. r0 \in Request /\ r0.to = target /\ r0.from = me /\ r0.id = nextId
    BY <1>1, TradeAssumption DEF Request
  <1>6. /\ pl \in PlayerState /\ pl.zone = player[target].zone /\ pl.win = player[target].win
        /\ pl.bag = player[target].bag /\ pl.shown = player[target].shown /\ pl.ask = nextId
    <2>1. nextId \in 0 .. RequestMax
      BY <1>1, RequestNumbers
    <2>2. QED
      BY ZenonT(60), SMTT(60), <1>1, <2>1 DEF PlayerState
  <1> HIDE DEF r0, pl
  <1>7. /\ new \in [Player -> PlayerState] /\ new[target] = pl
        /\ \A p \in Player : p # target => new[p] = player[p]
    BY <1>1, <1>6
  <1>8. /\ st \in StateType /\ st.player = new /\ st.requests = requests \cup {r0}
        /\ st.sessions = sessions /\ st.defect = FALSE
    BY <1>1, <1>5, <1>7 DEF StateType
  <1> HIDE DEF new, st
  <1>9. \A p \in Player : /\ st.player[p].zone = player[p].zone
                          /\ st.player[p].win = player[p].win
                          /\ st.player[p].bag = player[p].bag
                          /\ st.player[p].shown = player[p].shown
                          /\ st.player[p].ask = IF p = target THEN nextId ELSE player[p].ask
    BY <1>6, <1>7, <1>8
  <1>10. /\ Together(State) /\ Alone(State) /\ Locks(State) /\ Waits(State)
         /\ Windows(State) /\ \A p \in Player : Asks(State, p) /\ Shows(player[p])
    BY <1>1 DEF Good
  <1>11. \A t \in sessions : t.side[1].player \in Player /\ t.side[2].player \in Player
    BY <1>1, SessionParts
  <1>12. \A r \in requests : r.from \in Player /\ r.to \in Player
    BY SMTT(60), ZenonT(60), <1>1, RequestParts
  <1>13. Together(st)
    BY SMTT(60), <1>1, <1>2, <1>5, <1>8, <1>9, <1>10, <1>11, <1>12 DEF Together, Met
  <1>14. Alone(st)
    <2>1. \A p \in Player : Involves(r0, p) => p \in {me, target}
      BY <1>5 DEF Involves
    <2>2. QED
      BY <1>1, <1>2, <1>8, <1>10, <2>1 DEF Alone
  <1>15. Locks(st)
    <2>1. \A t \in sessions : \A s \in 1 .. 2 : t.side[s].player \in Player
      BY <1>1, SessionParts
    <2>2. QED
      BY <1>1, <1>8, <1>9, <1>10, <2>1 DEF Locks, TradesNot
  <1>16. Waits(st)
    BY <1>1, <1>8, <1>10 DEF Waits
  <1>17. ASSUME NEW p \in Player
         PROVE  Asks(st, p)
    <2>1. CASE p = target
      <3>1. \A r \in st.requests : r.to = p => r = r0
        BY <1>2, <1>8, <2>1 DEF Involves
      <3>2. QED
        BY <1>5, <1>8, <1>9, <2>1, <3>1 DEF Asks
    <2>2. CASE p # target
      BY SMTT(60), ZenonT(60), <1>1, <1>5, <1>8, <1>9, <1>10, <2>2 DEF Asks
    <2>3. QED
      BY <2>1, <2>2
  <1>18. Windows(st)
    <2>1. \A t \in sessions : \A s \in 1 .. 2 : t.side[s].player \in Player
      BY <1>1, SessionParts
    <2>2. QED
      BY SMTT(60), ZenonT(60), <1>1, <1>8, <1>9, <1>10, <2>1 DEF Windows, TradesNot
  <1>19. \A p \in Player : Shows(st.player[p])
    BY <1>9, <1>10 DEF Shows
  <1>20. Good(st)
    BY SMTT(60), ZenonT(60), <1>8, <1>13, <1>14, <1>15, <1>16, <1>17, <1>18, <1>19 DEF Good
  <1>21. QED
    BY <1>3, <1>4, <1>20, Arrived

\* The click on a request closes its window and nothing else.
LEMMA ClickedParts ==
  ASSUME TradeInvariant, NEW me \in Player
  PROVE  /\ Clicked(me) \in StateType
         /\ Clicked(me).requests = requests /\ Clicked(me).sessions = sessions
         /\ Clicked(me).defect = defect
         /\ \A p \in Player : /\ Clicked(me).player[p].zone = player[p].zone
                              /\ Clicked(me).player[p].bag = player[p].bag
                              /\ Clicked(me).player[p].shown = player[p].shown
                              /\ Clicked(me).player[p].win = player[p].win
                              /\ Clicked(me).player[p].ask = IF p = me THEN 0 ELSE player[p].ask
  <1> DEFINE pl == [player[me] EXCEPT !.ask = 0]
             new == [player EXCEPT ![me] = pl]
  <1>1. /\ State \in StateType /\ State.requests = requests /\ State.sessions = sessions
        /\ State.defect = defect /\ player \in [Player -> PlayerState]
        /\ player[me] \in PlayerState
    BY Here
  <1>2. /\ pl \in PlayerState /\ pl.zone = player[me].zone /\ pl.win = player[me].win
        /\ pl.bag = player[me].bag /\ pl.shown = player[me].shown /\ pl.ask = 0
    <2>1. 0 \in 0 .. RequestMax
      BY RequestNumbers
    <2>2. QED
      BY <1>1, <2>1 DEF PlayerState
  <1>3. Clicked(me) = [State EXCEPT !.player = new]
    BY <1>1 DEF Clicked, State
  <1> HIDE DEF pl
  <1>4. /\ new \in [Player -> PlayerState] /\ new[me] = pl
        /\ \A p \in Player : p # me => new[p] = player[p]
    BY <1>1, <1>2
  <1> HIDE DEF new
  <1>5. /\ Clicked(me) \in StateType /\ Clicked(me).player = new
        /\ Clicked(me).requests = requests /\ Clicked(me).sessions = sessions
        /\ Clicked(me).defect = defect
    BY <1>1, <1>3, <1>4 DEF StateType
  <1>6. QED
    BY <1>2, <1>4, <1>5

\* A request that is answered ends, and with it the click that answered it.
LEMMA AnsweredGood ==
  ASSUME TradeInvariant, NEW me \in Player, NEW gone,
         gone \subseteq Asked(me), gone # {}
  PROVE  Good(EndRequests(Clicked(me), gone, NoOne))
  <1>1. /\ Good(State) /\ State.player = player /\ State.requests = requests
        /\ State.sessions = sessions /\ State.defect = defect
        /\ requests \subseteq Request
    BY Here
  <1>2. /\ gone \subseteq requests /\ \E r \in gone : r.to = me
        /\ \A r \in gone : r.to # NoOne
    <2>1. \A r \in requests : r.to \in Player
      BY <1>1, RequestParts
    <2>2. QED
      BY <2>1, TradeAssumption DEF Asked
  <1>3. /\ Clicked(me) \in StateType
        /\ Clicked(me).requests = requests /\ Clicked(me).sessions = sessions
        /\ Clicked(me).defect = defect
        /\ \A p \in Player : /\ Clicked(me).player[p].zone = player[p].zone
                             /\ Clicked(me).player[p].bag = player[p].bag
                             /\ Clicked(me).player[p].shown = player[p].shown
                             /\ Clicked(me).player[p].win = player[p].win
                             /\ Clicked(me).player[p].ask = IF p = me THEN 0 ELSE player[p].ask
    BY ClickedParts
  <1> DEFINE st == Clicked(me)
  <1> HIDE DEF st
  <1>4. /\ st \in StateType /\ st.requests = State.requests
        /\ st.sessions = State.sessions /\ st.defect = State.defect
        /\ \A p \in Player : /\ st.player[p].zone = State.player[p].zone
                             /\ st.player[p].bag = State.player[p].bag
                             /\ st.player[p].shown = State.player[p].shown
                             /\ st.player[p].win = State.player[p].win
                             /\ \/ st.player[p].ask = State.player[p].ask
                                \/ st.player[p].ask = 0 /\ \E r \in gone : r.to = p
    BY <1>1, <1>2, <1>3 DEF st
  <1>5. gone \subseteq State.requests
    BY <1>1, <1>2
  <1>6. Good(EndRequests(st, gone, NoOne))
    BY <1>1, <1>2, <1>4, <1>5, EndRequestsGood
  <1>7. QED
    BY <1>6 DEF st

LEMMA DeclineGood ==
  ASSUME TradeInvariant, NEW me \in Player, Decline(me)
  PROVE  TradeInvariant'
  <1>1. Good(EndRequests(Clicked(me), Asked(me), NoOne))
    BY AnsweredGood DEF Decline
  <1>2. Becomes(EndRequests(Clicked(me), Asked(me), NoOne)) /\ nextId' \in 1 .. RequestMax
    BY Here DEF Decline
  <1>3. QED
    BY <1>1, <1>2, Arrived

LEMMA CancelGood ==
  ASSUME TradeInvariant, NEW me \in Player, Cancel(me)
  PROVE  TradeInvariant'
  <1>1. /\ Good(State) /\ State \in StateType /\ nextId \in 1 .. RequestMax
        /\ State.sessions = sessions /\ State.requests = requests
    BY Here
  <1>2. nextId' \in 1 .. RequestMax
    BY <1>1 DEF Cancel
  <1>3. CASE InTrade(me)
    <2>1. SessionOf(me) \in State.sessions
      BY <1>1, <1>3, SessionFound
    <2>2. ~ State.defect /\ \A p \in Player : Shows(State.player[p])
      BY <1>1 DEF Good
    <2> DEFINE t == SessionOf(me)
    <2> HIDE DEF t
    <2>3. t \in State.sessions
      BY <2>1 DEF t
    <2>4. Good(EndSession(State, t, NoOne))
      BY <1>1, <2>2, <2>3, EndSessionGood
    <2>5. Becomes(EndSession(State, t, NoOne))
      BY <1>3 DEF Cancel, t
    <2>6. QED
      BY <1>2, <2>4, <2>5, Arrived
  <1>4. CASE ~ InTrade(me)
    <2>1. PICK r \in {r \in requests : r.from = me} : Becomes(EndRequests(State, {r}, me))
      BY <1>4 DEF Cancel
    <2>2. r.to # me
      BY <1>1, <2>1 DEF Good, Together, Met
    <2> DEFINE gone == {r}
    <2>3. gone \subseteq State.requests /\ \A q \in gone : q.to # me
      BY <1>1, <2>1, <2>2
    <2> HIDE DEF gone
    <2>4. Good(EndRequests(State, gone, me))
      BY <1>1, <2>3, EndRequestsGood
    <2>5. Becomes(EndRequests(State, gone, me))
      BY <2>1 DEF gone
    <2>6. QED
      BY <1>2, <2>4, <2>5, Arrived
  <1>5. QED
    BY <1>3, <1>4

\* A trade that begins: nothing laid out yet.
BareTrade(from, to) == [side |-> <<BareHalf(from), BareHalf(to)>>, waited |-> NotReady]

LEMMA BareTradeParts ==
  ASSUME NEW from \in Player, NEW to \in Player
  PROVE  /\ BareTrade(from, to) \in Session
         /\ BareTrade(from, to).waited = NotReady
         /\ BareTrade(from, to).side[1] = BareHalf(from)
         /\ BareTrade(from, to).side[2] = BareHalf(to)
  <1>1. BareHalf(from) \in Half /\ BareHalf(to) \in Half
    BY InventoryAssumption DEF BareHalf, Half
  <1>2. NotReady \in NotReady .. WaitFrames
    BY TradeAssumption DEF NotReady
  <1> DEFINE a == BareHalf(from)
             b == BareHalf(to)
  <1> HIDE DEF a, b
  <1>3. <<a, b>> \in [1 .. 2 -> Half] /\ <<a, b>>[1] = a /\ <<a, b>>[2] = b
    BY <1>1 DEF a, b
  <1>4. QED
    BY <1>2, <1>3 DEF BareTrade, Session, a, b

LEMMA BareLaidOut ==
  ASSUME NEW bag \in Bag, Free(bag), NEW p \in Player
  PROVE  LaidOut(bag, BareHalf(p))
  <1>1. BareHalf(p).items = <<>> /\ BareHalf(p).money = 0
    BY DEF BareHalf
  <1>2. ToSet(<<>>) = {} /\ DOMAIN <<>> = {} /\ Len(<<>>) = 0
    BY DEF ToSet
  <1>3. {o.index : o \in ToSet(<<>>)} = {}
    BY <1>2
  <1>4. bag.locked = {} /\ bag.lockedMoney = 0 /\ bag.money >= 0
    BY DEF Free, Bag
  <1>5. Cardinality(bag.locked) = 0
    BY <1>4, FS_EmptySet
  <1>6. QED
    BY <1>1, <1>2, <1>3, <1>4, <1>5 DEF LaidOut, SameAsOffered

\* A request becomes a trade: its players are in nothing else.
LEMMA OpenedGood ==
  ASSUME TradeInvariant, NEW me \in Player, NEW r \in Asked(me)
  PROVE  LET t == BareTrade(r.from, me)
             taken == [Clicked(me) EXCEPT !.requests = @ \ {r}]
         IN  Good([taken EXCEPT !.sessions = @ \cup {t}, !.player = SendState(@, t)])
  <1> DEFINE t == BareTrade(r.from, me)
             taken == [Clicked(me) EXCEPT !.requests = @ \ {r}]
             st == [taken EXCEPT !.sessions = @ \cup {t}, !.player = SendState(@, t)]
             players == Clicked(me).player
             new == SendState(players, t)
             from == r.from
  <1>1. /\ Good(State) /\ State \in StateType
        /\ State.player = player /\ State.requests = requests
        /\ State.sessions = sessions /\ State.defect = defect
        /\ \A p \in Player : player[p] \in PlayerState /\ player[p].bag \in Bag
        /\ requests \subseteq Request /\ sessions \subseteq Session /\ defect = FALSE
    BY Here
  <1>2. /\ Together(State) /\ Alone(State) /\ Locks(State) /\ Waits(State)
        /\ Windows(State) /\ \A p \in Player : Asks(State, p) /\ Shows(player[p])
    BY <1>1 DEF Good
  <1>3. r \in requests /\ r.to = me /\ from \in Player
    BY <1>1, RequestParts DEF Asked
  <1>4. Met(State, from, me) /\ from # me
    BY <1>1, <1>2, <1>3 DEF Together, Met
  <1>5. \A p \in {from, me} : /\ \A q \in requests : Involves(q, p) => q = r
                              /\ \A u \in sessions : ~ Trades(u, p)
    BY <1>1, <1>2, <1>3 DEF Alone, Involves
  <1>6. /\ Clicked(me) \in StateType
        /\ Clicked(me).requests = requests /\ Clicked(me).sessions = sessions
        /\ Clicked(me).defect = defect
        /\ \A p \in Player : /\ players[p].zone = player[p].zone
                             /\ players[p].bag = player[p].bag
                             /\ players[p].shown = player[p].shown
                             /\ players[p].win = player[p].win
                             /\ players[p].ask = IF p = me THEN 0 ELSE player[p].ask
    BY ClickedParts
  <1>7. /\ t \in Session /\ t.waited = NotReady
        /\ t.side[1] = BareHalf(from) /\ t.side[2] = BareHalf(me)
        /\ t.side[1].player = from /\ t.side[2].player = me
    BY <1>3, BareTradeParts DEF BareHalf
  <1>8. players \in [Player -> PlayerState]
    BY <1>6, Parts
  <1> HIDE DEF t, players, from
  <1>9. /\ new \in [Player -> PlayerState]
        /\ \A p \in Player : /\ new[p].zone = players[p].zone
                             /\ new[p].bag = players[p].bag
                             /\ new[p].shown = players[p].shown
                             /\ new[p].ask = players[p].ask
        /\ \A p \in Player : ~ Trades(t, p) => new[p].win = players[p].win
        /\ \A s \in 1 .. 2 : new[t.side[s].player].win = WindowOf(t, s)
    BY <1>4, <1>7, <1>8, SendStateParts
  <1>10. /\ st.requests = requests \ {r} /\ st.sessions = sessions \cup {t}
         /\ st.defect = FALSE /\ st.player = new /\ st \in StateType
    <2> HIDE DEF new
    <2>1. requests \ {r} \subseteq Request /\ sessions \cup {t} \subseteq Session
      BY <1>1, <1>7
    <2>2. st = [Clicked(me) EXCEPT !.requests = requests \ {r},
                                   !.sessions = sessions \cup {t}, !.player = new]
      BY <1>6 DEF new, players, StateType
    <2>3. QED
      BY <1>1, <1>6, <1>9, <2>1, <2>2 DEF StateType
  <1> HIDE DEF new, st
  <1>11. \A p \in Player : /\ st.player[p].zone = player[p].zone
                           /\ st.player[p].bag = player[p].bag
                           /\ st.player[p].shown = player[p].shown
                           /\ st.player[p].ask = IF p = me THEN 0 ELSE player[p].ask
                           /\ p # from /\ p # me => st.player[p].win = player[p].win
    BY <1>6, <1>7, <1>9, <1>10 DEF Trades
  <1>12. \A p \in Player : Trades(t, p) <=> p \in {from, me}
    BY <1>7 DEF Trades
  <1>13. Together(st)
    <2>1. \A q \in requests : q.from \in Player /\ q.to \in Player
      BY <1>1, RequestParts
    <2>2. \A u \in sessions : u.side[1].player \in Player /\ u.side[2].player \in Player
      BY <1>1, SessionParts
    <2>3. QED
      <3>1. Together(State)
        BY <1>2
      <3>2. \A x, y \in Player : Met(State, x, y) => Met(st, x, y)
        BY <1>1, <1>11 DEF Met
      <3>3. \A q \in st.requests : Met(st, q.from, q.to)
        BY <1>1, <1>10, <2>1, <3>1, <3>2 DEF Together
      <3>4. Met(st, t.side[1].player, t.side[2].player)
        BY <1>3, <1>4, <1>7, <3>2
      <3>5. \A u \in sessions : Met(st, u.side[1].player, u.side[2].player)
        BY <1>1, <2>2, <3>1, <3>2 DEF Together
      <3>6. QED
        BY <1>10, <3>3, <3>4, <3>5 DEF Together
  <1>14. Alone(st)
    BY <1>1, <1>2, <1>5, <1>10, <1>12 DEF Alone
  <1>15. \A u \in sessions : \A s \in 1 .. 2 :
            /\ u.side[s].player \in Player /\ u.side[s].player \notin {from, me}
    <2>1. \A u \in sessions : \A s \in 1 .. 2 :
            /\ u.side[s].player \in Player /\ Trades(u, u.side[s].player)
      BY SMTT(60), ZenonT(60), <1>1, SessionParts DEF Trades
    <2>2. QED
      BY <1>5, <2>1
  <1>16. Locks(st)
    <2>1. Free(player[from].bag) /\ Free(player[me].bag)
      BY <1>1, <1>2, <1>3, <1>5 DEF Locks, TradesNot
    <2>2. LaidOut(player[from].bag, t.side[1]) /\ LaidOut(player[me].bag, t.side[2])
      BY <1>1, <1>3, <1>7, <2>1, BareLaidOut
    <2>3. \A s \in 1 .. 2 : LaidOut(st.player[t.side[s].player].bag, t.side[s])
      BY <1>3, <1>7, <1>11, <2>2
    <2>4. \A p \in Player : TradesNot(st, p) => Free(st.player[p].bag)
      BY <1>1, <1>2, <1>10, <1>11 DEF Locks, TradesNot
    <2>5. \A u \in sessions : \A s \in 1 .. 2 :
             LaidOut(st.player[u.side[s].player].bag, u.side[s])
      BY <1>1, <1>2, <1>11, <1>15 DEF Locks
    <2>6. QED
      BY ZenonT(60), SMTT(60), <1>10, <2>3, <2>4, <2>5 DEF Locks
  <1>17. Waits(st)
    BY <1>1, <1>2, <1>7, <1>10 DEF Waits
  <1>18. ASSUME NEW p \in Player
         PROVE  Asks(st, p)
    <2>1. CASE p = me
      BY <1>3, <1>5, <1>10, <1>11, <2>1 DEF Asks, Involves
    <2>2. CASE p # me
      BY <1>1, <1>2, <1>3, <1>10, <1>11, <2>2 DEF Asks
    <2>3. QED
      BY <2>1, <2>2
  <1>19. Windows(st)
    <2>1. \A s \in 1 .. 2 : st.player[t.side[s].player].win = WindowOf(t, s)
      BY <1>9, <1>10
    <2>2. \A p \in Player : TradesNot(st, p) => st.player[p].win = NoWin
      BY <1>1, <1>2, <1>10, <1>11, <1>12 DEF Windows, TradesNot
    <2>3. \A u \in sessions : \A s \in 1 .. 2 :
             st.player[u.side[s].player].win = WindowOf(u, s)
      BY SMTT(60), ZenonT(60), <1>1, <1>2, <1>11, <1>15 DEF Windows
    <2>4. QED
      BY <1>10, <2>1, <2>2, <2>3 DEF Windows
  <1>20. \A p \in Player : Shows(st.player[p])
    BY <1>2, <1>11 DEF Shows
  <1>21. Good(st)
    BY <1>10, <1>13, <1>14, <1>16, <1>17, <1>18, <1>19, <1>20 DEF Good
  <1>22. QED
    BY <1>21 DEF st, t, from

LEMMA AcceptGood ==
  ASSUME TradeInvariant, NEW me \in Player, Accept(me)
  PROVE  TradeInvariant'
  <1> DEFINE T(r) == [side |-> <<BareHalf(r.from), BareHalf(me)>>, waited |-> NotReady]
             Taken(r) == [Clicked(me) EXCEPT !.requests = @ \ {r}]
             Opened(r) == [Taken(r) EXCEPT !.sessions = @ \cup {T(r)},
                                           !.player = SendState(@, T(r))]
  <1>1. nextId' \in 1 .. RequestMax
    BY Here DEF Accept
  <1>2. PICK r \in Asked(me) : \/ Becomes(Opened(r))
                               \/ Becomes(EndRequests(Clicked(me), {r}, NoOne))
    BY ZenonT(60) DEF Accept
  <1>3. CASE Becomes(Opened(r))
    <2>1. Good(Opened(r))
      BY ZenonT(60), OpenedGood DEF BareTrade
    <2> HIDE DEF Opened
    <2>2. QED
      BY <1>1, <1>3, <2>1, Arrived
  <1>4. CASE Becomes(EndRequests(Clicked(me), {r}, NoOne))
    <2> DEFINE gone == {r}
    <2>1. gone \subseteq Asked(me) /\ gone # {}
      OBVIOUS
    <2> HIDE DEF gone
    <2>2. Good(EndRequests(Clicked(me), gone, NoOne))
      BY <2>1, AnsweredGood
    <2>3. Becomes(EndRequests(Clicked(me), gone, NoOne))
      BY SMTT(60), ZenonT(60), <1>4 DEF gone
    <2>4. QED
      BY <1>1, <2>2, <2>3, Arrived
  <1>5. QED
    BY <1>2, <1>3, <1>4

\* Trade t becomes u, and both its players see u.
Renewed(players, t, u) ==
    [State EXCEPT !.sessions = (@ \ {t}) \cup {u}, !.player = SendState(players, u)]

LEMMA RenewedGood ==
  ASSUME TradeInvariant, NEW t \in sessions, NEW u \in Session,
         \A s \in 1 .. 2 : u.side[s].player = t.side[s].player,
         u.waited # NotReady => u.side[1].closed /\ u.side[2].closed,
         NEW players \in [Player -> PlayerState],
         \A p \in Player :
            /\ players[p].zone = player[p].zone
            /\ players[p].ask = player[p].ask
            /\ players[p].win = player[p].win
            /\ ~ Trades(t, p) => players[p].bag = player[p].bag
            /\ Shows(players[p]),
         \A s \in 1 .. 2 : LaidOut(players[u.side[s].player].bag, u.side[s])
  PROVE  Good(Renewed(players, t, u)) /\ u \in Renewed(players, t, u).sessions
  <1> DEFINE st == Renewed(players, t, u)
             new == SendState(players, u)
  <1>1. /\ Good(State) /\ State \in StateType
        /\ State.player = player /\ State.requests = requests
        /\ State.sessions = sessions /\ State.defect = defect
        /\ requests \subseteq Request /\ sessions \subseteq Session /\ defect = FALSE
    BY ZenonT(60), SMTT(60), Here
  <1>2. t \in State.sessions /\ Together(State)
    BY ZenonT(60), SMTT(60), <1>1 DEF Good
  <1>3. u.side[1].player # u.side[2].player
    <2>1. u.side[1].player = t.side[1].player /\ u.side[2].player = t.side[2].player
      BY ZenonT(60), SMTT(60), TwoSides
    <2>2. QED
      BY ZenonT(60), SMTT(60), <1>2, <2>1 DEF Together, Met
  <1>4. /\ new \in [Player -> PlayerState]
        /\ \A p \in Player : /\ new[p].zone = players[p].zone
                             /\ new[p].bag = players[p].bag
                             /\ new[p].shown = players[p].shown
                             /\ new[p].ask = players[p].ask
        /\ \A p \in Player : ~ Trades(u, p) => new[p].win = players[p].win
        /\ \A s \in 1 .. 2 : new[u.side[s].player].win = WindowOf(u, s)
    BY ZenonT(60), SMTT(60), <1>3, SendStateParts
  <1>5. \A p \in Player : Trades(u, p) <=> Trades(t, p)
    BY ZenonT(60), SMTT(60), TwoSides DEF Trades
  <1> HIDE DEF new
  <1>6. /\ st \in StateType /\ st.requests = State.requests /\ st.defect = State.defect
        /\ st.sessions = (State.sessions \ {t}) \cup {u} /\ st.player = new
    BY ZenonT(60), SMTT(60), <1>1, <1>4 DEF StateType, State, Renewed, new
  <1> HIDE DEF st
  <1>7. ASSUME NEW p \in Player
        PROVE  /\ st.player[p].zone = State.player[p].zone
               /\ st.player[p].ask = State.player[p].ask
               /\ ~ Trades(t, p) => /\ st.player[p].bag = State.player[p].bag
                                    /\ st.player[p].win = State.player[p].win
               /\ Shows(st.player[p])
    <2>1. Shows(players[p]) /\ st.player[p] = new[p]
      BY ZenonT(60), SMTT(60), <1>6
    <2>2. Shows(st.player[p])
      BY SMTT(60), ZenonT(60), <1>4, <2>1 DEF Shows
    <2>3. QED
      BY <1>1, <1>4, <1>5, <2>1, <2>2
  <1>8. \A s \in 1 .. 2 : u.side[s].player \in Player
    BY ZenonT(60), SMTT(60), SessionParts
  <1>9. \A s \in 1 .. 2 : /\ LaidOut(st.player[u.side[s].player].bag, u.side[s])
                          /\ st.player[u.side[s].player].win = WindowOf(u, s)
    BY ZenonT(60), SMTT(60), <1>4, <1>6, <1>8
  <1>10. Good(st)
    <2>1. TurnsInto(State, st, t, u)
      BY ZenonT(60), SMTT(60), <1>6, <1>7, <1>9 DEF TurnsInto
    <2>2. QED
      BY ZenonT(60), SMTT(60), <1>1, <1>2, <1>6, <2>1, TurnsIntoGood
  <1>11. QED
    BY ZenonT(60), SMTT(60), <1>6, <1>10 DEF st

\* What a player that may lay out finds.
LEMMA OpenParts ==
  ASSUME TradeInvariant, NEW me \in Player, Open(me)
  PROVE  LET t == SessionOf(me)
             s == SideOf(t, me)
         IN  /\ t \in sessions /\ t \in Session /\ t.waited = NotReady
             /\ s \in 1 .. 2 /\ 3 - s \in 1 .. 2
             /\ t.side[s] \in Half /\ t.side[s].player = me /\ ~ t.side[s].closed
             /\ LaidOut(player[me].bag, t.side[s])
             /\ \A k \in 1 .. 2 : LaidOut(player[t.side[k].player].bag, t.side[k])
             /\ \A k \in 1 .. 2 : k # s => t.side[k].player # me
  <1> DEFINE t == SessionOf(me)
             s == SideOf(t, me)
  <1>1. /\ Good(State) /\ State.sessions = sessions /\ State.player = player
    BY Here
  <1>2. t \in sessions /\ t \in Session /\ Trades(t, me)
    BY <1>1, SessionFound DEF Open
  <1>3. ~ t.side[s].closed
    BY DEF Open
  <1> HIDE DEF t
  <1>4. s \in 1 .. 2 /\ t.side[s].player = me /\ 3 - s \in 1 .. 2
    BY <1>2, SideOfPlayer
  <1> HIDE DEF s
  <1>5. Locks(State) /\ Waits(State) /\ Together(State)
    BY <1>1 DEF Good
  <1>6. \A k \in 1 .. 2 : LaidOut(player[t.side[k].player].bag, t.side[k])
    BY <1>1, <1>2, <1>5 DEF Locks
  <1>7. t.side[s] \in Half
    BY <1>2, <1>4, SessionParts
  <1>8. t.waited = NotReady
    BY <1>1, <1>2, <1>3, <1>4, <1>5 DEF Waits
  <1>9. t.side[1].player # t.side[2].player
    BY <1>1, <1>2, <1>5 DEF Together, Met
  <1>10. \A k \in 1 .. 2 : k # s => t.side[k].player # me
    BY <1>4, <1>9
  <1>11. QED
    BY ZenonT(60), SMTT(60), <1>2, <1>3, <1>4, <1>6, <1>7, <1>8, <1>10 DEF t, s

\* My half replaced, and my bag with it.
LEMMA WithHalfGood ==
  ASSUME TradeInvariant, NEW me \in Player, Open(me),
         NEW bag \in Bag, bag.cells = player[me].bag.cells, bag.money = player[me].bag.money,
         NEW half \in Half, half.player = me, LaidOut(bag, half)
  PROVE  Good(WithHalf([State EXCEPT !.player[me].bag = bag], SessionOf(me), me, half))
  <1> DEFINE t == SessionOf(me)
             s == SideOf(t, me)
             u == [t EXCEPT !.side[s] = half]
             pl == [player[me] EXCEPT !.bag = bag]
             players == [player EXCEPT ![me] = pl]
  <1>1. /\ t \in sessions /\ t \in Session /\ t.waited = NotReady
        /\ s \in 1 .. 2 /\ t.side[s].player = me
        /\ \A k \in 1 .. 2 : LaidOut(player[t.side[k].player].bag, t.side[k])
        /\ \A k \in 1 .. 2 : k # s => t.side[k].player # me
    BY OpenParts
  <1>2. /\ Good(State) /\ State.player = player /\ player \in [Player -> PlayerState]
        /\ player[me] \in PlayerState
    BY Here
  <1>3. WithHalf([State EXCEPT !.player[me].bag = bag], t, me, half) = Renewed(players, t, u)
    BY DEF WithHalf, Renewed, State
  <1> HIDE DEF t
  <1> HIDE DEF s
  <1>4. t.side \in [1 .. 2 -> Half]
    BY ZenonT(60), SMTT(60), <1>1, SessionParts
  <1>5. /\ u \in Session /\ u.waited = NotReady /\ u.side[s] = half
        /\ \A k \in 1 .. 2 : k # s => u.side[k] = t.side[k]
    BY ZenonT(60), SMTT(60), <1>1, <1>4 DEF Session
  <1> HIDE DEF u
  <1>6. \A k \in 1 .. 2 : u.side[k].player = t.side[k].player
    BY <1>1, <1>5
  <1>7. /\ pl \in PlayerState /\ pl.zone = player[me].zone /\ pl.ask = player[me].ask
        /\ pl.win = player[me].win /\ pl.bag = bag /\ pl.shown = player[me].shown
    BY <1>2 DEF PlayerState
  <1> HIDE DEF pl
  <1>8. /\ players \in [Player -> PlayerState] /\ players[me] = pl
        /\ \A p \in Player : p # me => players[p] = player[p]
    BY <1>2, <1>7
  <1> HIDE DEF players
  <1>9. \A p \in Player : Shows(player[p])
    BY <1>2 DEF Good
  <1>10. Shows(pl)
    BY <1>7, <1>9 DEF Shows
  <1>11. Trades(t, me)
    BY <1>1 DEF Trades
  <1>12. \A p \in Player : /\ players[p].zone = player[p].zone
                           /\ players[p].ask = player[p].ask
                           /\ players[p].win = player[p].win
                           /\ ~ Trades(t, p) => players[p].bag = player[p].bag
                           /\ Shows(players[p])
    BY ZenonT(60), SMTT(60), <1>7, <1>8, <1>9, <1>10, <1>11
  <1>13. \A k \in 1 .. 2 : t.side[k].player \in Player
    BY ZenonT(60), SMTT(60), <1>1, SessionParts
  <1>14. ASSUME NEW k \in 1 .. 2
         PROVE  LaidOut(players[u.side[k].player].bag, u.side[k])
    <2>1. CASE k = s
      BY ZenonT(60), SMTT(60), <1>1, <1>5, <1>6, <1>7, <1>8, <2>1
    <2>2. CASE k # s
      BY ZenonT(60), SMTT(60), <1>1, <1>5, <1>8, <1>13, <2>2
    <2>3. QED
      BY ZenonT(60), SMTT(60), <2>1, <2>2
  <1>15. Good(Renewed(players, t, u))
    BY ZenonT(60), SMTT(60), <1>1, <1>5, <1>6, <1>8, <1>12, <1>14, RenewedGood
  <1>16. QED
    BY <1>3, <1>15 DEF t

\* One more offer laid out, of a cell that was not locked.
LEMMA LaidOutMore ==
  ASSUME NEW bag \in Bag, NEW half \in Half, LaidOut(bag, half),
         NEW o \in Offer, o.index \notin bag.locked,
         bag.cells[o.index].item = o.item, bag.cells[o.index].count >= o.count
  PROVE  /\ LockSlot(bag, o.index) \in Bag
         /\ [half EXCEPT !.items = Append(@, o)] \in Half
         /\ LaidOut(LockSlot(bag, o.index), [half EXCEPT !.items = Append(@, o)])
  <1> DEFINE new == LockSlot(bag, o.index)
             items == half.items
             more == Append(items, o)
             half2 == [half EXCEPT !.items = Append(@, o)]
  <1>1. o.index \in Index \ Worn
    BY DEF Offer
  <1>2. /\ new \in Bag /\ new.locked = bag.locked \cup {o.index} /\ new.cells = bag.cells
        /\ new.money = bag.money /\ new.lockedMoney = bag.lockedMoney
    BY <1>1 DEF Bag, LockSlot
  <1>3. items \in Seq(Offer)
    BY HalfParts
  <1>4. /\ more \in Seq(Offer) /\ Len(more) = Len(items) + 1 /\ Len(items) \in Nat
        /\ DOMAIN more = 1 .. (Len(items) + 1) /\ DOMAIN items = 1 .. Len(items)
        /\ \A k \in 1 .. Len(items) : more[k] = items[k]
        /\ more[Len(items) + 1] = o
    BY <1>3
  <1>5. half2 = [half EXCEPT !.items = more]
    BY DEF Half
  <1> HIDE DEF new, more, half2
  <1>6. half2 \in Half /\ half2.items = more /\ half2.money = half.money
    BY SMTT(30), <1>4, <1>5 DEF Half
  <1>7. ToSet(more) = ToSet(items) \cup {o}
    BY SMTT(120), <1>4 DEF ToSet
  <1>8. {x.index : x \in ToSet(more)} = {x.index : x \in ToSet(items)} \cup {o.index}
    BY <1>7
  <1>9. bag.locked = {x.index : x \in ToSet(items)} /\ Cardinality(bag.locked) = Len(items)
        /\ SameAsOffered(bag, half)
    BY DEF LaidOut
  <1>10. IsFiniteSet(bag.locked)
    BY InventoryAssumption, FS_Subset DEF Bag
  <1>11. Cardinality(bag.locked \cup {o.index}) = Cardinality(bag.locked) + 1
    BY <1>10, FS_AddElement
  <1>12. SameAsOffered(new, half2)
    <2>1. new.lockedMoney = half2.money /\ new.money >= half2.money
      BY ZenonT(60), SMTT(60), <1>2, <1>6, <1>9 DEF SameAsOffered
    <2>2. ASSUME NEW k \in DOMAIN half2.items
          PROVE  /\ half2.items[k].index \in new.locked
                 /\ new.cells[half2.items[k].index].item = half2.items[k].item
                 /\ new.cells[half2.items[k].index].count >= half2.items[k].count
      <3>1. CASE k = Len(items) + 1
        BY ZenonT(60), SMTT(60), <1>2, <1>4, <1>6, <3>1
      <3>2. CASE k # Len(items) + 1
        <4>1. k \in DOMAIN items /\ half2.items[k] = items[k]
          BY <1>4, <1>6, <2>2, <3>2
        <4>2. QED
          BY ZenonT(60), SMTT(60), <1>2, <1>9, <4>1 DEF SameAsOffered
      <3>3. QED
        BY ZenonT(60), SMTT(60), <3>1, <3>2
    <2>3. QED
      BY ZenonT(60), SMTT(60), <2>1, <2>2 DEF SameAsOffered
  <1>13. LaidOut(new, half2)
    BY <1>2, <1>4, <1>6, <1>8, <1>9, <1>11, <1>12 DEF LaidOut
  <1>14. QED
    BY <1>2, <1>6, <1>13 DEF new, half2

LEMMA LayOutGood ==
  ASSUME TradeInvariant, NEW me \in Player, NEW i \in Index, NEW n \in Amount, LayOut(me, i, n)
  PROVE  TradeInvariant'
  <1> DEFINE t == SessionOf(me)
             half == t.side[SideOf(t, me)]
             bag == player[me].bag
             o == [index |-> i, item |-> bag.cells[i].item, count |-> n]
             new == LockSlot(bag, i)
             half2 == [half EXCEPT !.items = Append(@, o)]
             st == WithHalf([State EXCEPT !.player[me].bag = new], t, me, half2)
  <1>1. bag \in Bag
    BY SMTT(60), ZenonT(60), Here
  <1>2. Open(me)
    BY ZenonT(60), SMTT(60) DEF LayOut
  <1>3. half \in Half /\ half.player = me /\ LaidOut(bag, half)
    BY ZenonT(60), SMTT(60), <1>2, OpenParts
  <1>4. /\ i \in Index \ Worn /\ bag.cells[i].item # NoItem /\ i \notin bag.locked
        /\ n \in 1 .. bag.cells[i].count
    BY ZenonT(60), SMTT(60) DEF LayOut
  <1>5. bag.cells[i] \in Cell
    BY SMTT(60), ZenonT(60), <1>1 DEF Bag
  <1>6. /\ o \in Offer /\ o.index = i /\ bag.cells[i].item = o.item
        /\ bag.cells[i].count >= o.count
    BY <1>4, <1>5 DEF Offer, Cell
  <1>7. Becomes(st) /\ nextId' \in 1 .. RequestMax
    <2>1. nextId' \in 1 .. RequestMax
      BY ZenonT(60), SMTT(60), Here DEF LayOut
    <2>2. Becomes(st)
      BY ZenonT(60), SMTT(60) DEF LayOut, State
    <2>3. QED
      BY ZenonT(60), SMTT(60), <2>1, <2>2
  <1>8. half2.player = half.player
    BY <1>3 DEF Half
  <1> HIDE DEF o
  <1> HIDE DEF half
  <1>9. /\ new \in Bag /\ half2 \in Half /\ LaidOut(new, half2)
    BY SMTT(60), ZenonT(60), <1>1, <1>3, <1>4, <1>6, LaidOutMore
  <1>10. new.cells = bag.cells /\ new.money = bag.money
    BY <1>1 DEF LockSlot, Bag
  <1> HIDE DEF half2, new
  <1>11. Good(st)
    BY <1>2, <1>3, <1>8, <1>9, <1>10, WithHalfGood
  <1> HIDE DEF st
  <1>12. QED
    BY <1>7, <1>11, Arrived

LEMMA AddMoneyGood ==
  ASSUME TradeInvariant, NEW me \in Player, NEW n \in Amount, AddMoney(me, n)
  PROVE  TradeInvariant'
  <1> DEFINE t == SessionOf(me)
             half == t.side[SideOf(t, me)]
             bag == player[me].bag
             new == LockMoney(bag, n)
             half2 == [half EXCEPT !.money = @ + n]
             st == WithHalf([State EXCEPT !.player[me].bag = new], t, me, half2)
  <1>1. bag \in Bag
    BY Here
  <1>2. Open(me)
    BY DEF AddMoney
  <1>3. half \in Half /\ half.player = me /\ LaidOut(bag, half)
    BY <1>2, OpenParts
  <1>4. n \in 1 .. (bag.money - bag.lockedMoney)
    BY DEF AddMoney, SpendableMoney
  <1>5. nextId' \in 1 .. RequestMax
    BY Here DEF AddMoney
  <1>6. Becomes(st)
    BY DEF AddMoney, State
  <1>7. bag.money \in 0 .. MoneyMax /\ bag.lockedMoney \in 0 .. MoneyMax /\ MoneyMax \in Nat
    BY ZenonT(60), SMTT(60), <1>1, InventoryAssumption DEF Bag
  <1>8. bag.lockedMoney = half.money
    BY ZenonT(60), <1>3 DEF LaidOut, SameAsOffered
  <1> HIDE DEF half, bag
  <1>9. bag.lockedMoney + n \in 0 .. MoneyMax /\ bag.money >= bag.lockedMoney + n
    BY <1>4, <1>7
  <1>10. /\ new \in Bag /\ new.lockedMoney = bag.lockedMoney + n /\ new.money = bag.money
         /\ new.cells = bag.cells /\ new.locked = bag.locked
    BY <1>1, <1>9 DEF LockMoney, Bag
  <1>11. /\ half2 \in Half /\ half2.money = bag.lockedMoney + n
         /\ half2.items = half.items /\ half2.player = half.player
    BY SMTT(60), ZenonT(60), <1>3, <1>8, <1>9 DEF Half
  <1> HIDE DEF new, half2
  <1>12. LaidOut(new, half2)
    BY ZenonT(60), SMTT(60), <1>3, <1>9, <1>10, <1>11 DEF LaidOut, SameAsOffered
  <1>13. Good(st)
    BY <1>2, <1>3, <1>10, <1>11, <1>12, WithHalfGood DEF bag
  <1> HIDE DEF st
  <1>14. QED
    BY SMTT(60), ZenonT(60), <1>5, <1>6, <1>13, Arrived

\* The trade of me with its half closed, shown to both.
Closing(me) ==
    LET t == SessionOf(me)
        s == SideOf(t, me)
    IN  [t EXCEPT !.side[s].closed = TRUE,
                  !.waited = IF t.side[3 - s].closed THEN 0 ELSE @]

Told(me) == Renewed(player, SessionOf(me), Closing(me))

LEMMA CommitTold ==
  ASSUME TradeInvariant, NEW me \in Player, Open(me)
  PROVE  Good(Told(me)) /\ Closing(me) \in Told(me).sessions
  <1> DEFINE t == SessionOf(me)
             s == SideOf(t, me)
             both == t.side[3 - s].closed
             u == [t EXCEPT !.side[s].closed = TRUE, !.waited = IF both THEN 0 ELSE @]
             told == Renewed(player, t, u)
             half == [t.side[s] EXCEPT !.closed = TRUE]
  <1>1. /\ t \in sessions /\ t \in Session /\ t.waited = NotReady
        /\ s \in 1 .. 2 /\ 3 - s \in 1 .. 2
        /\ t.side[s] \in Half /\ t.side[s].player = me
        /\ \A k \in 1 .. 2 : LaidOut(player[t.side[k].player].bag, t.side[k])
    BY OpenParts
  <1>2. /\ Good(State) /\ State.player = player /\ player \in [Player -> PlayerState]
    BY Here
  <1>3. \A p \in Player : Shows(player[p])
    BY SMTT(60), ZenonT(60), <1>2 DEF Good
  <1> HIDE DEF t
  <1> HIDE DEF s
  <1>4. t.side \in [1 .. 2 -> Half] /\ t.side[3 - s] \in Half
    BY SMTT(60), ZenonT(60), <1>1, SessionParts
  <1>5. half \in Half /\ half.player = me /\ half.closed
        /\ half.items = t.side[s].items /\ half.money = t.side[s].money
    BY <1>1 DEF Half
  <1>6. both \in BOOLEAN
    BY <1>4, HalfParts
  <1>7. u = [t EXCEPT !.side[s] = half, !.waited = IF both THEN 0 ELSE @]
    BY <1>1, <1>4 DEF Session
  <1> HIDE DEF half, both
  <1>8. /\ u \in Session /\ u.side[s] = half
        /\ \A k \in 1 .. 2 : k # s => u.side[k] = t.side[k]
        /\ u.waited # NotReady => both
    <2>1. 0 \in NotReady .. WaitFrames
      BY TradeAssumption DEF NotReady
    <2>2. QED
      BY ZenonT(120), <1>1, <1>4, <1>5, <1>6, <1>7, <2>1 DEF Session
  <1> HIDE DEF u
  <1>9. s = 1 \/ s = 2
    BY <1>1, TwoSides
  <1>10. u.waited # NotReady => u.side[1].closed /\ u.side[2].closed
    <2>1. both => t.side[3 - s].closed
      BY DEF both
    <2>2. u.side[s].closed /\ u.side[3 - s] = t.side[3 - s]
      BY <1>5, <1>8, <1>9
    <2>3. QED
      BY <1>8, <1>9, <2>1, <2>2
  <1>11. \A k \in 1 .. 2 : u.side[k].player = t.side[k].player
    <2>1. t.side[s].player = me /\ half.player = me
      BY <1>1, <1>5
    <2>2. QED
      BY <1>8, <2>1
  <1>12. \A k \in 1 .. 2 : LaidOut(player[u.side[k].player].bag, u.side[k])
    <2>1. LaidOut(player[me].bag, half)
      <3> DEFINE was == t.side[s]
      <3>1. LaidOut(player[me].bag, was)
        BY <1>1
      <3>2. half.items = was.items /\ half.money = was.money
        BY SMTT(30), <1>5
      <3> HIDE DEF was
      <3>3. QED
        BY ZenonT(60), SMTT(60), <3>1, <3>2 DEF LaidOut, SameAsOffered
    <2>2. \A k \in 1 .. 2 : k # s => LaidOut(player[t.side[k].player].bag, t.side[k])
      BY <1>1
    <2>3. u.side[s].player = me
      BY ZenonT(60), SMTT(60), <1>5, <1>8
    <2>4. QED
      BY ZenonT(60), SMTT(60), <1>8, <2>1, <2>2, <2>3
  <1>13. Good(told) /\ u \in told.sessions
    BY ZenonT(60), SMTT(60), <1>1, <1>2, <1>3, <1>8, <1>10, <1>11, <1>12, RenewedGood
  <1>14. QED
    BY <1>13 DEF t, s, both, u, told, Told, Closing

LEMMA CommitGood ==
  ASSUME TradeInvariant, NEW me \in Player, NEW saving, Commit(me, saving)
  PROVE  TradeInvariant'
  <1>1. Open(me) /\ nextId' \in 1 .. RequestMax
    BY Here DEF Commit
  <1>2. Becomes(TryExecute(Told(me), Closing(me), saving)) \/ Becomes(Told(me))
    BY DEF Commit, Renewed, State, Told, Closing
  <1>3. Good(Told(me)) /\ Closing(me) \in Told(me).sessions
    BY <1>1, CommitTold
  <1>4. Good(TryExecute(Told(me), Closing(me), saving))
    BY <1>3, TryExecuteGood
  <1>5. QED
    BY <1>1, <1>2, <1>3, <1>4, Arrived

-----------------------------------------------------------------------------
(* What a swap moves. *)

\* How much of an item each offer of a list is about.
LaidCounts(items, it) ==
    [k \in DOMAIN items |-> IF items[k].item = it THEN items[k].count ELSE 0]

Handed(items, it) == Total(LaidCounts(items, it), DOMAIN items)

LEMMA LaidCountsAreNats ==
  ASSUME NEW items \in Seq(Offer), NEW it \in Item
  PROVE  /\ IsFiniteSet(DOMAIN items) /\ Handed(items, it) \in Int
         /\ \A k \in DOMAIN items : LaidCounts(items, it)[k] \in Nat
  <1> DEFINE f == LaidCounts(items, it)
             S == DOMAIN items
  <1>1. S = 1 .. Len(items) /\ Len(items) \in Nat
    OBVIOUS
  <1>2. IsFiniteSet(S)
    BY <1>1, FS_Interval
  <1>3. ASSUME NEW k \in S
        PROVE  f[k] \in Nat
    <2>1. items[k] \in Offer
      BY <1>3
    <2>2. items[k].count \in Nat
      BY <2>1 DEF Offer
    <2>3. QED
      BY <2>2 DEF LaidCounts
  <1>4. \A k \in S : f[k] \in Int
    BY <1>3
  <1> HIDE DEF f, S
  <1>5. Total(f, S) \in Int
    BY <1>2, <1>4, TotalParts
  <1>6. QED
    BY <1>2, <1>3, <1>5 DEF Handed, f, S

\* What a bag holds of an item is the total of its cells.
LEMMA HeldIsOwned ==
  ASSUME NEW bag \in Bag, NEW it \in Item
  PROVE  Held(bag, it) = Owned(bag, it)
  <1> DEFINE S == Index
             counts == Counts(bag, it)
             At(i) == IF bag.cells[i].item = it THEN bag.cells[i].count ELSE 0
             Sum(g) == g = [T \in SUBSET S |->
                              IF T = {} THEN 0
                              ELSE At(CHOOSE x \in T : TRUE)
                                     + g[T \ {CHOOSE x \in T : TRUE}]]
             sum == CHOOSE g : Sum(g)
  <1>1. IsFiniteSet(S) /\ \A i \in S : counts[i] \in Int
    BY CountsAreNats
  <1>2. \A T \in SUBSET S : T # {} => counts[FirstOf(T)] = At(CHOOSE x \in T : TRUE)
    <2>1. \A T \in SUBSET S : T # {} => FirstOf(T) \in S
      BY FirstIsOne
    <2>2. QED
      BY <2>1 DEF Counts, FirstOf
  <1>3. Held(bag, it) = sum[S]
    BY DEF Held, MapThenSumSet, MapThenFoldSet
  <1> HIDE DEF counts, At
  <1>4. ASSUME NEW g
        PROVE  Sum(g) <=> IsSum(g, S, counts)
    BY ZenonT(120), <1>2 DEF IsSum, FirstOf
  <1>5. PICK g : IsSum(g, S, counts)
    BY <1>1, SumExists
  <1>6. Sum(sum)
    <2>1. Sum(g)
      <3> HIDE DEF Sum
      <3>1. QED
        BY ZenonT(60), SMTT(60), <1>4, <1>5
    <2>2. QED
      BY ZenonT(60), <2>1
  <1> HIDE DEF sum, Sum, S
  <1>7. sum[S] = Total(counts, S)
    BY <1>1, <1>4, <1>6, SumIsTotal, S \in SUBSET S
  <1>8. QED
    BY <1>3, <1>7 DEF Owned, counts, S

\* The same of what a half has laid out.
LEMMA LaidIsHanded ==
  ASSUME NEW half \in Half, NEW it \in Item
  PROVE  Laid(half, it) = Handed(half.items, it)
  <1> DEFINE S == DOMAIN half.items
             counts == LaidCounts(half.items, it)
             At(k) == IF half.items[k].item = it THEN half.items[k].count ELSE 0
             Sum(g) == g = [T \in SUBSET S |->
                              IF T = {} THEN 0
                              ELSE At(CHOOSE x \in T : TRUE)
                                     + g[T \ {CHOOSE x \in T : TRUE}]]
             sum == CHOOSE g : Sum(g)
  <1>1. half.items \in Seq(Offer)
    BY HalfParts
  <1>2. IsFiniteSet(S) /\ \A k \in S : counts[k] \in Int
    BY <1>1, LaidCountsAreNats
  <1>3. \A T \in SUBSET S : T # {} => counts[FirstOf(T)] = At(CHOOSE x \in T : TRUE)
    <2>1. \A T \in SUBSET S : T # {} => FirstOf(T) \in S
      BY FirstIsOne
    <2>2. QED
      BY <2>1 DEF LaidCounts, FirstOf
  <1>4. Laid(half, it) = sum[S]
    BY DEF Laid, MapThenSumSet, MapThenFoldSet
  <1> HIDE DEF counts, At
  <1>5. ASSUME NEW g
        PROVE  Sum(g) <=> IsSum(g, S, counts)
    BY ZenonT(120), <1>3 DEF IsSum, FirstOf
  <1>6. PICK g : IsSum(g, S, counts)
    BY <1>2, SumExists
  <1>7. Sum(sum)
    <2>1. Sum(g)
      <3> HIDE DEF Sum
      <3>1. QED
        BY ZenonT(60), SMTT(60), <1>5, <1>6
    <2>2. QED
      BY ZenonT(60), <2>1
  <1> HIDE DEF sum, Sum, S
  <1>8. sum[S] = Total(counts, S)
    BY <1>2, <1>5, <1>7, SumIsTotal, S \in SUBSET S
  <1>9. QED
    BY <1>4, <1>8 DEF Handed, counts, S

\* Every offer is of a cell of its own.
LEMMA OffersApart ==
  ASSUME NEW bag, NEW half \in Half, LaidOut(bag, half)
  PROVE  \A k, m \in DOMAIN half.items :
            half.items[k].index = half.items[m].index => k = m
  <1> DEFINE S == DOMAIN half.items
             place == [k \in S |-> half.items[k].index]
  <1>1. half.items \in Seq(Offer)
    BY HalfParts
  <1>2. S = 1 .. Len(half.items) /\ Len(half.items) \in Nat
    BY <1>1
  <1>3. IsFiniteSet(S) /\ Cardinality(S) = Len(half.items)
    BY <1>2, FS_Interval
  <1>4. bag.locked = {place[k] : k \in S} /\ Cardinality(bag.locked) = Len(half.items)
    BY ZenonT(120) DEF LaidOut, ToSet
  <1>5. place \in Surjection(S, bag.locked)
    BY <1>4 DEF Surjection
  <1> HIDE DEF place
  <1>6. IsFiniteSet(bag.locked)
    BY <1>3, <1>5, FS_Surjection
  <1>7. place \in Injection(S, bag.locked)
    BY <1>3, <1>4, <1>5, <1>6, FS_SurjSameCardinalityImpliesInj
  <1>8. \A k, m \in S : place[k] = place[m] => k = m
    BY <1>7 DEF Injection, IsInjective
  <1>9. QED
    BY <1>8 DEF place

-----------------------------------------------------------------------------
(* Taking out what is laid out. *)

LEMMA OwnedByCells ==
  ASSUME NEW a, NEW b, a.cells = b.cells
  PROVE  /\ \A it \in Item : Owned(a, it) = Owned(b, it)
         /\ Lawful(a) <=> Lawful(b)
  <1>1. \A it \in Item : Counts(a, it) = Counts(b, it)
    BY DEF Counts
  <1>2. \A it \in Item : Owned(a, it) = Owned(b, it)
    BY <1>1 DEF Owned
  <1>3. Lawful(a) <=> Lawful(b)
    BY DEF Lawful
  <1>4. QED
    BY <1>2, <1>3

\* The bag after the offers in T were taken out of it: that much less of each item,
\* and the cells of the other offers as they were.
Spared(bag, items, T) ==
    {b \in Bag : /\ Lawful(b) /\ Free(b) /\ b.money = bag.money
                 /\ \A it \in Item : Owned(b, it)
                       = Owned(bag, it) - Total(LaidCounts(items, it), T)
                 /\ \A k \in DOMAIN items \ T :
                       b.cells[items[k].index] = bag.cells[items[k].index]}

LEMMA SparedAtFirst ==
  ASSUME NEW bag \in Bag, Lawful(bag), NEW items \in Seq(Offer)
  PROVE  UnlockAll(bag) \in Spared(bag, items, {})
  <1> DEFINE b == UnlockAll(bag)
  <1>1. b \in Bag /\ Free(b) /\ b.money = bag.money /\ b.cells = bag.cells
    BY UnlockAllBag DEF Free
  <1> HIDE DEF b
  <1>2. Lawful(b) /\ \A it \in Item : Owned(b, it) = Owned(bag, it)
    BY <1>1, OwnedByCells
  <1>3. ASSUME NEW it \in Item
        PROVE  Owned(b, it) = Owned(bag, it) - Total(LaidCounts(items, it), {})
    <2>1. IsFiniteSet({}) /\ \A x \in {} : LaidCounts(items, it)[x] \in Int
      BY FS_EmptySet
    <2>2. Total(LaidCounts(items, it), {}) = 0
      BY <2>1, TotalParts
    <2>3. Owned(bag, it) \in Int
      BY CountsAreNats
    <2>4. QED
      BY <1>2, <2>2, <2>3
  <1>4. b \in Spared(bag, items, {})
    BY <1>1, <1>2, <1>3 DEF Spared
  <1>5. QED
    BY <1>4 DEF b

LEMMA SparedNext ==
  ASSUME NEW bag \in Bag, NEW half \in Half, LaidOut(bag, half),
         NEW T \in SUBSET DOMAIN half.items, NEW m \in T,
         NEW b \in Spared(bag, half.items, T \ {m})
  PROVE  RemoveFrom(b, half.items[m].index, half.items[m].count)
           \in Spared(bag, half.items, T)
  <1> DEFINE items == half.items
             S == DOMAIN items
             i == items[m].index
             n == items[m].count
             new == RemoveFrom(b, i, n)
  <1>1. items \in Seq(Offer)
    BY HalfParts
  <1>2. \A k \in S : /\ items[k].index \in Index /\ items[k].item \in Item
                     /\ items[k].count \in Nat
    <2>1. \A k \in S : items[k] \in Offer
      BY <1>1
    <2>2. QED
      BY <2>1 DEF Offer
  <1>3. i \in Index /\ n \in Nat /\ m \in S
    BY <1>2
  <1>4. \A k \in S : items[k].index = i => k = m
    BY OffersApart
  <1>5. bag.cells[i].item = items[m].item /\ bag.cells[i].count >= n
    BY DEF LaidOut, SameAsOffered
  <1> HIDE DEF items
  <1>6. /\ b \in Bag /\ Lawful(b) /\ Free(b) /\ b.money = bag.money
        /\ \A it \in Item : Owned(b, it)
              = Owned(bag, it) - Total(LaidCounts(items, it), T \ {m})
        /\ \A k \in S \ (T \ {m}) :
              b.cells[items[k].index] = bag.cells[items[k].index]
    BY DEF Spared, items
  <1>7. b.cells[i] = bag.cells[i]
    BY <1>3, <1>6
  <1>8. b.cells[i].item = items[m].item /\ b.cells[i].item \in Item /\ n <= b.cells[i].count
    <2>1. bag.cells[i].count \in Nat
      BY <1>3 DEF Bag, Cell
    <2> HIDE DEF i, n
    <2>2. QED
      BY <1>2, <1>3, <1>5, <1>7, <2>1
  <1> HIDE DEF i, n
  <1>9. /\ new \in Bag /\ SameLocks(b, new) /\ new.money = b.money
        /\ \A j \in Index \ {i} : new.cells[j] = b.cells[j]
    BY <1>3, <1>6, RemoveFromBag
  <1>10. Lawful(new)
    BY <1>3, <1>6, RemoveFromFits
  <1>11. ASSUME NEW it \in Item
         PROVE  Owned(new, it) = Owned(bag, it) - Total(LaidCounts(items, it), T)
    <2> DEFINE f == LaidCounts(items, it)
    <2>1. Owned(new, it) = Owned(b, it) - (IF b.cells[i].item = it THEN n ELSE 0)
      BY <1>3, <1>6, <1>8, RemoveFromCount
    <2>2. f[m] = IF items[m].item = it THEN n ELSE 0
      BY <1>3 DEF LaidCounts, n
    <2>3. IsFiniteSet(S) /\ \A k \in S : f[k] \in Nat
      BY <1>1, LaidCountsAreNats
    <2> HIDE DEF f
    <2>4. /\ IsFiniteSet(T) /\ IsFiniteSet(T \ {m})
          /\ \A k \in T : f[k] \in Int
          /\ \A k \in T \ {m} : f[k] \in Int
      BY <2>3, FS_Subset DEF items
    <2>5. Total(f, T) = f[m] + Total(f, T \ {m})
      BY <2>4, TotalTake
    <2>6. Total(f, T \ {m}) \in Int /\ f[m] \in Int
      BY <2>4, TotalParts
    <2>7. Owned(b, it) = Owned(bag, it) - Total(f, T \ {m})
      BY <1>6 DEF f
    <2>8. Owned(bag, it) \in Int
      BY CountsAreNats
    <2>9. Owned(new, it) = Owned(b, it) - f[m]
      BY <1>8, <2>1, <2>2
    <2>10. Owned(new, it) = Owned(bag, it) - Total(f, T)
      BY <2>5, <2>6, <2>7, <2>8, <2>9
    <2>11. QED
      BY <2>10 DEF f
  <1>12. ASSUME NEW k \in S \ T
         PROVE  new.cells[items[k].index] = bag.cells[items[k].index]
    <2>1. items[k].index \in Index \ {i} /\ k \in S \ (T \ {m})
      BY <1>2, <1>4
    <2>2. QED
      BY <1>6, <1>9, <2>1
  <1> HIDE DEF new
  <1>13. Free(new) /\ new.money = bag.money
    BY <1>6, <1>9 DEF SameLocks, Free
  <1>14. new \in Spared(bag, items, T)
    BY <1>9, <1>10, <1>11, <1>12, <1>13 DEF Spared
  <1>15. QED
    BY <1>14 DEF new, i, n, items

\* What is laid out, and nothing else, is missing after it was taken out.
LEMMA EmptiedGoods ==
  ASSUME NEW bag \in Bag, Lawful(bag), NEW half \in Half, LaidOut(bag, half)
  PROVE  Emptied(bag, half.items) \in Spared(bag, half.items, DOMAIN half.items)
  <1> DEFINE items == half.items
             S == DOMAIN items
             next == [T \in SUBSET S |-> Max(T)]
             V == [T \in SUBSET S |-> Spared(bag, items, T)]
  <1>1. items \in Seq(Offer)
    BY HalfParts
  <1>2. S = 1 .. Len(items) /\ Len(items) \in Nat
    BY <1>1
  <1>3. IsFiniteSet(S)
    BY <1>2, FS_Interval
  <1>4. \A T \in SUBSET S : T # {} => next[T] = Max(T) /\ next[T] \in T
                                      /\ T \ {next[T]} \in SUBSET S
    BY <1>2, MaxOfPlaces
  <1>5. PICK g : Takings(bag, items, g) /\ Emptied(bag, items) = g[S]
    BY <1>1, EmptiedChain
  <1>6. g[{}] = UnlockAll(bag)
    BY <1>5, {} \in SUBSET S DEF Takings
  <1>7. g[{}] \in V[{}]
    <2>1. UnlockAll(bag) \in Spared(bag, items, {})
      BY <1>1, SparedAtFirst
    <2> HIDE DEF S
    <2>2. QED
      BY <1>6, <2>1, {} \in SUBSET S
  <1>8. ASSUME NEW T \in SUBSET S, T # {}, g[T \ {next[T]}] \in V[T \ {next[T]}]
        PROVE  g[T] \in V[T]
    <2> DEFINE m == Max(T)
    <2>1. next[T] = m /\ m \in T /\ T \ {m} \in SUBSET S
      BY <1>4, <1>8
    <2>2. g[T] = RemoveFrom(g[T \ {m}], items[m].index, items[m].count)
      BY ZenonT(60), SMTT(60), <1>5, <1>8 DEF Takings
    <2> HIDE DEF m, S, next
    <2>3. g[T \ {m}] \in Spared(bag, items, T \ {m})
      BY <1>8, <2>1
    <2>4. RemoveFrom(g[T \ {m}], items[m].index, items[m].count) \in Spared(bag, items, T)
      BY <2>1, <2>3, SparedNext DEF S
    <2>5. QED
      BY <2>2, <2>4
  <1>9. \A T \in SUBSET S : g[T] \in V[T]
    <2> HIDE DEF S, V, next
    <2>1. \A T \in SUBSET S : T # {} => next[T] \in T
      BY <1>4
    <2>2. QED
      BY <1>3, <1>7, <1>8, <2>1, FoldInvariant
  <1>10. g[S] \in Spared(bag, items, S)
    BY <1>9, S \in SUBSET S
  <1>11. QED
    BY <1>5, <1>10

\* What is given leaves the bag, and only that.
LEMMA GivenGoods ==
  ASSUME NEW bag \in Bag, Lawful(bag), NEW half \in Half, LaidOut(bag, half)
  PROVE  LET less == Given(bag, half)
         IN  /\ less \in Bag /\ Lawful(less) /\ Free(less)
             /\ less.money = bag.money - half.money
             /\ \A it \in Item : Owned(less, it) = Owned(bag, it) - Handed(half.items, it)
  <1> DEFINE rest == Emptied(bag, half.items)
             paid == SpendMoney(rest, half.money)
             less == Given(bag, half)
  <1>1. half.money \in Nat /\ half.money <= bag.money /\ bag.money \in Nat
    BY InventoryAssumption DEF Half, LaidOut, SameAsOffered, Bag
  <1>2. rest \in Spared(bag, half.items, DOMAIN half.items)
    BY EmptiedGoods
  <1>3. less = IF half.money > 0 THEN paid ELSE rest
    BY DEF Given, Emptied
  <1> HIDE DEF rest
  <1>4. /\ rest \in Bag /\ Lawful(rest) /\ Free(rest) /\ rest.money = bag.money
        /\ \A it \in Item : Owned(rest, it) = Owned(bag, it) - Handed(half.items, it)
    BY <1>2 DEF Spared, Handed
  <1>5. /\ paid \in Bag /\ SameLocks(rest, paid) /\ paid.cells = rest.cells
        /\ paid.money = rest.money - half.money
    BY <1>1, <1>4, SpendMoneyBag
  <1> HIDE DEF paid, less
  <1>6. /\ Free(paid) /\ Lawful(paid)
        /\ \A it \in Item : Owned(paid, it) = Owned(rest, it)
    BY <1>4, <1>5, OwnedByCells DEF SameLocks, Free
  <1>7. CASE half.money > 0
    <2>1. less = paid
      BY <1>3, <1>7
    <2>2. QED
      BY <1>4, <1>5, <1>6, <2>1 DEF less
  <1>8. CASE ~ (half.money > 0)
    <2>1. less = rest /\ half.money = 0
      BY <1>1, <1>3, <1>8
    <2>2. bag.money = bag.money - half.money
      BY <1>1, <2>1
    <2>3. QED
      BY <1>4, <2>1, <2>2 DEF less
  <1>9. QED
    BY <1>7, <1>8

-----------------------------------------------------------------------------
(* Putting in what is received. *)

\* What came of putting in the offers in T: that much more of each item, as long as
\* everything fitted.
Stored(bag, items, T) ==
    {r \in Filled(bag) :
        /\ Lawful(r.bag) /\ r.bag.money = bag.money
        /\ r.why = "OK" => \A it \in Item :
              Owned(r.bag, it) = Owned(bag, it) + Total(LaidCounts(items, it), T)}

LEMMA StoredAtFirst ==
  ASSUME NEW bag \in Bag, Free(bag), Lawful(bag), NEW items \in Seq(Offer)
  PROVE  [why |-> "OK", bag |-> bag] \in Stored(bag, items, {})
  <1> DEFINE r == [why |-> "OK", bag |-> bag]
  <1>1. r \in Filled(bag) /\ r.bag = bag
    BY DEF Filled, Outcome, Noted
  <1> HIDE DEF r
  <1>2. ASSUME NEW it \in Item
        PROVE  Owned(bag, it) = Owned(bag, it) + Total(LaidCounts(items, it), {})
    <2>1. IsFiniteSet({}) /\ \A x \in {} : LaidCounts(items, it)[x] \in Int
      BY FS_EmptySet
    <2>2. Total(LaidCounts(items, it), {}) = 0
      BY <2>1, TotalParts
    <2>3. Owned(bag, it) \in Int
      BY CountsAreNats
    <2>4. QED
      BY <2>2, <2>3
  <1>3. r \in Stored(bag, items, {})
    BY <1>1, <1>2 DEF Stored
  <1>4. QED
    BY <1>3 DEF r

\* The offers are of what lies in cells: none is of money.
OfStacks(items) == \A k \in DOMAIN items : Def[items[k].item].store = "SLOT"

LEMMA StoredNext ==
  ASSUME NEW bag \in Bag, Free(bag), NEW items \in Seq(Offer), OfStacks(items),
         NEW T \in SUBSET DOMAIN items, NEW m \in T,
         NEW r \in Stored(bag, items, T \ {m})
  PROVE  PutIn(r, items[m]) \in Stored(bag, items, T)
  <1> DEFINE S == DOMAIN items
             thing == items[m].item
             n == items[m].count
             new == PutIn(r, items[m])
             more == TryAdd(r.bag, thing, n)
  <1>1. thing \in Item /\ n \in Nat /\ m \in S
    <2>1. items[m] \in Offer
      OBVIOUS
    <2>2. QED
      BY <2>1 DEF Offer
  <1>2. Def[thing].store = "SLOT"
    BY DEF OfStacks
  <1>3. /\ r \in Filled(bag) /\ Lawful(r.bag) /\ r.bag.money = bag.money
        /\ r.why = "OK" => \A it \in Item : Owned(r.bag, it)
              = Owned(bag, it) + Total(LaidCounts(items, it), T \ {m})
    BY DEF Stored
  <1>4. r.bag \in Bag /\ Free(r.bag)
    BY <1>3 DEF Filled, Outcome
  <1>5. new = IF r.why = "OK" THEN more ELSE r
    BY DEF PutIn
  <1> HIDE DEF thing, n, new
  <1>6. /\ more \in Filled(bag) /\ Lawful(more.bag) /\ more.bag.money = r.bag.money
    BY <1>1, <1>2, <1>3, <1>4, TryAddFills, TryAddFits, TryAddKeepsMoney
  <1>7. ASSUME r.why = "OK", more.why = "OK", NEW it \in Item
        PROVE  Owned(more.bag, it) = Owned(bag, it) + Total(LaidCounts(items, it), T)
    <2> DEFINE f == LaidCounts(items, it)
    <2>1. Owned(more.bag, it) = Owned(r.bag, it) + (IF it = thing THEN n ELSE 0)
      BY <1>1, <1>2, <1>3, <1>4, <1>7, TryAddCount
    <2>2. f[m] = IF thing = it THEN n ELSE 0
      BY <1>1 DEF LaidCounts, n, thing
    <2>3. IsFiniteSet(S) /\ \A k \in S : f[k] \in Nat
      BY LaidCountsAreNats
    <2> HIDE DEF f
    <2>4. /\ IsFiniteSet(T) /\ IsFiniteSet(T \ {m})
          /\ \A k \in T : f[k] \in Int
          /\ \A k \in T \ {m} : f[k] \in Int
      BY <2>3, FS_Subset
    <2>5. Total(f, T) = f[m] + Total(f, T \ {m})
      BY <2>4, TotalTake
    <2>6. Total(f, T \ {m}) \in Int /\ f[m] \in Int
      BY <2>4, TotalParts
    <2>7. Owned(r.bag, it) = Owned(bag, it) + Total(f, T \ {m})
      BY <1>3, <1>7 DEF f
    <2>8. Owned(bag, it) \in Int
      BY CountsAreNats
    <2>9. Owned(more.bag, it) = Owned(r.bag, it) + f[m]
      BY <2>1, <2>2
    <2>10. Owned(more.bag, it) = Owned(bag, it) + Total(f, T)
      BY <2>5, <2>6, <2>7, <2>8, <2>9
    <2>11. QED
      BY <2>10 DEF f
  <1> HIDE DEF more
  <1>8. CASE r.why = "OK"
    <2>1. new = more
      BY <1>5, <1>8
    <2>2. more \in Stored(bag, items, T)
      BY <1>3, <1>6, <1>7, <1>8 DEF Stored
    <2>3. QED
      BY <2>1, <2>2 DEF new
  <1>9. CASE r.why # "OK"
    <2>1. new = r
      BY <1>5, <1>9
    <2>2. r \in Stored(bag, items, T)
      BY <1>3, <1>9 DEF Stored
    <2>3. QED
      BY <2>1, <2>2 DEF new
  <1>10. QED
    BY <1>8, <1>9

LEMMA StuffedGoods ==
  ASSUME NEW bag \in Bag, Free(bag), Lawful(bag), NEW items \in Seq(Offer), OfStacks(items)
  PROVE  Stuffed(bag, items) \in Stored(bag, items, DOMAIN items)
  <1> DEFINE S == DOMAIN items
             next == [T \in SUBSET S |-> Max(T)]
             V == [T \in SUBSET S |-> Stored(bag, items, T)]
             start == [why |-> "OK", bag |-> bag]
  <1>1. S = 1 .. Len(items) /\ Len(items) \in Nat
    OBVIOUS
  <1>2. IsFiniteSet(S)
    BY <1>1, FS_Interval
  <1>3. \A T \in SUBSET S : T # {} => next[T] = Max(T) /\ next[T] \in T
                                      /\ T \ {next[T]} \in SUBSET S
    BY <1>1, MaxOfPlaces
  <1>4. PICK g : Stuffings(bag, items, g) /\ Stuffed(bag, items) = g[S]
    BY StuffedChain
  <1>5. g[{}] = start
    BY <1>4, {} \in SUBSET S DEF Stuffings
  <1>6. g[{}] \in V[{}]
    <2>1. start \in Stored(bag, items, {})
      BY StoredAtFirst
    <2> HIDE DEF S, start
    <2>2. QED
      BY <1>5, <2>1, {} \in SUBSET S
  <1>7. ASSUME NEW T \in SUBSET S, T # {}, g[T \ {next[T]}] \in V[T \ {next[T]}]
        PROVE  g[T] \in V[T]
    <2> DEFINE m == Max(T)
    <2>1. next[T] = m /\ m \in T /\ T \ {m} \in SUBSET S
      BY <1>3, <1>7
    <2>2. g[T] = PutIn(g[T \ {m}], items[m])
      BY <1>4, <1>7 DEF Stuffings
    <2> HIDE DEF m, S, next
    <2>3. g[T \ {m}] \in Stored(bag, items, T \ {m})
      BY <1>7, <2>1
    <2>4. PutIn(g[T \ {m}], items[m]) \in Stored(bag, items, T)
      BY <2>1, <2>3, StoredNext DEF S
    <2>5. QED
      BY <2>2, <2>4
  <1>8. \A T \in SUBSET S : g[T] \in V[T]
    <2> HIDE DEF S, V, next
    <2>1. \A T \in SUBSET S : T # {} => next[T] \in T
      BY <1>3
    <2>2. QED
      BY <1>2, <1>6, <1>7, <2>1, FoldInvariant
  <1>9. g[S] \in Stored(bag, items, S)
    BY <1>8, S \in SUBSET S
  <1>10. QED
    BY <1>4, <1>9

\* What is received comes into the bag, and only that.
LEMMA ReceivedGoods ==
  ASSUME NEW bag \in Bag, Free(bag), Lawful(bag), NEW half \in Half,
         OfStacks(half.items), Received(bag, half).why = "OK"
  PROVE  LET more == Received(bag, half).bag
         IN  /\ more \in Bag /\ Lawful(more)
             /\ more.money = bag.money + half.money
             /\ \A it \in Item : Owned(more, it) = Owned(bag, it) + Handed(half.items, it)
  <1> DEFINE r == Stuffed(bag, half.items)
             paid == TryAddMoney(r.bag, half.money)
             all == Received(bag, half)
  <1>1. half.items \in Seq(Offer) /\ half.money \in Nat /\ bag.money \in Nat
    BY InventoryAssumption DEF Half, Bag
  <1>2. r \in Stored(bag, half.items, DOMAIN half.items)
    BY <1>1, StuffedGoods
  <1>3. all = IF r.why = "OK" /\ half.money > 0 THEN paid ELSE r
    BY ZenonT(60) DEF Received, Stuffed
  <1> HIDE DEF r
  <1>4. /\ r.bag \in Bag /\ Lawful(r.bag) /\ r.bag.money = bag.money
        /\ r.why = "OK" => \A it \in Item :
              Owned(r.bag, it) = Owned(bag, it) + Handed(half.items, it)
    BY <1>2 DEF Stored, Filled, Outcome, Handed
  <1>5. paid.why = "OK" => paid.bag.money = r.bag.money + half.money
    BY <1>4 DEF TryAddMoney, Bag
  <1>6. paid.bag \in Bag /\ paid.bag.cells = r.bag.cells
    BY <1>1, <1>4, TryAddMoneyBag
  <1> HIDE DEF paid, all
  <1>7. Lawful(paid.bag) /\ \A it \in Item : Owned(paid.bag, it) = Owned(r.bag, it)
    BY <1>4, <1>6, OwnedByCells
  <1>8. all.why = "OK"
    BY DEF all
  <1>9. CASE r.why = "OK" /\ half.money > 0
    <2>1. all = paid
      BY <1>3, <1>9
    <2>2. QED
      BY <1>4, <1>5, <1>6, <1>7, <1>8, <1>9, <2>1 DEF all
  <1>10. CASE ~ (r.why = "OK" /\ half.money > 0)
    <2>1. all = r
      BY <1>3, <1>10
    <2>2. r.why = "OK" /\ half.money = 0
      BY <1>1, <1>8, <1>10, <2>1
    <2>3. bag.money = bag.money + half.money
      BY <1>1, <2>2
    <2>4. QED
      BY <1>4, <2>1, <2>2, <2>3 DEF all
  <1>11. QED
    BY <1>9, <1>10

\* What is laid out of a bag whose stacks fit is not money.
LEMMA LaidOutStacks ==
  ASSUME NEW bag, Lawful(bag), NEW half \in Half, LaidOut(bag, half)
  PROVE  OfStacks(half.items)
  <1>1. half.items \in Seq(Offer)
    BY HalfParts
  <1>2. ASSUME NEW k \in DOMAIN half.items
        PROVE  Def[half.items[k].item].store = "SLOT"
    <2>1. half.items[k] \in Offer
      BY <1>1
    <2>2. half.items[k].item \in Item /\ half.items[k].index \in Index
      BY <2>1 DEF Offer
    <2>3. bag.cells[half.items[k].index].item = half.items[k].item
      BY DEF LaidOut, SameAsOffered
    <2>4. QED
      BY <2>2, <2>3, StacksAreNotMoney
  <1>3. QED
    BY <1>2 DEF OfStacks

\* A bag after the swap: what was laid out of it is gone, what was laid out for it
\* has come, and everything else is as it was.
LEMMA SwappedGoods ==
  ASSUME NEW bag \in Bag, Lawful(bag), NEW gives \in Half, LaidOut(bag, gives),
         NEW other, Lawful(other), NEW gets \in Half, LaidOut(other, gets),
         Received(Given(bag, gives), gets).why = "OK"
  PROVE  LET new == Received(Given(bag, gives), gets).bag
         IN  /\ Lawful(new)
             /\ new.money = bag.money - gives.money + gets.money
             /\ \A it \in Item : Owned(new, it)
                   = Owned(bag, it) - Handed(gives.items, it) + Handed(gets.items, it)
  <1> DEFINE less == Given(bag, gives)
             new == Received(less, gets).bag
  <1>1. /\ less \in Bag /\ Lawful(less) /\ Free(less)
        /\ less.money = bag.money - gives.money
        /\ \A it \in Item : Owned(less, it) = Owned(bag, it) - Handed(gives.items, it)
    BY GivenGoods
  <1>2. OfStacks(gets.items)
    BY LaidOutStacks
  <1>3. Received(less, gets).why = "OK"
    OBVIOUS
  <1> HIDE DEF less
  <1>4. /\ Lawful(new) /\ new.money = less.money + gets.money
        /\ \A it \in Item : Owned(new, it) = Owned(less, it) + Handed(gets.items, it)
    BY SMTT(60), ZenonT(60), <1>1, <1>2, <1>3, ReceivedGoods
  <1> HIDE DEF new
  <1>5. QED
    BY <1>1, <1>4 DEF new, less

-----------------------------------------------------------------------------
(* What becomes of the goods of a trade. *)

\* The cells and the money of p are the same in both states.
SameGoods(st, st2, p) ==
    /\ st2.player[p].bag.cells = st.player[p].bag.cells
    /\ st2.player[p].bag.money = st.player[p].bag.money

\* Side s of t has given what it had laid out and got what the other had.
Traded(st, st2, t, s) ==
    LET old == st.player[t.side[s].player].bag
        new == st2.player[t.side[s].player].bag
    IN  /\ \A it \in Item : Owned(new, it)
              = Owned(old, it) - Handed(t.side[s].items, it) + Handed(t.side[3 - s].items, it)
        /\ new.money = old.money - t.side[s].money + t.side[3 - s].money

\* One side has closed, and both are there and alive.
ReadyAt(st, t) ==
    /\ \E s \in 1 .. 2 : t.side[s].closed
    /\ \A s \in 1 .. 2 : Alive(st.player[t.side[s].player])
    /\ InReach(st.player[t.side[1].player], st.player[t.side[2].player])

\* Everything of t was moved, or nothing.
Settles(st, st2, t) ==
    \/ \A s \in 1 .. 2 : SameGoods(st, st2, t.side[s].player)
    \/ ReadyAt(st, t) /\ \A s \in 1 .. 2 : Traded(st, st2, t, s)

Persists(st2, t) ==
    \E u \in st2.sessions : \A s \in 1 .. 2 : u.side[s].player = t.side[s].player

Whole(st, st2) == \A t \in st.sessions : Persists(st2, t) \/ Settles(st, st2, t)

\* A swap that is done has moved what both sides had laid out.
LEMMA SwapMoves ==
  ASSUME NEW st, Good(st), Holds(st), NEW t \in st.sessions,
         Swap(st.player, t).why = "DONE"
  PROVE  /\ InReach(st.player[t.side[1].player], st.player[t.side[2].player])
         /\ \A s \in 1 .. 2 : /\ Traded(st, Swapped(st, t), t, s)
                              /\ Lawful(Swapped(st, t).player[t.side[s].player].bag)
  <1> DEFINE a == t.side[1].player
             b == t.side[2].player
             done == Swapped(st, t)
             Bag0(s) == st.player[t.side[s].player].bag
  <1>1. st \in StateType /\ Locks(st)
    BY DEF Good
  <1>2. t \in Session
    BY ZenonT(60), SMTT(60), <1>1, Parts
  <1>3. InReach(st.player[a], st.player[b])
    BY ZenonT(60), SMTT(60) DEF Swap
  <1>4. Tried(st, t, 1).why = "OK" /\ Tried(st, t, 2).why = "OK"
    <2> DEFINE newA == Received(Given(st.player[a].bag, t.side[1]), t.side[2])
               newB == Received(Given(st.player[b].bag, t.side[2]), t.side[1])
               full == newA.why # "OK" \/ newB.why # "OK"
    <2>1. full => Swap(st.player, t).why # "DONE"
      <3>1. full => \/ Swap(st.player, t) = [why |-> "NOT_IN_REACH", player |-> st.player]
                    \/ Swap(st.player, t) = [why |-> "CHANGED", player |-> st.player]
                    \/ Swap(st.player, t) = [why |-> "FULL", player |-> st.player]
        BY ZenonT(60), SMTT(60) DEF Swap
      <3> HIDE DEF full
      <3>2. QED
        BY <3>1
    <2>2. newA.why = "OK" /\ newB.why = "OK"
      BY ZenonT(60), <2>1
    <2>3. Tried(st, t, 1) = newA /\ Tried(st, t, 2) = newB
      <3>1. 3 - 1 = 2 /\ 3 - 2 = 1
        OBVIOUS
      <3>2. QED
        BY ZenonT(60), <3>1 DEF Tried
    <2> HIDE DEF newA, newB
    <2>4. QED
      BY <2>2, <2>3
  <1>5. ASSUME NEW s \in 1 .. 2
        PROVE  /\ Bag0(s) \in Bag /\ Lawful(Bag0(s)) /\ t.side[s] \in Half
               /\ LaidOut(Bag0(s), t.side[s])
    <2>1. t.side[s] \in Half /\ t.side[s].player \in Player
      BY <1>2, SessionParts
    <2>2. LaidOut(Bag0(s), t.side[s])
      BY ZenonT(60), SMTT(60), <1>1 DEF Locks
    <2>3. QED
      BY ZenonT(60), SMTT(60), <1>1, <2>1, <2>2, Parts DEF Holds
  <1>6. /\ done.player[a].bag.cells = Tried(st, t, 1).bag.cells
        /\ done.player[a].bag.money = Tried(st, t, 1).bag.money
        /\ done.player[b].bag.cells = Tried(st, t, 2).bag.cells
        /\ done.player[b].bag.money = Tried(st, t, 2).bag.money
    <2>1. \A s \in 1 .. 2 :
             /\ done.player[t.side[s].player].bag.cells = Tried(st, t, s).bag.cells
             /\ done.player[t.side[s].player].bag.money = Tried(st, t, s).bag.money
      <3>1. OnlyBagsSwapped(st, t, done)
        BY ZenonT(60), SMTT(60), SwapDone
      <3> HIDE DEF done
      <3>2. QED
        BY ZenonT(60), SMTT(60), <3>1 DEF OnlyBagsSwapped
    <2> HIDE DEF done
    <2>2. QED
      BY ZenonT(60), SMTT(60), <2>1, TwoSides
  <1> HIDE DEF done
  <1>7. ASSUME NEW s \in 1 .. 2
        PROVE  Traded(st, done, t, s) /\ Lawful(done.player[t.side[s].player].bag)
    <2> DEFINE old == Bag0(s)
               gives == t.side[s]
               gets == t.side[3 - s]
               other == Bag0(3 - s)
               tried == Received(Given(old, gives), gets).bag
               new == done.player[t.side[s].player].bag
    <2>1. 3 - s \in 1 .. 2
      BY SMTT(120)
    <2>2. /\ old \in Bag /\ Lawful(old) /\ gives \in Half /\ LaidOut(old, gives)
          /\ Lawful(other) /\ gets \in Half /\ LaidOut(other, gets)
      BY ZenonT(60), <1>5, <2>1
    <2>3. /\ tried = Tried(st, t, s).bag
          /\ Received(Given(old, gives), gets).why = "OK"
      BY ZenonT(60), SMTT(60), <1>4, TwoSides DEF Tried
    <2>4. new.cells = Tried(st, t, s).bag.cells /\ new.money = Tried(st, t, s).bag.money
      BY ZenonT(60), SMTT(60), <1>6, TwoSides
    <2> HIDE DEF new
    <2> HIDE DEF old, other, gives, gets
    <2>5. /\ Lawful(tried) /\ tried.money = old.money - gives.money + gets.money
          /\ \A it \in Item : Owned(tried, it)
                = Owned(old, it) - Handed(gives.items, it) + Handed(gets.items, it)
      BY <2>2, <2>3, SwappedGoods
    <2> HIDE DEF tried
    <2>6. Lawful(new) /\ \A it \in Item : Owned(new, it) = Owned(tried, it)
      BY <2>3, <2>4, <2>5, OwnedByCells
    <2>7. new.money = tried.money
      BY SMTT(60), <2>3, <2>4
    <2>8. QED
      BY ZenonT(60), SMTT(60), <2>5, <2>6, <2>7 DEF Traded, new, old, gives, gets
  <1>8. QED
    BY ZenonT(60), SMTT(60), <1>3, <1>7 DEF done

\* Goods that are the same in a third state were moved there too.
LEMMA TradedThen ==
  ASSUME NEW st, NEW st2, NEW st3, NEW t, NEW s, Traded(st, st2, t, s),
         SameGoods(st2, st3, t.side[s].player)
  PROVE  Traded(st, st3, t, s)
  <1> DEFINE mid == st2.player[t.side[s].player].bag
             new == st3.player[t.side[s].player].bag
  <1>1. new.cells = mid.cells /\ new.money = mid.money
    BY ZenonT(60), SMTT(60) DEF SameGoods
  <1>2. \A it \in Item : Owned(new, it) = Owned(mid, it)
    BY ZenonT(60), SMTT(60), <1>1, OwnedByCells
  <1> DEFINE old == st.player[t.side[s].player].bag
             Due(it) == Owned(old, it) - Handed(t.side[s].items, it)
                           + Handed(t.side[3 - s].items, it)
             sum == old.money - t.side[s].money + t.side[3 - s].money
  <1>3. (\A it \in Item : Owned(mid, it) = Due(it)) /\ mid.money = sum
    BY ZenonT(60), SMTT(60) DEF Traded
  <1> HIDE DEF mid, new, Due, sum
  <1>4. (\A it \in Item : Owned(new, it) = Due(it)) /\ new.money = sum
    BY SMTT(60), ZenonT(60), <1>1, <1>2, <1>3
  <1>5. QED
    BY ZenonT(60), SMTT(60), <1>4 DEF Traded, new, Due, sum

\* A trade that both have closed moves everything or nothing, and touches nobody
\* else.
LEMMA TryExecuteSettles ==
  ASSUME NEW st, Good(st), Holds(st), NEW t \in st.sessions, NEW saving,
         \E s \in 1 .. 2 : t.side[s].closed
  PROVE  LET e == TryExecute(st, t, saving)
         IN  /\ Holds(e) /\ Settles(st, e, t)
             /\ \A p \in Player : /\ e.player[p].zone = st.player[p].zone
                                  /\ e.player[p].spot = st.player[p].spot
                                  /\ e.player[p].life = st.player[p].life
                                  /\ ~ Trades(t, p) => SameGoods(st, e, p)
  <1> DEFINE a == t.side[1].player
             b == t.side[2].player
             r == Swap(st.player, t)
             e == TryExecute(st, t, saving)
             Ends(x) == EndSession(x, t, NoOne)
  <1>1. st \in StateType /\ Locks(st) /\ Together(st)
    BY DEF Good
  <1>2. /\ t \in Session /\ a \in Player /\ b \in Player /\ a # b
        /\ \A s \in 1 .. 2 : t.side[s].player \in Player
    BY <1>1, Parts, SessionParts DEF Together, Met
  <1>3. ASSUME NEW x \in StateType
        PROVE  \A p \in Player : /\ Ends(x).player[p].zone = x.player[p].zone
                                 /\ Ends(x).player[p].spot = x.player[p].spot
                                 /\ Ends(x).player[p].life = x.player[p].life
                                 /\ SameGoods(x, Ends(x), p)
    BY <1>2, <1>3, EndSessionParts DEF SameGoods
  <1>4. ASSUME NEW x, \A p \in Player : /\ x.player[p].zone = st.player[p].zone
                                        /\ x.player[p].spot = st.player[p].spot
                                        /\ x.player[p].life = st.player[p].life
                                        /\ SameGoods(st, x, p)
        PROVE  /\ Holds(x) /\ Settles(st, x, t)
               /\ \A p \in Player : /\ x.player[p].zone = st.player[p].zone
                                    /\ x.player[p].spot = st.player[p].spot
                                    /\ x.player[p].life = st.player[p].life
                                    /\ ~ Trades(t, p) => SameGoods(st, x, p)
    <2>1. Holds(x)
      BY SMTT(60), ZenonT(60), <1>4, OwnedByCells DEF SameGoods, Holds
    <2>2. Settles(st, x, t)
      BY <1>2, <1>4 DEF Settles
    <2>3. QED
      BY <1>4, <2>1, <2>2
  <1> HIDE DEF Ends
  <1>5. CASE ~ Alive(st.player[a]) \/ ~ Alive(st.player[b])
    <2>1. e = Ends(st)
      BY ZenonT(60), SMTT(60), <1>5 DEF TryExecute, Ends
    <2> HIDE DEF e
    <2>2. QED
      BY SMTT(60), ZenonT(60), <1>1, <1>3, <1>4, <2>1 DEF e
  <1>6. CASE ~ (~ Alive(st.player[a]) \/ ~ Alive(st.player[b])) /\ saving \cap {a, b} # {}
    <2>1. e = Ends(st) \/ e = st
      BY <1>6 DEF TryExecute, WaitForStore, Ends
    <2>2. \A p \in Player : SameGoods(st, st, p)
      BY DEF SameGoods
    <2> HIDE DEF e
    <2>3. QED
      BY <1>1, <1>3, <1>4, <2>1, <2>2 DEF e
  <1>7. CASE /\ ~ (~ Alive(st.player[a]) \/ ~ Alive(st.player[b]))
             /\ ~ (saving \cap {a, b} # {}) /\ r.why # "DONE"
    <2> DEFINE kept == [st EXCEPT !.player = r.player, !.defect = @ \/ r.why = "CHANGED"]
    <2>1. e = Ends(kept)
      BY ZenonT(60), SMTT(60), <1>7 DEF TryExecute, Ends
    <2>2. r.player = st.player /\ r.why # "CHANGED"
      <3>1. SameAsOffered(st.player[a].bag, t.side[1])
            /\ SameAsOffered(st.player[b].bag, t.side[2])
        BY ZenonT(60), SMTT(60), <1>1, BothLaidOut
      <3>2. QED
        BY ZenonT(60), SMTT(60), <1>7, <3>1, SwapRefused
    <2>3. st.defect \in BOOLEAN
      BY <1>1, Parts
    <2> HIDE DEF r
    <2>4. kept \in StateType /\ kept.player = st.player
      BY <1>1, <2>2, <2>3 DEF StateType
    <2> HIDE DEF kept, e
    <2>5. \A p \in Player : /\ e.player[p].zone = st.player[p].zone
                            /\ e.player[p].spot = st.player[p].spot
                            /\ e.player[p].life = st.player[p].life
                            /\ SameGoods(st, e, p)
      BY SMTT(60), ZenonT(60), <1>3, <2>1, <2>4 DEF SameGoods
    <2>6. QED
      BY <1>4, <2>5 DEF e
  <1>8. CASE /\ ~ (~ Alive(st.player[a]) \/ ~ Alive(st.player[b]))
             /\ ~ (saving \cap {a, b} # {}) /\ r.why = "DONE"
    <2> DEFINE done == Swapped(st, t)
    <2>1. e = Ends(done)
      BY ZenonT(60), SMTT(60), <1>8 DEF TryExecute, Swapped, Ends
    <2>2. /\ done \in StateType
          /\ \A p \in Player :
                /\ done.player[p].zone = st.player[p].zone
                /\ done.player[p].spot = st.player[p].spot
                /\ done.player[p].life = st.player[p].life
                /\ ~ Trades(t, p) => done.player[p].bag = st.player[p].bag
      <3>1. OnlyBagsSwapped(st, t, done)
        BY ZenonT(60), SMTT(60), <1>8, SwapDone
      <3> HIDE DEF done
      <3>2. QED
        BY ZenonT(60), SMTT(60), <3>1 DEF OnlyBagsSwapped
    <2>3. /\ InReach(st.player[a], st.player[b])
          /\ \A s \in 1 .. 2 : /\ Traded(st, done, t, s)
                               /\ Lawful(done.player[t.side[s].player].bag)
      BY ZenonT(60), SMTT(60), <1>8, SwapMoves
    <2> HIDE DEF done, e
    <2>4. \A p \in Player : /\ e.player[p].zone = done.player[p].zone
                            /\ e.player[p].spot = done.player[p].spot
                            /\ e.player[p].life = done.player[p].life
                            /\ SameGoods(done, e, p)
      BY ZenonT(60), SMTT(60), <1>3, <2>1, <2>2
    <2>5. \A s \in 1 .. 2 : Traded(st, e, t, s)
      BY ZenonT(60), SMTT(60), <1>2, <2>3, <2>4, TradedThen
    <2>6. ReadyAt(st, t)
      BY ZenonT(60), SMTT(60), <1>8, <2>3, TwoSides DEF ReadyAt
    <2>7. \A p \in Player : Trades(t, p) => Lawful(done.player[p].bag)
      BY ZenonT(60), SMTT(60), <2>3, TwoSides DEF Trades
    <2>8. \A p \in Player : ~ Trades(t, p) => Lawful(done.player[p].bag)
      BY <2>2 DEF Holds
    <2>9. Holds(e)
      BY SMTT(60), ZenonT(60), <2>4, <2>7, <2>8, OwnedByCells DEF SameGoods, Holds
    <2>10. ASSUME NEW p \in Player
           PROVE  ~ Trades(t, p) => SameGoods(st, e, p)
      BY <2>2, <2>4 DEF SameGoods
    <2>11. Settles(st, e, t)
      BY <2>5, <2>6 DEF Settles
    <2>12. QED
      BY <2>2, <2>4, <2>9, <2>10, <2>11 DEF e
  <1>9. QED
    BY ZenonT(60), SMTT(60), <1>5, <1>6, <1>7, <1>8

-----------------------------------------------------------------------------
(* No step moves goods but a swap. *)

\* From st to st2, trades ended whole, and what lies in the bags fits.
Conserves(st, st2) == Holds(st2) /\ Whole(st, st2)

\* Nobody's goods were touched.
Still(st, st2) == \A p \in Player : SameGoods(st, st2, p)

LEMMA StillConserves ==
  ASSUME NEW st, Good(st), Holds(st), NEW st2, Still(st, st2)
  PROVE  Conserves(st, st2)
  <1>1. Holds(st2)
    BY OwnedByCells DEF Still, SameGoods, Holds
  <1>2. ASSUME NEW t \in st.sessions
        PROVE  Settles(st, st2, t)
    <2>1. \A s \in 1 .. 2 : t.side[s].player \in Player
      BY <1>2, Parts, SessionParts DEF Good
    <2>2. QED
      BY <2>1 DEF Still, Settles
  <1>3. QED
    BY <1>1, <1>2 DEF Conserves, Whole

LEMMA StillStill ==
  ASSUME NEW st, NEW mid, NEW st2, Still(st, mid), Still(mid, st2)
  PROVE  Still(st, st2)
  BY DEF Still, SameGoods

\* The state an action arrives at, and where it came from.
LEMMA Landed ==
  ASSUME NEW st \in StateType, Becomes(st)
  PROVE  State' = st
  BY DEF State, StateType, Becomes

LEMMA LandedStill ==
  ASSUME TradeInvariant, Holds(State), NEW st \in StateType, Still(State, st), Becomes(st)
  PROVE  Conserves(State, State')
  <1>1. State' = st
    BY Landed
  <1>2. Good(State)
    BY DEF TradeInvariant
  <1>3. Conserves(State, st)
    BY <1>2, StillConserves
  <1>4. QED
    BY <1>1, <1>3

\* A bag that changes ends no trade.
LEMMA WithBagConserves ==
  ASSUME TradeInvariant, Holds(State), NEW p \in Player, Online(p),
         NEW bag, Tended(player[p].bag, bag), Lawful(bag), WithBag(p, bag)
  PROVE  Conserves(State, State')
  <1> DEFINE pl == Rebagged(player[p], bag)
  <1>1. /\ player[p] \in PlayerState /\ player[p].zone # Out
        /\ Good(State) /\ State.player = player /\ State.sessions = sessions
        /\ player \in [Player -> PlayerState]
    BY Here DEF Online
  <1>2. Shows(player[p])
    BY <1>1 DEF Good
  <1>3. bag \in Bag /\ Noted(player[p].bag, bag)
    BY DEF Tended
  <1>4. pl \in PlayerState /\ pl.bag.cells = bag.cells
    BY <1>1, <1>2, <1>3, RebaggedShows
  <1>5. player' = [player EXCEPT ![p] = pl]
    BY DEF WithBag, Rebagged
  <1>6. sessions' = sessions
    BY DEF WithBag
  <1> HIDE DEF pl
  <1>7. State'.player = player' /\ State'.sessions = sessions
    BY <1>6 DEF State
  <1>8. ASSUME NEW q \in Player
        PROVE  Lawful(player'[q].bag)
    <2>1. CASE q = p
      BY <1>1, <1>4, <1>5, <2>1, OwnedByCells
    <2>2. CASE q # p
      BY <1>1, <1>5, <2>2 DEF Holds
    <2>3. QED
      BY <2>1, <2>2
  <1>9. Holds(State')
    BY <1>7, <1>8 DEF Holds
  <1>10. Whole(State, State')
    BY <1>1, <1>7 DEF Whole, Persists
  <1>11. QED
    BY <1>9, <1>10 DEF Conserves

LEMMA UseAndEquipConserve ==
  ASSUME TradeInvariant, Holds(State), NEW p \in Player, NEW i \in Index,
         UseItem(p, i) \/ Equip(p, i)
  PROVE  Conserves(State, State')
  <1> DEFINE bag == player[p].bag
  <1>1. bag \in Bag /\ Good(State) /\ State.player = player
    BY Here
  <1>2. LockedHold(bag) /\ Lawful(bag)
    BY <1>1, HoldsLocked DEF Holds
  <1>3. CASE UseItem(p, i)
    <2>1. CanUse(bag, i) /\ Online(p) /\ WithBag(p, RemoveFrom(bag, i, 1))
      BY <1>3 DEF UseItem
    <2>2. Tended(bag, RemoveFrom(bag, i, 1)) /\ Lawful(RemoveFrom(bag, i, 1))
      BY <1>1, <1>2, <2>1, UseTends, RemoveFromFits
    <2>3. QED
      BY <2>1, <2>2, WithBagConserves
  <1>4. CASE Equip(p, i)
    <2>1. Online(p)
      BY <1>4 DEF Equip
    <2>2. CASE CanEquip(bag, i) /\ WithBag(p, Equipped(bag, i))
      <3>1. Tended(bag, Equipped(bag, i)) /\ Lawful(Equipped(bag, i))
        BY <1>1, <1>2, <2>2, EquipTends, EquipFits
      <3>2. QED
        BY <2>1, <2>2, <3>1, WithBagConserves
    <2>3. CASE CanUnequip(bag, i) /\ WithBag(p, Unequipped(bag, i))
      <3>1. Tended(bag, Unequipped(bag, i)) /\ Lawful(Unequipped(bag, i))
        BY <1>1, <1>2, <2>3, UnequipTends, UnequipFits
      <3>2. QED
        BY <2>1, <2>3, <3>1, WithBagConserves
    <2>4. QED
      BY <1>4, <2>2, <2>3 DEF Equip
  <1>5. QED
    BY <1>3, <1>4

LEMMA ShopConserves ==
  ASSUME TradeInvariant, Holds(State), NEW p \in Player, NEW n \in Amount,
         \/ \E it \in Item : Buy(p, it, n) \/ Gain(p, it, n)
         \/ \E i \in Index : Sell(p, i, n)
  PROVE  Conserves(State, State')
  <1> DEFINE bag == player[p].bag
  <1>1. n \in Int
    BY TradeAssumption DEF Amount
  <1>2. bag \in Bag /\ State.player = player
    BY Here
  <1>3. Lawful(bag)
    BY <1>2 DEF Holds
  <1>4. ASSUME NEW it \in Item, Buy(p, it, n)
        PROVE  Conserves(State, State')
    <2>1. CanBuy(bag, it, n) /\ Online(p) /\ WithBag(p, Bought(bag, it, n))
      BY <1>4 DEF Buy
    <2>2. Tended(bag, Bought(bag, it, n)) /\ Lawful(Bought(bag, it, n))
      BY <1>1, <1>2, <1>3, <2>1, BuyTends, BuyFits
    <2>3. QED
      BY <2>1, <2>2, WithBagConserves
  <1>5. ASSUME NEW it \in Item, Gain(p, it, n)
        PROVE  Conserves(State, State')
    <2>1. Online(p) /\ WithBag(p, TryAdd(bag, it, n).bag)
      BY <1>5 DEF Gain
    <2>2. Tended(bag, TryAdd(bag, it, n).bag) /\ Lawful(TryAdd(bag, it, n).bag)
      BY <1>1, <1>2, <1>3, GainTends, TryAddFits
    <2>3. QED
      BY <2>1, <2>2, WithBagConserves
  <1>6. ASSUME NEW i \in Index, Sell(p, i, n)
        PROVE  Conserves(State, State')
    <2>1. CanSell(bag, i, n) /\ Online(p) /\ WithBag(p, Sold(bag, i, n))
      BY <1>6 DEF Sell
    <2>2. Tended(bag, Sold(bag, i, n)) /\ Lawful(Sold(bag, i, n))
      BY <1>1, <1>2, <1>3, <2>1, SellTends, SellFits
    <2>3. QED
      BY <2>1, <2>2, WithBagConserves
  <1>7. QED
    BY <1>4, <1>5, <1>6

\* Every bag holds what it held.
LEMMA BagsAsTheyWere ==
  ASSUME TradeInvariant, Holds(State),
         \A q \in Player : /\ player'[q].bag.cells = player[q].bag.cells
                           /\ player'[q].bag.money = player[q].bag.money
  PROVE  Conserves(State, State')
  <1>1. State'.player = player' /\ State.player = player /\ Good(State)
    BY Here DEF State
  <1>2. Still(State, State')
    BY <1>1 DEF Still, SameGoods
  <1>3. QED
    BY <1>1, <1>2, StillConserves

LEMMA OneWithItsBag ==
  ASSUME TradeInvariant, Holds(State), NEW p \in Player, NEW pl,
         player' = [player EXCEPT ![p] = pl],
         pl.bag.cells = player[p].bag.cells, pl.bag.money = player[p].bag.money
  PROVE  Conserves(State, State')
  <1>1. player \in [Player -> PlayerState]
    BY Here
  <1>2. \A q \in Player : player'[q] = IF q = p THEN pl ELSE player[q]
    BY <1>1
  <1>3. QED
    BY <1>2, BagsAsTheyWere

LEMMA WalkDieAskConserve ==
  ASSUME TradeInvariant, Holds(State), NEW p \in Player,
         \/ Die(p) \/ \E spot \in Spot : Walk(p, spot)
         \/ \E q \in Player : AskFor(q, p)
  PROVE  Conserves(State, State')
  <1>1. player[p] \in PlayerState
    BY Here
  <1>2. CASE Die(p)
    <2> DEFINE pl == [player[p] EXCEPT !.life = "dying"]
    <2>1. player' = [player EXCEPT ![p] = pl] /\ pl.bag = player[p].bag
      BY <1>1, <1>2 DEF Die, PlayerState
    <2> HIDE DEF pl
    <2>2. QED
      BY <2>1, OneWithItsBag
  <1>3. ASSUME NEW spot \in Spot, Walk(p, spot)
        PROVE  Conserves(State, State')
    <2> DEFINE pl == [player[p] EXCEPT !.spot = spot]
    <2>1. player' = [player EXCEPT ![p] = pl] /\ pl.bag = player[p].bag
      BY <1>1, <1>3 DEF Walk, PlayerState
    <2> HIDE DEF pl
    <2>2. QED
      BY <2>1, OneWithItsBag
  <1>4. ASSUME NEW q \in Player, AskFor(q, p)
        PROVE  Conserves(State, State')
    <2> DEFINE pl == [player[p] EXCEPT !.ask = nextId]
    <2>1. player' = [player EXCEPT ![p] = [@ EXCEPT !.ask = nextId]]
      <3>1. player' = [player EXCEPT ![p].ask = nextId]
        BY <1>4 DEF AskFor
      <3>2. QED
        BY <3>1
    <2>2. player' = [player EXCEPT ![p] = pl] /\ pl.bag = player[p].bag
      BY <1>1, <2>1 DEF PlayerState
    <2> HIDE DEF pl
    <2>3. QED
      BY <2>2, OneWithItsBag
  <1>5. QED
    BY <1>2, <1>3, <1>4

LEMMA EndRequestsStill ==
  ASSUME NEW st \in StateType, NEW gone, NEW skip
  PROVE  Still(st, EndRequests(st, gone, skip)) /\ EndRequests(st, gone, skip) \in StateType
  BY EndRequestsParts DEF Still, SameGoods

LEMMA EndSessionStill ==
  ASSUME NEW st, Good(st), NEW t \in st.sessions
  PROVE  /\ Still(st, EndSession(st, t, NoOne))
         /\ EndSession(st, t, NoOne) \in StateType
  <1>1. t \in Session /\ t.side[1].player # t.side[2].player /\ st \in StateType
    BY Parts DEF Good, Together, Met
  <1>2. QED
    BY <1>1, EndSessionParts DEF Still, SameGoods

LEMMA ClickedStill ==
  ASSUME TradeInvariant, NEW me \in Player
  PROVE  Still(State, Clicked(me)) /\ Clicked(me) \in StateType
  <1>1. State.player = player
    BY Here
  <1>2. QED
    BY <1>1, ClickedParts DEF Still, SameGoods

LEMMA AnsweredStill ==
  ASSUME TradeInvariant, NEW me \in Player, NEW gone
  PROVE  /\ Still(State, EndRequests(Clicked(me), gone, NoOne))
         /\ EndRequests(Clicked(me), gone, NoOne) \in StateType
  BY ClickedStill, EndRequestsStill, StillStill

LEMMA DeclineConserves ==
  ASSUME TradeInvariant, Holds(State), NEW me \in Player, Decline(me)
  PROVE  Conserves(State, State')
  <1>1. Becomes(EndRequests(Clicked(me), Asked(me), NoOne))
    BY DEF Decline
  <1>2. QED
    BY <1>1, AnsweredStill, LandedStill

LEMMA CancelConserves ==
  ASSUME TradeInvariant, Holds(State), NEW me \in Player, Cancel(me)
  PROVE  Conserves(State, State')
  <1>1. Good(State) /\ State \in StateType /\ State.sessions = sessions
    BY Here
  <1>2. CASE InTrade(me)
    <2>1. SessionOf(me) \in State.sessions
      BY <1>1, <1>2, SessionFound
    <2>2. Becomes(EndSession(State, SessionOf(me), NoOne))
      BY <1>2 DEF Cancel
    <2>3. QED
      BY <1>1, <2>1, <2>2, EndSessionStill, LandedStill
  <1>3. CASE ~ InTrade(me)
    <2>1. PICK r \in {r \in requests : r.from = me} : Becomes(EndRequests(State, {r}, me))
      BY <1>3 DEF Cancel
    <2>2. QED
      BY <1>1, <2>1, EndRequestsStill, LandedStill
  <1>4. QED
    BY <1>2, <1>3

LEMMA AcceptConserves ==
  ASSUME TradeInvariant, Holds(State), NEW me \in Player, Accept(me)
  PROVE  Conserves(State, State')
  <1> DEFINE Opened(r) ==
               LET t == BareTrade(r.from, me)
                   taken == [Clicked(me) EXCEPT !.requests = @ \ {r}]
               IN  [taken EXCEPT !.sessions = @ \cup {t}, !.player = SendState(@, t)]
  <1>1. PICK r \in Asked(me) : \/ Becomes(Opened(r))
                               \/ Becomes(EndRequests(Clicked(me), {r}, NoOne))
    BY ZenonT(60) DEF Accept, BareTrade
  <1>2. CASE Becomes(Opened(r))
    <2> DEFINE t == BareTrade(r.from, me)
    <2>1. /\ Together(State) /\ State.requests = requests /\ requests \subseteq Request
          /\ State.player = player
      BY Here DEF Good
    <2>2. r \in State.requests /\ r.to = me /\ r.from \in Player
      BY <2>1, RequestParts DEF Asked
    <2>3. r.from # me
      BY <2>1, <2>2 DEF Together, Met
    <2>4. /\ t \in Session /\ t.side[1] = BareHalf(r.from) /\ t.side[2] = BareHalf(me)
      BY <2>2, BareTradeParts
    <2>5. t.side[1].player # t.side[2].player
      BY <2>3, <2>4 DEF BareHalf
    <2> HIDE DEF t
    <2>6. /\ Clicked(me).player \in [Player -> PlayerState]
          /\ \A p \in Player : Clicked(me).player[p].bag = player[p].bag
      BY ClickedParts, Parts
    <2>7. \A p \in Player :
             SendState(Clicked(me).player, t)[p].bag = Clicked(me).player[p].bag
      BY SMTT(60), ZenonT(60), <2>4, <2>5, <2>6, SendStateParts
    <2>8. player' = SendState(Clicked(me).player, t)
      <3>1. Clicked(me) \in StateType
        BY ClickedParts
      <3>2. player' = Opened(r).player
        BY <1>2 DEF Becomes
      <3>3. QED
        BY <3>1, <3>2 DEF StateType, t
    <2>9. QED
      BY <2>6, <2>7, <2>8, BagsAsTheyWere
  <1>3. CASE Becomes(EndRequests(Clicked(me), {r}, NoOne))
    BY <1>3, AnsweredStill, LandedStill
  <1>4. QED
    BY <1>1, <1>2, <1>3

LEMMA DropStill ==
  ASSUME NEW st, Good(st), NEW p \in Player
  PROVE  Still(st, Drop(st, p, NoOne))
  <1> DEFINE gone == {r \in st.requests : Involves(r, p)}
             mine == {t \in st.sessions : Trades(t, p)}
             idle == EndRequests(st, gone, NoOne)
             t == CHOOSE t \in mine : TRUE
  <1>1. st \in StateType /\ Together(st)
    BY DEF Good
  <1>2. Still(st, idle) /\ idle \in StateType
    BY <1>1, EndRequestsStill
  <1>3. Drop(st, p, NoOne) = IF mine = {} THEN idle ELSE EndSession(idle, t, NoOne)
    BY DEF Drop
  <1> HIDE DEF idle
  <1>4. CASE mine = {}
    BY <1>2, <1>3, <1>4
  <1>5. CASE mine # {}
    <2>1. t \in st.sessions
      BY <1>5
    <2> HIDE DEF t
    <2>2. t \in Session /\ t.side[1].player # t.side[2].player
      BY SMTT(60), ZenonT(60), <1>1, <2>1, Parts DEF Together, Met
    <2>3. Still(idle, EndSession(idle, t, NoOne))
      BY SMTT(60), ZenonT(60), <1>2, <2>2, EndSessionParts DEF Still, SameGoods
    <2>4. QED
      BY <1>2, <1>3, <1>5, <2>3, StillStill
  <1>6. QED
    BY <1>4, <1>5

LEMMA PlacedStill ==
  ASSUME NEW st \in StateType, NEW p \in Player, NEW pl, pl.bag = st.player[p].bag
  PROVE  Still(st, Placed(st, p, pl))
  <1>1. st.player \in [Player -> PlayerState]
    BY Parts
  <1>2. Placed(st, p, pl).player = [st.player EXCEPT ![p] = pl]
    BY DEF Placed, StateType
  <1>3. \A q \in Player : Placed(st, p, pl).player[q] = IF q = p THEN pl ELSE st.player[q]
    BY <1>1, <1>2
  <1>4. QED
    BY <1>3 DEF Still, SameGoods

LEMMA MovedStill ==
  ASSUME NEW st, Good(st), NEW p \in Player, NEW zone
  PROVE  Still(st, Moved(st, p, zone))
  <1> DEFINE d == Drop(st, p, NoOne)
             was == d.player[p]
             pl == [was EXCEPT !.zone = zone, !.spot = Min(Spot)]
  <1>1. Good(d) /\ Still(st, d)
    BY DropGood, DropStill
  <1>2. Moved(st, p, zone) = Placed(d, p, pl)
    BY DEF Moved, Placed
  <1> HIDE DEF d
  <1>3. d \in StateType /\ was \in PlayerState
    BY <1>1, Parts DEF Good
  <1>4. pl.bag = was.bag
    BY <1>3 DEF PlayerState
  <1> HIDE DEF pl
  <1>5. QED
    BY <1>1, <1>2, <1>3, <1>4, PlacedStill, StillStill

LEMMA TransferConserves ==
  ASSUME TradeInvariant, Holds(State), NEW p \in Player, NEW zone \in Zone,
         TransferPlayer(p, zone)
  PROVE  Conserves(State, State')
  <1>1. Good(State) /\ State.player = player
    BY Here
  <1>2. State.player[p].zone # Out
    BY <1>1 DEF TransferPlayer, Online
  <1>3. Moved(State, p, zone) \in StateType /\ Still(State, Moved(State, p, zone))
    BY <1>1, <1>2, MovedGood, MovedStill DEF Good
  <1>4. Becomes(Moved(State, p, zone))
    BY DEF TransferPlayer
  <1>5. QED
    BY <1>3, <1>4, LandedStill

LEMMA RespawnConserves ==
  ASSUME TradeInvariant, Holds(State), NEW p \in Player, NEW zone \in Zone, Respawn(p, zone)
  PROVE  Conserves(State, State')
  <1> DEFINE pl == [player[p] EXCEPT !.life = "alive"]
             up == [State EXCEPT !.player[p].life = "alive"]
  <1>1. /\ State.player = player /\ player[p] \in PlayerState /\ player[p].zone # Out
        /\ State \in StateType
    BY Here DEF Respawn, Online
  <1>2. up = Placed(State, p, pl) /\ pl.bag = State.player[p].bag /\ pl.zone = player[p].zone
    BY <1>1 DEF Placed, State, PlayerState
  <1> HIDE DEF up, pl
  <1>3. Still(State, up) /\ up.player[p].zone # Out
    <2>1. Still(State, up)
      BY <1>1, <1>2, PlacedStill
    <2>2. up.player = [player EXCEPT ![p] = pl]
      BY <1>1, <1>2 DEF Placed, StateType
    <2>3. up.player[p] = pl
      BY <1>1, <2>2, Here
    <2>4. QED
      BY <1>1, <1>2, <2>1, <2>3
  <1>4. Good(up)
    BY UpGood, <1>1 DEF up
  <1>5. /\ Good(Moved(up, p, zone)) /\ Still(State, Moved(up, p, zone))
    BY <1>3, <1>4, MovedGood, MovedStill, StillStill
  <1>6. Becomes(up) \/ Becomes(Moved(up, p, zone))
    BY DEF Respawn, up
  <1>7. QED
    BY <1>3, <1>4, <1>5, <1>6, LandedStill DEF Good

LEMMA LeaveConserves ==
  ASSUME TradeInvariant, Holds(State), NEW p \in Player, LeaveGame(p)
  PROVE  Conserves(State, State')
  <1> DEFINE once == Drop(State, p, NoOne)
             d == Drop(once, p, p)
             was == d.player[p]
             pl == [was EXCEPT !.zone = Out, !.life = "alive", !.spot = Min(Spot),
                               !.ask = 0, !.win = NoWin]
  <1>1. Good(State)
    BY Here
  <1>2. /\ Good(once) /\ (\A r \in once.requests : ~ Involves(r, p)) /\ TradesNot(once, p)
        /\ Still(State, once)
    BY <1>1, DropGood, DropStill
  <1>3. Becomes(Placed(d, p, pl))
    BY DEF LeaveGame, Placed
  <1> HIDE DEF once
  <1>4. Good(d)
    BY <1>2, DropAgain
  <1>5. Still(once, d)
    <2> DEFINE gone == {r \in once.requests : Involves(r, p)}
    <2>1. {t \in once.sessions : Trades(t, p)} = {} /\ once \in StateType
      BY <1>2 DEF TradesNot, Good
    <2>2. d = EndRequests(once, gone, p)
      BY <2>1 DEF Drop
    <2> HIDE DEF gone
    <2>3. QED
      BY <2>1, <2>2, EndRequestsStill
  <1> HIDE DEF d
  <1>6. d \in StateType /\ was \in PlayerState
    BY <1>4, Parts DEF Good
  <1>7. pl.bag = was.bag
    <2> DEFINE half == [was EXCEPT !.zone = Out, !.life = "alive", !.spot = Min(Spot)]
    <2>1. half.bag = was.bag /\ pl = [half EXCEPT !.ask = 0, !.win = NoWin]
          /\ "bag" \in DOMAIN half
      BY <1>6 DEF PlayerState
    <2> HIDE DEF half
    <2>2. QED
      BY <2>1
  <1> HIDE DEF pl
  <1>8. Still(State, Placed(d, p, pl))
    BY <1>2, <1>5, <1>6, <1>7, PlacedStill, StillStill
  <1>9. player' = Placed(d, p, pl).player
    BY <1>3 DEF Becomes
  <1>10. State.player = player
    BY Here
  <1> HIDE DEF Placed
  <1>11. QED
    BY <1>8, <1>9, <1>10, BagsAsTheyWere DEF Still, SameGoods

LEMMA EnterConserves ==
  ASSUME TradeInvariant, Holds(State), NEW p \in Player, NEW zone, EnterGame(p, zone)
  PROVE  Conserves(State, State')
  <1> DEFINE was == player[p]
             bag == Loaded(was.bag.cells, was.bag.money)
             pl == [was EXCEPT !.zone = zone, !.bag = bag,
                               !.shown = [cells |-> bag.cells, money |-> bag.money]]
  <1>1. was \in PlayerState
    BY Here
  <1>2. player' = [player EXCEPT ![p] = pl]
    BY DEF EnterGame
  <1>3. bag.cells = was.bag.cells /\ bag.money = was.bag.money
    BY DEF Loaded
  <1> HIDE DEF bag
  <1>4. pl.bag = bag
    BY <1>1 DEF PlayerState
  <1> HIDE DEF pl
  <1>5. QED
    BY <1>2, <1>3, <1>4, OneWithItsBag

-----------------------------------------------------------------------------
(* Trades that end. *)

\* Who stands where, and lives.
SamePlace(st, st2, p) ==
    /\ st2.player[p].zone = st.player[p].zone
    /\ st2.player[p].spot = st.player[p].spot
    /\ st2.player[p].life = st.player[p].life

\* A trade settled from a state that is no different for its two players.
LEMMA SettledSince ==
  ASSUME NEW st, NEW mid, NEW st2, NEW t, NEW u,
         \A s \in 1 .. 2 : /\ u.side[s].player = t.side[s].player
                           /\ u.side[s].items = t.side[s].items
                           /\ u.side[s].money = t.side[s].money
                           /\ SamePlace(st, mid, t.side[s].player)
                           /\ SameGoods(st, mid, t.side[s].player),
         (\E s \in 1 .. 2 : u.side[s].closed) => \E s \in 1 .. 2 : t.side[s].closed,
         Settles(mid, st2, u)
  PROVE  Settles(st, st2, t)
  <1>1. CASE \A s \in 1 .. 2 : SameGoods(mid, st2, u.side[s].player)
    <2>1. \A s \in 1 .. 2 : SameGoods(st, mid, t.side[s].player)
                            /\ SameGoods(mid, st2, t.side[s].player)
      BY ZenonT(60), SMTT(60), <1>1
    <2>2. \A s \in 1 .. 2 : SameGoods(st, st2, t.side[s].player)
      BY ZenonT(60), <2>1 DEF SameGoods
    <2>3. QED
      BY <2>2 DEF Settles
  <1>2. CASE ReadyAt(mid, u) /\ \A s \in 1 .. 2 : Traded(mid, st2, u, s)
    <2>1. ReadyAt(st, t)
      <3>1. \A s \in 1 .. 2 : Alive(st.player[t.side[s].player])
        <4>1. \A s \in 1 .. 2 : Alive(mid.player[t.side[s].player])
          BY ZenonT(60), SMTT(60), <1>2 DEF ReadyAt
        <4>2. QED
          BY ZenonT(60), SMTT(60), <4>1 DEF Alive, SamePlace
      <3>2. InReach(st.player[t.side[1].player], st.player[t.side[2].player])
        <4> DEFINE a == t.side[1].player
                   b == t.side[2].player
        <4>1. u.side[1].player = a /\ u.side[2].player = b
              /\ SamePlace(st, mid, a) /\ SamePlace(st, mid, b)
          BY SMTT(60), ZenonT(60), TwoSides
        <4>2. InReach(mid.player[a], mid.player[b])
          BY ZenonT(60), SMTT(60), <1>2, <4>1 DEF ReadyAt
        <4> HIDE DEF a, b
        <4>3. InReach(st.player[a], st.player[b])
          BY ZenonT(60), SMTT(60), <4>1, <4>2 DEF InReach, SamePlace
        <4>4. QED
          BY ZenonT(60), SMTT(60), <4>3 DEF a, b
      <3>3. QED
        BY ZenonT(60), SMTT(60), <1>2, <3>1, <3>2 DEF ReadyAt
    <2>2. ASSUME NEW s \in 1 .. 2
          PROVE  Traded(st, st2, t, s)
      <3> DEFINE p == t.side[s].player
      <3>1. /\ u.side[s].player = p /\ u.side[s].items = t.side[s].items
            /\ u.side[s].money = t.side[s].money
            /\ u.side[3 - s].items = t.side[3 - s].items
            /\ u.side[3 - s].money = t.side[3 - s].money
        <4>1. 3 - s \in 1 .. 2
          OBVIOUS
        <4>2. QED
          BY <4>1
      <3>2. SameGoods(st, mid, p) /\ Traded(mid, st2, u, s)
        BY <1>2
      <3>3. /\ \A it \in Item : Owned(mid.player[p].bag, it) = Owned(st.player[p].bag, it)
            /\ mid.player[p].bag.money = st.player[p].bag.money
        BY ZenonT(120), <3>2, OwnedByCells DEF SameGoods
      <3>4. QED
        BY ZenonT(120), <3>1, <3>2, <3>3 DEF Traded
    <2>3. QED
      BY <2>1, <2>2 DEF Settles
  <1>3. QED
    BY <1>1, <1>2 DEF Settles

\* A settled trade stays so while the goods of its two are not touched.
LEMMA SettledThen ==
  ASSUME NEW st, NEW mid, NEW st2, NEW t, Settles(st, mid, t),
         \A s \in 1 .. 2 : SameGoods(mid, st2, t.side[s].player)
  PROVE  Settles(st, st2, t)
  <1>1. CASE \A s \in 1 .. 2 : SameGoods(st, mid, t.side[s].player)
    BY ZenonT(60), <1>1 DEF SameGoods, Settles
  <1>2. CASE ReadyAt(st, t) /\ \A s \in 1 .. 2 : Traded(st, mid, t, s)
    BY <1>2, TradedThen DEF Settles
  <1>3. QED
    BY ZenonT(60), SMTT(60), <1>1, <1>2 DEF Settles

\* Both bags are sent to both windows and nothing is moved.
LEMMA RenewedStill ==
  ASSUME TradeInvariant, NEW t \in sessions, NEW u \in Session,
         \A s \in 1 .. 2 : u.side[s].player = t.side[s].player,
         NEW players \in [Player -> PlayerState],
         \A p \in Player : /\ players[p].zone = player[p].zone
                           /\ players[p].spot = player[p].spot
                           /\ players[p].life = player[p].life
                           /\ players[p].bag.cells = player[p].bag.cells
                           /\ players[p].bag.money = player[p].bag.money
  PROVE  LET told == Renewed(players, t, u)
         IN  /\ told \in StateType /\ Still(State, told)
             /\ told.sessions = (sessions \ {t}) \cup {u}
             /\ \A p \in Player : SamePlace(State, told, p)
  <1> DEFINE told == Renewed(players, t, u)
             new == SendState(players, u)
  <1>1. /\ State \in StateType /\ State.player = player /\ State.sessions = sessions
        /\ sessions \subseteq Session /\ Together(State)
    BY Here DEF Good
  <1>2. u.side[1].player # u.side[2].player
    <2>1. u.side[1].player = t.side[1].player /\ u.side[2].player = t.side[2].player
      BY TwoSides
    <2>2. QED
      BY <1>1, <2>1 DEF Together, Met
  <1>3. /\ new \in [Player -> PlayerState]
        /\ \A p \in Player : /\ new[p].zone = players[p].zone
                             /\ new[p].spot = players[p].spot
                             /\ new[p].life = players[p].life
                             /\ new[p].bag = players[p].bag
    BY ZenonT(60), SMTT(60), <1>2, SendStateParts, ZenonT(60)
  <1> HIDE DEF new
  <1>4. /\ told \in StateType /\ told.player = new
        /\ told.sessions = (sessions \ {t}) \cup {u}
    BY <1>1, <1>3 DEF StateType, State, Renewed, new
  <1> HIDE DEF told
  <1>5. \A p \in Player : SamePlace(State, told, p) /\ SameGoods(State, told, p)
    BY <1>1, <1>3, <1>4 DEF SamePlace, SameGoods
  <1>6. QED
    BY <1>4, <1>5 DEF Still, told

LEMMA LayOutConserves ==
  ASSUME TradeInvariant, Holds(State), NEW me \in Player,
         NEW bag, bag \in Bag,
         bag.cells = player[me].bag.cells, bag.money = player[me].bag.money, Open(me),
         NEW half \in Half, half.player = me,
         Becomes(WithHalf([State EXCEPT !.player[me].bag = bag], SessionOf(me), me, half))
  PROVE  Conserves(State, State')
  <1> DEFINE t == SessionOf(me)
             s == SideOf(t, me)
             u == [t EXCEPT !.side[s] = half]
             pl == [player[me] EXCEPT !.bag = bag]
             players == [player EXCEPT ![me] = pl]
  <1>1. /\ t \in sessions /\ t \in Session
        /\ s \in 1 .. 2 /\ t.side[s].player = me
    BY OpenParts
  <1>2. player \in [Player -> PlayerState] /\ player[me] \in PlayerState
    BY Here
  <1>3. WithHalf([State EXCEPT !.player[me].bag = bag], t, me, half) = Renewed(players, t, u)
    BY DEF WithHalf, Renewed, State
  <1>4. Becomes(Renewed(players, t, u))
    BY <1>3
  <1> HIDE DEF t
  <1> HIDE DEF s
  <1>5. t.side \in [1 .. 2 -> Half]
    BY <1>1, SessionParts
  <1>6. u \in Session /\ \A k \in 1 .. 2 : u.side[k] = IF k = s THEN half ELSE t.side[k]
    BY <1>1, <1>5 DEF Session
  <1> HIDE DEF u
  <1>7. \A k \in 1 .. 2 : u.side[k].player = t.side[k].player
    BY <1>1, <1>6
  <1>8. /\ pl \in PlayerState /\ pl.zone = player[me].zone /\ pl.bag = bag
        /\ pl.spot = player[me].spot /\ pl.life = player[me].life
    BY <1>2 DEF PlayerState
  <1> HIDE DEF pl
  <1>9. /\ players \in [Player -> PlayerState] /\ players[me] = pl
        /\ \A p \in Player : p # me => players[p] = player[p]
    BY <1>2, <1>8
  <1> HIDE DEF players
  <1>10. \A p \in Player : /\ players[p].zone = player[p].zone
                           /\ players[p].spot = player[p].spot
                           /\ players[p].life = player[p].life
                           /\ players[p].bag.cells = player[p].bag.cells
                           /\ players[p].bag.money = player[p].bag.money
    BY <1>8, <1>9
  <1>11. Renewed(players, t, u) \in StateType /\ Still(State, Renewed(players, t, u))
    BY ZenonT(60), SMTT(60), <1>1, <1>6, <1>7, <1>9, <1>10, RenewedStill
  <1>12. QED
    BY <1>4, <1>11, LandedStill

LEMMA OffersConserve ==
  ASSUME TradeInvariant, Holds(State), NEW me \in Player, NEW n \in Amount,
         AddMoney(me, n) \/ \E i \in Index : LayOut(me, i, n)
  PROVE  Conserves(State, State')
  <1> DEFINE t == SessionOf(me)
             half == t.side[SideOf(t, me)]
             bag == player[me].bag
  <1>1. bag \in Bag
    BY ZenonT(60), SMTT(60), Here
  <1>2. Open(me)
    BY ZenonT(60), SMTT(60) DEF AddMoney, LayOut
  <1>3. half \in Half /\ half.player = me /\ LaidOut(bag, half)
    BY <1>2, OpenParts
  <1>4. CASE AddMoney(me, n)
    <2> DEFINE new == LockMoney(bag, n)
               half2 == [half EXCEPT !.money = @ + n]
    <2>1. n \in 1 .. (bag.money - bag.lockedMoney)
      BY <1>4 DEF AddMoney, SpendableMoney
    <2>2. Becomes(WithHalf([State EXCEPT !.player[me].bag = new], t, me, half2))
      BY <1>4 DEF AddMoney, State
    <2>3. bag.money \in 0 .. MoneyMax /\ bag.lockedMoney \in 0 .. MoneyMax /\ MoneyMax \in Nat
      BY ZenonT(60), SMTT(60), <1>1, InventoryAssumption DEF Bag
    <2>4. bag.lockedMoney = half.money
      BY ZenonT(60), <1>3 DEF LaidOut, SameAsOffered
    <2> HIDE DEF half, bag
    <2>5. bag.lockedMoney + n \in 0 .. MoneyMax
      BY <2>1, <2>3
    <2>6. new \in Bag /\ new.cells = bag.cells /\ new.money = bag.money
      BY <1>1, <2>5 DEF LockMoney, Bag
    <2>7. half2 \in Half /\ half2.player = me
      BY <1>3, <2>4, <2>5 DEF Half
    <2> HIDE DEF new, half2
    <2>8. QED
      BY <1>2, <2>2, <2>6, <2>7, LayOutConserves DEF bag
  <1>5. ASSUME NEW i \in Index, LayOut(me, i, n)
        PROVE  Conserves(State, State')
    <2> DEFINE o == [index |-> i, item |-> bag.cells[i].item, count |-> n]
               new == LockSlot(bag, i)
               half2 == [half EXCEPT !.items = Append(@, o)]
    <2>1. /\ i \in Index \ Worn /\ bag.cells[i].item # NoItem /\ i \notin bag.locked
          /\ n \in 1 .. bag.cells[i].count
      BY ZenonT(60), <1>5 DEF LayOut
    <2>2. bag.cells[i] \in Cell
      BY <1>1 DEF Bag
    <2>3. /\ o \in Offer /\ o.index = i /\ bag.cells[i].item = o.item
          /\ bag.cells[i].count >= o.count
      <3> DEFINE cell == bag.cells[i]
      <3>1. /\ cell.item \in Item /\ cell.count \in Nat
            /\ n \in 1 .. cell.count
        BY <2>1, <2>2 DEF Cell
      <3> HIDE DEF cell
      <3>2. n \in Nat \ {0} /\ cell.count >= n
        BY <3>1
      <3>3. o = [index |-> i, item |-> cell.item, count |-> n]
        BY DEF cell
      <3> HIDE DEF o
      <3>4. o \in Offer /\ o.index = i /\ cell.item = o.item /\ cell.count >= o.count
        BY <2>1, <3>1, <3>2, <3>3 DEF Offer
      <3>5. QED
        BY <3>4 DEF cell
    <2>4. Becomes(WithHalf([State EXCEPT !.player[me].bag = new], t, me, half2))
      BY ZenonT(60), <1>5 DEF LayOut, State
    <2>5. half2.player = half.player
      BY <1>3 DEF Half
    <2> HIDE DEF o
    <2> HIDE DEF half
    <2>6. new \in Bag /\ half2 \in Half
      BY <1>1, <1>3, <2>1, <2>3, LaidOutMore
    <2>7. new.cells = bag.cells /\ new.money = bag.money
      BY <1>1 DEF LockSlot, Bag
    <2> HIDE DEF half2, new
    <2>8. QED
      BY ZenonT(60), SMTT(60), <1>2, <1>3, <2>4, <2>5, <2>6, <2>7, LayOutConserves
  <1>6. QED
    BY <1>4, <1>5

\* Whoever closes last has the trade tried; it is the only one that may end.
LEMMA CommitConserves ==
  ASSUME TradeInvariant, Holds(State), NEW me \in Player, NEW saving, Commit(me, saving)
  PROVE  Conserves(State, State')
  <1> DEFINE t == SessionOf(me)
             s == SideOf(t, me)
             both == t.side[3 - s].closed
             u == [t EXCEPT !.side[s].closed = TRUE, !.waited = IF both THEN 0 ELSE @]
             told == Renewed(player, t, u)
             half == [t.side[s] EXCEPT !.closed = TRUE]
             e == TryExecute(told, u, saving)
  <1>1. Open(me)
    BY DEF Commit
  <1>2. /\ t \in sessions /\ t \in Session
        /\ s \in 1 .. 2 /\ 3 - s \in 1 .. 2
        /\ t.side[s] \in Half /\ t.side[s].player = me
    BY <1>1, OpenParts
  <1>3. Becomes(IF both THEN e ELSE told)
    BY DEF Commit, Renewed, State
  <1>4. /\ Good(State) /\ State.player = player /\ player \in [Player -> PlayerState]
        /\ State.sessions = sessions /\ sessions \subseteq Session
    BY Here
  <1>5. Good(told) /\ u \in told.sessions
    <2>1. u = Closing(me) /\ told = Told(me)
      BY DEF Closing, Told
    <2> HIDE DEF u, told
    <2>2. QED
      BY <1>1, <2>1, CommitTold
  <1> HIDE DEF t
  <1> HIDE DEF s
  <1>6. t.side \in [1 .. 2 -> Half] /\ t.side[3 - s] \in Half
    BY <1>2, SessionParts
  <1>7. half \in Half /\ half.player = me /\ half.closed
        /\ half.items = t.side[s].items /\ half.money = t.side[s].money
    BY <1>2 DEF Half
  <1>8. u = [t EXCEPT !.side[s] = half, !.waited = IF both THEN 0 ELSE @]
    BY <1>2, <1>6 DEF Session
  <1> HIDE DEF half, both
  <1>9. u.side[s] = half /\ \A k \in 1 .. 2 : k # s => u.side[k] = t.side[k]
    BY ZenonT(60), <1>2, <1>6, <1>7, <1>8 DEF Session
  <1>10. u \in Session
    BY <1>5, Parts DEF Good
  <1> HIDE DEF u
  <1>11. \A k \in 1 .. 2 : /\ u.side[k].player = t.side[k].player
                           /\ u.side[k].items = t.side[k].items
                           /\ u.side[k].money = t.side[k].money
    BY <1>2, <1>7, <1>9
  <1>12. /\ told \in StateType /\ Still(State, told)
         /\ told.sessions = (sessions \ {t}) \cup {u}
         /\ \A p \in Player : SamePlace(State, told, p)
    BY <1>2, <1>4, <1>10, <1>11, RenewedStill
  <1> HIDE DEF told
  <1>13. CASE ~ both
    BY <1>3, <1>12, <1>13, LandedStill
  <1>14. CASE both
    <2>1. Holds(told)
      BY <1>4, <1>12, StillConserves DEF Conserves
    <2>2. u.side[s].closed /\ t.side[3 - s].closed
      BY <1>7, <1>9, <1>14 DEF both
    <2>3. Holds(e) /\ Settles(told, e, u)
      BY <1>2, <1>5, <2>1, <2>2, TryExecuteSettles
    <2>4. Good(e) /\ (e.sessions = told.sessions \ {u} \/ e.sessions = told.sessions)
      BY SMTT(60), ZenonT(60), <1>5, TryExecuteGood
    <2> HIDE DEF e
    <2>5. Settles(State, e, t)
      <3>1. \A k \in 1 .. 2 : t.side[k].player \in Player
        BY <1>2, SessionParts
      <3>2. QED
        BY SMTT(60), ZenonT(60), <1>2, <1>11, <1>12, <2>2, <2>3, <3>1, SettledSince DEF Still
    <2>6. ASSUME NEW r \in sessions, r # t
          PROVE  Persists(e, r)
      <3>1. r # u
        <4>1. Trades(u, me) /\ Trades(t, me)
          BY <1>2, <1>11, TwoSides DEF Trades
        <4>2. \A r1, r2 \in sessions : Trades(r1, me) /\ Trades(r2, me) => r1 = r2
          BY <1>4 DEF Good, Alone
        <4>3. QED
          BY <1>2, <2>6, <4>1, <4>2
      <3>2. r \in e.sessions
        BY <1>12, <2>4, <2>6, <3>1
      <3>3. QED
        BY <3>2 DEF Persists
    <2>7. Conserves(State, e)
      BY <1>4, <2>3, <2>5, <2>6 DEF Conserves, Whole
    <2>8. State' = e
      BY <1>3, <1>14, <2>4, Landed DEF Good
    <2>9. QED
      BY <2>7, <2>8
  <1>15. QED
    BY <1>13, <1>14

-----------------------------------------------------------------------------
(* The tick. *)

\* As many trades as there are players, at most.
LEMMA FinitelyMany ==
  ASSUME NEW st, Good(st)
  PROVE  IsFiniteSet(st.sessions)
  <1> DEFINE f == [t \in st.sessions |-> t.side[1].player]
  <1>1. st.sessions \subseteq Session /\ Alone(st)
    BY Parts DEF Good
  <1>2. \A t \in st.sessions : t.side[1].player \in Player
    BY <1>1, SessionParts
  <1>3. \A t, u \in st.sessions : f[t] = f[u] => t = u
    BY <1>1, <1>2 DEF Alone, Trades
  <1>4. f \in Injection(st.sessions, Player)
    BY <1>2, <1>3 DEF Injection, IsInjective
  <1>5. QED
    BY <1>4, FS_Injection, TradeAssumption

\* Of the trades in T, those that ended did so whole; the others, and the goods of
\* their players, are as they were.
Settled(asked, st, T) ==
    /\ Holds(st)
    /\ \A p \in Player : SamePlace(asked, st, p)
    /\ \A t \in asked.sessions \ T : \A s \in 1 .. 2 : SameGoods(asked, st, t.side[s].player)
    /\ \A t \in T : t \in st.sessions \/ Settles(asked, st, t)

\* What the tick may have made of the game once the trades in T were looked at:
\* those are gone or may wait a frame more, the others are as they were.
Ticked(asked, T) ==
    {st \in StateType :
        /\ Good(st)
        /\ Holds(asked) => Settled(asked, st, T)
        /\ st.requests = asked.requests
        /\ st.sessions \subseteq asked.sessions
        /\ asked.sessions \ T \subseteq st.sessions
        /\ \A t \in T \cap st.sessions : ~ (t.waited >= WaitFrames)}

\* Looking at a trade touches the goods of its two players only, and settles it if
\* it ends it.
LEMMA TickSessionSettles ==
  ASSUME NEW st, Good(st), Holds(st), NEW t \in st.sessions, NEW saving
  PROVE  LET e == TickSession(st, t, saving)
         IN  /\ Holds(e) /\ Settles(st, e, t)
             /\ \A p \in Player : /\ SamePlace(st, e, p)
                                  /\ ~ Trades(t, p) => SameGoods(st, e, p)
  <1> DEFINE e == TickSession(st, t, saving)
             Fine(x) == /\ Holds(x) /\ Settles(st, x, t)
                        /\ \A p \in Player : /\ SamePlace(st, x, p)
                                             /\ ~ Trades(t, p) => SameGoods(st, x, p)
  <1>1. t \in Session /\ t.side[1].player # t.side[2].player /\ st \in StateType
    BY Parts DEF Good, Together, Met
  <1>2. \A s \in 1 .. 2 : t.side[s].player \in Player
    BY <1>1, SessionParts
  <1>3. ASSUME NEW x, Still(st, x), \A p \in Player : SamePlace(st, x, p)
        PROVE  Fine(x)
    <2>1. Holds(x)
      BY <1>3, StillConserves DEF Conserves
    <2>2. Settles(st, x, t)
      BY <1>2, <1>3 DEF Still, Settles
    <2>3. QED
      BY <1>3, <2>1, <2>2 DEF Still
  <1>4. Fine(EndSession(st, t, NoOne))
    <2>1. \A p \in Player : SamePlace(st, EndSession(st, t, NoOne), p)
      BY <1>1, EndSessionParts DEF SamePlace
    <2>2. QED
      BY <1>3, <2>1, EndSessionStill
  <1>5. Fine(st)
    BY <1>3 DEF Still, SameGoods, SamePlace
  <1>6. (\E s \in 1 .. 2 : t.side[s].closed) => Fine(TryExecute(st, t, saving))
    BY TryExecuteSettles DEF SamePlace
  <1>7. \/ e = EndSession(st, t, NoOne) \/ e = st
        \/ e = TryExecute(st, t, saving) /\ \E s \in 1 .. 2 : t.side[s].closed
    BY TwoSides DEF TickSession
  <1> HIDE DEF Fine, e
  <1>8. Fine(e)
    BY <1>4, <1>5, <1>6, <1>7
  <1>9. QED
    BY <1>8 DEF Fine, e

LEMMA SettledNext ==
  ASSUME NEW asked, Good(asked), NEW T \in SUBSET asked.sessions, NEW t \in T,
         NEW st, Good(st), Settled(asked, st, T \ {t}), t \in st.sessions,
         NEW saving, NEW e, e = TickSession(st, t, saving),
         e.sessions = st.sessions \ {t} \/ e.sessions = st.sessions
  PROVE  Settled(asked, e, T)
  <1>1. /\ Holds(st) /\ \A p \in Player : SamePlace(asked, st, p)
        /\ \A u \in asked.sessions \ (T \ {t}) :
              \A s \in 1 .. 2 : SameGoods(asked, st, u.side[s].player)
        /\ \A u \in T \ {t} : u \in st.sessions \/ Settles(asked, st, u)
    BY DEF Settled
  <1>2. /\ Holds(e) /\ Settles(st, e, t)
        /\ \A p \in Player : /\ SamePlace(st, e, p)
                             /\ ~ Trades(t, p) => SameGoods(st, e, p)
    BY <1>1, TickSessionSettles
  <1>3. \A u \in asked.sessions : \A s \in 1 .. 2 : u.side[s].player \in Player
    BY Parts, SessionParts DEF Good
  <1>4. ASSUME NEW u \in asked.sessions, u # t
        PROVE  \A s \in 1 .. 2 : SameGoods(st, e, u.side[s].player)
    <2>1. \A s \in 1 .. 2 : ~ Trades(t, u.side[s].player)
      <3>1. \A s \in 1 .. 2 : Trades(u, u.side[s].player)
        BY TwoSides DEF Trades
      <3>2. QED
        BY <1>3, <1>4, <3>1 DEF Good, Alone
    <2>2. QED
      BY <1>2, <1>3, <2>1
  <1>5. \A p \in Player : SamePlace(asked, e, p)
    BY SMTT(60), ZenonT(60), <1>1, <1>2 DEF SamePlace
  <1>6. ASSUME NEW u \in asked.sessions \ T, NEW s \in 1 .. 2
        PROVE  SameGoods(asked, e, u.side[s].player)
    <2>1. SameGoods(asked, st, u.side[s].player) /\ SameGoods(st, e, u.side[s].player)
      BY <1>1, <1>4
    <2>2. QED
      BY ZenonT(60), SMTT(60), <2>1 DEF SameGoods
  <1>7. ASSUME NEW u \in T
        PROVE  u \in e.sessions \/ Settles(asked, e, u)
    <2>1. CASE u = t
      <3>1. \A s \in 1 .. 2 : /\ SameGoods(asked, st, t.side[s].player)
                              /\ SamePlace(asked, st, t.side[s].player)
        BY SMTT(60), ZenonT(60), <1>1, <1>3
      <3>2. Settles(asked, e, t)
        BY ZenonT(60), SMTT(60), <1>2, <3>1, SettledSince
      <3>3. QED
        BY <2>1, <3>2
    <2>2. CASE u # t /\ u \in st.sessions
      BY <2>2
    <2>3. CASE u # t /\ u \notin st.sessions
      <3>1. Settles(asked, st, u)
        BY <1>1, <2>3
      <3>2. \A s \in 1 .. 2 : SameGoods(st, e, u.side[s].player)
        BY <1>4, <2>3
      <3>3. QED
        BY <3>1, <3>2, SettledThen
    <2>4. QED
      BY <2>1, <2>2, <2>3
  <1>8. QED
    BY <1>2, <1>5, <1>6, <1>7 DEF Settled

LEMMA TickSessionGood ==
  ASSUME NEW asked, Good(asked), NEW T \in SUBSET asked.sessions, NEW t \in T,
         NEW st \in Ticked(asked, T \ {t}), NEW saving
  PROVE  TickSession(st, t, saving) \in Ticked(asked, T)
  <1> DEFINE e == TickSession(st, t, saving)
  <1>1. /\ Good(st) /\ st.requests = asked.requests /\ st.sessions \subseteq asked.sessions
        /\ asked.sessions \ (T \ {t}) \subseteq st.sessions
        /\ \A u \in (T \ {t}) \cap st.sessions : ~ (u.waited >= WaitFrames)
    BY DEF Ticked
  <1>2. t \in st.sessions
    BY <1>1
  <1>3. Waits(st) /\ ~ st.defect /\ st \in StateType /\ \A p \in Player : Shows(st.player[p])
    BY <1>1 DEF Good
  <1>4. ~ (NotReady >= WaitFrames)
    BY TradeAssumption DEF NotReady
  <1>5. /\ Good(e) /\ e.requests = st.requests
        /\ \/ e.sessions = st.sessions \ {t}
           \/ e.sessions = st.sessions /\ ~ (t.waited >= WaitFrames)
    <2>1. /\ Good(EndSession(st, t, NoOne))
          /\ EndSession(st, t, NoOne).requests = st.requests
          /\ EndSession(st, t, NoOne).sessions = st.sessions \ {t}
      BY <1>1, <1>2, <1>3, EndSessionGood
    <2>2. /\ Good(TryExecute(st, t, saving)) /\ TryExecute(st, t, saving).requests = st.requests
          /\ \/ TryExecute(st, t, saving).sessions = st.sessions \ {t}
             \/ /\ TryExecute(st, t, saving).sessions = st.sessions
                /\ ~ (t.waited >= WaitFrames)
      BY <1>1, <1>2, TryExecuteGood
    <2>3. \/ e = EndSession(st, t, NoOne) \/ e = TryExecute(st, t, saving)
          \/ e = st /\ ~ (t.side[1].closed /\ t.side[2].closed)
      BY DEF TickSession
    <2>4. ~ (t.side[1].closed /\ t.side[2].closed) => ~ (t.waited >= WaitFrames)
      BY <1>2, <1>3, <1>4 DEF Waits
    <2> HIDE DEF e
    <2>5. QED
      BY <1>1, <2>1, <2>2, <2>3, <2>4
  <1>6. e \in StateType
    BY <1>5 DEF Good
  <1>7. Holds(asked) => Settled(asked, e, T)
    <2>1. Holds(asked) => Settled(asked, st, T \ {t})
      BY DEF Ticked
    <2>2. e.sessions = st.sessions \ {t} \/ e.sessions = st.sessions
      BY <1>5
    <2>3. QED
      BY <1>1, <1>2, <2>1, <2>2, SettledNext
  <1> HIDE DEF e
  <1>8. e \in Ticked(asked, T)
    BY <1>1, <1>5, <1>6, <1>7 DEF Ticked
  <1>9. QED
    BY <1>8 DEF e

\* Every trade is looked at once, in some order.
TickedAll(asked, saving) ==
    FoldSet(LAMBDA t, st : TickSession(st, t, saving), asked, asked.sessions)

LEMMA TickedAllGood ==
  ASSUME NEW asked, Good(asked), NEW saving
  PROVE  TickedAll(asked, saving) \in Ticked(asked, asked.sessions)
  <1> DEFINE S == asked.sessions
             next == [T \in SUBSET S |-> CHOOSE x \in T : TRUE]
             V == [T \in SUBSET S |-> Ticked(asked, T)]
             step == [T \in SUBSET S |-> [v \in Ticked(asked, T \ {next[T]}) |->
                                            TickSession(v, next[T], saving)]]
             Run(g) == g = [T \in SUBSET S |->
                              IF T = {} THEN asked
                              ELSE TickSession(g[T \ {CHOOSE x \in T : TRUE}],
                                               CHOOSE x \in T : TRUE, saving)]
             run == CHOOSE g : Run(g)
  <1>1. IsFiniteSet(S)
    BY FinitelyMany
  <1>2. \A T \in SUBSET S : T # {} => /\ next[T] = (CHOOSE x \in T : TRUE)
                                      /\ next[T] \in T /\ T \ {next[T]} \in SUBSET S
    OBVIOUS
  <1>3. \A T \in SUBSET S : V[T] = Ticked(asked, T)
    OBVIOUS
  <1>4. ASSUME NEW T \in SUBSET S, T # {}, NEW v \in Ticked(asked, T \ {next[T]})
        PROVE  TickSession(v, next[T], saving) \in Ticked(asked, T)
    <2> HIDE DEF next, V, step
    <2> DEFINE x == next[T]
    <2>1. x \in T
      BY <1>2, <1>4
    <2> HIDE DEF x
    <2>2. v \in Ticked(asked, T \ {x})
      BY <1>4 DEF x
    <2>3. TickSession(v, x, saving) \in Ticked(asked, T)
      BY <2>1, <2>2, TickSessionGood
    <2>4. QED
      BY <2>3 DEF x
  <1>5. ASSUME NEW T \in SUBSET S, T # {}, NEW v \in V[T \ {next[T]}]
        PROVE  step[T][v] \in V[T]
    <2>1. v \in Ticked(asked, T \ {next[T]})
      <3> HIDE DEF next, V, step
      <3>1. QED
        BY <1>2, <1>3, <1>5
    <2>2. step[T][v] = TickSession(v, next[T], saving)
      <3> HIDE DEF next, V
      <3>1. QED
        BY <1>5, <2>1
    <2> HIDE DEF next, V, step
    <2>3. QED
      BY <1>3, <1>4, <1>5, <2>1, <2>2
  <1>6. asked \in V[{}]
    <2>1. {} \in SUBSET S
      OBVIOUS
    <2>2. asked \in Ticked(asked, {})
      <3>1. Holds(asked) => Settled(asked, asked, {})
        BY DEF Settled, SamePlace, SameGoods
      <3>2. QED
        BY <3>1 DEF Ticked, Good
    <2> HIDE DEF V
    <2>3. QED
      BY <1>3, <2>1, <2>2
  <1>7. PICK g : /\ IsFold(g, S, next, asked, step)
                 /\ \A T \in SUBSET S : g[T] \in V[T]
    <2> HIDE DEF step, V, next
    <2>1. \A T \in SUBSET S : T # {} => \A v \in V[T \ {next[T]}] : step[T][v] \in V[T]
      BY <1>5
    <2>2. \A T \in SUBSET S : T # {} => next[T] \in T
      BY <1>2
    <2>3. QED
      BY <1>1, <1>6, <2>1, <2>2, FoldExists
  <1>8. Run(g)
    <2>1. ASSUME NEW T \in SUBSET S, T # {}
          PROVE  step[T][g[T \ {next[T]}]]
                   = TickSession(g[T \ {CHOOSE x \in T : TRUE}], CHOOSE x \in T : TRUE, saving)
      <3>1. g[T \ {next[T]}] \in Ticked(asked, T \ {next[T]})
        <4> HIDE DEF next, V, step
        <4>1. QED
          BY <1>2, <1>3, <1>7, <2>1
      <3>2. step[T][g[T \ {next[T]}]] = TickSession(g[T \ {next[T]}], next[T], saving)
        <4> HIDE DEF next
        <4>1. QED
          BY <2>1, <3>1
      <3> HIDE DEF step
      <3>3. QED
        BY <2>1, <3>2
    <2> HIDE DEF step, next
    <2>2. QED
      BY ZenonT(60), <1>7, <2>1 DEF IsFold
  <1>9. Run(run)
    BY <1>8
  <1>10. run[{}] \in V[{}]
    <2> HIDE DEF run, V
    <2>1. run[{}] = asked
      BY <1>9, {} \in SUBSET S
    <2>2. QED
      BY <1>6, <2>1
  <1>11. \A T \in SUBSET S : T # {} /\ run[T \ {next[T]}] \in V[T \ {next[T]}]
                               => run[T] \in V[T]
    <2>1. ASSUME NEW T \in SUBSET S, T # {}, run[T \ {next[T]}] \in V[T \ {next[T]}]
          PROVE  run[T] \in V[T]
      <3>1. run[T] = TickSession(run[T \ {next[T]}], next[T], saving)
        BY ZenonT(60), SMTT(60), <1>9, <1>2, <2>1
      <3> HIDE DEF run, V, next
      <3>2. run[T \ {next[T]}] \in Ticked(asked, T \ {next[T]})
        BY <1>2, <1>3, <2>1
      <3>3. QED
        BY <1>3, <1>4, <2>1, <3>1, <3>2
    <2>2. QED
      BY <2>1
  <1>12. \A T \in SUBSET S : run[T] \in V[T]
    <2> HIDE DEF run, V, next
    <2>1. QED
      BY SMTT(60), ZenonT(60), <1>1, <1>2, <1>10, <1>11, FoldInvariant
  <1>13. TickedAll(asked, saving) = run[S]
    BY DEF TickedAll, FoldSet, MapThenFoldSet
  <1>14. QED
    BY <1>12, <1>13

\* What a frame makes of a request, a trade and a player.
Aged(r) == [r EXCEPT !.left = @ - 1]
Longer(t) == [t EXCEPT !.waited = IF @ = NotReady THEN @ ELSE @ + 1]
Lying(pl) == [pl EXCEPT !.life = IF @ = "dying" THEN "dead" ELSE @]

LEMMA AgedParts ==
  ASSUME NEW r \in Request, r.left # 0
  PROVE  /\ Aged(r) \in Request /\ Aged(r).from = r.from /\ Aged(r).to = r.to
         /\ Aged(r).id = r.id
  <1>1. r.left \in 0 .. AskFrames /\ AskFrames \in Nat
    BY RequestParts, TradeAssumption
  <1>2. r.left - 1 \in 0 .. AskFrames
    BY <1>1
  <1>3. QED
    BY <1>2 DEF Aged, Request

LEMMA LongerParts ==
  ASSUME NEW t \in Session, ~ (t.waited >= WaitFrames)
  PROVE  /\ Longer(t) \in Session /\ Longer(t).side = t.side
         /\ Longer(t).waited # NotReady => t.waited # NotReady
         /\ \A s \in 1 .. 2 : WindowOf(Longer(t), s) = WindowOf(t, s)
         /\ \A p \in Player : Trades(Longer(t), p) <=> Trades(t, p)
  <1> DEFINE w == IF t.waited = NotReady THEN t.waited ELSE t.waited + 1
  <1>1. t.waited \in NotReady .. WaitFrames /\ WaitFrames \in Nat
    BY SessionParts, TradeAssumption
  <1>2. w \in NotReady .. WaitFrames /\ (w # NotReady => t.waited # NotReady)
    BY <1>1 DEF NotReady
  <1>3. Longer(t) = [t EXCEPT !.waited = w]
    BY DEF Longer, Session
  <1> HIDE DEF w
  <1>4. Longer(t) \in Session /\ Longer(t).side = t.side /\ Longer(t).waited = w
    BY <1>2, <1>3 DEF Session
  <1>5. QED
    BY <1>2, <1>4 DEF WindowOf, Trades

LEMMA LyingParts ==
  ASSUME NEW pl \in PlayerState
  PROVE  /\ Lying(pl) \in PlayerState /\ Lying(pl).zone = pl.zone /\ Lying(pl).bag = pl.bag
         /\ Lying(pl).shown = pl.shown /\ Lying(pl).ask = pl.ask /\ Lying(pl).win = pl.win
  <1> DEFINE life == IF pl.life = "dying" THEN "dead" ELSE pl.life
  <1>1. life \in {"alive", "dying", "dead"}
    BY DEF PlayerState
  <1>2. Lying(pl) = [pl EXCEPT !.life = life]
    BY DEF Lying, PlayerState
  <1> HIDE DEF life
  <1>3. QED
    BY <1>1, <1>2 DEF PlayerState

\* A frame passes: nothing but time changes.
LEMMA NextFrameGood ==
  ASSUME NEW st, Good(st), \A r \in st.requests : r.left # 0,
         \A t \in st.sessions : ~ (t.waited >= WaitFrames)
  PROVE  Good(NextFrame(st))
  <1> DEFINE n == NextFrame(st)
             aged == {Aged(r) : r \in st.requests}
             longer == {Longer(t) : t \in st.sessions}
             lying == [p \in Player |-> Lying(st.player[p])]
  <1>1. /\ st \in StateType /\ Together(st) /\ Alone(st) /\ Locks(st) /\ Waits(st)
        /\ Windows(st) /\ \A p \in Player : Asks(st, p) /\ Shows(st.player[p])
        /\ ~ st.defect
    BY DEF Good
  <1>2. /\ st.requests \subseteq Request /\ st.sessions \subseteq Session
        /\ \A p \in Player : st.player[p] \in PlayerState
    BY <1>1, Parts
  <1>3. n = [st EXCEPT !.requests = aged, !.sessions = longer, !.player = lying]
    BY DEF NextFrame, Aged, Longer, Lying
  <1>4. \A r \in st.requests : /\ Aged(r) \in Request /\ Aged(r).from = r.from
                               /\ Aged(r).to = r.to /\ Aged(r).id = r.id
                               /\ r.from \in Player /\ r.to \in Player
    BY <1>2, AgedParts, RequestParts
  <1>5. \A t \in st.sessions : /\ Longer(t) \in Session /\ Longer(t).side = t.side
                               /\ Longer(t).waited # NotReady => t.waited # NotReady
                               /\ \A s \in 1 .. 2 : WindowOf(Longer(t), s) = WindowOf(t, s)
                               /\ \A p \in Player : Trades(Longer(t), p) <=> Trades(t, p)
                               /\ t.side[1].player \in Player /\ t.side[2].player \in Player
                               /\ \A s \in 1 .. 2 : t.side[s].player \in Player
    BY <1>2, LongerParts, SessionParts
  <1>6. aged \subseteq Request /\ longer \subseteq Session
    BY <1>4, <1>5
  <1>7. /\ lying \in [Player -> PlayerState]
        /\ \A p \in Player : /\ lying[p].zone = st.player[p].zone
                             /\ lying[p].bag = st.player[p].bag
                             /\ lying[p].shown = st.player[p].shown
                             /\ lying[p].ask = st.player[p].ask
                             /\ lying[p].win = st.player[p].win
    BY <1>2, LyingParts
  <1>8. \A r \in aged : \E q \in st.requests :
            /\ r = Aged(q) /\ r.from = q.from /\ r.to = q.to /\ r.id = q.id
    BY <1>4
  <1>9. \A q \in st.requests : \E r \in aged : r.from = q.from /\ r.to = q.to
    BY <1>4
  <1>10. \A u \in longer : \E t \in st.sessions : u = Longer(t)
    OBVIOUS
  <1>11. \A t \in st.sessions : Longer(t) \in longer
    OBVIOUS
  <1> HIDE DEF aged, longer, lying, n
  <1>12. /\ n \in StateType /\ n.requests = aged /\ n.sessions = longer /\ n.player = lying
         /\ n.defect = st.defect
    BY <1>1, <1>3, <1>6, <1>7 DEF StateType
  <1>13. Together(n)
    <2>1. \A a, b \in Player : Met(st, a, b) => Met(n, a, b)
      BY <1>7, <1>12 DEF Met
    <2>2. QED
      BY <1>1, <1>4, <1>5, <1>8, <1>10, <1>12, <2>1 DEF Together
  <1>14. Alone(n)
    <2>1. ASSUME NEW p \in Player, NEW r1 \in aged, NEW r2 \in aged,
                 Involves(r1, p), Involves(r2, p)
          PROVE  r1 = r2
      BY <1>1, <1>8, <2>1 DEF Alone, Involves
    <2>2. ASSUME NEW p \in Player, NEW u1 \in longer, NEW u2 \in longer,
                 Trades(u1, p), Trades(u2, p)
          PROVE  u1 = u2
      BY <1>1, <1>5, <1>10, <2>2 DEF Alone
    <2>3. ASSUME NEW p \in Player, NEW r \in aged, NEW u \in longer,
                 Involves(r, p), Trades(u, p)
          PROVE  FALSE
      BY <1>1, <1>5, <1>8, <1>10, <2>3 DEF Alone, Involves
    <2>4. QED
      BY <1>12, <2>1, <2>2, <2>3 DEF Alone
  <1>15. \A p \in Player : TradesNot(n, p) => TradesNot(st, p)
    BY SMTT(60), ZenonT(60), <1>5, <1>11, <1>12 DEF TradesNot
  <1>16. Locks(n)
    <2>1. ASSUME NEW u \in longer, NEW s \in 1 .. 2
          PROVE  LaidOut(n.player[u.side[s].player].bag, u.side[s])
      <3>1. PICK t \in st.sessions : u = Longer(t)
        BY <1>10
      <3>2. LaidOut(st.player[t.side[s].player].bag, t.side[s])
        BY <1>1 DEF Locks
      <3>3. QED
        BY ZenonT(60), SMTT(60), <1>5, <1>7, <1>12, <3>1, <3>2
    <2>2. QED
      BY ZenonT(60), SMTT(60), <1>1, <1>7, <1>12, <1>15, <2>1 DEF Locks
  <1>17. Waits(n)
    BY <1>1, <1>5, <1>10, <1>12 DEF Waits
  <1>18. ASSUME NEW p \in Player
         PROVE  Asks(n, p)
    BY SMTT(60), <1>1, <1>7, <1>8, <1>9, <1>12 DEF Asks
  <1>19. Windows(n)
    <2>1. ASSUME NEW u \in longer, NEW s \in 1 .. 2
          PROVE  n.player[u.side[s].player].win = WindowOf(u, s)
      <3>1. PICK t \in st.sessions : u = Longer(t)
        BY <1>10
      <3>2. st.player[t.side[s].player].win = WindowOf(t, s)
        BY <1>1 DEF Windows
      <3>3. QED
        BY SMTT(60), ZenonT(60), <1>5, <1>7, <1>12, <3>1, <3>2
    <2>2. QED
      BY ZenonT(60), SMTT(60), <1>1, <1>7, <1>12, <1>15, <2>1 DEF Windows
  <1>20. \A p \in Player : Shows(n.player[p])
    BY <1>1, <1>7, <1>12 DEF Shows
  <1>21. Good(n)
    BY SMTT(60), ZenonT(60), <1>1, <1>12, <1>13, <1>14, <1>16, <1>17, <1>18, <1>19, <1>20 DEF Good
  <1>22. QED
    BY <1>21 DEF n

LEMMA NextFrameStill ==
  ASSUME NEW st, Good(st), \A t \in st.sessions : ~ (t.waited >= WaitFrames)
  PROVE  /\ Still(st, NextFrame(st))
         /\ \A t \in st.sessions : Persists(NextFrame(st), t)
  <1> DEFINE aged == {Aged(r) : r \in st.requests}
             longer == {Longer(t) : t \in st.sessions}
             lying == [p \in Player |-> Lying(st.player[p])]
  <1>1. /\ st \in StateType /\ st.sessions \subseteq Session
        /\ \A p \in Player : st.player[p] \in PlayerState
    BY Parts DEF Good
  <1>2. NextFrame(st) = [st EXCEPT !.requests = aged, !.sessions = longer, !.player = lying]
    BY DEF NextFrame, Aged, Longer, Lying
  <1>3. \A p \in Player : lying[p].bag = st.player[p].bag
    BY <1>1, LyingParts
  <1>4. \A t \in st.sessions : Longer(t) \in longer /\ Longer(t).side = t.side
    BY <1>1, LongerParts
  <1> HIDE DEF aged, longer, lying
  <1>5. NextFrame(st).player = lying /\ NextFrame(st).sessions = longer
    BY <1>1, <1>2 DEF StateType
  <1>6. QED
    BY ZenonT(60), SMTT(60), <1>3, <1>4, <1>5 DEF Still, SameGoods, Persists

\* The three parts of a tick.
LEMMA TickParts ==
  ASSUME TradeInvariant, NEW saving, Tick(saving)
  PROVE  LET asked == TickRequests(State)
             all == TickedAll(asked, saving)
         IN  /\ Good(asked) /\ Still(State, asked) /\ asked.sessions = sessions
             /\ \A p \in Player : SamePlace(State, asked, p)
             /\ all \in Ticked(asked, asked.sessions)
             /\ Good(NextFrame(all)) /\ Becomes(NextFrame(all))
  <1> DEFINE gone == {r \in State.requests :
                          \/ ~ Alive(State.player[r.from]) \/ ~ Alive(State.player[r.to])
                          \/ r.left = 0}
             asked == TickRequests(State)
             all == TickedAll(asked, saving)
  <1>1. Good(State) /\ State \in StateType /\ State.sessions = sessions
    BY Here
  <1>2. Becomes(NextFrame(all))
    BY ZenonT(60) DEF Tick, TickedAll
  <1>3. asked = EndRequests(State, gone, NoOne)
    BY DEF TickRequests
  <1>4. gone \subseteq State.requests /\ \A r \in State.requests \ gone : r.left # 0
    OBVIOUS
  <1>5. \A r \in gone : r.to # NoOne
    BY <1>1, <1>4, Parts, RequestParts, TradeAssumption
  <1> HIDE DEF gone, asked
  <1>6. Good(asked)
    BY <1>1, <1>3, <1>4, <1>5, EndRequestsGood
  <1>7. /\ asked.requests = State.requests \ gone /\ asked.sessions = sessions
        /\ \A p \in Player : SamePlace(State, asked, p)
        /\ Still(State, asked)
    BY <1>1, <1>3, EndRequestsParts, EndRequestsStill DEF SamePlace
  <1>8. all \in Ticked(asked, asked.sessions)
    BY <1>6, TickedAllGood
  <1> HIDE DEF all
  <1>9. /\ Good(all) /\ all.requests = asked.requests
        /\ \A t \in all.sessions : ~ (t.waited >= WaitFrames)
    BY <1>8 DEF Ticked
  <1>10. Good(NextFrame(all))
    BY <1>4, <1>7, <1>9, NextFrameGood
  <1>11. QED
    BY <1>2, <1>6, <1>7, <1>8, <1>10 DEF all, asked

LEMMA TickGood ==
  ASSUME TradeInvariant, NEW saving, Tick(saving)
  PROVE  TradeInvariant'
  <1> DEFINE st == NextFrame(TickedAll(TickRequests(State), saving))
  <1>1. Good(st) /\ Becomes(st)
    BY TickParts
  <1>2. nextId' \in 1 .. RequestMax
    BY ZenonT(60), Here DEF Tick
  <1> HIDE DEF st
  <1>3. QED
    BY <1>1, <1>2, Arrived

LEMMA TickConserves ==
  ASSUME TradeInvariant, Holds(State), NEW saving, Tick(saving)
  PROVE  Conserves(State, State')
  <1> DEFINE asked == TickRequests(State)
             all == TickedAll(asked, saving)
             st == NextFrame(all)
  <1>1. /\ Good(asked) /\ Still(State, asked) /\ asked.sessions = sessions
        /\ \A p \in Player : SamePlace(State, asked, p)
        /\ all \in Ticked(asked, asked.sessions)
        /\ Good(st) /\ Becomes(st)
    BY TickParts
  <1>2. Good(State) /\ State.sessions = sessions /\ sessions \subseteq Session
    BY Here
  <1> HIDE DEF asked, all
  <1>3. Holds(asked)
    BY <1>1, <1>2, StillConserves DEF Conserves
  <1>4. /\ Good(all) /\ Settled(asked, all, sessions)
        /\ \A t \in all.sessions : ~ (t.waited >= WaitFrames)
    BY <1>1, <1>3 DEF Ticked
  <1>5. Still(all, st) /\ \A t \in all.sessions : Persists(st, t)
    BY <1>4, NextFrameStill
  <1> HIDE DEF st
  <1>6. Holds(st)
    BY <1>4, <1>5, StillConserves DEF Conserves, Settled
  <1>7. ASSUME NEW t \in sessions
        PROVE  Persists(st, t) \/ Settles(State, st, t)
    <2>1. t \in all.sessions \/ Settles(asked, all, t)
      BY <1>4 DEF Settled
    <2>2. \A s \in 1 .. 2 : t.side[s].player \in Player
      BY <1>2, SessionParts
    <2>3. Settles(asked, all, t) => Settles(State, all, t)
      BY <1>1, <2>2, SettledSince DEF Still
    <2>4. Settles(State, all, t) => Settles(State, st, t)
      BY <1>5, <2>2, SettledThen DEF Still
    <2>5. QED
      BY <1>5, <2>1, <2>3, <2>4
  <1>8. Conserves(State, st)
    BY <1>2, <1>6, <1>7 DEF Conserves, Whole
  <1>9. State' = st
    BY <1>1, Landed DEF Good
  <1>10. QED
    BY <1>8, <1>9

LEMMA InitGood ==
  ASSUME Init
  PROVE  TradeInvariant
  <1>1. State.requests = {} /\ State.sessions = {} /\ State.defect = FALSE
        /\ State.player = player /\ nextId = 1
    BY DEF Init, State
  <1>2. Min(TradeZone) \in TradeZone /\ Min(Spot) \in Spot
    <2>1. TradeZone \subseteq Nat
      BY TradeAssumption
    <2>2. QED
      BY <2>1, TradeAssumption, MinOfNats
  <1>3. Min(TradeZone) \in Zone \cup {Out}
    BY <1>2, TradeAssumption
  <1>4. 0 \in 0 .. RequestMax /\ 0 \in 0 .. MoneyMax /\ 1 \in 1 .. RequestMax
    BY RequestNumbers, InventoryAssumption
  <1> DEFINE Pl(p) == [zone |-> Min(TradeZone), spot |-> Min(Spot), life |-> "alive",
                       bag |-> Loaded(StartCells[p], StartMoney[p]),
                       shown |-> [cells |-> StartCells[p], money |-> StartMoney[p]],
                       ask |-> 0, win |-> NoWin]
  <1>5. player = [p \in Player |-> Pl(p)]
    BY DEF Init
  <1>6. ASSUME NEW p \in Player
        PROVE  /\ Pl(p) \in PlayerState /\ Pl(p).ask = 0 /\ Pl(p).win = NoWin
               /\ Free(Pl(p).bag) /\ Shows(Pl(p))
    <2>1. StartCells[p] \in [Index -> Cell] /\ StartMoney[p] \in 0 .. MoneyMax
      BY TradeAssumption
    <2> DEFINE bag == Loaded(StartCells[p], StartMoney[p])
    <2>2. /\ bag \in Bag /\ Free(bag) /\ bag.cells = StartCells[p]
          /\ bag.money = StartMoney[p]
      BY <1>4, <2>1 DEF Loaded, Bag, Free
    <2> HIDE DEF bag
    <2>3. Pl(p) \in PlayerState
      BY <1>2, <1>3, <1>4, <2>1, <2>2 DEF PlayerState, bag
    <2>4. Shows(Pl(p))
      BY <2>2 DEF Shows, bag
    <2>5. QED
      BY <2>2, <2>3, <2>4 DEF bag
  <1> HIDE DEF Pl
  <1>7. player \in [Player -> PlayerState] /\ \A p \in Player : player[p] = Pl(p)
    BY <1>5, <1>6
  <1>8. State \in StateType
    BY <1>1, <1>7 DEF StateType, State
  <1>9. Together(State) /\ Alone(State) /\ Waits(State)
    BY <1>1 DEF Together, Alone, Waits
  <1>10. Locks(State) /\ Windows(State) /\ (\A p \in Player : Asks(State, p))
         /\ \A p \in Player : Shows(State.player[p])
    BY <1>1, <1>6, <1>7 DEF Locks, Windows, Asks
  <1>11. Good(State)
    BY <1>1, <1>8, <1>9, <1>10 DEF Good
  <1>12. QED
    BY <1>1, <1>4, <1>11 DEF TradeInvariant

LEMMA InitHolds ==
  ASSUME Init
  PROVE  Holds(State)
  <1>1. ASSUME NEW p \in Player
        PROVE  player[p].bag.cells = StartCells[p]
    BY <1>1 DEF Init, Loaded
  <1>2. \A p \in Player, i \in Index : Fits(i, StartCells[p][i])
    BY TradeAssumption
  <1>3. State.player = player
    BY DEF State
  <1>4. QED
    BY <1>1, <1>2, <1>3 DEF Holds, Lawful

LEMMA StepGood ==
  ASSUME TradeInvariant, [Next]_vars
  PROVE  TradeInvariant'
  <1>1. CASE UNCHANGED vars
    <2>1. State' = State /\ nextId' = nextId
      BY <1>1 DEF vars, State
    <2>2. Good(State')
      BY <2>1 DEF TradeInvariant
    <2>3. QED
      BY <2>1, <2>2 DEF TradeInvariant
  <1>2. CASE GameTick
    BY <1>2, TickGood DEF GameTick
  <1>3. ASSUME NEW p \in Player, Trading(p)
        PROVE  TradeInvariant'
    <2>1. ASSUME NEW q \in Player, AskFor(p, q)
          PROVE  TradeInvariant'
      BY <2>1, AskGood
    <2>2. CASE Decline(p)
      BY <2>2, DeclineGood
    <2>3. CASE Accept(p)
      BY <2>3, AcceptGood
    <2>4. ASSUME NEW i \in Index, NEW n \in Amount, LayOut(p, i, n)
          PROVE  TradeInvariant'
      BY <2>4, LayOutGood
    <2>5. ASSUME NEW n \in Amount, AddMoney(p, n)
          PROVE  TradeInvariant'
      BY <2>5, AddMoneyGood
    <2>6. ASSUME NEW saving \in SUBSET Player, Commit(p, saving)
          PROVE  TradeInvariant'
      BY <2>6, CommitGood
    <2>7. CASE Cancel(p)
      BY <2>7, CancelGood
    <2>8. QED
      BY <1>3, <2>1, <2>2, <2>3, <2>4, <2>5, <2>6, <2>7 DEF Trading
  <1>4. ASSUME NEW p \in Player, Living(p)
        PROVE  TradeInvariant'
    <2>1. ASSUME NEW i \in Index, UseItem(p, i) \/ Equip(p, i)
          PROVE  TradeInvariant'
      BY <2>1, UseAndEquip
    <2>2. ASSUME NEW it \in Item, NEW n \in Amount, Buy(p, it, n) \/ Gain(p, it, n)
          PROVE  TradeInvariant'
      BY <2>2, BuyAndGain
    <2>3. ASSUME NEW i \in Index, NEW n \in Amount, Sell(p, i, n)
          PROVE  TradeInvariant'
      BY <2>3, SellGood
    <2>4. CASE Die(p) \/ \E spot \in Spot : Walk(p, spot)
      BY <2>4, WalkAndDie
    <2>5. ASSUME NEW zone \in Zone,
                 TransferPlayer(p, zone) \/ Respawn(p, zone) \/ EnterGame(p, zone)
          PROVE  TradeInvariant'
      BY <2>5, TransferGood, RespawnGood, EnterGood
    <2>6. CASE LeaveGame(p)
      BY <2>6, LeaveGood
    <2>7. QED
      BY <1>4, <2>1, <2>2, <2>3, <2>4, <2>5, <2>6 DEF Living
  <1>5. QED
    BY <1>1, <1>2, <1>3, <1>4 DEF Next

LEMMA StepConserves ==
  ASSUME TradeInvariant, Holds(State), [Next]_vars
  PROVE  Conserves(State, State')
  <1>1. CASE UNCHANGED vars
    BY <1>1, BagsAsTheyWere DEF vars
  <1>2. CASE GameTick
    BY <1>2, TickConserves DEF GameTick
  <1>3. ASSUME NEW p \in Player, Trading(p)
        PROVE  Conserves(State, State')
    <2>1. ASSUME NEW q \in Player, AskFor(p, q)
          PROVE  Conserves(State, State')
      BY <2>1, WalkDieAskConserve
    <2>2. CASE Decline(p)
      BY <2>2, DeclineConserves
    <2>3. CASE Accept(p)
      BY <2>3, AcceptConserves
    <2>4. ASSUME NEW n \in Amount, AddMoney(p, n) \/ \E i \in Index : LayOut(p, i, n)
          PROVE  Conserves(State, State')
      BY <2>4, OffersConserve
    <2>5. ASSUME NEW saving \in SUBSET Player, Commit(p, saving)
          PROVE  Conserves(State, State')
      BY <2>5, CommitConserves
    <2>6. CASE Cancel(p)
      BY <2>6, CancelConserves
    <2>7. QED
      BY <1>3, <2>1, <2>2, <2>3, <2>4, <2>5, <2>6 DEF Trading
  <1>4. ASSUME NEW p \in Player, Living(p)
        PROVE  Conserves(State, State')
    <2>1. ASSUME NEW i \in Index, UseItem(p, i) \/ Equip(p, i)
          PROVE  Conserves(State, State')
      BY <2>1, UseAndEquipConserve
    <2>2. ASSUME NEW n \in Amount,
                 \/ \E it \in Item : Buy(p, it, n) \/ Gain(p, it, n)
                 \/ \E i \in Index : Sell(p, i, n)
          PROVE  Conserves(State, State')
      BY <2>2, ShopConserves
    <2>3. CASE Die(p) \/ \E spot \in Spot : Walk(p, spot)
      BY <2>3, WalkDieAskConserve
    <2>4. ASSUME NEW zone \in Zone,
                 TransferPlayer(p, zone) \/ Respawn(p, zone) \/ EnterGame(p, zone)
          PROVE  Conserves(State, State')
      BY <2>4, TransferConserves, RespawnConserves, EnterConserves
    <2>5. CASE LeaveGame(p)
      BY <2>5, LeaveConserves
    <2>6. QED
      BY <1>4, <2>1, <2>2, <2>3, <2>4, <2>5 DEF Living
  <1>5. QED
    BY <1>1, <1>2, <1>3, <1>4 DEF Next

\* A step that conserves is one the property allows: what it says of cells and
\* offers are sums.
LEMMA StepSwapsWhole ==
  ASSUME TradeInvariant, TradeInvariant', Whole(State, State'),
         NEW t \in sessions, Ended(t)
  PROVE  \/ \A s \in 1 .. 2 : Kept(t.side[s].player)
         \/ Ready(t) /\ \A s \in 1 .. 2 : Exchanged(t, s)
  <1>1. /\ State.player = player /\ State.sessions = sessions
        /\ State'.player = player' /\ State'.sessions = sessions'
    BY DEF State
  <1>2. /\ \A p \in Player : player[p].bag \in Bag
        /\ sessions \subseteq Session
    BY Here
  <1>3. \A p \in Player : player'[p].bag \in Bag
    <2>1. State' \in StateType
      BY DEF TradeInvariant, Good
    <2>2. \A p \in Player : State'.player[p].bag \in Bag
      BY <2>1, Parts
    <2>3. QED
      BY <1>1, <2>2
  <1>4. \A s \in 1 .. 2 : t.side[s].player \in Player /\ t.side[s] \in Half
    BY <1>2, SessionParts
  <1>5. Settles(State, State', t)
    <2>1. ~ Persists(State', t)
      BY <1>1 DEF Ended, Persists
    <2>2. QED
      BY <1>1, <2>1 DEF Whole
  <1>6. ASSUME NEW p \in Player
        PROVE  \A it \in Item : /\ Held(player[p].bag, it) = Owned(player[p].bag, it)
                                /\ Held(player'[p].bag, it) = Owned(player'[p].bag, it)
    BY <1>2, <1>3, HeldIsOwned
  <1>7. CASE \A s \in 1 .. 2 : SameGoods(State, State', t.side[s].player)
    <2>1. ASSUME NEW s \in 1 .. 2
          PROVE  Kept(t.side[s].player)
      <3> DEFINE p == t.side[s].player
      <3>1. p \in Player /\ SameGoods(State, State', p)
        BY <1>4, <1>7
      <3> HIDE DEF p
      <3>2. /\ player'[p].bag.cells = player[p].bag.cells
            /\ player'[p].bag.money = player[p].bag.money
        BY <1>1, <3>1 DEF SameGoods
      <3>3. \A it \in Item : Owned(player'[p].bag, it) = Owned(player[p].bag, it)
        BY <3>2, OwnedByCells
      <3>4. Kept(p)
        BY <1>6, <3>1, <3>2, <3>3 DEF Kept
      <3>5. QED
        BY <3>4 DEF p
    <2>2. QED
      BY <2>1
  <1>8. CASE ReadyAt(State, t) /\ \A s \in 1 .. 2 : Traded(State, State', t, s)
    <2>1. Ready(t)
      BY ZenonT(60), SMTT(60), <1>1, <1>8 DEF Ready, ReadyAt
    <2>2. ASSUME NEW s \in 1 .. 2
          PROVE  Exchanged(t, s)
      <3> DEFINE p == t.side[s].player
                 gives == t.side[s]
                 gets == t.side[3 - s]
      <3>1. 3 - s \in 1 .. 2
        OBVIOUS
      <3>2. p \in Player /\ gives \in Half /\ gets \in Half
        BY ZenonT(60), SMTT(60), <1>4, <3>1
      <3>3. /\ \A it \in Item : Owned(player'[p].bag, it)
                  = Owned(player[p].bag, it) - Handed(gives.items, it) + Handed(gets.items, it)
            /\ player'[p].bag.money = player[p].bag.money - gives.money + gets.money
        BY ZenonT(60), SMTT(60), <1>1, <1>8 DEF Traded
      <3> HIDE DEF p, gives, gets
      <3>4. \A it \in Item : Laid(gives, it) = Handed(gives.items, it)
                             /\ Laid(gets, it) = Handed(gets.items, it)
        BY <3>2, LaidIsHanded
      <3>5. \A it \in Item : Held(player'[p].bag, it)
               = Held(player[p].bag, it) - Laid(gives, it) + Laid(gets, it)
        BY <1>6, <3>2, <3>3, <3>4
      <3>6. QED
        BY ZenonT(60), SMTT(60), <3>3, <3>5 DEF Exchanged, p, gives, gets
    <2>3. QED
      BY <2>1, <2>2
  <1>9. QED
    BY <1>5, <1>7, <1>8 DEF Settles

-----------------------------------------------------------------------------
(* The theorems. *)

LEMMA TradeInvariantHolds ==
  Spec => []TradeInvariant
  <1>1. Init => TradeInvariant
    BY ZenonT(60), SMTT(60), InitGood
  <1>2. TradeInvariant /\ [Next]_vars => TradeInvariant'
    BY StepGood
  <1>3. QED
    BY <1>1, <1>2, PTL DEF Spec

LEMMA CellsAreLawful ==
  Spec => [](TradeInvariant /\ Holds(State))
  <1>1. Init => Holds(State)
    BY InitHolds
  <1>2. TradeInvariant /\ Holds(State) /\ [Next]_vars => Holds(State)'
    <2>1. ASSUME TradeInvariant, Holds(State), [Next]_vars
          PROVE  Holds(State)'
      <3>1. Holds(State')
        BY <2>1, StepConserves DEF Conserves
      <3>2. QED
        BY <3>1
    <2>2. QED
      BY <2>1
  <1>3. QED
    BY <1>1, <1>2, TradeInvariantHolds, PTL DEF Spec

\* Every variable keeps its type for ever: no bag, offer, wait or request number
\* leaves its bounds and no stack its tab and its size, in whatever order trades,
\* shops, deaths and exits come.
THEOREM TradeTypes ==
  Spec => []TradeTypeOK
  <1>1. TradeInvariant /\ Holds(State) => TradeTypeOK
    BY GoodTypes
  <1>2. QED
    BY <1>1, CellsAreLawful, PTL

\* Whoever asks or trades has its partner in the game and on its own map, on which
\* trading is allowed, although maps are compared only when a trade begins and ends:
\* every way off a map ends what its player is in (Drop).
THEOREM PartnersStayTogether ==
  Spec => []PartnersTogether
  BY TradeInvariantHolds, GoodTogether, PTL

\* Nobody is ever in two requests or trades, so the look-ups by player find the
\* only one there is (Busy).
THEOREM OneTradeForEach ==
  Spec => []OneTradeEach
  BY TradeInvariantHolds, GoodAlone, PTL

\* What is locked in a bag is what its owner has laid out, and is still there,
\* whatever was used, sold, bought, equipped or swapped meanwhile; nothing stays
\* locked once a trade has ended.
THEOREM OffersStayLocked ==
  Spec => []LocksAreOffers
  BY TradeInvariantHolds, GoodLocks, PTL

\* An offer has never changed when the swap compares it with its bag: the line
\* "offer changed under lock" of the log is unreachable (SameAsOffered).
THEOREM OffersNeverChange ==
  Spec => []NeverChanged
  <1>1. TradeInvariant => NeverChanged
    BY ZenonT(60), SMTT(60) DEF TradeInvariant, Good, State, NeverChanged
  <1>2. QED
    BY TradeInvariantHolds, <1>1, PTL

\* Every client of a player in the game shows the request it may answer, its trade
\* with both halves, and its bag and money as the server holds them.
THEOREM ClientsShowTheTruth ==
  Spec => []ScreensAgree
  BY TradeInvariantHolds, GoodScreens, PTL

\* A trade ends whole: both sides got exactly what the other had laid out, having
\* given what they had laid out themselves, or both have what they had.  However
\* the cells are filled, split and topped up (Given, Received), no item and no money
\* is made or lost.
THEOREM SwapsAreWhole ==
  Spec => SwapWhole
  <1>1. TradeInvariant /\ TradeInvariant' /\ Holds(State) /\ [Next]_vars
          => [\A t \in sessions : Ended(t) =>
                 \/ \A s \in 1 .. 2 : Kept(t.side[s].player)
                 \/ Ready(t) /\ \A s \in 1 .. 2 : Exchanged(t, s)]_vars
    <2>1. ASSUME TradeInvariant, TradeInvariant', Holds(State), [Next]_vars,
                 NEW t \in sessions, Ended(t)
          PROVE  \/ \A s \in 1 .. 2 : Kept(t.side[s].player)
                 \/ Ready(t) /\ \A s \in 1 .. 2 : Exchanged(t, s)
      <3>1. Whole(State, State')
        BY <2>1, StepConserves DEF Conserves
      <3>2. QED
        BY <2>1, <3>1, StepSwapsWhole
    <2>2. QED
      BY ZenonT(60), SMTT(60), <2>1
  <1>2. Spec => [][Next]_vars
    BY PTL DEF Spec
  <1>3. QED
    BY <1>1, <1>2, CellsAreLawful, PTL DEF SwapWhole

=============================================================================
