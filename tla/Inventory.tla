------------------------------ MODULE Inventory ------------------------------
(***************************************************************************)
(* The bag of one character (Inventory.cpp) and what a player does with it *)
(* alone: use, equip, buy, sell, gain.  A bag is a value; its functions    *)
(* are operators from a bag to a bag.  Cells are numbered as in the        *)
(* source, tab after tab, then the worn ones.                              *)
(*                                                                         *)
(* Cooldowns, full health and the reach of a shop only refuse and are left *)
(* out: here a player may always act.                                      *)
(***************************************************************************)
EXTENDS Integers, FiniteSets, FiniteSetsExt, TLC

CONSTANTS Item, NoItem,
          Def,        \* Def[item]: its row of the item table
          Index,      \* cells of a bag
          Worn,       \* the cells of what is worn
          TabOf,      \* TabOf[i]: the tab whose items fit in cell i
          MoneyMax    \* most money a character can hold

Tab == {"EQUIP", "USE", "ETC"}

NoTab == "NONE"     \* the tab of what is money

ItemDef == [tab : Tab \cup {NoTab}, store : {"SLOT", "MONEY"}, maxStack : Nat \ {0},
            tradable : BOOLEAN, usable : BOOLEAN, price : Nat]

ASSUME InventoryAssumption ==
    /\ NoItem \notin Item
    /\ Def \in [Item -> ItemDef]
    /\ \A it \in Item : /\ Def[it].store = "SLOT" <=> Def[it].tab # NoTab
                        /\ Def[it].usable => Def[it].tab = "USE"
    /\ Index \subseteq Nat /\ IsFiniteSet(Index) /\ Worn \subseteq Index /\ Worn # {}
    /\ TabOf \in [Index -> Tab] /\ \A i \in Worn : TabOf[i] = "EQUIP"
    /\ MoneyMax \in Nat

EmptyCell == [item |-> NoItem, count |-> 0]

Cell == [item : Item \cup {NoItem}, count : Nat]

\* What loading accepts in a cell: nothing, or a stack of an item of its tab.
Fits(i, cell) ==
    \/ cell = EmptyCell
    \/ /\ cell.item \in Item /\ Def[cell.item].tab = TabOf[i]
       /\ cell.count \in 1 .. Def[cell.item].maxStack

Bag == [cells : [Index -> Cell], money : 0 .. MoneyMax,
        locked : SUBSET (Index \ Worn), lockedMoney : 0 .. MoneyMax,
        changed : SUBSET Index, moneyChanged : BOOLEAN]

\* A bag as it comes from the tables: nothing locked, nothing to show.
Loaded(cells, money) ==
    [cells |-> cells, money |-> money, locked |-> {}, lockedMoney |-> 0,
     changed |-> {}, moneyChanged |-> FALSE]

-----------------------------------------------------------------------------
(* Cells. *)

TabSlots(it) == {i \in Index \ Worn : TabOf[i] = Def[it].tab}

\* New contents for some cells, which are then to be shown.
Put(bag, new) ==
    [bag EXCEPT !.cells = [i \in Index |-> IF i \in DOMAIN new THEN new[i] ELSE @[i]],
                !.changed = @ \cup DOMAIN new]

\* How many of an item cell i of its tab can take.  A locked cell takes none.
Room(bag, it, i) ==
    LET held == bag.cells[i].item
    IN  IF i \in bag.locked \/ held \notin {it, NoItem} THEN 0
        ELSE Def[it].maxStack - bag.cells[i].count

RoomIn(bag, it, S) == MapThenSumSet(LAMBDA i : Room(bag, it, i), S)

\* Cells are filled in their order, those that already hold the item first.
FilledBefore(bag, it, i) ==
    {j \in TabSlots(it) :
        \/ bag.cells[j].item = it /\ bag.cells[i].item = NoItem
        \/ bag.cells[j].item = bag.cells[i].item /\ j < i}

Share(bag, it, n, i) ==
    Min({Room(bag, it, i), Max({0, n - RoomIn(bag, it, FilledBefore(bag, it, i))})})

TryAddMoney(bag, n) ==
    IF n > MoneyMax - bag.money THEN [why |-> "MONEY_FULL", bag |-> bag]
    ELSE [why |-> "OK",
          bag |-> [bag EXCEPT !.money = @ + n, !.moneyChanged = TRUE]]

\* All n go in, or nothing changes.
TryAdd(bag, it, n) ==
    IF n < 1 THEN [why |-> "BAD_COUNT", bag |-> bag]
    ELSE IF Def[it].store = "MONEY" THEN TryAddMoney(bag, n)
    ELSE IF RoomIn(bag, it, TabSlots(it)) < n THEN [why |-> "TAB_FULL", bag |-> bag]
    ELSE LET fed == {i \in TabSlots(it) : Share(bag, it, n, i) > 0}
         IN  [why |-> "OK",
              bag |-> Put(bag, [i \in fed |->
                        [item |-> it, count |-> bag.cells[i].count + Share(bag, it, n, i)]])]

RemoveFrom(bag, i, n) ==
    Put(bag, [j \in {i} |->
        IF bag.cells[i].count <= n THEN EmptyCell ELSE [bag.cells[i] EXCEPT !.count = @ - n]])

SpendMoney(bag, n) == [bag EXCEPT !.money = @ - n, !.moneyChanged = TRUE]

SwapSlots(bag, i, j) ==
    Put(bag, [k \in {i, j} |-> IF k = i THEN bag.cells[j] ELSE bag.cells[i]])

EmptyIn(bag, tab) ==
    {i \in Index \ Worn : TabOf[i] = tab /\ bag.cells[i].item = NoItem}

LockSlot(bag, i) == [bag EXCEPT !.locked = @ \cup {i}]

LockMoney(bag, n) == [bag EXCEPT !.lockedMoney = @ + n]

UnlockAll(bag) == [bag EXCEPT !.locked = {}, !.lockedMoney = 0]

\* Mutated form: money laid out in a trade may be spent.
AllMoney(bag) == bag.money

SpendableMoney(bag) == bag.money - bag.lockedMoney

-----------------------------------------------------------------------------
(* What a player does alone.  Each guard is what its check lets pass.      *)

\* Mutated form: a potion laid out in a trade may be drunk.
CanUseThoughLocked(bag, i) ==
    bag.cells[i].item # NoItem /\ Def[bag.cells[i].item].usable

CanUse(bag, i) ==
    /\ bag.cells[i].item # NoItem
    /\ i \notin bag.locked
    /\ Def[bag.cells[i].item].usable

CanEquip(bag, i) ==
    /\ i \in Index \ Worn
    /\ bag.cells[i].item # NoItem
    /\ i \notin bag.locked
    /\ Def[bag.cells[i].item].tab = "EQUIP"

CanUnequip(bag, i) ==
    /\ i \in Worn
    /\ bag.cells[i].item # NoItem
    /\ EmptyIn(bag, "EQUIP") # {}

Equipped(bag, i) == SwapSlots(bag, i, Min(Worn))

Unequipped(bag, i) == SwapSlots(bag, i, Min(EmptyIn(bag, "EQUIP")))

\* A shop sells what has a price and buys for half of it, rounded down.
CanBuy(bag, it, n) ==
    /\ Def[it].store = "SLOT" /\ Def[it].price > 0
    /\ n \in 1 .. Def[it].maxStack
    /\ Def[it].price * n <= SpendableMoney(bag)
    /\ TryAdd(bag, it, n).why = "OK"

Bought(bag, it, n) == SpendMoney(TryAdd(bag, it, n).bag, Def[it].price * n)

SellPriceOf(it) == Def[it].price \div 2

CanSell(bag, i, n) ==
    /\ i \in Index \ Worn
    /\ bag.cells[i].item # NoItem
    /\ i \notin bag.locked
    /\ SellPriceOf(bag.cells[i].item) > 0
    /\ n \in 1 .. bag.cells[i].count
    /\ SellPriceOf(bag.cells[i].item) * n <= MoneyMax - bag.money

Sold(bag, i, n) ==
    TryAddMoney(RemoveFrom(bag, i, n), SellPriceOf(bag.cells[i].item) * n).bag

=============================================================================
