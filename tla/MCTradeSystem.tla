---------------------------- MODULE MCTradeSystem ----------------------------
(* Two instances.  In the first, two players with full bags and little to do   *)
(* but trade; in the second, three players and whatever can end a trade.       *)
EXTENDS TradeSystem

Of(it, n) == [item |-> it, count |-> n]

Row(tab, store, maxStack, usable, price) ==
    [tab |-> tab, store |-> store, maxStack |-> maxStack, tradable |-> TRUE,
     usable |-> usable, price |-> price]

\* Potions stack to two in a tab of two cells; a sword goes into a tab of one, or
\* is worn.  There is hardly any money.
BagsDef == [potion |-> Row("USE", "SLOT", 2, TRUE, 2),
            sword |-> Row("EQUIP", "SLOT", 1, FALSE, 1)]

BagsTabOf == <<"USE", "USE", "EQUIP", "EQUIP">>

BagsCells ==
    "a" :> <<Of("potion", 1), EmptyCell, EmptyCell, Of("sword", 1)>>
 @@ "b" :> <<Of("potion", 2), Of("potion", 1), EmptyCell, EmptyCell>>

BagsMoney == "a" :> 1 @@ "b" :> 0

BagsDeeds == "a" :> {"walk", "equip"} @@ "b" :> {"use", "shop"}

\* One cell to give from, and coins that go into the purse.
EndsDef == [potion |-> Row("USE", "SLOT", 1, TRUE, 2),
            coin |-> Row(NoTab, "MONEY", 1, FALSE, 0)]

EndsTabOf == <<"USE", "EQUIP">>

EndsCells ==
    [p \in Player |-> <<IF p = "a" THEN Of("potion", 1) ELSE EmptyCell, EmptyCell>>]

EndsMoney == [p \in Player |-> 0]

EndsDeeds == "a" :> {"walk", "die"} @@ "b" :> {"gain"} @@ "c" :> {}

=============================================================================
