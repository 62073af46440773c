SPECIFICATION Spec
CONSTANTS
    NoItem = NoItem
    NoWin = NoWin
    Spot = {1, 2}
    TradeZone = {1}
    Item = {"potion", "sword"}
    Def <- BagsDef
    Index = {1, 2, 3, 4}
    Worn = {4}
    TabOf <- BagsTabOf
    MoneyMax = 1
    Player = {"a", "b"}
    Zone = {1}
    OfferMax = 2
    AskFrames = 0
    WaitFrames = 0
    RequestMax = 1
    AmountMax = 2
    StartCells <- BagsCells
    StartMoney <- BagsMoney
    Deeds <- BagsDeeds
INVARIANTS TradeTypeOK LocksAreOffers NeverChanged
PROPERTIES SwapWhole
