SPECIFICATION FairSpec
CONSTANTS
    NoItem = NoItem
    NoWin = NoWin
    Spot = {1, 2}
    TradeZone = {1}
    Item = {"potion", "coin"}
    Def <- EndsDef
    Index = {1, 2}
    Worn = {2}
    TabOf <- EndsTabOf
    OfferMax = 1
    RequestMax = 2
    AmountMax = 1
    StartCells <- EndsCells
    StartMoney <- EndsMoney
    Zone = {1, 2}
    MoneyMax = 1
    AskFrames = 0
    WaitFrames = 1
    Player = {"a", "b", "c"}
    Deeds <- EndsDeeds
INVARIANTS PartnersTogether OneTradeEach ScreensAgree
PROPERTIES EveryTradeSettles
