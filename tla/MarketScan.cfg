SPECIFICATION FairSpec
CONSTANTS
    MarketList <- MCMarketList
    Pools = {"usdc", "gold", "xlm"}
    PoolsOf <- MCPoolsOf
    Obligations <- MCObligations
    Own = {"own"}
    MarketOf <- MCMarketOf
    Touches <- MCTouches
    NoObligation = NoObligation
    RefreshInterval = 2
    MaxDataAge = 1
    EventCapacity = 1
    RoundBudget = 1
INVARIANTS TypeOK ScansOnHeldPrices
PROPERTIES RoundsEnd JudgedAgain
