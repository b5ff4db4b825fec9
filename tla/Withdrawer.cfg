SPECIFICATION Spec
CONSTANTS
    p1 = p1
    p2 = p2
    m1 = m1
    m2 = m2
    Pools = {p1, p2}
    Markets = {m1, m2}
    MarketOf <- MCMarketOf
    InitialPools <- MCInitialPools
    InitialShares <- MCInitialShares
    BPS_FACTOR = 100
    Prices = {0, 1}
    CentFactor = 1
    MinCents = 2
    SafetyMargin = 10
    Interval = 2
    Everything = 1000
    Steps = {3}
    MaxChanges = 2
    MaxFaults = 1
    EventCapacity = 1
    ActionCapacity = 2
INVARIANTS TypeOK PaidOnReading NoLargerFits SafeUnlessStale
PROPERTY WorthwhileIsWithdrawn
