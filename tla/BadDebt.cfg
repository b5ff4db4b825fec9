SPECIFICATION Spec
CONSTANTS
    A = A
    B = B
    C = C
    Keys = {k1}
    Gone = Gone
    Shapes <- MCShapes
    InitialShapes = {"taken", "both"}
    LaterShapes = {"bare", "plain"}
    MarketStates <- MCMarketStates
    BPS_FACTOR = 10000
    SECONDS_IN_YEAR = 31556926
    MinProfitCents = 0
    Interval = 2
    MaxChanges = 2
    MaxFaults = 1
    EventCapacity = 1
    RequestCapacity = 2
INVARIANTS TypeOK CoverJustified LeftToLiquidation
PROPERTIES EligibleIsCovered StopsAsking
