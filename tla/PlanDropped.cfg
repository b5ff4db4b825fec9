\* The planning of a pair ends, hence no deadlock check.
SPECIFICATION Spec
CONSTANTS
    Pairs <- MCPairs
    Sources <- MCSources
    SourcePrice <- MCSourcePrice
    Amounts = {0, 1, 11, 70}
    Xlm = "xlm"
    XlmSafetyMargin = 1
    MarginValue = 0
    SlippageBps = 1000
    FlashFeeBps = 5
    TokenFactor = 10
    BPS_FACTOR = 10000
    SCALAR_9 = 10000
    Debts = {11, 64}
    Plain = {0, 3}
    Supplied = {1, 12, 72}
    Others = {0, 10}
    Withdrawable = {0, 11, 70}
    Lendable = {9, 70}
    Floor = 2
    CloseLtv = 8000
    InsolvencyLtv = 9700
INVARIANT EveryCandidateCounts
CHECK_DEADLOCK FALSE
