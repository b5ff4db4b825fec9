\* A call ends, hence no deadlock check.
SPECIFICATION FairSpec
CONSTANTS
    BPS_FACTOR = 10000
    Debts = {3, 8, 13}
    Supplied = {0, 9, 21}
    Plain = {1, 4}
    Floors = {2, 4}
    CloseFactors = {5000, 10000}
    Accruals = {0, 1500}
    OtherDebts = {0, 3}
    InsolvencyLtv = 9700
    MaxOverpay = 3
    MaxOfferSlack = 2
    Pairs <- MCPairs
INVARIANTS TypeOK FitSound SearchesFindTheLeast FitAsDefined LtvNotRaised OfferOutlastsInterest
PROPERTY Returns
CHECK_DEADLOCK FALSE
