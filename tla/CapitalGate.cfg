SPECIFICATION FairSpec
CONSTANTS
    Ops = {o1, o2}
    NoOp = NoOp
    Tokens = {xlm}
    Xlm = xlm
    XlmSafetyMargin = 1
    MaxAmount = 2
    WalletAmount = 3
    InitialWallet <- MCInitialWallet
    MaxRetries = 2
    MaxProbes = 1
    ActionCapacity = 1
    ReservationTtl = 1
    BalanceTtl = 1
    MaxRestarts = 1
INVARIANTS TypeOK SingleOwner ReservationsOfLiveOps SubmittedOnce
PROPERTIES ReservationEndsForAReason PushedActionsEnd ImplementsReservationLedger
