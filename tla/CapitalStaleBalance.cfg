SPECIFICATION Spec
CONSTANTS
    Ops = {o1, o2}
    NoOp = NoOp
    Tokens = {xlm}
    Xlm = xlm
    XlmSafetyMargin = 1
    MaxAmount = 2
    WalletAmount = 3
    InitialWallet <- MCInitialWallet
    MaxRetries = 1
    MaxProbes = 2
    ActionCapacity = 1
    ReservationTtl = 30
    BalanceTtl = 10
    MaxRestarts = 0
INVARIANT NoDoubleSpend
