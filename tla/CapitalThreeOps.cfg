\* Three operations of two strategies against one balance: enough for one to have
\* landed and been released, one to be in flight and one to be judged.
SPECIFICATION Spec
CONSTANTS
    Ops = {o1, o2, o3}
    NoOp = NoOp
    Tokens = {xlm}
    Xlm = xlm
    XlmSafetyMargin = 1
    MaxAmount = 2
    WalletAmount = 3
    InitialWallet <- MCInitialWallet
    MaxRetries = 1
    MaxProbes = 2
    ActionCapacity = 1
    ReservationTtl = 1
    BalanceTtl = 1
    MaxRestarts = 0
SYMMETRY Symmetry
INVARIANT CoveredUnlessBlind
