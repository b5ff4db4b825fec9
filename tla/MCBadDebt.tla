----------------------------- MODULE MCBadDebt -----------------------------
(* An instance of BadDebt for TLC. A is the borrowed asset, B and C are collateral;  *)
(* the threshold, 37 cents at one oracle decimal, is between 3 and 4 oracle units.   *)
EXTENDS BadDebt, TLC

CONSTANTS A, B, C

Pool(supply, j, borrowed, d, price, factor, close_ltv) ==
    [supply |-> supply, j |-> j, borrowed |-> borrowed, d |-> d, limit |-> 9000,
     price |-> price, factor |-> factor, close_ltv_bps |-> close_ltv, liability_bps |-> 10000,
     incentive_bps |-> 5000, close_factor_bps |-> 5000, borrow_apy_bps |-> 1000, supply_apy_bps |-> 500]

\* Shares of A's debt and of B's supply are not worth whole tokens; C has no shares.
Pools(b_price) ==
    (A :> Pool(20, 20, 10, 8, 1, 1, 0)) @@ (B :> Pool(24, 9, 0, 0, b_price, 1, 7500))
    @@ (C :> Pool(0, 0, 0, 0, 3, 2, 7500))

Market(pools) ==
    [pools |-> pools, min_cents |-> 37, oracle_pow |-> 10, insolvency_ltv |-> 10000, elapsed |-> 60000]

\* Two prices of B, and a snapshot that does not price the debt.
MCMarketStates ==
    [b1 |-> Market(Pools(1)), b2 |-> Market(Pools(2)), unpriced |-> Market([x \in {B, C} |-> Pools(1)[x]])]

Holding(deposits, debt) == [deposits |-> deposits, borrows |-> {[pool |-> A, d |-> debt]}]
InB(j) == [pool |-> B, j |-> j, plain |-> 0]
InC(plain) == [pool |-> C, j |-> 0, plain |-> plain]

\* Debt alone; dust in plain tokens, against a small debt and a larger one; dust in
\* shares and in plain tokens. At this scale one oracle unit is a third of a position:
\* only a high incentive makes `taken` one that the liquidator still takes although it
\* is insolvent.
MCShapes ==
    [bare |-> Holding({}, 2), plain |-> Holding({InC(2)}, 1),
     taken |-> Holding({InC(2)}, 4),
     both |-> Holding({InB(1), InC(1)}, 4)]
=============================================================================
