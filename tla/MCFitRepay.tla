----------------------------- MODULE MCFitRepay -----------------------------
(* Instances of FitRepay for TLC: pairs over small amounts, prices and rates. *)
EXTENDS FitRepay

CONSTANTS
    Debts,          \* position debts, in tokens
    Supplied,       \* supplied parts of the collateral
    Plain,          \* plain parts of the collateral
    Floors,         \* dust floors
    CloseFactors,   \* liquidation_close_factor_bps
    Accruals,       \* interest estimates of both pools
    OtherDebts,     \* value of the obligation's other borrows
    InsolvencyLtv   \* insolvency_ltv_bps

\* Tokens of one unit, and of ten units at a price that does not divide.
MCPrices == {<<1, 1>>, <<3, 1>>, <<7, 10>>}

\* ClearingMargin::INITIAL and RETRY.
MCMargins == {<<100, 0>>, <<500, 100>>}

\* An obligation with one deposit, whose share rates are rounded to basis points:
\* against the position, its debt may be valued a token up, its supply one down.
MCPairs ==
    {[debt |-> d, debt_price |-> b[1], debt_factor |-> b[2],
      supplied |-> s, plain |-> c, price |-> k[1], factor |-> k[2],
      obligation_debt_value |-> value_ceil(d + r, b[1], b[2]) + o,
      obligation_collateral_value |-> value_floor(Max({0, s - r}) + c, k[1], k[2]),
      is_insolvent |-> CeilDiv((value_ceil(d + r, b[1], b[2]) + o) * BPS_FACTOR,
                               Max({1, value_floor(Max({0, s - r}) + c, k[1], k[2])})) >= InsolvencyLtv,
      incentive_bps |-> 1000, close_factor_bps |-> f, floor |-> l,
      debt_accrual_bps |-> a, supply_accrual_bps |-> a,
      refunded_bps |-> m[1], unrefunded_bps |-> m[2]] :
     d \in Debts, s \in Supplied, c \in Plain, b \in MCPrices, k \in MCPrices, r \in {0, 1},
     f \in CloseFactors, l \in Floors, a \in Accruals, o \in OtherDebts, m \in MCMargins}
=============================================================================
