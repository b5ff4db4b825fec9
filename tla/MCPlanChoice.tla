---------------------------- MODULE MCPlanChoice ----------------------------
(* Instances of PlanChoice for TLC. *)
EXTENDS PlanChoice

CONSTANTS
    Debts,          \* debts of the borrow position
    Plain,          \* plain collateral
    Supplied,       \* supplied collateral
    Others,         \* value of the obligation's other deposit
    Withdrawable,   \* what the collateral pool can pay out
    Lendable,       \* what the borrow pool can lend
    Floor,          \* min_collateral_value_cents, as oracle value
    CloseLtv,       \* close_ltv_bps
    InsolvencyLtv   \* insolvency_ltv_bps

\* Prices of ten units: one that divides and one that does not.
MCPrices == {10, 7}

\* Held assets: XLM, two with a pool, and one the market does not list.
MCSources == <<"xlm", "usdc", "aqua", "eurc">>
MCSourcePrice == [s \in {"xlm", "usdc", "aqua", "eurc"} |->
                    CASE s = "xlm" -> 7 [] s = "aqua" -> 0 [] OTHER -> 10]

\* compute_is_insolvent and, for a liability factor of one, compute_is_liquidatable.
MCInsolvent(debt_value, collateral_value) ==
    collateral_value = 0 \/ CeilDiv(debt_value * BPS_FACTOR, collateral_value) >= InsolvencyLtv
MCLiquidatable(p) ==
    LET scaled == (p.collateral_value * CloseLtv) \div BPS_FACTOR
    IN  Floor <= scaled /\ p.debt_value > scaled - Floor

\* An obligation with one borrow and one or two deposits, with a close factor of half.
MCPair(token, debt, b, k, plain, supplied, rounded, other, withdrawable, lendable, flash) ==
    LET real_supply == supplied - rounded
        debt_value == CeilDiv(debt * b, TokenFactor)
        collateral_value == value(real_supply + plain, k) + other
        insolvent == MCInsolvent(debt_value, collateral_value)
    IN  [borrow_token |-> token, feasible |-> IF insolvent THEN debt ELSE debt \div 2,
         debt_price |-> b, price |-> k,
         plain |-> plain, supplied |-> supplied, real_supply |-> real_supply,
         withdrawable |-> withdrawable, lendable |-> lendable, flash_enabled |-> flash,
         is_insolvent |-> insolvent, incentive_bps |-> 1000,
         debt_value |-> debt_value, collateral_value |-> collateral_value, floor |-> Floor]

MCPairs ==
    {p \in {MCPair(t, d, b, k, c, s, r, o, w, l, e) :
              t \in {"usdc", "xlm"}, d \in Debts, b \in MCPrices, k \in MCPrices, c \in Plain,
              s \in Supplied, r \in {0, 1}, o \in Others, w \in Withdrawable, l \in Lendable, e \in BOOLEAN} :
     MCLiquidatable(p)}
=============================================================================
