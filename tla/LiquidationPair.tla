--------------------------- MODULE LiquidationPair ---------------------------
(***************************************************************************)
(* One (borrow, collateral) pair of an obligation on a no-dust market, as   *)
(* LiquidationPair of engine/src/lending_model/liquidation.rs judges it:    *)
(* the rounding of every conversion, the market's verdict on an offer and   *)
(* what the sizing of an offer comes to. Pure; FitRepay adds the searches   *)
(* that compute it, and Eligibility the obligation the pair belongs to.     *)
(***************************************************************************)
EXTENDS PoolMath, FiniteSetsExt

\* A pair as LiquidationPair holds it. The price of a token is the oracle value
\* of `factor` units (10^token_decimals) of it. `supplied` and `plain` are the two
\* parts of the position's collateral; `floor` is the dust floor in oracle value.
PairType ==
    [debt : Nat \ {0}, debt_price : Nat \ {0}, debt_factor : Nat \ {0},
     supplied : Nat, plain : Nat, price : Nat \ {0}, factor : Nat \ {0},
     obligation_debt_value : Nat, obligation_collateral_value : Nat,
     is_insolvent : BOOLEAN, incentive_bps : Nat, close_factor_bps : Nat, floor : Nat,
     debt_accrual_bps : Nat, supply_accrual_bps : Nat,
     refunded_bps : Nat, unrefunded_bps : Nat]

NoOffer == -1

-----------------------------------------------------------------------------
(* Conversions. *)

fixed_mul_floor(amount, bps) == (amount * bps) \div BPS_FACTOR
fixed_mul_ceil(amount, bps) == CeilDiv(amount * bps, BPS_FACTOR)
grown(amount, bps) == amount + fixed_mul_ceil(amount, bps)

value_floor(amount, price, factor) == (amount * price) \div factor
value_ceil(amount, price, factor) == CeilDiv(amount * price, factor)
amount_floor(value, price, factor) == (value * factor) \div price
amount_ceil(value, price, factor) == CeilDiv(value * factor, price)

-----------------------------------------------------------------------------
(* The market's verdict on an offer, as LiquidationPair::quote mirrors it. *)

position_collateral(p) == p.supplied + p.plain

is_small_position(p) ==
    \/ value_floor(position_collateral(p), p.price, p.factor) < 2 * p.floor
    \/ value_ceil(p.debt, p.debt_price, p.debt_factor) < 2 * p.floor

lifts_close_factor(p) == p.is_insolvent \/ is_small_position(p)

\* compute_close_factor_repay_cap, which bounds what callers plan to repay.
close_factor_cap(p) ==
    IF lifts_close_factor(p) THEN p.debt ELSE fixed_mul_floor(p.debt, p.close_factor_bps)

\* The most value that may be seized for a repaid value without raising the LTV.
ltv_improving_value(p, repaid_value) ==
    (((repaid_value * p.obligation_collateral_value) \div p.obligation_debt_value) * 999) \div 1000

\* Mutant of buys: the incentive is paid whatever it does to the LTV.
buys_with_incentive(p, repaid) ==
    (amount_floor(value_floor(repaid, p.debt_price, p.debt_factor), p.price, p.factor)
        * (BPS_FACTOR + p.incentive_bps)) \div BPS_FACTOR

\* Collateral that `repaid` debt buys before the position caps it.
buys(p, repaid) ==
    LET repaid_value == value_floor(repaid, p.debt_price, p.debt_factor)
        with_incentive == (amount_floor(repaid_value, p.price, p.factor)
                              * (BPS_FACTOR + p.incentive_bps)) \div BPS_FACTOR
        capped == amount_floor(ltv_improving_value(p, repaid_value), p.price, p.factor)
    IN  IF lifts_close_factor(p) THEN with_incentive
        ELSE IF p.obligation_debt_value <= 0 \/ p.obligation_collateral_value <= 0 THEN 0
        ELSE IF capped < with_incentive THEN capped ELSE with_incentive

\* What a small position's whole collateral costs.
whole_position_repay(p) ==
    amount_ceil(CeilDiv(value_ceil(position_collateral(p), p.price, p.factor) * BPS_FACTOR,
                        BPS_FACTOR + p.incentive_bps),
                p.debt_price, p.debt_factor)

leaves_dust(p, collateral_left, debt_left) ==
    /\ collateral_left > 0
    /\ debt_left > 0
    /\ \/ value_floor(collateral_left, p.price, p.factor) < p.floor
       \/ value_ceil(debt_left, p.debt_price, p.debt_factor) < p.floor

\* What the market does with an offer that covers `repaid` of the debt.
Seized(p, repaid) == Min({position_collateral(p), buys(p, repaid)})
Repaid(p, offer) ==
    LET repaid == Min({offer, p.debt})
    IN  IF Seized(p, repaid) = position_collateral(p) /\ is_small_position(p)
        THEN Min({repaid, whole_position_repay(p)})
        ELSE repaid

over_close_factor(p, repaid) ==
    ~lifts_close_factor(p) /\ CeilDiv(repaid * BPS_FACTOR, p.debt) > p.close_factor_bps

\* Seizure::Accepted; an offer of nothing is accepted for nothing.
accepts(p, offer) ==
    \/ offer <= 0
    \/ /\ ~over_close_factor(p, Min({offer, p.debt}))
       /\ ~leaves_dust(p, position_collateral(p) - Seized(p, Min({offer, p.debt})),
                          p.debt - Repaid(p, offer))

-----------------------------------------------------------------------------
(* Offers that clear a side, and offers that keep both. *)

\* The position with the interest the pools have accrued since their last update.
grown_debt(p) == grown(p.debt, p.debt_accrual_bps)

\* Mutant of grown_collateral: no interest on what was supplied.
collateral_at_snapshot(p) == position_collateral(p)

grown_collateral(p) == p.plain + grown(p.supplied, p.supply_accrual_bps)

\* What repay_buying finds: the least repay in 1..debt that buys a target, or the
\* whole debt when none does. Its binary search is in FitRepay.
LeastBuying(p, target, debt) == Min({debt} \cup {r \in 1..debt : buys(p, r) >= target})

\* largest_partial_repay: what is left on both sides stays at the floor or above.
keeps_both_sides(p, r) ==
    LET repaid == Min({r, p.debt})
        collateral_left == position_collateral(p) - Seized(p, repaid)
        debt_left == p.debt - repaid
    IN  /\ collateral_left > 0
        /\ debt_left > 0
        /\ value_floor(collateral_left, p.price, p.factor) >= p.floor
        /\ value_ceil(debt_left, p.debt_price, p.debt_factor) >= p.floor

\* clearing: the offer that clears a side once interest has accrued, padded by more
\* where the market refunds the excess.
clearing_offer(p) ==
    IF buys(p, grown_debt(p)) < grown_collateral(p) THEN grown(grown_debt(p), p.refunded_bps)
    ELSE grown(LeastBuying(p, grown_collateral(p), grown_debt(p)),
               IF is_small_position(p) THEN p.refunded_bps ELSE p.unrefunded_bps)

\* What largest_partial_repay finds. Its binary search is in FitRepay.
partial_offer(p, upper) ==
    LET largest == Max({r \in 1..upper : keeps_both_sides(p, r)})
    IN  IF upper >= 1 /\ keeps_both_sides(p, 1) /\ accepts(p, largest) THEN largest ELSE NoOffer

\* fit_repay: a planned repay that clears a side is padded as far as the funds go;
\* one that the market refuses clears a side instead, or shrinks.
fit_repay(p, plan, funds) ==
    LET offer == clearing_offer(p)
        padding == Min({Max({plan, offer}), funds})
        partial == partial_offer(p, Min({plan, funds}))
    IN  IF plan >= LeastBuying(p, position_collateral(p), p.debt)
        THEN IF accepts(p, padding) THEN padding ELSE partial
        ELSE IF accepts(p, plan) THEN plan
        ELSE IF offer <= funds /\ accepts(p, offer) THEN offer
        ELSE partial
==============================================================================
