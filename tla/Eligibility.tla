---------------------------- MODULE Eligibility ----------------------------
(***************************************************************************)
(* Who takes an obligation in trouble: compute_is_liquidatable and its      *)
(* parts (engine/src/lending_model/liquidation.rs), the liquidator's Direct *)
(* plan with unlimited capital, and the bad-debt initiator's                *)
(* is_eligible_for_bad_debt_request_issuance. Pure.                         *)
(*                                                                          *)
(* A market `md` is a record: `pools`, a function on the pools the snapshot *)
(* prices; `min_cents`, `oracle_pow` (10^oracle_price_decimals),            *)
(* `insolvency_ltv` and `elapsed`, seconds since the pools were updated. An *)
(* obligation is a record: `deposits` [pool, j, plain], `borrows` [pool, d] *)
(* and `open`, its open insurance-fund requests.                            *)
(***************************************************************************)
EXTENDS LiquidationPair

CONSTANT SECONDS_IN_YEAR

\* PoolData, with a positive price. A close LTV is a share of one.
PoolData ==
    [supply : Nat, j : Nat, borrowed : Nat, d : Nat, limit : Nat,
     price : Nat \ {0}, factor : Nat \ {0}, close_ltv_bps : 0..BPS_FACTOR, liability_bps : Nat \ {0},
     incentive_bps : Nat, close_factor_bps : Nat, borrow_apy_bps : Nat, supply_apy_bps : Nat]

IsMarketData(md) ==
    /\ \A pool \in DOMAIN md.pools : md.pools[pool] \in PoolData
    /\ md.min_cents \in Nat /\ md.oracle_pow \in Nat \ {0}
    /\ md.insolvency_ltv \in Nat /\ md.elapsed \in Nat

\* The positions of an obligation.
IsHolding(o) ==
    /\ IsFiniteSet(o.deposits) /\ \A d \in o.deposits : d.j \in Nat /\ d.plain \in Nat
    /\ IsFiniteSet(o.borrows) /\ \A b \in o.borrows : b.d \in Nat

Priced(md) == DOMAIN md.pools

\* External: the rates the market's view reports, rounded to basis points.
j_token_rate_floor_bps(pool) == IF pool.j = 0 THEN BPS_FACTOR ELSE (pool.supply * BPS_FACTOR) \div pool.j
d_token_rate_ceil_bps(pool) == IF pool.d = 0 THEN BPS_FACTOR ELSE CeilDiv(pool.borrowed * BPS_FACTOR, pool.d)

\* Tokens of a position by the reported rates.
debt_by_rate(borrow, pool) == fixed_mul_ceil(borrow.d, d_token_rate_ceil_bps(pool))
collateral_by_rate(deposit, pool) ==
    fixed_mul_floor(deposit.j, j_token_rate_floor_bps(pool)) + deposit.plain

unpriced_pools_touched(o, md) ==
    ({b.pool : b \in o.borrows} \cup {d.pool : d \in o.deposits}) \ Priced(md)

has_any_collateral(o, md) ==
    \E d \in o.deposits : d.pool \in Priced(md) /\ collateral_by_rate(d, md.pools[d.pool]) > 0

debt_position_value(b, md) ==
    LET pool == md.pools[b.pool] IN value_ceil(debt_by_rate(b, pool), pool.price, pool.factor)
collateral_position_value(d, md) ==
    LET pool == md.pools[d.pool] IN value_floor(collateral_by_rate(d, pool), pool.price, pool.factor)

compute_obligation_debt_value(o, md) ==
    SumFunction([b \in o.borrows |-> debt_position_value(b, md)])
compute_obligation_collateral_value(o, md) ==
    SumFunction([d \in o.deposits |-> collateral_position_value(d, md)])

\* The values the liquidation gate compares; pools without a price are skipped.
scaled_debt_value(o, md) ==
    SumFunction([b \in {x \in o.borrows : x.pool \in Priced(md)} |->
                    fixed_mul_ceil(debt_position_value(b, md), md.pools[b.pool].liability_bps)])
scaled_collateral_value(o, md) ==
    SumFunction([d \in {x \in o.deposits : x.pool \in Priced(md)} |->
                    fixed_mul_floor(collateral_position_value(d, md), md.pools[d.pool].close_ltv_bps)])

\* The market's dust floor in oracle value.
dust_floor(md) == (md.min_cents * md.oracle_pow) \div 100

subtracted_value(o, md) == dust_floor(md) * Cardinality(o.deposits)

\* Mutant of compute_is_liquidatable: both markets' rules stop at negative collateral.
compute_is_liquidatable_stops(o, md, rules) ==
    /\ has_any_collateral(o, md)
    /\ scaled_debt_value(o, md) # 0
    /\ subtracted_value(o, md) <= scaled_collateral_value(o, md)
    /\ scaled_debt_value(o, md) > scaled_collateral_value(o, md) - subtracted_value(o, md)

compute_is_liquidatable(o, md, rules) ==
    /\ has_any_collateral(o, md)
    /\ scaled_debt_value(o, md) # 0
    /\ ~(rules = "sweep" /\ subtracted_value(o, md) > scaled_collateral_value(o, md))
    /\ scaled_debt_value(o, md) > scaled_collateral_value(o, md) - subtracted_value(o, md)

compute_is_insolvent(o, md) ==
    LET debt == compute_obligation_debt_value(o, md)
        collateral == compute_obligation_collateral_value(o, md)
    IN  /\ debt # 0
        /\ \/ collateral = 0
           \/ bps_fixed_div_ceil(debt, collateral) >= md.insolvency_ltv

-----------------------------------------------------------------------------
(* The liquidator's Direct plan with unlimited capital, on a no-dust market. *)

accrual_bps(apy_bps, elapsed) == (apy_bps * elapsed + SECONDS_IN_YEAR - 1) \div SECONDS_IN_YEAR

\* LiquidationPair::new, accruing_until, with ClearingMargin::INITIAL.
pair_of(o, md, borrow, deposit) ==
    LET b == md.pools[borrow.pool]
        c == md.pools[deposit.pool]
    IN  [debt |-> d_tokens_to_tokens_ceil(b, borrow.d), debt_price |-> b.price, debt_factor |-> b.factor,
         supplied |-> j_tokens_to_tokens_floor(c, deposit.j), plain |-> deposit.plain,
         price |-> c.price, factor |-> c.factor,
         obligation_debt_value |-> compute_obligation_debt_value(o, md),
         obligation_collateral_value |-> compute_obligation_collateral_value(o, md),
         is_insolvent |-> compute_is_insolvent(o, md),
         incentive_bps |-> Min({b.incentive_bps, c.incentive_bps}),
         close_factor_bps |-> b.close_factor_bps, floor |-> dust_floor(md),
         debt_accrual_bps |-> accrual_bps(b.borrow_apy_bps, md.elapsed),
         supply_accrual_bps |-> accrual_bps(c.supply_apy_bps, md.elapsed),
         refunded_bps |-> 100, unrefunded_bps |-> 0]

cents_to_oracle_value_ceil(cents, oracle_pow) == CeilDiv(cents * oracle_pow, 100)

\* compute_profit_margin_in_borrow_token: the sign is put back after rounding up.
profit_margin_tokens(p, cents, md) ==
    LET magnitude(c) == amount_ceil(cents_to_oracle_value_ceil(c, md.oracle_pow), p.debt_price, p.debt_factor)
    IN  IF cents < 0 THEN -magnitude(-cents) ELSE magnitude(cents)

\* compute_repay_cap_from_collateral; 0 stands for its errors, which the caller
\* treats like a cap that is not positive.
repay_cap_from_collateral(p, feasible, margin) ==
    LET ltv_bps == (p.obligation_collateral_value * 9990) \div p.obligation_debt_value - 10000
        incentive == IF lifts_close_factor(p) THEN p.incentive_bps ELSE Min({p.incentive_bps, ltv_bps})
        unit_cost == (p.debt_price * (BPS_FACTOR + incentive)) \div BPS_FACTOR
    IN  IF BPS_FACTOR + incentive <= 0 \/ unit_cost = 0 THEN 0
        ELSE Min({feasible, (value_floor(position_collateral(p), p.price, p.factor) * p.debt_factor)
                                \div unit_cost - margin})

\* The capital is unlimited: no offer is above the limit.
direct_repay(p, cents, md) ==
    LET feasible == Min({p.debt, close_factor_cap(p)})
        cap == repay_cap_from_collateral(p, feasible, profit_margin_tokens(p, cents, md))
    IN  IF feasible <= 0 \/ position_collateral(p) <= 0 \/ cap <= 0 THEN NoOffer
        ELSE fit_repay(p, cap, Max({cap, clearing_offer(p)}))

\* compute_liquidation_profitability of the values moved.
nets_more_than(p, seized, repaid, cents, md) ==
    LET gain == value_floor(seized, p.price, p.factor)
        cost == value_floor(repaid, p.debt_price, p.debt_factor)
        margin == IF cents < 0 THEN -((-cents * md.oracle_pow) \div 100)
                  ELSE (cents * md.oracle_pow) \div 100
    IN  gain > 0 /\ cost > 0 /\ gain - cost > margin

tokens_to_d_tokens_floor(pool, tokens) ==
    IF pool.borrowed = 0 THEN tokens ELSE (tokens * pool.d) \div pool.borrowed

has_acceptable_liquidation(o, md, cents) ==
    /\ unpriced_pools_touched(o, md) = {}
    /\ \E borrow \in o.borrows, deposit \in o.deposits :
           /\ borrow.pool # deposit.pool
           /\ md.pools[deposit.pool].close_ltv_bps > 0
           /\ LET p == pair_of(o, md, borrow, deposit)
                  offer == direct_repay(p, cents, md)
                  seized == Seized(p, Min({offer, p.debt}))
                  repaid == Repaid(p, offer)
              IN  /\ offer # NoOffer
                  /\ accepts(p, offer)
                  /\ seized > 0
                  /\ repaid = p.debt \/ tokens_to_d_tokens_floor(md.pools[borrow.pool], repaid) > 0
                  /\ nets_more_than(p, seized, repaid, cents, md)

-----------------------------------------------------------------------------
(* The initiator's verdict. *)

\* A no-dust market refuses to cover an obligation whose seizable collateral is
\* worth something and at least its debt (#603).
seizable_collateral_covers_debt(o, md) ==
    LET debt == SumFunction([b \in o.borrows |->
            LET pool == md.pools[b.pool]
            IN  value_ceil(d_tokens_to_tokens_ceil(pool, b.d), pool.price, pool.factor)])
        collateral == SumFunction([d \in {x \in o.deposits : md.pools[x.pool].close_ltv_bps > 0} |->
            LET pool == md.pools[d.pool]
            IN  value_floor(j_tokens_to_tokens_floor(pool, d.j) + d.plain, pool.price, pool.factor)])
    IN  /\ \A b \in o.borrows : b.pool \in Priced(md)
        /\ collateral > 0
        /\ collateral >= debt

j_tokens_to_tokens_ceil(pool, j) == IF pool.j = 0 THEN 0 ELSE CeilDiv(j * pool.supply, pool.j)

\* Mutant of deposit_value: the shares are rounded down.
deposit_value_floor(d, md) ==
    LET pool == md.pools[d.pool]
    IN  value_floor(j_tokens_to_tokens_floor(pool, d.j) + d.plain, pool.price, pool.factor)

deposit_value(d, md) ==
    LET pool == md.pools[d.pool]
    IN  value_floor(j_tokens_to_tokens_ceil(pool, d.j) + d.plain, pool.price, pool.factor)

all_deposits_dust(o, md) ==
    \A d \in o.deposits :
        /\ d.pool \in Priced(md)
        /\ deposit_value(d, md) <= cents_to_oracle_value_ceil(md.min_cents, md.oracle_pow)

\* Mutant of is_eligible: an open request is overlooked.
is_eligible_again(o, md, rules, cents) ==
    /\ o.borrows # {}
    /\ \/ o.deposits = {}
       \/ /\ all_deposits_dust(o, md)
          /\ rules = "no_dust" => /\ ~seizable_collateral_covers_debt(o, md)
                                  /\ ~has_acceptable_liquidation(o, md, cents)

\* is_eligible_for_bad_debt_request_issuance; an error counts as not eligible.
is_eligible(o, md, rules, cents) ==
    /\ o.borrows # {}
    /\ o.open = 0
    /\ \/ o.deposits = {}
       \/ /\ all_deposits_dust(o, md)
          /\ rules = "no_dust" => /\ ~seizable_collateral_covers_debt(o, md)
                                  /\ ~has_acceptable_liquidation(o, md, cents)
=============================================================================
