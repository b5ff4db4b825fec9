----------------------------- MODULE PlanChoice -----------------------------
(***************************************************************************)
(* How the liquidator plans one (borrow, collateral) pair of an obligation: *)
(* the direct, flash and pre-swap candidates, the caps and quotes each one  *)
(* is sized by, its early returns, and the choice among them                *)
(* (build_liquidation_plan_for_asset_pool_pair and below in                 *)
(* keeper/src/strategy/liquidator.rs; profitability.rs).                    *)
(*                                                                          *)
(* The market is a sweep market, where fit_repay leaves a repay as it is; on *)
(* a no-dust market it is module FitRepay. A behaviour is the planning of    *)
(* one pair. Balances and quotes are whatever the calls answer.             *)
(***************************************************************************)
EXTENDS Integers, Sequences, FiniteSets, FiniteSetsExt

CONSTANTS
    Pairs,              \* the pairs planned
    Sources,            \* config: assets_to_hold, in their order
    SourcePrice,        \* the price of each, 0 when the market data lacks its pool
    Amounts,            \* balances and quotes the calls may answer (bound)
    Xlm,                \* config: xlm_address
    XlmSafetyMargin,    \* config: xlm_safety_margin
    MarginValue,        \* config: min_profit_margin_cents, as oracle value (signed)
    SlippageBps,        \* config: max_allowed_swap_slippage_bps
    FlashFeeBps,        \* the borrow pool's flash_loan_fee_bps
    TokenFactor,        \* 10^token_decimals
    BPS_FACTOR,
    SCALAR_9            \* scale of the market's health factor

\* A pair with what the snapshot says of it. `supplied` is the deposit's j-tokens by
\* the pool's totals, `real_supply` by its rate rounded down to basis points; `plain`
\* its plain collateral; `feasible` the debt under the close factor; `withdrawable` the
\* collateral pool's available_for_borrow, `lendable` the borrow pool's liquidity.
PairType ==
    [borrow_token : STRING, feasible : Int, debt_price : Nat \ {0}, price : Nat \ {0},
     plain : Nat, supplied : Nat, real_supply : Nat, withdrawable : Nat, lendable : Nat,
     flash_enabled : BOOLEAN, is_insolvent : BOOLEAN, incentive_bps : Nat,
     debt_value : Nat \ {0}, collateral_value : Nat, floor : Nat]

ASSUME PlanAssumption ==
    /\ Pairs \subseteq PairType
    /\ \A p \in Pairs : p.real_supply <= p.supplied
    /\ Sources \in Seq(STRING)
    /\ SourcePrice \in [{Sources[i] : i \in DOMAIN Sources} -> Nat]
    /\ Amounts \subseteq Nat /\ 0 \in Amounts
    /\ XlmSafetyMargin \in Nat
    /\ MarginValue \in Int
    /\ SlippageBps \in 0..BPS_FACTOR
    /\ FlashFeeBps \in Nat
    /\ TokenFactor \in Nat \ {0} /\ BPS_FACTOR = 10000 /\ SCALAR_9 \in Nat \ {0}

VARIABLES
    pair,      \* the pair
    usable,    \* usable_borrow
    at,        \* where the planning stands
    asked,     \* sources of the pre-swap loop already behind
    best,      \* best_plan of the pre-swap loop
    found,     \* candidates
    result,    \* the plan chosen
    feasible   \* history: every plan that passed its checks

vars == <<pair, usable, at, asked, best, found, result, feasible>>

\* `spent` is what the plan draws, `held` (history) what its source had when asked.
Plan(type, repay, seized, withdraw, spent, held) ==
    [type |-> type, repay |-> repay, seized |-> seized, withdraw |-> withdraw,
     spent |-> spent, held |-> held]
NoPlan == Plan("none", 0, 0, 0, 0, 0)

TypeOK ==
    /\ pair \in PairType
    /\ usable \in Int
    /\ at \in {"caps", "direct", "flash", "preswap", "choose", "done"}
    /\ asked \in 0..Len(Sources)
    /\ best.type \in {"none", "preswap"}
    /\ \A p \in found : p.type \in {"direct", "flash", "preswap"} /\ p.repay > 0 /\ p.seized > 0
    /\ Cardinality(found) <= 3
    /\ result \in feasible \cup {NoPlan}

Init ==
    /\ pair \in Pairs
    /\ usable = 0
    /\ at = "caps"
    /\ asked = 0
    /\ best = NoPlan
    /\ found = {}
    /\ result = NoPlan
    /\ feasible = {}

-----------------------------------------------------------------------------
(* Values, caps and quotes. *)

CeilDiv(a, b) == (a + b - 1) \div b
value(amount, price) == (amount * price) \div TokenFactor
Less(a, b) == IF a < b THEN a ELSE b

\* compute_profit_margin_in_borrow_token: the magnitude is rounded up.
profit_margin_borrow ==
    IF MarginValue < 0 THEN -CeilDiv(-MarginValue * TokenFactor, pair.debt_price)
    ELSE CeilDiv(MarginValue * TokenFactor, pair.debt_price)

\* compute_repay_cap_from_collateral; its errors and a cap of nothing are 0.
effective_incentive_bps ==
    IF pair.is_insolvent THEN pair.incentive_bps
    ELSE Less(pair.incentive_bps, (pair.collateral_value * 9990) \div pair.debt_value - 10000)

repay_cap(collateral) ==
    LET factor == BPS_FACTOR + effective_incentive_bps
        denominator == (pair.debt_price * factor) \div BPS_FACTOR
        cap == Less(pair.feasible,
                    (value(collateral, pair.price) * TokenFactor) \div denominator - profit_margin_borrow)
    IN  IF collateral <= 0 \/ factor <= 0 \/ denominator = 0 \/ cap < 0 THEN 0 ELSE cap

\* compute_expected_seized_collateral.
ltv_collateral(liquidated_value) ==
    LET health == (pair.collateral_value * SCALAR_9) \div pair.debt_value
        received == (((liquidated_value * health) \div SCALAR_9) * 999) \div 1000
    IN  (received * TokenFactor) \div pair.price

\* Mutant of position_collateral: by the pool's totals, rounded up.
position_collateral_ceil == pair.supplied + 1 + pair.plain

position_collateral == pair.real_supply + pair.plain

seized(repay) ==
    LET liquidated_value == value(repay, pair.debt_price)
        with_incentive == (((liquidated_value * TokenFactor) \div pair.price)
                              * (BPS_FACTOR + pair.incentive_bps)) \div BPS_FACTOR
        bought == Less(position_collateral, with_incentive)
        capped == IF pair.is_insolvent THEN bought ELSE Less(bought, ltv_collateral(liquidated_value))
    IN  IF repay <= 0 \/ position_collateral = 0 \/ (~pair.is_insolvent /\ pair.collateral_value = 0) THEN 0
        ELSE IF value(position_collateral - capped, pair.price) < pair.floor THEN position_collateral
        ELSE capped

\* compute_liquidation_profitability: an error when a side is not positive.
profit_fails(gain, cost) == gain <= 0 \/ cost <= 0
is_acceptable(gain, cost) == ~profit_fails(gain, cost) /\ gain - cost > MarginValue

Usable(asset, raw) == IF asset = Xlm THEN raw - XlmSafetyMargin ELSE raw

-----------------------------------------------------------------------------
(* The pair. *)

max_profitable_repay == repay_cap(pair.supplied + pair.plain)

Plannable ==
    /\ pair.supplied + pair.plain > 0
    /\ value(pair.supplied + pair.plain, pair.price) >= pair.floor
    /\ pair.feasible > 0
    /\ max_profitable_repay > 0

\* Nothing to seize, below the collateral threshold, or no profitable repay.
Refuse ==
    /\ at = "caps"
    /\ ~Plannable
    /\ at' = "done"
    /\ UNCHANGED <<pair, usable, asked, best, found, result, feasible>>

\* The balance of the borrow token; a query that fails counts as none.
ReadBalance(raw) ==
    /\ at = "caps"
    /\ Plannable
    /\ usable' = Usable(pair.borrow_token, raw)
    /\ at' = "direct"
    /\ UNCHANGED <<pair, asked, best, found, result, feasible>>

\* A candidate, or none.
Offered(p) ==
    /\ found' = IF p = NoPlan THEN found ELSE found \cup {p}
    /\ feasible' = IF p = NoPlan THEN feasible ELSE feasible \cup {p}

direct_plan ==
    LET repay == Less(max_profitable_repay, usable)
    IN  IF repay > 0 /\ seized(repay) > 0
           /\ is_acceptable(value(seized(repay), pair.price), value(repay, pair.debt_price))
        THEN Plan("direct", repay, seized(repay), 0, repay, usable)
        ELSE NoPlan

TryDirect ==
    /\ at = "direct"
    /\ Offered(direct_plan)
    /\ at' = "flash"
    /\ UNCHANGED <<pair, usable, asked, best, result>>

\* Mutant of instantly_available: the whole position.
wholly_available == pair.plain + pair.supplied

\* What the flash loan may count on: seized without a scarcity fee.
instantly_available == pair.plain + Less(pair.supplied, pair.withdrawable)

flash_cap == repay_cap(instantly_available)

\* The early returns of the flash part leave the whole function.
FlashReturnsNone ==
    /\ at = "flash"
    /\ pair.flash_enabled
    /\ flash_cap = 0
    /\ at' = "done"
    /\ UNCHANGED <<pair, usable, asked, best, found, result, feasible>>

flash_plan(amount_out) ==
    LET repay == Less(flash_cap, pair.lendable)
        taken == seized(repay)
        plain == Less(taken, pair.plain)
        withdraw == Less(pair.supplied, taken - plain)
        owed == repay + CeilDiv(repay * FlashFeeBps, BPS_FACTOR)
    IN  IF /\ repay > 0 /\ taken > 0 /\ amount_out > 0
           /\ (amount_out * (BPS_FACTOR - SlippageBps)) \div BPS_FACTOR >= owed
           /\ is_acceptable(value(plain + withdraw, pair.price), value(owed, pair.debt_price))
        THEN Plan("flash", repay, taken, withdraw, repay, pair.lendable)
        ELSE NoPlan

\* amount_out is the best quote for the seized collateral, 0 when there is none.
TryFlash(amount_out) ==
    /\ at = "flash"
    /\ pair.flash_enabled => flash_cap > 0
    /\ Offered(IF pair.flash_enabled THEN flash_plan(amount_out) ELSE NoPlan)
    /\ at' = "preswap"
    /\ UNCHANGED <<pair, usable, asked, best, result>>

-----------------------------------------------------------------------------
(* try_preswap_plan, one source asset at a time. *)

Source == Sources[asked + 1]
WithSlippage(amount_in) == (amount_in * (BPS_FACTOR + SlippageBps)) \div BPS_FACTOR

\* Mutant of Affords: the quote without the slippage that is paid on top of it.
AffordsQuote(amount_in, balance) == amount_in <= balance

Affords(amount_in, balance) == WithSlippage(amount_in) <= balance

\* Mutant of SkipSource: the loop runs past its end.
SkipSourcePastEnd ==
    /\ at = "preswap"
    /\ asked' = asked + 1
    /\ UNCHANGED <<pair, usable, at, best, found, result, feasible>>

\* The borrow token itself, no balance, no quote, or no pool of the source.
SkipSource ==
    /\ at = "preswap"
    /\ asked < Len(Sources)
    /\ asked' = asked + 1
    /\ UNCHANGED <<pair, usable, at, best, found, result, feasible>>

\* Swaps `amount_in` for `amount_out`; a repay that seizes nothing, or a value that is
\* not positive, returns from the loop with nothing.
SwapFirst(balance, amount_in, amount_out) ==
    LET taken == seized(amount_out)
        gain == value(taken, pair.price)
        cost == value(amount_in, SourcePrice[Source])
        plan == Plan("preswap", amount_out, taken, 0, amount_in, balance)
        returns == taken = 0 \/ (SourcePrice[Source] > 0 /\ profit_fails(gain, cost))
        good == SourcePrice[Source] > 0 /\ is_acceptable(gain, cost)
    IN  /\ asked' = IF returns THEN Len(Sources) ELSE asked + 1
        /\ best' = IF returns THEN NoPlan
                   ELSE IF good /\ (best = NoPlan \/ best.repay < amount_out) THEN plan
                   ELSE best
        /\ feasible' = IF ~returns /\ good THEN feasible \cup {plan} ELSE feasible
        /\ UNCHANGED <<pair, usable, at, found, result>>

\* `quote` is the price of the whole repay.
SwapForAll(raw, quote) ==
    /\ at = "preswap"
    /\ asked < Len(Sources)
    /\ Source # pair.borrow_token
    /\ Usable(Source, raw) > 0 /\ quote > 0
    /\ Affords(quote, Usable(Source, raw))
    /\ SwapFirst(Usable(Source, raw), WithSlippage(quote), max_profitable_repay)

\* The whole balance buys `out`, less the slippage.
SwapForPart(raw, quote, out) ==
    /\ at = "preswap"
    /\ asked < Len(Sources)
    /\ Source # pair.borrow_token
    /\ Usable(Source, raw) > 0 /\ quote > 0 /\ out > 0
    /\ ~Affords(quote, Usable(Source, raw))
    /\ SwapFirst(Usable(Source, raw), Usable(Source, raw), (out * (BPS_FACTOR - SlippageBps)) \div BPS_FACTOR)

PreSwapDone ==
    /\ at = "preswap"
    /\ asked = Len(Sources)
    /\ found' = IF best = NoPlan THEN found ELSE found \cup {best}
    /\ at' = "choose"
    /\ UNCHANGED <<pair, usable, asked, best, result, feasible>>

\* Mutant of LargestRepay: the smallest.
SmallestRepay(plans) == CHOOSE p \in plans : \A q \in plans : p.repay <= q.repay

\* max_by_key: the largest repay, the last of equals.
Later(p, q) == \/ p.type = q.type
               \/ p.type = "preswap"
               \/ p.type = "flash" /\ q.type = "direct"
LargestRepay(plans) ==
    CHOOSE p \in plans : \A q \in plans : p.repay > q.repay \/ (p.repay = q.repay /\ Later(p, q))

Choose ==
    /\ at = "choose"
    /\ result' = IF found = {} THEN NoPlan ELSE LargestRepay(found)
    /\ at' = "done"
    /\ UNCHANGED <<pair, usable, asked, best, found, feasible>>

Next ==
    \/ Refuse \/ TryDirect \/ FlashReturnsNone \/ SkipSource \/ PreSwapDone \/ Choose
    \/ \E a \in Amounts : ReadBalance(a) \/ TryFlash(a)
    \/ \E raw, quote \in Amounts :
          SwapForAll(raw, quote) \/ \E out \in Amounts : SwapForPart(raw, quote, out)

Spec == Init /\ [][Next]_vars

-----------------------------------------------------------------------------
(* Properties. *)

\* A chosen plan draws no more than its own source held when it was asked: the wallet
\* less the XLM reserve, the borrow pool, or the swapped asset with its slippage.
WithinSource == result.spent <= result.held

\* The flash batch swaps the seized amount: what it gets into the wallet, plain
\* collateral and withdrawal, is that amount, although position and withdrawal are
\* converted from j-tokens in two different ways.
FlashSellsWhatItHolds ==
    result.type = "flash" => result.seized = Less(result.seized, pair.plain) + result.withdraw

\* The flash cap "must use instantly available collateral only". The cap divides by
\* the price of the debt with the incentive, rounded down first to a basis point and
\* then to a unit of price, so the batch may withdraw more than comes free of the
\* scarcity fee: by less than those two roundings are worth on the repay. Left out are
\* a margin that is a loss budget, and a seizure of the whole position.
FlashOverdrawIsRounding ==
    result.type = "flash" /\ MarginValue >= 0 /\ result.seized < position_collateral =>
        (result.withdraw - pair.withdrawable) * pair.price * BPS_FACTOR
            < result.repay * (pair.debt_price + BPS_FACTOR)

\* The chosen plan repays at least as much as every plan that passed its checks, as
\* long as neither the flash part nor the pre-swap loop returned early.
LargestUnlessReturned ==
    at = "done" /\ (pair.flash_enabled => flash_cap > 0) =>
        \A p \in feasible : result.repay >= p.repay \/ (p.type = "preswap" /\ best = NoPlan)

\* "Build every feasible candidate, then let the caller pick the one that liquidates
\* the most debt."
EveryCandidateCounts == at = "done" => \A p \in feasible : result.repay >= p.repay
=============================================================================
