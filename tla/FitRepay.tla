------------------------------ MODULE FitRepay ------------------------------
(***************************************************************************)
(* How the liquidator sizes a repay offer for one (borrow, collateral) pair *)
(* of an obligation on a no-dust market: LiquidationPair::fit_repay of      *)
(* engine/src/lending_model/liquidation.rs with the market's quote, the two *)
(* binary searches behind it and the rounding of every conversion.          *)
(*                                                                          *)
(* A behaviour is one call. Its inputs are chosen in Init; each iteration of *)
(* a search loop is a step. Amounts are tokens; shares are converted before. *)
(***************************************************************************)
EXTENDS LiquidationPair

CONSTANTS
    Pairs,          \* the pairs fit_repay is called for
    MaxOverpay,     \* how far the planned repay may exceed the debt (bound)
    MaxOfferSlack   \* how far the funds may exceed the planned repay (bound)

ASSUME FitAssumption ==
    /\ Pairs \subseteq PairType
    /\ \A p \in Pairs : p.supplied + p.plain > 0 /\ p.close_factor_bps <= BPS_FACTOR
    /\ MaxOverpay \in Nat /\ MaxOfferSlack \in Nat
    /\ BPS_FACTOR \in Nat \ {0}

VARIABLES
    pair,       \* the pair
    repay,      \* the planned repay
    max_offer,  \* what the capital source can offer
    at,         \* where the call stands
    low,        \* the loop variables of the search under way
    high,
    clear,      \* Clearing: at_snapshot and offer, 0 while unknown
    result      \* the offer, or NoOffer

vars == <<pair, repay, max_offer, at, low, high, clear, result>>
call == <<pair, repay, max_offer>>

-----------------------------------------------------------------------------

\* What the callers plan. Direct, flash and the first pre-swap call stay within the
\* close-factor cap; try_preswap_plan calls again with what that call returned, padded
\* beyond the debt, or with what swapping all it has of an asset would yield.
Planned(p) == 0..(p.debt + MaxOverpay)

TypeOK ==
    /\ pair \in PairType
    /\ repay \in Planned(pair)
    /\ max_offer \in repay..(repay + MaxOfferSlack)
    /\ at \in {"start", "grown", "middle", "snapshot", "fit", "partial", "done"}
    /\ low \in Nat
    /\ high \in Nat
    /\ clear \in [at_snapshot : 0..pair.debt, offer : Nat]
    /\ result \in Nat \cup {NoOffer}

\* A call: no caller plans more than it has.
Init ==
    /\ pair \in Pairs
    /\ repay \in Planned(pair)
    /\ max_offer \in repay..(repay + MaxOfferSlack)
    /\ at = "start"
    /\ low = 0
    /\ high = 0
    /\ clear = [at_snapshot |-> 0, offer |-> 0]
    /\ result = NoOffer

\* clearing: look for the repay that buys the grown collateral; if the whole
\* grown debt does not, offer that debt.
SearchGrown ==
    /\ at = "start"
    /\ IF buys(pair, grown_debt(pair)) < grown_collateral(pair)
       THEN /\ clear' = [clear EXCEPT !.offer = grown(grown_debt(pair), pair.refunded_bps)]
            /\ at' = "middle"
            /\ UNCHANGED <<low, high>>
       ELSE /\ low' = 1 /\ high' = grown_debt(pair)
            /\ at' = "grown"
            /\ UNCHANGED clear
    /\ UNCHANGED <<call, result>>

\* Mutant of Halve: the search skips a candidate.
HalveTooFar(target) ==
    LET mid == low + (high - low) \div 2
    IN  IF buys(pair, mid) >= target THEN high' = mid /\ UNCHANGED low
                                     ELSE low' = mid + 2 /\ UNCHANGED high

\* repay_buying: one iteration of the search for the least repay.
Halve(target) ==
    LET mid == low + (high - low) \div 2
    IN  IF buys(pair, mid) >= target THEN high' = mid /\ UNCHANGED low
                                     ELSE low' = mid + 1 /\ UNCHANGED high

HalveGrown ==
    /\ at = "grown"
    /\ low < high
    /\ Halve(grown_collateral(pair))
    /\ UNCHANGED <<call, at, clear, result>>

\* The offer is padded: by more where the market refunds the excess.
GrownFound ==
    /\ at = "grown"
    /\ low >= high
    /\ clear' = [clear EXCEPT !.offer =
           grown(high, IF is_small_position(pair) THEN pair.refunded_bps ELSE pair.unrefunded_bps)]
    /\ at' = "middle"
    /\ UNCHANGED <<call, low, high, result>>

\* Mutant of SearchSnapshot: it falls back to the debt with interest.
SearchSnapshotGrownDebt ==
    /\ at = "middle"
    /\ IF buys(pair, pair.debt) < position_collateral(pair)
       THEN /\ clear' = [clear EXCEPT !.at_snapshot = grown_debt(pair)]
            /\ at' = "fit"
            /\ UNCHANGED <<low, high>>
       ELSE /\ low' = 1 /\ high' = pair.debt
            /\ at' = "snapshot"
            /\ UNCHANGED clear
    /\ UNCHANGED <<call, result>>

\* The same search at the snapshot, for the collateral and the debt as they are.
SearchSnapshot ==
    /\ at = "middle"
    /\ IF buys(pair, pair.debt) < position_collateral(pair)
       THEN /\ clear' = [clear EXCEPT !.at_snapshot = pair.debt]
            /\ at' = "fit"
            /\ UNCHANGED <<low, high>>
       ELSE /\ low' = 1 /\ high' = pair.debt
            /\ at' = "snapshot"
            /\ UNCHANGED clear
    /\ UNCHANGED <<call, result>>

HalveSnapshot ==
    /\ at = "snapshot"
    /\ low < high
    /\ Halve(position_collateral(pair))
    /\ UNCHANGED <<call, at, clear, result>>

SnapshotFound ==
    /\ at = "snapshot"
    /\ low >= high
    /\ clear' = [clear EXCEPT !.at_snapshot = high]
    /\ at' = "fit"
    /\ UNCHANGED <<call, low, high, result>>

Return(offer) ==
    /\ at' = "done"
    /\ result' = offer
    /\ UNCHANGED <<call, low, high, clear>>

\* Mutant of padded: the funds are not looked at.
padded_uncapped == Max({repay, clear.offer})

\* fit_repay: a repay that clears a side is padded as far as the funds go.
padded == Min({Max({repay, clear.offer}), max_offer})

ClearsAside ==
    /\ at = "fit"
    /\ repay >= clear.at_snapshot
    /\ accepts(pair, padded)
    /\ Return(padded)

\* One that does not clear a side is offered as planned.
StaysPartial ==
    /\ at = "fit"
    /\ repay < clear.at_snapshot
    /\ accepts(pair, repay)
    /\ Return(repay)

\* A refused one clears a side instead, if the funds allow.
ClearsInstead ==
    /\ at = "fit"
    /\ repay < clear.at_snapshot
    /\ ~accepts(pair, repay)
    /\ clear.offer <= max_offer
    /\ accepts(pair, clear.offer)
    /\ Return(clear.offer)

\* Nothing else was accepted: shrink the repay until both sides keep the floor.
SearchPartial ==
    /\ at = "fit"
    /\ IF repay >= clear.at_snapshot
       THEN ~accepts(pair, padded)
       ELSE ~accepts(pair, repay) /\ (clear.offer > max_offer \/ ~accepts(pair, clear.offer))
    /\ IF Min({repay, max_offer}) < 1 \/ ~keeps_both_sides(pair, 1)
       THEN Return(NoOffer)
       ELSE /\ low' = 1 /\ high' = Min({repay, max_offer})
            /\ at' = "partial"
            /\ UNCHANGED <<call, clear, result>>

\* Mutants of HalvePartial: a refused candidate takes its neighbour with it; and
\* the middle is rounded down, as in the other search.
HalvePartialTooFar ==
    /\ at = "partial"
    /\ low < high
    /\ LET mid == low + (high - low + 1) \div 2
       IN  IF keeps_both_sides(pair, mid) THEN low' = mid /\ UNCHANGED high
                                          ELSE high' = mid - 2 /\ UNCHANGED low
    /\ UNCHANGED <<call, at, clear, result>>

HalvePartialDown ==
    /\ at = "partial"
    /\ low < high
    /\ LET mid == low + (high - low) \div 2
       IN  IF keeps_both_sides(pair, mid) THEN low' = mid /\ UNCHANGED high
                                          ELSE high' = mid - 1 /\ UNCHANGED low
    /\ UNCHANGED <<call, at, clear, result>>

\* One iteration of the search for the largest repay; the middle is rounded up.
HalvePartial ==
    /\ at = "partial"
    /\ low < high
    /\ LET mid == low + (high - low + 1) \div 2
       IN  IF keeps_both_sides(pair, mid) THEN low' = mid /\ UNCHANGED high
                                          ELSE high' = mid - 1 /\ UNCHANGED low
    /\ UNCHANGED <<call, at, clear, result>>

PartialFound ==
    /\ at = "partial"
    /\ low >= high
    /\ Return(IF accepts(pair, low) THEN low ELSE NoOffer)

Next ==
    \/ SearchGrown \/ HalveGrown \/ GrownFound
    \/ SearchSnapshot \/ HalveSnapshot \/ SnapshotFound
    \/ ClearsAside \/ StaysPartial \/ ClearsInstead
    \/ SearchPartial \/ HalvePartial \/ PartialFound

Spec == Init /\ [][Next]_vars

\* The call is sequential code: it is not left half-way.
FairSpec == Spec /\ WF_vars(Next)

-----------------------------------------------------------------------------
(* Properties. *)

\* fit_repay's promise: "the offer ... that the market accepts, at most max_offer".
FitSound == at = "done" /\ result # NoOffer => result <= max_offer /\ accepts(pair, result)

\* Rounding at three places does not mislead the binary search: what it takes for
\* the least repay that buys the whole position is the least one.
SearchesFindTheLeast ==
    at \in {"fit", "partial", "done"} => clear.at_snapshot = LeastBuying(pair, position_collateral(pair), pair.debt)

\* What the call returns is what fit_repay says: the searches, which see one candidate
\* in two, miss neither the least repay that buys the grown position nor the largest
\* that keeps both sides, and no early return hides a better one.
FitAsDefined == at = "done" => result = fit_repay(pair, repay, max_offer)

\* Where the close factor binds, an accepted liquidation never raises the LTV of
\* the obligation: seized / repaid is at most collateral / debt, in value.
LtvNotRaised ==
    at = "done" /\ result > 0 /\ ~lifts_close_factor(pair) =>
        value_floor(Seized(pair, Min({result, pair.debt})), pair.price, pair.factor) * pair.obligation_debt_value
            <= value_floor(Repaid(pair, result), pair.debt_price, pair.debt_factor)
                   * pair.obligation_collateral_value

\* The same position after interest, in an obligation valued at the snapshot.
Accrued(debt, supplied) == [pair EXCEPT !.debt = debt, !.supplied = supplied]

\* Clearing.offer "still does once interest has accrued": an offer that clears a
\* side is not refused as dust for any accrual up to the estimate, as long as the
\* position stays under the same rules.
OfferOutlastsInterest ==
    at = "done" /\ result >= clear.offer /\ clear.offer > 0 =>
        \A debt \in pair.debt..grown(pair.debt, pair.debt_accrual_bps),
           supplied \in pair.supplied..grown(pair.supplied, pair.supply_accrual_bps) :
            LET p == Accrued(debt, supplied)
            IN  lifts_close_factor(p) = lifts_close_factor(pair) => accepts(p, result)

\* Every call returns.
Returns == <>(at = "done")
=============================================================================
