# Verification of the Alula liquidation keeper

TLA+ models of the keeper in this repository: a process that follows one lending
market on Stellar, liquidates unhealthy obligations, asks for bad debt to be
covered, swaps what it does not want to hold and withdraws its supply. The modules
are checked by TLC on small instances; every safety property of a passing run is also
proved with TLAPS, for every value of the constants.

## 1. The system

### Components

| component | source | state | operations |
|---|---|---|---|
| reactor | `engine/src/reactor/` | two broadcast channels (events, actions) | spawns collectors, strategies, executor; forwards |
| capital ledger | `keeper/src/liquidator_capital.rs` | reservations, cached balances, one mutex | `reserve`, `release`, `try_get_balance` |
| executor | `keeper/src/execute/stellar_tx.rs` | attempt counter, detached polls | `execute`: simulate, sign, submit, retry, poll, settle |
| liquidator | `keeper/src/strategy/liquidator.rs` | obligation map, market snapshot and its age | event handler, ledger handler (scan, plan, dispatch) |
| balancer | `keeper/src/strategy/balancer.rs` | none | probe providers, reserve, swap |
| bad-debt request initiator | `keeper/src/strategy/bad_debt_request_initiator.rs` | none | event path, periodic sweep over the rows |
| withdrawer | `keeper/src/strategy/withdrawer.rs` | none | periodic withdrawal of the largest safe amount |
| event collector | `keeper/src/collect/stellar_event.rs` | cursor, ledger, first-poll flag | poll a page, send, save the cursor, reset |
| ledger collector | `keeper/src/collect/stellar_ledger.rs` | last sequence | poll, emit the newest ledger |
| storage | `keeper/src/storage/` | SQLite: obligations, one cursor row | upsert, delete, load |
| lending model | `engine/src/lending_model/` | none (pure) | pool conversions, eligibility, quotes, repay sizing, profitability |
| Stellar gateway | `keeper/src/stellar/` | RPC client | requests, XDR, error classification |
| metrics and health | `keeper/src/metrics/` | counters, last tick | `/metrics`, `/readyz` |
| configuration and wiring | `keeper/src/main.rs`, `config` | none | start, first task to end shuts down |

### How they interact

Collectors put events into a bounded broadcast channel; every strategy has its own
task and receives every event. A strategy's handler awaits RPC calls (balances,
quotes, simulations) and returns actions, which its task sends into a second bounded
broadcast channel. The executor takes them one at a time, retries, and hands an
accepted submission to a detached task that polls for the confirmation. Each action
carries a settle hook, run at its terminal outcome, that releases its reservation.
Strategies share the capital ledger and SQLite; all of them share one account on the
chain, whose sequence number orders the transactions.

### What is hard

* **Concurrency.** The handlers interleave at each await: a balance is read, cached,
  used and reserved against at four different moments. Two tasks write the cursor row,
  two write the obligation rows.
* **Bounded queues that overwrite.** A slow receiver loses the oldest entries: an
  action with its hook, or an event with its obligation.
* **Failure.** Lost submission replies and retries; polls that give up while the
  transaction is pending; a crash between sending a page and applying it; a failed
  row write; an event that does not decode; a retention window that passes the cursor.
* **Time.** Reservations and balances expire by age.
* **Arithmetic.** Amounts are rounded in five places between tokens and oracle values;
  offers are found by binary search over those roundings, against a market that
  refuses what leaves dust.

`PROJECT.json` lists these as hazards, each at its line, with the properties that
would catch it going wrong.

### What makes each part correct

* capital ledger, executor, reactor: an operation has one owner; what was reserved is
  released exactly when its operation ends, or its loss is a named one; nothing is
  submitted twice unless a reply was lost; what is in flight is covered by the wallet;
  every action ends.
* event path: after the last event of an obligation is through, map and row hold what
  the chain holds; a restart passes over nothing that was not sent; events keep coming.
* ledger path: obligations are judged only on prices the age guard vouches for; a
  market is not passed over because another market, or another obligation, fails;
  every round ends.
* plan choice: a plan is within the funds of its own source; a flash batch can repay
  itself; a feasible candidate is not lost to another one's failure.
* repay sizing: an offer is affordable and accepted; it still is after the interest it
  was sized for; the searches are exact and end.
* withdrawer: a withdrawal sized on a current reading is paid, is the largest that keeps
  the pool in its safe band, and keeps it there; what is worth withdrawing is withdrawn.
* bad-debt request initiator: cover is asked for dust only; what it leaves is taken by
  the liquidator; what is eligible gets its request; the asking ends.

## 2. Modules

| module | models | extends |
|---|---|---|
| `ReservationLedger` | abstract: what the capital gate promises | |
| `CapitalPipeline` | capital ledger, dispatch of liquidator and balancer, action channel, executor, polls, account | |
| `CapitalRefinement` | the mapping from the pipeline to the promise | `CapitalPipeline`, an `INSTANCE` of `ReservationLedger` |
| `MCCapitalPipeline` | instances | `CapitalRefinement` |
| `CapitalPipelineProofs` | theorems: owners, hooks, submissions, cover, and the implementation of `ReservationLedger` | `CapitalRefinement`, `NumberLemmas` |
| `NumberLemmas` | lemmas: quotients, least and greatest elements, induction over finite sets, sums | |
| `EventCache` | event collector, event channels, the liquidator's event handler, rows, the initiator's deletes, restarts | |
| `MCEventCache` | instances | `EventCache` |
| `EventCacheProofs` | theorems | `EventCache`, `NumberLemmas` |
| `MarketScan` | ledger collector, the liquidator's ledger handler: refresh, age guard, scan, replan | |
| `MCMarketScan` | instances | `MarketScan` |
| `MarketScanProofs` | theorems | `MarketScan` |
| `PlanChoice` | planning of one (borrow, collateral) pair: direct, flash and pre-swap candidates | |
| `MCPlanChoice` | instances | `PlanChoice` |
| `PlanChoiceProofs` | theorems | `PlanChoice`, `NumberLemmas` |
| `PoolMath` | share conversions, utilisation, withdrawal limit of a pool | |
| `LiquidationPair` | one (borrow, collateral) pair on a no-dust market: conversions, quote, verdict, what `fit_repay` returns | `PoolMath` |
| `FitRepay` | sizing of a repay on a no-dust market, search by search | `LiquidationPair` |
| `MCFitRepay` | instances | `FitRepay` |
| `FitRepayProofs` | theorems | `FitRepay`, `NumberLemmas` |
| `Eligibility` | the liquidation gate and the cover's eligibility, over whole obligations | `LiquidationPair` |
| `BadDebt` | the bad-debt request initiator: event path, sweep, requests | `Eligibility` |
| `MCBadDebt` | instances | `BadDebt` |
| `BadDebtProofs` | theorems | `BadDebt`, `NumberLemmas` |
| `Withdrawer` | the withdrawer: wake-ups, two reads, sizing, requests; the pools it shares | `PoolMath` |
| `MCWithdrawer` | instances | `Withdrawer` |
| `WithdrawerProofs` | theorems | `Withdrawer`, `NumberLemmas` |

`PROJECT.json` ("map") gives the lines each definition stands for. An operator marked
"Mutant of X" is not part of the model: it is X with a plausible mistake, and shows
that the property named with it in `PROJECT.json` notices.

### CapitalPipeline

*State.* `reservations` and `balances` are the two collections of `CapitalInner`, with
ages instead of instants, since the code only asks `elapsed() < ttl`. `pc`, `job`,
`plan` and `outbox` are the local variables of the two strategies' handlers; `channel`
is the broadcast channel as its one receiver sees it; `executor` is the retry loop;
`polls` are the detached tasks; `wallet`, `account_seq`, `mempool`, `ledger` are the
chain (external). `stage` says where an operation is. `lostReplies` and `blindSpots`
are history variables, read by properties only.

*Actions.* One step per stretch of code between two awaits. `PlanLiquidation`,
`PlanFlash`, `PlanRebalance` start a plan; `BalanceFromCache`, or `BalanceRead` then
`BalanceReply` (or `BalanceReadFails`), are `try_get_balance`; the liquidator reserves
in the same step (`TryReserve`), the balancer probes first (`ProbeAdmitted`,
`ProbeFails`). `HandlerReturns` and `SendAction` are the strategy task. `ExecuteAction`,
`FetchSeqNum(Fails)`, `SimulationEmpty`, `SubmitFails`, `SubmitReplyLost`, `SubmitOk`
are the executor, `PollEnds` the polls. `Apply` and `Evict` are the network, `Tick` a
second, `Restart` the shutdown of the process by its first task to end and its new start.

*Abstractions.* A plan is an arbitrary token and amount; so is the verdict on a probed
amount. Proceeds of a transaction are not credited to the wallet: properties about
cover would only be weakened by income. `PlanningRead` reads and caches in one step;
the two-step form is kept where the figure is used to reserve. Actions of initiator
and withdrawer carry no reservation: in the executor they behave like a flash
operation. Reservation ids are taken to be unique (`random_id` mixes clock,
process id and a seed into 64 bits).

### ReservationLedger and CapitalRefinement

`ReservationLedger` states the capital gate's promise without handlers, channels or chain:
an operation holds capital at most once, all that is held in time fits under a cap, and
what is held goes when its operation closes (`Close`), when it is overdue (`Hold` and
`Refuse` sweep the overdue entries of others, nothing else), or with the process
(`Crash`). `CapitalRefinement` maps the pipeline to it: an age becomes the flag `due`, and
an operation is open from the action that carries its hook to the run of the hook. An
action that the channel overwrote stays open, since its hook never runs: what it held can
only become overdue. The cap is the initial wallet less the margin. It bounds every
balance the code can read because proceeds are not credited; with income it would be the
largest balance ever read.

### EventCache

*State.* The market's history `log`; `oldest`, the first event the RPC node still
serves; `saved` and `db` in SQLite; the collector's record; `stream` (the collector's
own channel) and `queue` (the reactor's event channel); the liquidator's handler and
map; the initiator's `sweep`; a count of `faults`. `memMissed` and `dbMissed` are
history: events that were lost in a way the keeper counts or logs.

*Actions.* `PollOk`, `SaveCursor`, `PollTransient`, `PollTerminalFirst`, `PollTerminal`
(with `ResetToHead`, `ResetFails`) are the collector; `Forward` the reactor's collector
task; `ApplySnapshot`, `Undecodable`, `PassOverIssue`, `AskObligation`,
`RereadAnswered`, `Reread`, `RereadFails`, `SaveEventCursor` the liquidator's handler;
`SweepLoad`, `SweepPasses`, `SweepFindsGone`, `SweepDelete` the initiator; `Emit` and
`Prune` the chain and the node; `Restart` the process.

*Abstractions.* An obligation's content is the position of the last event that changed
it. One event per ledger; the node always returns a page's cursor. A failing creation
of the collector's client is a failing start, which is not modelled.

### MarketScan

*State.* `mem` is the obligation map and `snapshot` the market data with its stamp;
`round` holds the local variables of `handle_new_ledger` and of what it calls: the
markets left, a reading pool by pool, the obligations left, the obligation under way,
whether its pair was replanned. Ledger numbers are kept as distances: `unreported` since
the collector's last report, `queue` between successive events, `since` from
`last_refresh_ledger`, each counted up to the interval, which is all the code compares
with. Instants are ages. `oldest`, `lag` and `spent` are history.

*Actions.* `CloseLedger` (external) and `ReportLedger` are network and collector;
`IgnoreLedger` and `StartRound` the interval; `ReadAll`, `ReadFails`, `ReadPerPool`,
`ReadPool`, `InstallSnapshot`, `Refreshed` the refresh (and `sync_state`, which is the
initial state's `syncing` pass); `EvaluateMarket`, `SkipObligation`, `Judge`,
`NothingToDo`, `PlanFound`, `Simulated`, `LeavesDust`, `ScanDone`, `RoundDone` the scan;
`EventChanges` the event handler, which shares the task and so runs between rounds only.
Time (`Tick`) passes where the task awaits, nowhere else.

*Abstractions.* Whether an obligation is liquidatable, a computation fails, a pair has a
plan or a simulation passes is left open. The collector's own channel and the reactor's
are one channel here. Scan outcomes go to metrics only and are left out.
`RoundBudget` bounds the seconds one round's calls take. The age limit is looked at
once, when a market's scan starts: later obligations of a long scan are judged on a
snapshot up to a round older, which `ScansOnHeldPrices` allows for.

### PlanChoice

*State.* The pair with what the snapshot says of it, `usable_borrow`, how far the
planning and the pre-swap loop are, the candidates, the loop's best plan, the result.
`feasible` and a plan's `held` are history: every plan that passed its checks, and what
its source held when asked.

*Actions.* `Refuse` (the early returns before any candidate), `ReadBalance`, `TryDirect`,
`FlashReturnsNone` (the early returns of the flash part, which leave the function),
`TryFlash`, one of `SkipSource`, `SwapForAll`, `SwapForPart` per held asset,
`PreSwapDone`, `Choose`. Caps, seizure, margin and profitability are operators with the
code's roundings.

*Abstractions.* A sweep market, where `fit_repay` returns its argument; the other kind
is `FitRepay`. Balances and quotes are arbitrary; the best of several swap providers is
one quote. All tokens have the same decimals, the margin's cents convert exactly, and
the health factor's scale is a constant large enough for the values used. `MCPlanChoice`
keeps to pairs of liquidatable obligations.

### PoolMath, LiquidationPair, Eligibility

Operators only, each with the code's roundings and named after its function.
`PoolMath`: tokens to shares and back, rounded down and up, utilisation, what can still
be borrowed, and the largest withdrawal that stays under a utilisation limit.
`LiquidationPair`: tokens to oracle values and back, interest over a block, the market's
quote and its verdict on a repay (`buys`, `accepts`), and what `fit_repay` returns, with
the results of its searches as least and greatest elements of sets. `Eligibility`: values, LTV and
insolvency of an obligation, `compute_is_liquidatable`, `has_acceptable_liquidation` and
`is_eligible_for_bad_debt_request_issuance`, for both dust rules. Errors of these
functions (an unpriced pool, an unknown market) are their error outcomes; overflow of
`i128`, also an error return in the code, is left out.

### FitRepay

*State.* The inputs of one call of `fit_repay`, its program counter, the loop variables
of the search under way, the two numbers of `Clearing` and the result. The planned repay
may exceed the close-factor cap and the debt (`Planned`): `try_preswap_plan` calls again
with a padded offer, or with what a swap of a whole balance would yield.

*Actions.* `SearchGrown`, `HalveGrown`, `GrownFound` and `SearchSnapshot`,
`HalveSnapshot`, `SnapshotFound` are the two uses of `repay_buying` in `clearing`;
`ClearsAside`, `StaysPartial`, `ClearsInstead` the returns of `fit_repay`;
`SearchPartial`, `HalvePartial`, `PartialFound` are `largest_partial_repay`.
The conversions and the market's verdict (`buys`, `accepts`, ...) are operators.
`FitAsDefined` says that the searches, the padding and the order of the returns give what
`LiquidationPair` defines `fit_repay` to be; `Eligibility` uses that definition.

*Abstractions.* Amounts are tokens, converted from shares before the call. Overflow of
`i128` is an error return in the code and is left out. A sweep market returns the
repay unchanged and has nothing to check. Where the planned repay leaves dust the code
tries the padded clearing offer only, never the smallest clearing repay, so it may
return `None` where a tight offer would be accepted; the module does the same.

### Withdrawer

*State.* The chain's part (external) is `pools`, the keeper's `shares` and `price`.
`events` and `actions` are the strategy's event channel and the action channel; `at`,
`todo`, `deposits` and `built` the local variables of the two
handlers; `phase` the ledger number modulo the interval. `strayed`, and the reading that
each withdrawal carries with its `stale` flag, are history.

*Actions.* `NewLedger` and `SorobanEvent` are the two handlers; `ReadObligation`,
`NoObligation`, `ReadFails` the first read; `ReadMarketData`, `PoolMissing`, `BuildFails`
the second read with sizing, threshold and build, up to the return of the actions.
`Deposit`, `Repay`, `Borrow`, `OthersWithdraw`, `LiquidationCredits`, `SetPrice` are
other users; `Lands` and `Rejected` the executor and the market's `withdraw`.

*Abstractions.* The executor is its outcome; `CapitalPipeline` has its inside. The
market's `withdraw` is not in this repository and is taken from how the code uses it: it
pays what the pool holds, burns shares rounded up, and `i128::MAX` (`Everything`) is the
position at the time of landing. Other users' amounts are the set `Steps`; nobody deposits
beyond `i128::MAX` or borrows more than the pool has.

### BadDebt

*State.* `rules` (the dust rules) is chosen at the start. `book` and `market` are the
chain (external), an obligation or a market being a name in `Shapes` or `MarketStates`;
`rows` are the stored obligations and `lag` the keys whose last change is on its way to the
liquidator's handler; `at`, `todo`, `snapshot`, `subject`, `built` the handler's local
variables; `requests` the action channel. Eligibility depends only on the readings and
the configuration, so `eligible` and `solvent` tabulate it once per behaviour. The
readings a request carries are history.

*Actions.* `LiquidationEvent`, `EventUnreadable`, `JudgeEvent`, `JudgeEventFails` are the
event path, which judges the obligation as the event carried it; `NewLedger`,
`SweepReadsMarket`, `SweepMarketFails`, `JudgeRow`, `Reread`, `RereadFails`, `DropRow`,
`JudgeFresh`, `SweepEnds` the sweep, with one market reading for all rows and a re-read
of each row that looks eligible. `Changed`, `Liquidated`, `MarketMoves`, `Claimed` are
the world, `RowCatchesUp` and `RowMisses` the liquidator's handler, whose write may fail or
whose event may be dropped; `RequestOpens` and `RequestFails` the
executor and the market, which refuses a second open request and, without dust, a
solvent obligation.

*Abstractions.* One configured market; the code treats each in turn, on its own. A change
of the chain reaches its row late or is missed; how, in the handler and its channel, is
`EventCache`'s subject. Misses are bounded by the changes, not by the faults.

## 3. Runs

| run | bounds | shows |
|---|---|---|
| `CapitalGate` | 2 operations, 1 token, 2 attempts, 1 probe, channel of 1, TTLs of 1, 1 restart | `TypeOK`, `SingleOwner`, `ReservationsOfLiveOps`, `SubmittedOnce`, `ReservationEndsForAReason`, `PushedActionsEnd`, `ImplementsReservationLedger` |
| `CapitalThreeOps` | 3 operations, 1 attempt, 2 probes, no restart | `CoveredUnlessBlind` |
| `CapitalStaleBalance` | violation | `NoDoubleSpend` |
| `EventCache` | 1 obligation, 3 events, 2 faults, channels of 1 | `TypeOK`, `CacheCurrent`, `RowsCurrent`, `SavedBehindSent` |
| `EventRows` | 2 obligations, 2 events, 1 fault | `RowsCurrent`, `EventsArrive` |
| `EventExpired` | violation | `ExpiredCursorResets` |
| `MarketScan` | 2 markets, 3 pools, 3 obligations, interval 2, age limit 1, round budget 1, channel of 1 | `TypeOK`, `ScansOnHeldPrices`, `RoundsEnd`, `JudgedAgain` |
| `PlanChoice` | 2 debts, 2 x 3 collaterals, 4 price pairs, 2 rates, 3 states of the collateral pool, 4 answers per call, 4 held assets | `TypeOK`, `WithinSource`, `FlashSellsWhatItHolds`, `FlashOverdrawIsRounding`, `LargestUnlessReturned` |
| `PlanDropped` | violation | `EveryCandidateCounts` |
| `FitRepay` | 3 debts, 6 collaterals, 9 price pairs, 2 close factors, 2 floors, 2 accruals, 2 margins, repays to 3 above the debt, funds to 2 above the repay | `TypeOK`, `FitSound`, `SearchesFindTheLeast`, `FitAsDefined`, `LtvNotRaised`, `OfferOutlastsInterest`, `Returns` |
| `Withdrawer` | 2 pools of one market, a market without a deposit, 2 changes by others, 1 fault, interval 2, event channel of 1, action channel of 2 | `TypeOK`, `PaidOnReading`, `NoLargerFits`, `SafeUnlessStale`, `WorthwhileIsWithdrawn` |
| `BadDebt` | 1 obligation, 4 shapes, 3 market states, both dust rules, 2 changes, 1 fault, interval 2, event channel of 1, action channel of 2 | `TypeOK`, `CoverJustified`, `LeftToLiquidation`, `EligibleIsCovered`, `StopsAsking` |

**Why the bounds are enough.** Two operations are the least that compete for a balance
and for the channel's slot; a third is needed for one to have landed and been released
while one is in flight and one is judged. A channel of one slot overwrites as soon as
two actions come. A time to live of one second has both sides of its boundary. Two
attempts have a retry and a last attempt. Three events of one obligation are the least
that open, close and reopen it around a re-read; two faults are the least for a crash
after a failed write, or for a reset whose first step fails. In `MarketScan` the second
market is what a slow or failing first one could starve; an interval of two ignores a
ledger, an age limit of one second has both sides of its boundary, and a market of two
pools can be priced wholly, in part and not at all. In `PlanChoice` the larger debt is
big enough for the incentive to survive flash fee and rounding, so that all three kinds
of plan win somewhere; the collateral pool can pay out nothing, one unit less than a
position and most of a large one, so that the overdraw of `FlashOverdrawIsRounding` happens. In `FitRepay` the prices
do not divide the token unit, so every rounding rounds; debts and collaterals lie on
both sides of the floor and of twice the floor, and LTVs on both sides of the
insolvency threshold and of the point where the incentive alone would raise the LTV; a
repay of 3 above the largest debt is the largest clearing offer, interest and margin included.
In `Withdrawer` the pools' share rates do not divide, two changes by others are the
least that overtake both reads, and two withdrawals of one pool can be queued. In
`BadDebt` one of the market states does not price the debt, the shapes lie, under the
two prices of the others, on both sides of the dust threshold and of solvency, with and
without shares, and one pool has issued none; two changes are the
least for an obligation to go and come back during a re-read. One key is enough there:
rows meet only in the list of the sweep, and `EventRows` has two.

**Deadlock** is checked in the capital runs, `MarketScan`, `Withdrawer` and `BadDebt`. The event runs switch
it off because the collector may shut down for good, the repay and planning runs because a call ends.

**Fairness.** `CapitalPipeline`: weak fairness of each handler, of the executor and of
each poll; they are tokio tasks whose RPC calls return or time out. Nothing is assumed
of the chain, of the clock or of the wish to start a plan. `EventCache`: weak fairness
of collector, forwarding task and handler, for the same reason; faults are bounded and
not fair. `MarketScan`: ledgers go on closing, the collector goes on polling and the
handler goes on; no call is assumed to succeed. `JudgedAgain` has the rest as its
premise: the market's refresh works again and again, and a round's calls take no longer
than the age limit (with a slower round the first market's snapshot can be too old by
the time the last one is read). `FitRepay`: weak fairness of the call, which is sequential code.
`Withdrawer`: weak fairness of the handler and of the executor; strong fairness of a
reported multiple of the interval (`NewLedger(0)`), because the collector may pass over any
single one but is taken to hit one again and again. `BadDebt`: weak fairness of the handler,
of the executor and of each change's arrival at its row, where it may still be missed;
`EligibleIsCovered` has it as its premise that sweeps go on (`SweptAgain`), since nothing in
the code rules out that the collector passes over every multiple. Nothing is assumed of
other users, prices or the chain.

### Where code and documentation differ

Each is a run that TLC must find violated, and an entry under "findings".

1. `NoDoubleSpend`: a balance cached before a spend outlives that spend's reservation.
   `CoveredUnlessBlind` is what does hold: four named gaps (`expired`, `stale`, `late`,
   `duplicate`) are the only ways round the gate.
2. `ExpiredCursorResets`: a saved cursor that expired during an outage ends the
   collector instead of resetting it.
3. `EveryCandidateCounts`: an early return of the flash part drops the direct candidate;
   when the collateral pool can pay nothing out, a pair with flash loans enabled gets no
   plan at all. `LargestUnlessReturned` is what does hold.

More differences are in the models without a run of their own; each is the exception
that a property names.

* The time to live of a reservation is documented for hooks that never ran
  (`docs/configuration.md:33`, `liquidator.rs:1502`). It also reclaims reservations of
  operations that are still queued, retried or polled (`expired` in `CoveredUnlessBlind`,
  the overdue case of `ReservationEndsForAReason`).
* The liquidator writes the collector's cursor row too and moves it back
  (`SaveEventCursor`; `SavedBehindSent` and `CacheCurrent` show that this costs replays,
  not events).
* The flash cap "must use instantly available collateral only" (`liquidator.rs:928`). It
  divides by the debt's price with the incentive, rounded down to a basis point and then
  to a unit of price, so the batch can withdraw more than comes free of the scarcity fee.
  `FlashOverdrawIsRounding` bounds the excess by what the two roundings are worth on the
  repay; a seizure of the whole position is its exception.
* The withdrawer promises withdrawals without a scarcity fee (`withdrawer.rs:1-2`). The
  obligation is read before the market, and a whole position is asked for as `i128::MAX`:
  shares that a liquidation credits between the reads are withdrawn too, beyond the safe
  band (`SafeUnlessStale`, where such a size counts as stale).
* One deposit without a price drops every withdrawal of its market (`Unpriced` in
  `WorthwhileIsWithdrawn`).
* A row deleted because a re-read found the obligation gone may be the row of the
  obligation created since; a failed write of a row is only logged
  (`liquidator.rs:367`, `:380`), and an event dropped on lag only counted. Nothing sweeps an
  eligible obligation with such a row until its next event, unless the wrong row looks
  eligible too (`Overlooked` in `EligibleIsCovered`).
* `liquidation.rs:152-155` says of an obligation without a healthy liquidation that "a
  sweep market's cover takes it instead". A deposit worth a little more than the floor is
  taken by neither, which is why `LeftToLiquidation` is about no-dust markets.

## 4. Proofs

TLAPS checks the following for every value of the constants that the modules' assumptions
allow: any sets of operations, keys, markets, pools and pairs, any capacities, lifetimes,
amounts and prices, any number of faults and restarts.

| module | theorem | states |
|---|---|---|
| `CapitalPipelineProofs` | `TypeCorrect` | `Spec => []TypeOK` |
| | `OneOwner` | `Spec => []SingleOwner` |
| | `HooksRelease` | `Spec => []ReservationsOfLiveOps` |
| | `NoDuplicateSubmission` | `Spec => []SubmittedOnce` |
| | `ReservationsEndForAReason` | `Spec => ReservationEndsForAReason` |
| | `CoverHolds` | `Spec => []CoveredUnlessBlind` |
| | `LedgerImplemented` | `Spec => ImplementsReservationLedger` |
| `EventCacheProofs` | `EventTypeCorrect` | `Spec => []TypeOK` |
| | `MapFollowsChain` | `Spec => []CacheCurrent` |
| | `RowsFollowChain` | `Spec => []RowsCurrent` |
| | `SavedCursorBehind` | `Spec => []SavedBehindSent` |
| `MarketScanProofs` | `ScanTypeCorrect` | `Spec => []TypeOK` |
| | `HeldPricesScanned` | `Spec => []ScansOnHeldPrices` |
| `PlanChoiceProofs` | `PlanTypeCorrect` | `Spec => []TypeOK` |
| | `PlansAreFunded` | `Spec => []WithinSource` |
| | `FlashSellsHoldings` | `Spec => []FlashSellsWhatItHolds` |
| | `FlashOverdrawBounded` | `Spec => []FlashOverdrawIsRounding` |
| | `LargestIsChosen` | `Spec => []LargestUnlessReturned` |
| `FitRepayProofs` | `FitTypeCorrect` | `Spec => []TypeOK` |
| | `OffersFit` | `Spec => []FitSound` |
| | `LeastIsFound` | `Spec => []SearchesFindTheLeast` |
| | `FitIsDefined` | `Spec => []FitAsDefined` |
| | `LtvKept` | `Spec => []LtvNotRaised` |
| | `ClearingOutlasts` | `Spec => []OfferOutlastsInterest` |
| `WithdrawerProofs` | `WithdrawerTypeCorrect` | `Spec => []TypeOK` |
| | `ReadingsPay` | `Spec => []PaidOnReading` |
| | `LargestSafe` | `Spec => []NoLargerFits` |
| | `LandingsAreSafe` | `Spec => []SafeUnlessStale` |
| `BadDebtProofs` | `BadDebtTypeCorrect` | `Spec => []TypeOK` |
| | `CoversOnlyDust` | `Spec => []CoverJustified` |
| | `DustIsNotLost` | `Spec => []LeftToLiquidation` |

Each proof has one lemma per action, or per group of actions with the same frame, and one
step per conjunct that the action disturbs.

### The arguments

**Owners, hooks, submissions.** The inductive invariant is `IndInv == TypeOK /\ SingleOwner
/\ ReservationsOfLiveOps /\ SentOps /\ SubmittedOnce`. `ReservationsOfLiveOps` alone is not
inductive: a step that settles one operation changes only that operation's stage, so one
must know that no other holder (a slot of an outbox or the channel, the executor, a poll)
still has it, which is `SingleOwner`. `SubmittedOnce` needs to know that an operation with
a transaction on the network, or in the ledger, has left the executor, unless a reply was
lost: `SentOps`.

**Cover.** `CoverInv` is on top of that. A balance the gate judges by was read some time
ago; `Readings` says that it is today's wallet plus what transactions since then took,
and no more than the initial wallet. `Covered` is about reservations whose operation has
not landed; `Backed` says that without a blind spot every operation in flight has its
reservation, and `OneReservation` that it is of the amount the operation spends. From
these three `CoveredUnlessBlind` follows. The step that reserves is the hard one: what
was spent since the reading belongs to operations whose reservations are still there or
which are recorded in `blindSpots`. The steps are grouped by what they do to
reservations, stages and the chain, which also gives the simulation: each group is one
action of `ReservationLedger`, or a stutter.

**Event path.** `CacheCurrent` and `RowsCurrent` need that an older event is never
applied over a newer one for good: positions keep their order in both channels
(`Ordered`), and what was sent after an event in transit is in transit itself or counted
as lost (`NoGap`). That these survive resets and replays needs to know where the
collector resumes (`CursorOK`) and what a saved row can hold (`SavedOK`). The answer to a
re-read is ahead of the queue; `AnswerOK` says that it is right when its event is the last.

**Scan.** `StampInv` relates the stamp of a snapshot to the age of its oldest price,
`ScanInv` carries the age guard, which is looked at once, through the rest of the scan.

**Planning.** `SoundInv` says of every plan that passed its checks what the properties say
of the chosen one; `ChosenInv` that candidates and choice are among those; `KeptInv` and
`LargestInv` that none is lost but by a return. The rest is arithmetic: chains of
quotients rounded down and up, and products of a bound with a price.

**Repay sizing.** Each search has its loop invariant (`GrownInv`, `SnapshotInv`,
`PartialInv`); they rest on two lemmas: what a repay buys does not fall as the repay grows
(`BuysMono`), and a repay that keeps both sides above the floor does so when it is lowered
(`KeepsDown`). `OfferInv` is what padding an offer and growing the position by interest
both keep. `LtvKept` and `ClearingOutlasts` follow from the invariant and arithmetic only.
`FitIsDefined` is the whole function: the loop invariants also say where a search came from
and which returns were passed over (`Refused`), so that at the end the least clearing repay,
the greatest partial one (`LargestFound`) and the branch taken are those of the definition
of `fit_repay` (`FitCases`).

**Withdrawer.** `SoundInv` says of every withdrawal under way what was true when it was
sized, and, while it is not marked stale, that its reading still stands; `ReadInv` says
the same of the position that was read first. `LandsInBand` turns that into
`SafeUnlessStale`; `SharesCovered`, `SafeWithdrawal` and `StaysInBand` are the arithmetic
of share rates and of the withdrawal limit.

**Bad debt.** `JudgedInv` says that every request collected or queued was accepted under the
configured rules by the readings it carries; the sweep's second judgement, the overwriting
channel and repeated submissions keep that. `CoversOnlyDust` then is arithmetic: a deposit
within the threshold after two roundings up, shares to tokens and tokens to value, is within
a unit of it without any (`DustIsSmall`). `DustIsNotLost` compares two functions. The
initiator values shares by the pool's totals rounded up, the gate by the reported rate, in
basis points rounded down; the reported value is the smaller one (`RateBelow`,
`ReportedBelow`), scaled by the close LTV it is at most the floor that the gate subtracts for
each deposit (`DustScaled`), and the sum over any finite set of deposits is at most the sum
of the floors (`SumBound`). What is left of the collateral is at most zero and the debt
counts for at least one (`DebtCounts`), so the gate opens (`DustPassesGate`).

**Numbers.** `NumberLemmas` has the facts about rounded quotients, and the induction the
sums need: a set of numbers has a least element, hence a set with zero and all successors
holds every number, hence a family of finite sets closed under adding an element holds
every finite set. Stated with sets instead of operators, these can be cited; with them the
sums of the community modules get their laws (adding an element, union, monotony).

### Assumptions

Beside the types of the constants: `BPS_FACTOR = 10000` in `PlanChoice` (the code's
constant; the rounding bound depends on it); a pair's supply by rate is at most its supply
by totals; in `FitRepay` a position has collateral and the close factor is at most one; in
`Withdrawer` sets of pools, markets and prices are finite, limits are at most one and the
totals at most `i128::MAX` (`Everything`), with which "everything" is told from an amount.
In `BadDebt` an obligation has finitely many positions and no more shares of a pool than the
pool issued; prices and liability factors are positive and close LTVs at most one; and the
dust floor is a whole oracle value, which two oracle decimals or more make it, or close LTVs
are below one: the initiator rounds the floor up, the gate rounds it down.
TLC evaluates all of them on the runs' instances.

### What the proofs found

* `LtvNotRaised` had valued the seizure at the offer. An offer beyond the debt is
  refunded, and the market seizes for the debt only; the property now says so.
* `FlashWithdrawsFeeFree` (no flash batch withdraws beyond what is free of the scarcity
  fee) held on the first instance and is false: with price 7 on both sides, 80 supplied,
  50 free and an insolvent obligation, 55 are withdrawn. `FlashOverdrawIsRounding` is the
  bound that holds, and the instance was widened so that the overdraw occurs in it.
* What `available_for_borrow` returns is rounded and can be above what the pool has;
  `Borrow` in `Withdrawer` takes the smaller.
* `CoverJustified` multiplied by the shares a pool has issued, and said `0 < 0` of plain
  collateral in a pool that has issued none. It has a case for that pool now, and the
  instance has such a pool.
* `LeftToLiquidation` was false of an obligation whose debt shares are worth nothing, because
  nothing is borrowed from their pool: it is not solvent in the initiator's eyes, and the gate
  passes it over as free of debt. It now asks that something is owed.
* Shares of a pool that has issued none count one for one by the reported rate, which the
  gate uses, and nothing by the totals, which the initiator uses. The market cannot issue
  such shares; the assumption that nobody holds more shares than the pool issued says so.

### Only model-checked

Liveness (`PushedActionsEnd`, `EventsArrive`, `RoundsEnd`, `JudgedAgain`, `Returns`,
`WorthwhileIsWithdrawn`, `EligibleIsCovered`, `StopsAsking`): fairness is beyond the prover.
The theorems are about `Spec`'s initial states and steps, whatever its fairness.

## 5. Not modelled

* The encoding and decoding of requests, events and errors (`keeper/src/stellar/`):
  formats without state. Their outcomes are choices of the actions that call them.
* Fees and signatures: one step of the executor that succeeds or fails.
* Metrics, logs, configuration parsing: nothing in the keeper reads them back.
* The balancer's arithmetic (price impact, dust value, choice of a provider): an arbitrary
  verdict on each probed amount in `CapitalPipeline`, which has its control flow.
* The choice among the pairs of an obligation by net profit, and `compute_flash_fee`.
* Overflow of `i128`: an error return in the code, and every caller treats an error as a
  failed computation, which the models have.

## 6. Plan

1. *Done*: `CapitalPipeline` and its refinement of `ReservationLedger`, `EventCache`,
   `MarketScan`, `PlanChoice`, `PoolMath`, `LiquidationPair`, `FitRepay`, `Eligibility`,
   `BadDebt`, `Withdrawer`; the proofs of section 4.
2. Not done: the choice among the pairs of an obligation on top of `PlanChoice`, with the
   one replan of `MarketScan`; the balancer's sizing arithmetic.
