----------------------------- MODULE Withdrawer -----------------------------
(***************************************************************************)
(* The withdrawer strategy (keeper/src/strategy/withdrawer.rs): it pulls    *)
(* the keeper's own deposits out of pools, as much as leaves each pool's    *)
(* utilisation in a safe band. It reads its obligation and then the market, *)
(* with an await between and after, and keeps no record of withdrawals it   *)
(* has sent; the pools meanwhile belong to everybody.                       *)
(*                                                                          *)
(* The chain's own operations on a pool are external: deposits, borrows,    *)
(* repays and withdrawals of other users, liquidations that credit shares   *)
(* to the keeper, oracle prices, and the market's withdraw.                 *)
(***************************************************************************)
EXTENDS PoolMath, Sequences, SequencesExt, FiniteSetsExt

CONSTANTS
    Pools,          \* pool addresses
    Markets,        \* config.markets
    MarketOf,       \* the market of each pool
    InitialPools,   \* the pools' totals and utilisation limits at the start
    InitialShares,  \* the keeper's deposit in each pool, in shares
    Prices,         \* oracle prices a pool's asset may have
    CentFactor,     \* 10^(decimals - 2): divides a value into cents
    MinCents,       \* config: min_withdraw_value_cents
    SafetyMargin,   \* config: utilization_safety_margin_bps
    Interval,       \* config: refresh_interval_blocks
    Everything,     \* i128::MAX, the amount that asks for the whole position
    Steps,          \* amounts other users move (bound)
    MaxChanges,     \* how often others change a pool or a price (bound)
    MaxFaults,      \* failed reads, builds and submissions (bound)
    EventCapacity,  \* capacity of the strategy's event channel
    ActionCapacity  \* capacity of the action channel

PoolType == [supply : Nat, j : Nat, borrowed : Nat, d : Nat, limit : Nat]

\* A utilisation limit is a share of one, and no total is past i128::MAX.
ASSUME WithdrawerAssumption ==
    /\ BPS_FACTOR \in Nat \ {0}
    /\ IsFiniteSet(Pools)
    /\ IsFiniteSet(Markets) /\ Markets # {}
    /\ MarketOf \in [Pools -> Markets]
    /\ InitialPools \in [Pools -> PoolType] /\ InitialShares \in [Pools -> Nat]
    /\ \A p \in Pools : InitialShares[p] <= InitialPools[p].j
    /\ \A p \in Pools : InitialPools[p].borrowed <= InitialPools[p].supply
    /\ \A p \in Pools : InitialPools[p].supply <= Everything /\ InitialPools[p].limit <= BPS_FACTOR
    /\ Prices \subseteq Nat /\ IsFiniteSet(Prices) /\ Prices # {}
    /\ CentFactor \in Nat \ {0}
    /\ MinCents \in Nat /\ SafetyMargin \in Nat /\ Everything \in Nat
    /\ Interval \in Nat \ {0}
    /\ Steps \subseteq Nat
    /\ MaxChanges \in Nat /\ MaxFaults \in Nat /\ EventCapacity \in Nat \ {0} /\ ActionCapacity \in Nat \ {0}

VARIABLES
    pools,     \* chain: totals of each pool
    shares,    \* chain: the keeper's deposit positions
    price,     \* chain: oracle price of each pool's asset
    events,    \* events waiting for the strategy: [market, kind]
    phase,     \* the last reported ledger's number modulo Interval
    at,        \* the handler: "idle", "obligation" or "market"
    todo,      \* the markets the handler has yet to read
    deposits,  \* the obligation as the handler read it
    built,     \* withdrawals collected by this call
    actions,   \* withdrawals sent and not yet executed, oldest first
    strayed,   \* history: of landings that left the safe band, whether the size was stale
    changes,   \* changes made by others so far
    faults     \* faults so far

chain == <<pools, shares, price>>
handler == <<at, todo, deposits, built>>
vars == <<chain, events, phase, handler, actions, strayed, changes, faults>>

\* A withdrawal carries, as history, the pool and the position it was sized on and
\* whether either has changed since.
Withdrawal == [pool : Pools, amount : Nat, on : PoolType, held : Nat, stale : BOOLEAN]

\* Kinds of events; only the first three are thought to add liquidity.
Increasing == {"deposit", "repay", "liquidate"}
Kinds == Increasing \cup {"other"}

TypeOK ==
    /\ pools \in [Pools -> PoolType]
    /\ shares \in [Pools -> Nat]
    /\ \A p \in Pools : shares[p] <= pools[p].j /\ pools[p].borrowed <= pools[p].supply
    /\ price \in [Pools -> Prices]
    /\ events \in Seq([market : Markets, kind : Kinds]) /\ Len(events) <= EventCapacity
    /\ phase \in 0..(Interval - 1)
    /\ at \in {"idle", "obligation", "market"}
    /\ todo \in Seq(Markets) /\ (at = "idle" <=> todo = <<>>)
    /\ deposits \in [Pools -> [held : Nat, stale : BOOLEAN]]
    /\ built \in Seq(Withdrawal)
    /\ actions \in Seq(Withdrawal) /\ Len(actions) <= ActionCapacity
    /\ strayed \subseteq BOOLEAN
    /\ changes \in 0..MaxChanges
    /\ faults \in 0..MaxFaults

NothingRead == [p \in Pools |-> [held |-> 0, stale |-> FALSE]]

Init ==
    /\ pools = InitialPools
    /\ shares = InitialShares
    /\ price = [p \in Pools |-> Max(Prices)]
    /\ events = <<>>
    /\ phase = 1 % Interval
    /\ at = "idle"
    /\ todo = <<>>
    /\ deposits = NothingRead
    /\ built = <<>>
    /\ actions = <<>>
    /\ strayed = {}
    /\ changes = 0
    /\ faults = 0

-----------------------------------------------------------------------------
(* The chain. *)

\* History: what was read or sized of pool p is out of date from now on.
OutOfDate(ws, p) == [i \in DOMAIN ws |-> [ws[i] EXCEPT !.stale = @ \/ ws[i].pool = p]]

\* Mutant of Newest: the channel grows.
NewestAndOlder(s, n) == s

\* The last entries of s that a channel of n keeps.
Newest(s, n) == IF Len(s) <= n THEN s ELSE SubSeq(s, Len(s) - n + 1, Len(s))

\* An event reaches the strategy's channel; a full channel loses its oldest.
Emit(m, kind) ==
    events' = Newest(Append(events, [market |-> m, kind |-> kind]), EventCapacity)

\* Other users change the totals of p.
OthersChange(p, totals, kind) ==
    /\ changes < MaxChanges
    /\ changes' = changes + 1
    /\ pools' = [pools EXCEPT ![p] = totals]
    /\ built' = OutOfDate(built, p)
    /\ actions' = OutOfDate(actions, p)
    /\ Emit(MarketOf[p], kind)
    /\ UNCHANGED <<shares, price, phase, at, todo, deposits, strayed, faults>>

Deposit(p, amount) ==
    /\ pools[p].supply + amount <= Everything
    /\ OthersChange(p, [pools[p] EXCEPT !.supply = @ + amount,
                                        !.j = @ + tokens_to_j_tokens_floor(pools[p], amount)], "deposit")

Repay(p, amount) ==
    /\ amount <= pools[p].borrowed
    /\ OthersChange(p, [pools[p] EXCEPT !.borrowed = @ - amount], "repay")

\* Rounding may put what the limit leaves above what the pool has.
Borrow(p, amount) ==
    /\ amount <= available_for_borrow(pools[p])
    /\ amount <= pools[p].supply - pools[p].borrowed
    /\ OthersChange(p, [pools[p] EXCEPT !.borrowed = @ + amount], "other")

OthersWithdraw(p, amount) ==
    LET burned == tokens_to_j_tokens_ceil(pools[p], amount)
    IN  /\ amount <= pools[p].supply - pools[p].borrowed
        /\ burned <= pools[p].j - shares[p]
        /\ OthersChange(p, [pools[p] EXCEPT !.supply = @ - amount, !.j = @ - burned], "other")

\* A liquidation credits shares of p to the keeper; the pool's totals stand.
LiquidationCredits(p, amount) ==
    /\ changes < MaxChanges
    /\ changes' = changes + 1
    /\ shares[p] + amount <= pools[p].j
    /\ shares' = [shares EXCEPT ![p] = @ + amount]
    /\ deposits' = [deposits EXCEPT ![p].stale = at # "idle"]
    /\ built' = OutOfDate(built, p)
    /\ actions' = OutOfDate(actions, p)
    /\ Emit(MarketOf[p], "liquidate")
    /\ UNCHANGED <<pools, price, phase, at, todo, strayed, faults>>

SetPrice(p, x) ==
    /\ changes < MaxChanges
    /\ changes' = changes + 1
    /\ price' = [price EXCEPT ![p] = x]
    /\ UNCHANGED <<pools, shares, events, phase, handler, actions, strayed, faults>>

-----------------------------------------------------------------------------
(* The strategy. *)

\* handle_new_ledger. The collector reports the newest ledger only, so the number
\* may have jumped; the handler works on multiples of the interval alone.
NewLedger(q) ==
    /\ at = "idle"
    /\ phase' = q
    /\ IF q = 0 THEN at' = "obligation" /\ todo' = SetToSeq(Markets)
                ELSE UNCHANGED <<at, todo>>
    /\ UNCHANGED <<chain, events, deposits, built, actions, strayed, changes, faults>>

\* handle_soroban_event: an event that adds liquidity wakes the strategy up.
SorobanEvent ==
    /\ at = "idle"
    /\ events # <<>>
    /\ events' = Tail(events)
    /\ IF Head(events).kind \in Increasing
       THEN at' = "obligation" /\ todo' = <<Head(events).market>>
       ELSE UNCHANGED <<at, todo>>
    /\ UNCHANGED <<chain, phase, deposits, built, actions, strayed, changes, faults>>

\* read_user_obligation answers; it is an error when the keeper has no obligation.
ReadObligation ==
    /\ at = "obligation"
    /\ \E p \in Pools : MarketOf[p] = Head(todo) /\ shares[p] > 0
    /\ at' = "market"
    /\ deposits' = [p \in Pools |-> [held |-> IF MarketOf[p] = Head(todo) THEN shares[p] ELSE 0,
                                     stale |-> FALSE]]
    /\ UNCHANGED <<chain, events, phase, todo, built, actions, strayed, changes, faults>>

\* The call is over: its withdrawals go to the action channel, which loses its
\* oldest entries when it is full.
Return(collected) ==
    /\ actions' = Newest(actions \o collected, ActionCapacity)
    /\ built' = <<>>
    /\ deposits' = NothingRead

\* On to the next market, with what has been collected so far.
NextMarket(collected) ==
    /\ todo' = Tail(todo)
    /\ IF Len(todo) = 1
       THEN at' = "idle" /\ Return(collected)
       ELSE /\ at' = "obligation"
            /\ built' = collected
            /\ deposits' = NothingRead
            /\ UNCHANGED actions

NoObligation ==
    /\ at = "obligation"
    /\ \A p \in Pools : MarketOf[p] = Head(todo) => shares[p] = 0
    /\ NextMarket(built)
    /\ UNCHANGED <<chain, events, phase, strayed, changes, faults>>

ReadFails ==
    /\ at \in {"obligation", "market"}
    /\ faults < MaxFaults
    /\ faults' = faults + 1
    /\ NextMarket(built)
    /\ UNCHANGED <<chain, events, phase, strayed, changes>>

\* find_withdrawal_opportunities: the deposits for which there is something to
\* withdraw from a pool in its safe band, of the pools the snapshot holds.
Candidates(seen) ==
    {p \in seen : /\ deposits[p].held > 0
                  /\ compute_max_safe_withdrawal(pools[p], SafetyMargin) > 0
                  /\ j_tokens_to_tokens_floor(pools[p], deposits[p].held) > 0}

\* compute_withdrawal_value_cents, of a pool with a price
value_cents(p, amount) == (amount * price[p]) \div CentFactor

\* Mutant of SafeAmount: the whole position whatever the pool's limit.
WholePosition(p) == j_tokens_to_tokens_floor(pools[p], deposits[p].held)

SafeAmount(p) ==
    Min({j_tokens_to_tokens_floor(pools[p], deposits[p].held),
         compute_max_safe_withdrawal(pools[p], SafetyMargin)})

\* The whole position is asked for as i128::MAX.
Sized(p) ==
    [pool |-> p,
     amount |-> IF SafeAmount(p) = j_tokens_to_tokens_floor(pools[p], deposits[p].held)
                THEN Everything ELSE SafeAmount(p),
     on |-> pools[p], held |-> deposits[p].held, stale |-> deposits[p].stale]

\* Mutant of Opportunities: one worthless candidate takes the others with it.
OpportunitiesAllOrNone(seen) ==
    IF \E p \in Candidates(seen) : value_cents(p, SafeAmount(p)) < MinCents THEN {} ELSE Candidates(seen)

\* Deposits a withdrawal is built for. A candidate without a price makes the
\* function return no action at all, the ones already built included.
Opportunities(seen) ==
    IF \E p \in Candidates(seen) : price[p] <= 0 THEN {}
    ELSE {p \in Candidates(seen) : value_cents(p, SafeAmount(p)) >= MinCents}

ReadMarketData ==
    /\ at = "market"
    /\ NextMarket(built \o SetToSeq({Sized(p) : p \in Opportunities(Pools)}))
    /\ UNCHANGED <<chain, events, phase, strayed, changes, faults>>

\* The market was read pool by pool and p could not be: its deposit is passed over.
PoolMissing(p) ==
    /\ at = "market"
    /\ faults < MaxFaults
    /\ faults' = faults + 1
    /\ NextMarket(built \o SetToSeq({Sized(q) : q \in Opportunities(Pools \ {p})}))
    /\ UNCHANGED <<chain, events, phase, strayed, changes>>

\* build_withdrawal_action fails for one of the withdrawals; the others stand.
BuildFails ==
    /\ at = "market"
    /\ faults < MaxFaults
    /\ faults' = faults + 1
    /\ \E p \in Opportunities(Pools) :
           NextMarket(built \o SetToSeq({Sized(q) : q \in Opportunities(Pools) \ {p}}))
    /\ UNCHANGED <<chain, events, phase, strayed, changes>>

-----------------------------------------------------------------------------
(* External: the executor and the market's withdraw. *)

Tokens(w, pool, held) ==
    IF w.amount = Everything THEN j_tokens_to_tokens_floor(pool, held) ELSE w.amount

Shares(w, pool, held) ==
    IF w.amount = Everything THEN held ELSE tokens_to_j_tokens_ceil(pool, w.amount)

\* The market pays out what the pool has and the position covers.
Pays(w, pool, held) ==
    /\ Tokens(w, pool, held) > 0
    /\ Tokens(w, pool, held) <= pool.supply - pool.borrowed
    /\ Shares(w, pool, held) <= held

Left(w, pool, held) ==
    [pool EXCEPT !.supply = @ - Tokens(w, pool, held), !.j = @ - Shares(w, pool, held)]

\* Utilisation as the market recomputes it; past the limit it takes a scarcity fee.
UtilizationCeil(pool) ==
    IF pool.supply = 0 THEN 0 ELSE CeilDiv(pool.borrowed * BPS_FACTOR, pool.supply)

\* The oldest withdrawal lands. When the reply is lost it stays to be sent again.
Lands(replyLost) ==
    LET w == Head(actions)
        p == w.pool
    IN  /\ actions # <<>>
        /\ Pays(w, pools[p], shares[p])
        /\ replyLost => faults < MaxFaults
        /\ faults' = IF replyLost THEN faults + 1 ELSE faults
        /\ pools' = [pools EXCEPT ![p] = Left(w, pools[p], shares[p])]
        /\ shares' = [shares EXCEPT ![p] = @ - Shares(w, pools[p], shares[p])]
        /\ strayed' = IF UtilizationCeil(pools'[p]) > pools[p].limit - SafetyMargin
                      THEN strayed \cup {w.stale} ELSE strayed
        /\ deposits' = [deposits EXCEPT ![p].stale = at # "idle"]
        /\ built' = OutOfDate(built, p)
        /\ actions' = OutOfDate(IF replyLost THEN actions ELSE Tail(actions), p)
        /\ Emit(MarketOf[p], "other")
        /\ UNCHANGED <<price, phase, at, todo, changes>>

\* The market refuses it, or the executor gives it up.
Rejected ==
    /\ actions # <<>>
    /\ \/ ~Pays(Head(actions), pools[Head(actions).pool], shares[Head(actions).pool]) /\ UNCHANGED faults
       \/ faults < MaxFaults /\ faults' = faults + 1
    /\ actions' = Tail(actions)
    /\ UNCHANGED <<chain, events, phase, handler, strayed, changes>>

-----------------------------------------------------------------------------

Others ==
    \/ \E p \in Pools, amount \in Steps :
           \/ Deposit(p, amount) \/ Repay(p, amount) \/ Borrow(p, amount)
           \/ OthersWithdraw(p, amount) \/ LiquidationCredits(p, amount)
    \/ \E p \in Pools, x \in Prices : SetPrice(p, x)

Reading ==
    \/ ReadObligation \/ NoObligation \/ ReadFails \/ ReadMarketData \/ BuildFails
    \/ \E p \in Pools : PoolMissing(p)

Executing == Lands(TRUE) \/ Lands(FALSE) \/ Rejected

Next ==
    \/ Others
    \/ \E q \in 0..(Interval - 1) : NewLedger(q)
    \/ SorobanEvent
    \/ Reading
    \/ Executing

\* The strategy's task and the executor keep running. The collector skips ledgers
\* while the node answers slowly; it is assumed to report a multiple of the
\* interval again and again.
Spec ==
    /\ Init
    /\ [][Next]_vars
    /\ WF_vars(Reading)
    /\ WF_vars(Executing)
    /\ SF_vars(NewLedger(0))

-----------------------------------------------------------------------------
(* Properties. *)

\* Everything under way: collected by the call, or sent.
UnderWay == Range(built) \cup Range(actions)

\* The market would pay every withdrawal on the reading it was sized on, when the
\* obligation and the pools were read in one state: the pool has the tokens, and
\* the shares burned, rounded up, are covered by the position, whose value was
\* rounded down (pool.rs; withdrawer.rs find_withdrawal_opportunities).
PaidOnReading == \A w \in UnderWay : ~w.stale => Pays(w, w.on, w.held)

\* No withdrawal is smaller than the reading allows: one more token leaves the safe
\* band, unless the whole position is withdrawn (pool.rs compute_max_safe_withdrawal).
NoLargerFits ==
    \A w \in UnderWay : w.amount # Everything =>
        w.on.borrowed * BPS_FACTOR > (w.on.limit - SafetyMargin) * (w.on.supply - w.amount - 1)

\* "if such a withdrawal doesn't yield a scarcity fee" (withdrawer.rs:2): a landing
\* that leaves utilisation, as the market rounds it up, above the limit less the
\* margin was sized on what the chain had overtaken. Nothing remembers what was
\* sent, so a second reading before the first withdrawal lands, a lost reply, a
\* borrow, or shares credited between the two reads are all such cases.
SafeUnlessStale == FALSE \notin strayed

\* Some deposit that could be withdrawn has no price; its market sends nothing.
Unpriced(m) ==
    \E p \in Pools : /\ MarketOf[p] = m /\ shares[p] > 0 /\ price[p] <= 0
                     /\ compute_max_safe_withdrawal(pools[p], SafetyMargin) > 0
                     /\ j_tokens_to_tokens_floor(pools[p], shares[p]) > 0

\* A withdrawal of p is worth sending.
Worthwhile(p) ==
    LET amount == Min({j_tokens_to_tokens_floor(pools[p], shares[p]),
                       compute_max_safe_withdrawal(pools[p], SafetyMargin)})
    IN  amount > 0 /\ value_cents(p, amount) >= MinCents

\* A deposit that is worth withdrawing does not stay for ever, whatever events are
\* missed, reads fail or withdrawals are lost, as long as no other deposit of the
\* market is without a price (handle_new_ledger, the withdrawer's safety measure).
WorthwhileIsWithdrawn ==
    \A p \in Pools : Worthwhile(p) ~> (~Worthwhile(p) \/ Unpriced(MarketOf[p]))
=============================================================================
