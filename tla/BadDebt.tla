------------------------------ MODULE BadDebt ------------------------------
(***************************************************************************)
(* The bad-debt request initiator (keeper/src/strategy/                     *)
(* bad_debt_request_initiator.rs): on a liquidation event it judges the     *)
(* obligation the event carries; on every refresh ledger it sweeps the rows *)
(* the liquidator stores, re-reads the ones that look eligible and asks the *)
(* market to cover them. It does not remember what it has asked for.        *)
(*                                                                          *)
(* External: the obligations on the chain, the market's prices, the rows as *)
(* the liquidator's handler writes them (EventCache), the executor and the  *)
(* market's issue_cover_bad_debt. One configured market.                    *)
(***************************************************************************)
EXTENDS Eligibility, Sequences, SequencesExt

CONSTANTS
    Keys,              \* obligation keys
    Gone,              \* an obligation that does not exist, or has no row
    Shapes,            \* what an obligation may hold: records of deposits and borrows, named
    InitialShapes,     \* names of what it may hold at the start
    LaterShapes,       \* names of what it may turn into (bound)
    MarketStates,      \* what the market may look like, named
    MinProfitCents,    \* config: min_profit_margin_cents
    Interval,          \* config: refresh_interval_blocks
    MaxChanges,        \* how often the chain changes otherwise (bound)
    MaxFaults,         \* failed reads, builds and submissions (bound)
    EventCapacity,     \* capacity of the strategy's event channel
    RequestCapacity    \* capacity of the action channel

\* No one holds more shares of a pool than it has issued. With two oracle decimals or
\* more the dust floor needs no rounding; with fewer, no market lends up to the whole
\* value of a deposit.
ASSUME BadDebtAssumption ==
    /\ BPS_FACTOR = 10000
    /\ SECONDS_IN_YEAR \in Nat \ {0}
    /\ \A s \in DOMAIN Shapes : IsHolding(Shapes[s])
    /\ \A m \in DOMAIN MarketStates :
          LET md == MarketStates[m]
          IN  /\ IsMarketData(md)
              /\ \/ (md.min_cents * md.oracle_pow) % 100 = 0
                 \/ \A pool \in DOMAIN md.pools : md.pools[pool].close_ltv_bps < BPS_FACTOR
              /\ \A s \in DOMAIN Shapes : \A d \in Shapes[s].deposits :
                    d.pool \in DOMAIN md.pools => d.j <= md.pools[d.pool].j
    /\ InitialShapes \cup LaterShapes \subseteq DOMAIN Shapes
    /\ Gone \notin Keys \cup DOMAIN Shapes \cup DOMAIN MarketStates
    /\ Interval \in Nat \ {0}
    /\ MaxChanges \in Nat /\ MaxFaults \in Nat
    /\ EventCapacity \in Nat \ {0} /\ RequestCapacity \in Nat \ {0}

VARIABLES
    rules,     \* config: dust_rules, of the market and of the keeper
    eligible,  \* the readings is_eligible accepts under `rules`, tabulated once
    solvent,   \* the readings the market finds solvent under `rules`, tabulated once
    book,      \* chain: the obligations
    market,    \* chain: the market's pools and prices
    rows,      \* the stored obligations
    lag,       \* keys whose last change is on its way to the liquidator's handler
    events,    \* liquidation events waiting for the strategy: [key, on]
    at,        \* where the handler stands
    todo,      \* rows the sweep has loaded and not yet judged: [key, on]
    snapshot,  \* the market data the sweep has read, Gone outside a sweep
    subject,   \* the obligation the handler is at: [key, on]
    built,     \* requests collected by the sweep
    requests,  \* requests sent and not yet executed, oldest first: [key, on, md]
    changes,   \* changes of the chain so far
    faults     \* faults so far

config == <<rules, eligible, solvent>>
chain == <<book, market>>
handler == <<at, todo, snapshot, subject, built>>
vars == <<config, chain, rows, lag, events, handler, requests, changes, faults>>

\* An obligation: what it holds, by name, and its open requests.
Obligation == [shape : DOMAIN Shapes, open : {0, 1}]
MarketName == DOMAIN MarketStates

Held(o) == Shapes[o.shape]
Contents(o) == [deposits |-> Held(o).deposits, borrows |-> Held(o).borrows, open |-> o.open]

Readings == {<<o, md>> : o \in Obligation, md \in MarketName}

\* judge_eligibility depends on nothing but the readings and the configuration.
EligibleUnder(r) ==
    {x \in Readings : is_eligible(Contents(x[1]), MarketStates[x[2]], r, MinProfitCents)}

\* External: a no-dust market's #603.
SolventUnder(r) ==
    {x \in Readings : /\ r = "no_dust"
                      /\ unpriced_pools_touched(Contents(x[1]), MarketStates[x[2]]) = {}
                      /\ seizable_collateral_covers_debt(Contents(x[1]), MarketStates[x[2]])}

MaybeGone == Obligation \cup {Gone}

Reading == [key : Keys, on : MaybeGone]
NoSubject == [key |-> Gone, on |-> Gone]

\* A request carries, as history, the readings it was judged by.
Request == [key : Keys, on : Obligation, md : MarketName]

TypeOK ==
    /\ rules \in {"sweep", "no_dust"}
    /\ eligible \subseteq Readings /\ solvent \subseteq Readings
    /\ book \in [Keys -> MaybeGone]
    /\ market \in MarketName
    /\ rows \in [Keys -> MaybeGone]
    /\ lag \subseteq Keys
    /\ events \in Seq(Reading) /\ Len(events) <= EventCapacity
    /\ at \in {"idle", "event", "market", "loop", "ask", "reply"}
    /\ todo \subseteq Reading
    /\ snapshot \in MarketName \cup {Gone} /\ (snapshot # Gone <=> at \in {"loop", "ask", "reply"})
    /\ subject \in Reading \cup {NoSubject} /\ (subject # NoSubject <=> at \in {"event", "ask", "reply"})
    /\ built \in Seq(Request)
    /\ requests \in Seq(Request) /\ Len(requests) <= RequestCapacity
    /\ changes \in 0..MaxChanges
    /\ faults \in 0..MaxFaults

Init ==
    /\ rules \in {"sweep", "no_dust"}
    /\ eligible = EligibleUnder(rules)
    /\ solvent = SolventUnder(rules)
    /\ book \in [Keys -> [shape : InitialShapes, open : {0}]]
    /\ market \in MarketName
    /\ rows = book
    /\ lag = {}
    /\ events = <<>>
    /\ at = "idle"
    /\ todo = {}
    /\ snapshot = Gone
    /\ subject = NoSubject
    /\ built = <<>>
    /\ requests = <<>>
    /\ changes = 0
    /\ faults = 0

Eligible(o, md) == <<o, md>> \in eligible

\* Mutant of Newest: the channel grows.
NewestAndOlder(s, n) == s

\* What a broadcast channel of n keeps: the newest entries.
Newest(s, n) == IF Len(s) <= n THEN s ELSE SubSeq(s, Len(s) - n + 1, Len(s))

-----------------------------------------------------------------------------
(* The chain, and the rows the liquidator writes. *)

Counted == changes < MaxChanges /\ changes' = changes + 1

\* k's obligation comes to hold s, or is gone.
Becomes(k, s) ==
    /\ book' = [book EXCEPT ![k] = IF s = Gone THEN Gone
                                   ELSE [shape |-> s, open |-> IF @ = Gone THEN 0 ELSE @.open]]
    /\ book' # book
    /\ lag' = lag \cup {k}

\* An operation of the borrower or of others.
Changed(k, s) ==
    /\ Counted
    /\ Becomes(k, s)
    /\ UNCHANGED <<config, market, rows, events, handler, requests, faults>>

\* A liquidation, by the keeper or anyone: its event carries what is left.
Liquidated(k, s) ==
    /\ Counted
    /\ book[k] # Gone
    /\ Becomes(k, s)
    /\ events' = Newest(Append(events, [key |-> k, on |-> book'[k]]), EventCapacity)
    /\ UNCHANGED <<config, market, rows, handler, requests, faults>>

MarketMoves(md) ==
    /\ Counted
    /\ md # market
    /\ market' = md
    /\ UNCHANGED <<config, book, rows, lag, events, handler, requests, faults>>

\* The open request of k is claimed: the insurance fund pays and the request closes.
Claimed(k) ==
    /\ Counted
    /\ book[k] # Gone
    /\ book[k].open > 0
    /\ book' = [book EXCEPT ![k].open = 0]
    /\ lag' = lag \cup {k}
    /\ UNCHANGED <<config, market, rows, events, handler, requests, faults>>

\* The liquidator's handler applies k's last event to its row.
RowCatchesUp(k) ==
    /\ k \in lag
    /\ rows' = [rows EXCEPT ![k] = book[k]]
    /\ lag' = lag \ {k}
    /\ UNCHANGED <<config, chain, events, handler, requests, changes, faults>>

\* It does not: the put or the delete fails, which is only logged, or the event was
\* dropped because the strategy lagged. The row stays until k's next event.
RowMisses(k) ==
    /\ k \in lag
    /\ lag' = lag \ {k}
    /\ UNCHANGED <<config, chain, rows, events, handler, requests, changes, faults>>

Follow(k) == RowCatchesUp(k) \/ RowMisses(k)

-----------------------------------------------------------------------------
(* The strategy. *)

Fault == faults < MaxFaults /\ faults' = faults + 1

\* handle_soroban_event: the obligation is the one in the event, if there is one.
LiquidationEvent ==
    /\ at = "idle"
    /\ events # <<>>
    /\ events' = Tail(events)
    /\ IF Head(events).on = Gone THEN UNCHANGED <<at, subject>>
       ELSE at' = "event" /\ subject' = Head(events)
    /\ UNCHANGED <<config, chain, rows, lag, todo, snapshot, built, requests, changes, faults>>

\* The event cannot be decoded or parsed.
EventUnreadable ==
    /\ at = "idle"
    /\ events # <<>>
    /\ Fault
    /\ events' = Tail(events)
    /\ UNCHANGED <<config, chain, rows, lag, handler, requests, changes>>

Send(rs) == requests' = Newest(requests \o rs, RequestCapacity)

\* read_market_data answers; the event's obligation is judged as it was emitted.
JudgeEvent ==
    /\ at = "event"
    /\ Send(IF Eligible(subject.on, market)
            THEN <<[key |-> subject.key, on |-> subject.on, md |-> market]>> ELSE <<>>)
    /\ at' = "idle"
    /\ subject' = NoSubject
    /\ UNCHANGED <<config, chain, rows, lag, events, todo, snapshot, built, changes, faults>>

\* The market cannot be read, or the operation not built: nothing comes of the event.
JudgeEventFails ==
    /\ at = "event"
    /\ Fault
    /\ at' = "idle"
    /\ subject' = NoSubject
    /\ UNCHANGED <<config, chain, rows, lag, events, todo, snapshot, built, requests, changes>>

\* handle_new_ledger: on a multiple of the interval the rows are loaded, which may
\* fail. The collector reports the newest ledger only, so numbers are skipped.
NewLedger(q) ==
    /\ at = "idle"
    /\ IF q = 0
       THEN \/ /\ at' = "market"
               /\ todo' = {[key |-> k, on |-> rows[k]] : k \in {x \in Keys : rows[x] # Gone}}
               /\ UNCHANGED faults
            \/ Fault /\ UNCHANGED <<at, todo>>
       ELSE UNCHANGED <<at, todo, faults>>
    /\ UNCHANGED <<config, chain, rows, lag, events, snapshot, subject, built, requests, changes>>

SweepReadsMarket ==
    /\ at = "market"
    /\ at' = "loop"
    /\ snapshot' = market
    /\ UNCHANGED <<config, chain, rows, lag, events, todo, subject, built, requests, changes, faults>>

SweepMarketFails ==
    /\ at = "market"
    /\ Fault
    /\ at' = "idle"
    /\ todo' = {}
    /\ UNCHANGED <<config, chain, rows, lag, events, snapshot, subject, built, requests, changes>>

\* A cached row that does not look eligible is left; one that does is re-read.
JudgeRow(x) ==
    /\ at = "loop"
    /\ todo' = todo \ {x}
    /\ IF Eligible(x.on, snapshot) THEN at' = "ask" /\ subject' = x ELSE UNCHANGED <<at, subject>>
    /\ UNCHANGED <<config, chain, rows, lag, events, snapshot, built, requests, changes, faults>>

\* read_user_obligation: the node reads the obligation; the reply is on its way.
Reread ==
    /\ at = "ask"
    /\ at' = "reply"
    /\ subject' = [subject EXCEPT !.on = book[subject.key]]
    /\ UNCHANGED <<config, chain, rows, lag, events, todo, snapshot, built, requests, changes, faults>>

RereadFails ==
    /\ at = "ask"
    /\ Fault
    /\ at' = "loop"
    /\ subject' = NoSubject
    /\ UNCHANGED <<config, chain, rows, lag, events, todo, snapshot, built, requests, changes>>

\* The obligation is gone: its row is dropped, unless the delete fails. By now the
\* obligation may exist again and the row be that of the new one.
DropRow ==
    LET k == subject.key
    IN  /\ at = "reply"
        /\ subject.on = Gone
        /\ \/ rows' = [rows EXCEPT ![k] = Gone] /\ UNCHANGED faults
           \/ Fault /\ UNCHANGED rows
        /\ at' = "loop"
        /\ subject' = NoSubject
        /\ UNCHANGED <<config, chain, lag, events, todo, snapshot, built, requests, changes>>

\* The fresh reading is judged by the market data the sweep began with.
JudgeFresh ==
    /\ at = "reply"
    /\ subject.on # Gone
    /\ \/ /\ built' = IF Eligible(subject.on, snapshot)
                      THEN Append(built, [key |-> subject.key, on |-> subject.on, md |-> snapshot])
                      ELSE built
          /\ UNCHANGED faults
       \/ Eligible(subject.on, snapshot) /\ Fault /\ UNCHANGED built
    /\ at' = "loop"
    /\ subject' = NoSubject
    /\ UNCHANGED <<config, chain, rows, lag, events, todo, snapshot, requests, changes>>

\* Mutant of SweepEnds: what the sweep collected is not returned.
SweepEndsEmpty ==
    /\ at = "loop"
    /\ todo = {}
    /\ at' = "idle"
    /\ built' = <<>>
    /\ snapshot' = Gone
    /\ UNCHANGED <<config, chain, rows, lag, events, todo, subject, requests, changes, faults>>

SweepEnds ==
    /\ at = "loop"
    /\ todo = {}
    /\ at' = "idle"
    /\ Send(built)
    /\ built' = <<>>
    /\ snapshot' = Gone
    /\ UNCHANGED <<config, chain, rows, lag, events, todo, subject, changes, faults>>

-----------------------------------------------------------------------------
(* External: the executor and the market's issue_cover_bad_debt. *)

\* The market refuses to open a request for an obligation that is gone or has no
\* debt, has one open already (#602), or, without dust, is solvent (#603).
MarketCovers(k) ==
    /\ book[k] # Gone
    /\ Held(book[k]).borrows # {}
    /\ book[k].open = 0
    /\ <<book[k], market>> \notin solvent

\* The oldest request opens one on the chain. A lost reply has it sent again.
RequestOpens(replyLost) ==
    LET k == Head(requests).key
    IN  /\ requests # <<>>
        /\ MarketCovers(k)
        /\ IF replyLost THEN Fault /\ UNCHANGED requests
                        ELSE requests' = Tail(requests) /\ UNCHANGED faults
        /\ book' = [book EXCEPT ![k].open = 1]
        /\ lag' = lag \cup {k}
        /\ UNCHANGED <<config, market, rows, events, handler, changes>>

\* The market refuses it, or the executor gives it up.
RequestFails ==
    /\ requests # <<>>
    /\ (~MarketCovers(Head(requests).key) /\ UNCHANGED faults) \/ Fault
    /\ requests' = Tail(requests)
    /\ UNCHANGED <<config, chain, rows, lag, events, handler, changes>>

-----------------------------------------------------------------------------

World ==
    \/ \E k \in Keys, s \in LaterShapes \cup {Gone} : Changed(k, s) \/ Liquidated(k, s)
    \/ \E md \in MarketName : MarketMoves(md)
    \/ \E k \in Keys : Claimed(k)

OnEvent == LiquidationEvent \/ EventUnreadable \/ JudgeEvent \/ JudgeEventFails

OnSweep ==
    \/ SweepReadsMarket \/ SweepMarketFails
    \/ \E x \in todo : JudgeRow(x)
    \/ Reread \/ RereadFails \/ DropRow \/ JudgeFresh \/ SweepEnds

Executing == RequestOpens(TRUE) \/ RequestOpens(FALSE) \/ RequestFails

Next ==
    \/ World
    \/ \E k \in Keys : Follow(k)
    \/ \E q \in 0..(Interval - 1) : NewLedger(q)
    \/ OnEvent
    \/ OnSweep
    \/ Executing

\* The strategy, the liquidator's handler and the executor are tasks that keep
\* running; a change reaches its row or is missed. Nothing is assumed of the ledgers
\* that the collector reports.
Fairness ==
    /\ WF_vars(OnEvent)
    /\ WF_vars(OnSweep)
    /\ WF_vars(Executing)
    /\ \A k \in Keys : WF_vars(Follow(k))

Spec == Init /\ [][Next]_vars /\ Fairness

-----------------------------------------------------------------------------
(* Properties. *)

\* No deposit of an obligation the initiator asks to cover is worth, without any
\* rounding, a whole oracle unit more than the threshold rounded up: the roundings
\* of is_eligible_for_bad_debt_request_issuance do not add up to more. The shares of
\* a pool that has issued none are worth nothing.
CoverJustified ==
    \A r \in Range(built) \cup Range(requests) : \A d \in Held(r.on).deposits :
        LET md == MarketStates[r.md]
            pool == md.pools[d.pool]
            above == (cents_to_oracle_value_ceil(md.min_cents, md.oracle_pow) + 1) * pool.factor
        IN  IF pool.j = 0 THEN d.plain * pool.price < above
            ELSE (d.j * pool.supply + d.plain * pool.j) * pool.price < above * pool.j

\* "solvent, left to liquidation": an obligation of dust deposits that the
\* initiator leaves on a no-dust market, because it is solvent or because the
\* liquidator would still take it, passes the liquidator's own gate if it has any
\* collateral and owes anything. Two functions with different rates and roundings
\* have to agree (compute_is_liquidatable).
LeftToLiquidation ==
    \A k \in {x \in Keys : book[x] # Gone} :
        LET o == Contents(book[k])
            md == MarketStates[market]
        IN  /\ rules = "no_dust"
            /\ ~Eligible(book[k], market)
            /\ o.borrows # {} /\ o.open = 0 /\ o.deposits # {}
            /\ unpriced_pools_touched(o, md) = {}
            /\ has_any_collateral(o, md)
            /\ \E b \in o.borrows : d_tokens_to_tokens_ceil(md.pools[b.pool], b.d) > 0
            /\ all_deposits_dust(o, md)
            => compute_is_liquidatable(o, md, rules)

\* A key no sweep looks at again before its next event: nothing is on its way to
\* its row, which is not what the chain holds and does not look eligible. The write
\* of its last change was missed, or the sweep deleted, as gone, the row of an
\* obligation that had been created anew.
Overlooked(k) == k \notin lag /\ rows[k] # book[k] /\ ~Eligible(rows[k], market)

\* The collector hits a multiple of the interval again and again. It reports the newest
\* ledger only: it may pass over any single multiple, and nothing in the code rules out
\* that it passes over all of them.
SweptAgain == []<>(at = "market")

\* While sweeps go on, an obligation that is eligible does not stay so for ever
\* without a request, though its liquidation event is missed, the row is late or wrong,
\* reads fail and requests are lost, unless it is overlooked.
EligibleIsCovered ==
    SweptAgain =>
        \A k \in Keys : Eligible(book[k], market) ~> (~Eligible(book[k], market) \/ Overlooked(k))

\* The initiator stops asking: what the market refuses (#602, #603) it does not ask
\* for again on every refresh, although it remembers nothing of what it sent.
StopsAsking == <>[](requests = <<>>)
=============================================================================
