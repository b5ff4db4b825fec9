----------------------------- MODULE MarketScan -----------------------------
(***************************************************************************)
(* The liquidator's round: a new ledger makes it refresh the snapshot of     *)
(* every market, in one call or pool by pool, and then judge the obligations *)
(* of every market on what it holds, plan, simulate and replan once          *)
(* (keeper/src/strategy/liquidator.rs), driven by the ledger collector       *)
(* (keeper/src/collect/stellar_ledger.rs).                                   *)
(*                                                                           *)
(* Ledger numbers are kept as distances, counted up to the refresh interval, *)
(* and instants as ages, counted up to AgeCap. Which obligations are         *)
(* liquidatable, and which pairs have a plan, is left open.                  *)
(***************************************************************************)
EXTENDS Integers, Sequences, SequencesExt, FiniteSetsExt

CONSTANTS
    MarketList,       \* config: markets, in their order
    Pools,            \* all pools
    PoolsOf,          \* the pools of each market
    Obligations,      \* obligations that may be open
    Own,              \* the keeper's own among them
    MarketOf,         \* the market of each obligation
    Touches,          \* the pools each one borrows from or deposits in
    NoObligation,     \* no obligation
    RefreshInterval,  \* config: liquidator_refresh_interval_blocks
    MaxDataAge,       \* config: liquidator_max_market_data_age_secs
    EventCapacity,    \* capacity of the event channel
    RoundBudget       \* seconds the calls of one round may take (bound)

Markets == ToSet(MarketList)

ASSUME ScanAssumption ==
    /\ MarketList \in Seq(Markets) /\ MarketList # <<>> /\ IsInjective(MarketList)
    /\ PoolsOf \in [Markets -> (SUBSET Pools) \ {{}}]
    /\ Own \subseteq Obligations
    /\ MarketOf \in [Obligations -> Markets]
    /\ \A o \in Obligations : Touches[o] \subseteq PoolsOf[MarketOf[o]]
    /\ NoObligation \notin Obligations
    /\ RefreshInterval \in Nat \ {0}
    /\ MaxDataAge \in Nat \ {0}
    /\ EventCapacity \in Nat \ {0}
    /\ RoundBudget \in Nat

VARIABLES
    unreported,   \* ledgers closed since the collector reported one
    queue,        \* NewLedger events: how far each is past the one before it
    since,        \* ledgers since last_refresh_ledger
    mem,          \* Liquidator.obligations
    snapshot,     \* Liquidator.market_data
    round         \* the handler of NewLedger

vars == <<unreported, queue, since, mem, snapshot, round>>
ledgers == <<unreported, queue, since>>

AgeCap == MaxDataAge + 2 * RoundBudget + 1
Ages == 0..AgeCap
UpTo(n, cap) == IF n > cap THEN cap ELSE n

\* MarketSnapshot: the pools it prices and the age of its stamp. `oldest` is history:
\* the age of its oldest price.
Snapshots == [held : BOOLEAN, priced : SUBSET Pools, age : Ages, oldest : Ages]
NoSnapshot == [held |-> FALSE, priced |-> {}, age |-> 0, oldest |-> 0]

\* `syncing` is sync_state's pass at the start, which refreshes and judges nothing;
\* `todo` the markets left; `unread`, `read` and, as history, the age `lag` of the
\* first price belong to a read pool by pool; `left` and `job` to a market's scan;
\* `spent` is the time the round has taken.
Idle == [at |-> "recv", syncing |-> FALSE, todo |-> <<>>, unread |-> {}, read |-> {}, lag |-> 0,
         left |-> {}, job |-> NoObligation, retry |-> FALSE, spent |-> 0]
Places == {"recv", "refresh", "pools", "evaluate", "judge", "plan", "simulate"}

TypeOK ==
    /\ unreported \in 0..RefreshInterval
    /\ queue \in Seq(1..RefreshInterval) /\ Len(queue) <= EventCapacity
    /\ since \in 0..RefreshInterval
    /\ mem \subseteq Obligations
    /\ snapshot \in [Markets -> Snapshots]
    /\ round \in [at : Places, syncing : BOOLEAN, todo : Seq(Markets),
                  unread : SUBSET Pools, read : SUBSET Pools, lag : 0..RoundBudget,
                  left : SUBSET Obligations, job : Obligations \cup {NoObligation},
                  retry : BOOLEAN, spent : 0..RoundBudget]

\* The keeper starts with what SQLite holds, last_refresh_ledger = 0, and sync_state.
Init ==
    /\ unreported = 0
    /\ queue = <<>>
    /\ since = RefreshInterval
    /\ mem \in SUBSET Obligations
    /\ snapshot = [m \in Markets |-> NoSnapshot]
    /\ round = [Idle EXCEPT !.at = "refresh", !.syncing = TRUE, !.todo = MarketList]

-----------------------------------------------------------------------------
(* Ledgers. *)

\* External: the network closes a ledger.
CloseLedger ==
    /\ unreported' = UpTo(unreported + 1, RefreshInterval)
    /\ UNCHANGED <<queue, since, mem, snapshot, round>>

\* Mutant of ReportLedger: the channel keeps one event more than it has room for.
ReportLedgerOneMore ==
    /\ unreported > 0
    /\ unreported' = 0
    /\ LET sent == Append(queue, unreported)
       IN  queue' = IF Len(sent) <= EventCapacity + 1 THEN sent
                    ELSE [Tail(sent) EXCEPT ![1] = UpTo(@ + Head(sent), RefreshInterval)]
    /\ UNCHANGED <<since, mem, snapshot, round>>

\* The collector's poll answers with a newer ledger than the last one it sent; the
\* ledgers in between are not reported. A full channel overwrites its oldest event.
ReportLedger ==
    /\ unreported > 0
    /\ unreported' = 0
    /\ LET sent == Append(queue, unreported)
       IN  queue' = IF Len(sent) <= EventCapacity THEN sent
                    ELSE [Tail(sent) EXCEPT ![1] = UpTo(@ + Head(sent), RefreshInterval)]
    /\ UNCHANGED <<since, mem, snapshot, round>>

\* handle_new_ledger: too soon after the last refresh.
IgnoreLedger ==
    /\ round.at = "recv"
    /\ queue # <<>>
    /\ since + Head(queue) < RefreshInterval
    /\ since' = since + Head(queue)
    /\ queue' = Tail(queue)
    /\ UNCHANGED <<unreported, mem, snapshot, round>>

\* The ledger counts as refreshed before anything is read.
StartRound ==
    /\ round.at = "recv"
    /\ queue # <<>>
    /\ since + Head(queue) >= RefreshInterval
    /\ since' = 0
    /\ queue' = Tail(queue)
    /\ round' = [Idle EXCEPT !.at = "refresh", !.todo = MarketList]
    /\ UNCHANGED <<unreported, mem, snapshot>>

\* Between rounds the same task handles events, which open and close obligations.
EventChanges(o) ==
    /\ round.at = "recv"
    /\ mem' = IF o \in mem THEN mem \ {o} ELSE mem \cup {o}
    /\ UNCHANGED <<ledgers, snapshot, round>>

-----------------------------------------------------------------------------
(* refresh_market_data and read_market_data. *)

Market == Head(round.todo)

\* On to the next market's refresh.
NextRefresh ==
    [round EXCEPT !.at = "refresh", !.todo = Tail(@), !.unread = {}, !.read = {}, !.lag = 0]

\* get_market_data answers: every pool is priced.
ReadAll ==
    /\ round.at = "refresh"
    /\ round.todo # <<>>
    /\ snapshot' = [snapshot EXCEPT ![Market] =
           [held |-> TRUE, priced |-> PoolsOf[Market], age |-> 0, oldest |-> 0]]
    /\ round' = NextRefresh
    /\ UNCHANGED <<ledgers, mem>>

\* Mutant of ReadFails: the kept snapshot is stamped anew.
ReadFailsStamped ==
    /\ round.at = "refresh"
    /\ round.todo # <<>>
    /\ snapshot' = [snapshot EXCEPT ![Market].age = 0]
    /\ round' = NextRefresh
    /\ UNCHANGED <<ledgers, mem>>

\* The call and one of the three behind the pool-by-pool reading fail, or an answer
\* does not parse: the previous snapshot stays, with its stamp.
ReadFails ==
    /\ round.at = "refresh"
    /\ round.todo # <<>>
    /\ round' = NextRefresh
    /\ UNCHANGED <<ledgers, mem, snapshot>>

\* get_market_data fails: read_market_data_per_pool.
ReadPerPool ==
    /\ round.at = "refresh"
    /\ round.todo # <<>>
    /\ round' = [round EXCEPT !.at = "pools", !.unread = PoolsOf[Market]]
    /\ UNCHANGED <<ledgers, mem, snapshot>>

ReadPool(p, ok) ==
    /\ round.at = "pools"
    /\ p \in round.unread
    /\ round' = [round EXCEPT !.unread = @ \ {p}, !.read = IF ok THEN @ \cup {p} ELSE @]
    /\ UNCHANGED <<ledgers, mem, snapshot>>

\* install_snapshot: one that prices nothing is refused.
InstallSnapshot ==
    /\ round.at = "pools"
    /\ round.unread = {}
    /\ snapshot' = IF round.read = {} THEN snapshot
                   ELSE [snapshot EXCEPT ![Market] =
                           [held |-> TRUE, priced |-> round.read, age |-> 0, oldest |-> round.lag]]
    /\ round' = NextRefresh
    /\ UNCHANGED <<ledgers, mem>>

\* All markets are refreshed: sync_state is done, a round goes on to evaluate them.
Refreshed ==
    /\ round.at = "refresh"
    /\ round.todo = <<>>
    /\ round' = IF round.syncing THEN Idle ELSE [round EXCEPT !.at = "evaluate", !.todo = MarketList]
    /\ UNCHANGED <<ledgers, mem, snapshot>>

-----------------------------------------------------------------------------
(* evaulate_market and try_liquidate. *)

\* record_scan, and on to the next market.
NextScan ==
    [round EXCEPT !.at = "evaluate", !.todo = Tail(@), !.left = {}, !.job = NoObligation, !.retry = FALSE]

InMarket(m) == {o \in mem : MarketOf[o] = m}

\* Mutant of TooOld: the limit itself is too old.
TooOldAtLimit(s) == s.age >= MaxDataAge

\* The age guard, looked at once per market and round.
TooOld(s) == s.age > MaxDataAge

EvaluateMarket ==
    /\ round.at = "evaluate"
    /\ round.todo # <<>>
    /\ round' = IF ~snapshot[Market].held \/ TooOld(snapshot[Market]) \/ InMarket(Market) = {}
                THEN NextScan
                ELSE [round EXCEPT !.at = "judge", !.left = InMarket(Market)]
    /\ UNCHANGED <<ledgers, mem, snapshot>>

NextObligation ==
    [round EXCEPT !.at = "judge", !.left = @ \ {round.job}, !.job = NoObligation, !.retry = FALSE]

Judgeable(o) == o \notin Own /\ Touches[o] \subseteq snapshot[Market].priced

\* The keeper's own obligation, or one that touches a pool without a price.
SkipObligation(o) ==
    /\ round.at = "judge"
    /\ o \in round.left
    /\ ~Judgeable(o)
    /\ round' = [round EXCEPT !.left = @ \ {o}]
    /\ UNCHANGED <<ledgers, mem, snapshot>>

\* The obligation is judged.
Judge(o) ==
    /\ round.at = "judge"
    /\ o \in round.left
    /\ Judgeable(o)
    /\ round' = [round EXCEPT !.at = "plan", !.job = o]
    /\ UNCHANGED <<ledgers, mem, snapshot>>

\* It is healthy, a check failed on it, no pair has a plan, or the replan found none.
NothingToDo ==
    /\ round.at = "plan"
    /\ round' = NextObligation
    /\ UNCHANGED <<ledgers, mem, snapshot>>

\* The best of the plans of its pairs goes to simulation.
PlanFound ==
    /\ round.at = "plan"
    /\ round' = [round EXCEPT !.at = "simulate"]
    /\ UNCHANGED <<ledgers, mem, snapshot>>

\* The simulation passes or fails for good; what follows a pass is dispatch.
Simulated ==
    /\ round.at = "simulate"
    /\ round' = NextObligation
    /\ UNCHANGED <<ledgers, mem, snapshot>>

\* Mutant of LeavesDust: as often as it is refused.
LeavesDustAgain ==
    /\ round.at = "simulate"
    /\ round' = [round EXCEPT !.at = "plan", !.retry = TRUE]
    /\ UNCHANGED <<ledgers, mem, snapshot>>

\* Refused as dust on a no-dust market: the pair is planned once more with a wider
\* margin.
LeavesDust ==
    /\ round.at = "simulate"
    /\ ~round.retry
    /\ round' = [round EXCEPT !.at = "plan", !.retry = TRUE]
    /\ UNCHANGED <<ledgers, mem, snapshot>>

ScanDone ==
    /\ round.at = "judge"
    /\ round.left = {}
    /\ round' = NextScan
    /\ UNCHANGED <<ledgers, mem, snapshot>>

RoundDone ==
    /\ round.at = "evaluate"
    /\ round.todo = <<>>
    /\ round' = Idle
    /\ UNCHANGED <<ledgers, mem, snapshot>>

\* A second passes where the task awaits: an event, or the answer to a call. The
\* calls of a round take RoundBudget at most.
Tick ==
    /\ round.at \in {"recv", "refresh", "pools", "plan", "simulate"}
    /\ round.at # "recv" => round.spent < RoundBudget
    /\ round' = IF round.at = "recv" THEN round
                ELSE [round EXCEPT !.spent = @ + 1, !.lag = IF round.read = {} THEN 0 ELSE @ + 1]
    /\ snapshot' = [m \in Markets |-> IF snapshot[m].held
                                      THEN [snapshot[m] EXCEPT !.age = UpTo(@ + 1, AgeCap), !.oldest = UpTo(@ + 1, AgeCap)]
                                      ELSE snapshot[m]]
    /\ UNCHANGED <<ledgers, mem>>

Handle ==
    \/ IgnoreLedger \/ StartRound
    \/ ReadAll \/ ReadFails \/ ReadPerPool \/ InstallSnapshot \/ Refreshed
    \/ \E p \in Pools, ok \in BOOLEAN : ReadPool(p, ok)
    \/ EvaluateMarket
    \/ \E o \in Obligations : SkipObligation(o) \/ Judge(o)
    \/ NothingToDo \/ PlanFound \/ Simulated \/ LeavesDust
    \/ ScanDone \/ RoundDone

Next ==
    \/ CloseLedger \/ ReportLedger \/ Handle \/ Tick
    \/ \E o \in Obligations : EventChanges(o)

Spec == Init /\ [][Next]_vars

\* Ledgers go on closing, the collector goes on polling, and the handler, whose
\* calls all return, goes on. No call is assumed to succeed.
Fairness == WF_vars(CloseLedger) /\ WF_vars(ReportLedger) /\ WF_vars(Handle)

FairSpec == Spec /\ Fairness

-----------------------------------------------------------------------------
(* Properties. *)

\* MarketSnapshot.refreshed_at "attests held prices, not merely a reachable RPC":
\* through any number of failed, empty and partial refreshes, a market is scanned
\* only on prices that were read at most the age limit and two rounds before.
ScansOnHeldPrices ==
    round.at \in {"judge", "plan", "simulate"} =>
        LET s == snapshot[Market]
        IN  s.priced # {} /\ s.oldest <= MaxDataAge + 2 * RoundBudget

\* A fresh view of a whole market was installed in this round.
Refreshes(m) ==
    /\ round.at = "refresh" /\ ~round.syncing
    /\ snapshot[m] = [held |-> TRUE, priced |-> PoolsOf[m], age |-> 0, oldest |-> 0]

\* Every round ends, and the task gets back to its events: a plan refused as dust is
\* not planned for ever.
RoundsEnd == round.at # "recv" ~> round.at = "recv"

\* While a market's refresh works again and again, each of its obligations that
\* stays open is judged again and again, if the calls of a round take no longer than
\* the age limit: no pacing, and no failure on another market or another obligation,
\* keeps the scan from it.
JudgedAgain ==
    RoundBudget <= MaxDataAge => \A o \in Obligations \ Own :
        []<>Refreshes(MarketOf[o]) => []<>(o \notin mem \/ round.job = o)
=============================================================================
