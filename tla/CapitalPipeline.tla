-------------------------- MODULE CapitalPipeline --------------------------
(***************************************************************************)
(* The path of wallet capital through the keeper: the shared reservation    *)
(* ledger (keeper/src/liquidator_capital.rs), the two strategies that spend *)
(* wallet balances (liquidator, balancer), the reactor's bounded action     *)
(* channel, the executor with its retry loop and detached confirmation      *)
(* polls, and the account on the chain that all of them share.              *)
(*                                                                          *)
(* Time is kept as ages: a reservation or a cached balance carries the      *)
(* seconds elapsed since it was made, counted up to its time to live, which *)
(* is all that `elapsed() < ttl` tells apart.                               *)
(***************************************************************************)
EXTENDS Integers, Sequences, FiniteSets, FiniteSetsExt

CONSTANTS
    Ops,              \* the operations the strategies may ever build
    NoOp,             \* no operation
    Tokens,           \* the token contracts
    Xlm,              \* the one whose balance keeps a safety margin
    XlmSafetyMargin,  \* config: xlm_safety_margin
    MaxAmount,        \* largest amount a liquidation plan asks for (bound)
    InitialWallet,    \* the keeper's balance of each token
    MaxRetries,       \* config: max_retries
    MaxProbes,        \* config: max_swap_provider_probes
    ActionCapacity,   \* capacity of the action broadcast channel
    ReservationTtl,   \* config: keeper_capital_reservation_ttl_secs
    BalanceTtl,       \* config: keeper_capital_balance_ttl_secs
    MaxRestarts       \* how often the process is restarted (bound)

ASSUME ConstantsAssumption ==
    /\ NoOp \notin Ops
    /\ Tokens # {}
    /\ XlmSafetyMargin \in Nat
    /\ MaxAmount \in Nat
    /\ InitialWallet \in [Tokens -> Nat]
    /\ MaxRetries \in Nat \ {0}
    /\ MaxProbes \in Nat
    /\ ActionCapacity \in Nat \ {0}
    /\ ReservationTtl \in Nat \ {0}
    /\ BalanceTtl \in Nat \ {0}
    /\ MaxRestarts \in Nat

VARIABLES
    reservations,  \* CapitalInner.reservations
    balances,      \* CapitalInner.balances
    pc,            \* where each strategy's event handler stands
    job,           \* the operation each handler is working on
    plan,          \* what each operation spends, and the figure it was judged by
    outbox,        \* actions a handler has collected and not yet sent
    channel,       \* the action broadcast channel, as the executor sees it
    executor,      \* the executor's loop: operation, attempt, sequence number
    polls,         \* detached confirmation polls, one per accepted submission
    stage,         \* how far each operation has come
    wallet,        \* chain: the keeper's balances
    account_seq,   \* chain: the keeper account's sequence number
    mempool,       \* chain: accepted transactions not yet applied
    ledger,        \* chain: applied transactions
    restarts,      \* number of restarts so far
    lostReplies,   \* history: operations some submission reply of which was lost
    blindSpots     \* history: per token, how the gate was got round

capital == <<reservations, balances>>
handlers == <<pc, job, plan, outbox>>
chain == <<wallet, account_seq, mempool, ledger>>
history == <<lostReplies, blindSpots>>
vars == <<capital, handlers, channel, executor, polls, stage, chain, restarts, history>>

Strategies == {"liquidator", "balancer"}

Reservation == [id : Ops, token : Tokens, amount : Nat, age : 0..ReservationTtl]
CachedBalance == [token : Tokens, amount : Int, age : 0..BalanceTtl, as_of : Nat]
Plan == [token : Tokens, amount : Nat, available : Int, as_of : Nat]
Tx == [op : Ops, seq : Nat]
Applied == [op : Ops, seq : Nat, ok : BOOLEAN]

\* An operation travels from the handler that builds it to a terminal stage:
\* "refused" never got an action, "settled" ran its settle hook, "dropped" was
\* overwritten in the channel, "abandoned" was in memory when the process died.
Pending == {"outbox", "queued", "executing", "polling"}
Terminal == {"refused", "settled", "dropped", "abandoned"}
Stages == {"unused", "planning"} \cup Pending \cup Terminal

BlindSpots == {"expired", "stale", "late", "duplicate"}

NoPlan == [token |-> CHOOSE t \in Tokens : TRUE, amount |-> 0, available |-> 0, as_of |-> 0]
Waiting == [at |-> "recv", op |-> NoOp, attempt |-> 0, seq |-> 0]

TypeOK ==
    /\ reservations \subseteq Reservation
    /\ balances \subseteq CachedBalance
    /\ pc \in [Strategies -> {"idle", "balance", "reply", "probe", "sending"}]
    /\ job \in [Strategies -> Ops \cup {NoOp}]
    /\ plan \in [Ops -> Plan]
    /\ outbox \in [Strategies -> Seq(Ops)]
    /\ channel \in Seq(Ops)
    /\ executor \in [at : {"recv", "seq", "send"}, op : Ops \cup {NoOp},
                     attempt : 0..MaxRetries, seq : Nat]
    /\ polls \subseteq Tx
    /\ stage \in [Ops -> Stages]
    /\ wallet \in [Tokens -> Nat]
    /\ account_seq \in Nat
    /\ mempool \subseteq Tx
    /\ ledger \subseteq Applied
    /\ restarts \in 0..MaxRestarts
    /\ lostReplies \subseteq Ops
    /\ blindSpots \in [Tokens -> SUBSET BlindSpots]

Init ==
    /\ reservations = {}
    /\ balances = {}
    /\ pc = [s \in Strategies |-> "idle"]
    /\ job = [s \in Strategies |-> NoOp]
    /\ plan = [o \in Ops |-> NoPlan]
    /\ outbox = [s \in Strategies |-> <<>>]
    /\ channel = <<>>
    /\ executor = Waiting
    /\ polls = {}
    /\ stage = [o \in Ops |-> "unused"]
    /\ wallet = InitialWallet
    /\ account_seq = 0
    /\ mempool = {}
    /\ ledger = {}
    /\ restarts = 0
    /\ lostReplies = {}
    /\ blindSpots = [t \in Tokens |-> {}]

-----------------------------------------------------------------------------
(* The reservation ledger. *)

\* Mutant of Unexpired: entries are unlocked a second before their time.
UnexpiredEarly == {r \in reservations : r.age + 1 < ReservationTtl}

\* unlock_expired: what `retain` keeps.
Unexpired == {r \in reservations : r.age < ReservationTtl}

Committed(S, t) == SumFunctionOnSet([r \in S |-> r.amount], {r \in S : r.token = t})

\* Mutant of CanReserve: the amount alone is compared with the balance.
CanReserveAlone(amount, available, t) == amount > 0 /\ amount <= available

\* reserve's checks, made under the lock after the expired entries are gone.
CanReserve(amount, available, t) ==
    /\ amount > 0
    /\ Committed(Unexpired, t) + amount <= available

\* release: remove by id; releasing an unknown id changes nothing.
Released(o) == {r \in reservations : r.id # o}

\* get_freshly_cached_balance
FreshBalances(t) == {b \in balances : b.token = t /\ b.age < BalanceTtl}

\* What a strategy may spend of a raw balance.
Spendable(raw, t) == IF t = Xlm THEN raw - XlmSafetyMargin ELSE raw

\* History. A transaction of t that landed after the balance was read, while the
\* reservation that stood for it is gone: the figure counts money already spent.
ReadBeforeSpend(t, as_of) ==
    \E x \in ledger : /\ x.ok /\ x.seq > as_of
                      /\ plan[x.op].token = t /\ plan[x.op].amount > 0
                      /\ \A r \in Unexpired : r.id # x.op

\* History. Tokens with an expired reservation whose operation is still pending.
ExpiredInFlight == {r.token : r \in {q \in reservations \ Unexpired : stage[q.id] \in Pending}}

Blinded(T, cause) == [t \in Tokens |-> IF t \in T THEN blindSpots[t] \cup {cause} ELSE blindSpots[t]]

-----------------------------------------------------------------------------
(* Strategies. *)

\* The handler is done with its operation and no action came of it.
Refuse(s) ==
    /\ stage' = [stage EXCEPT ![job[s]] = "refused"]
    /\ pc' = [pc EXCEPT ![s] = "idle"]
    /\ job' = [job EXCEPT ![s] = NoOp]

\* The handler pushes the action that carries o's settle hook.
Push(s, o) ==
    /\ stage' = [stage EXCEPT ![o] = "outbox"]
    /\ outbox' = [outbox EXCEPT ![s] = Append(@, o)]
    /\ pc' = [pc EXCEPT ![s] = "idle"]
    /\ job' = [job EXCEPT ![s] = NoOp]

\* reserve, and the action built on its result.
ReserveAndPush(s, p) ==
    /\ CanReserve(p.amount, p.available, p.token)
    /\ reservations' = Unexpired \cup
           {[id |-> job[s], token |-> p.token, amount |-> p.amount, age |-> 0]}
    /\ plan' = [plan EXCEPT ![job[s]] = p]
    /\ Push(s, job[s])
    /\ blindSpots' = [t \in Tokens |-> blindSpots[t]
           \cup (IF t \in ExpiredInFlight THEN {"expired"} ELSE {})
           \cup (IF t = p.token /\ ReadBeforeSpend(t, p.as_of) THEN {"stale"} ELSE {})]

\* reserve refuses; the expired entries are unlocked all the same.
ReserveRefused(s, p) ==
    /\ ~CanReserve(p.amount, p.available, p.token)
    /\ reservations' = Unexpired
    /\ blindSpots' = Blinded(ExpiredInFlight, "expired")
    /\ Refuse(s)
    /\ UNCHANGED <<plan, outbox>>

\* The liquidator reserves, fails to build the batch operation and releases.
BuildFails(s, p) ==
    /\ s = "liquidator"
    /\ CanReserve(p.amount, p.available, p.token)
    /\ reservations' = Unexpired
    /\ blindSpots' = Blinded(ExpiredInFlight, "expired")
    /\ Refuse(s)
    /\ UNCHANGED <<plan, outbox>>

TryReserve(s, p) == ReserveAndPush(s, p) \/ ReserveRefused(s, p) \/ BuildFails(s, p)

\* Leave without touching the reservation ledger.
Drop(s) ==
    /\ Refuse(s)
    /\ UNCHANGED <<plan, outbox, reservations, blindSpots>>

\* While it plans, the liquidator asks for balances through try_get_balance; a
\* miss reads the wallet and fills the cache that reservations are judged by.
PlanningRead(t) ==
    /\ pc["liquidator"] = "idle"
    /\ FreshBalances(t) = {}
    /\ balances' = {b \in balances : b.token # t} \cup
           {[token |-> t, amount |-> wallet[t], age |-> 0, as_of |-> account_seq]}
    /\ UNCHANGED <<reservations, handlers, channel, executor, polls, stage, chain, restarts, history>>

\* The liquidator has a profitable plan that spends wallet capital (direct or
\* pre-swap) and simulates well; it asks for the balance of the token it spends.
PlanLiquidation(o, t, amount) ==
    /\ pc["liquidator"] = "idle"
    /\ stage[o] = "unused"
    /\ pc' = [pc EXCEPT !["liquidator"] = "balance"]
    /\ job' = [job EXCEPT !["liquidator"] = o]
    /\ plan' = [plan EXCEPT ![o].token = t, ![o].amount = amount]
    /\ stage' = [stage EXCEPT ![o] = "planning"]
    /\ UNCHANGED <<capital, outbox, channel, executor, polls, chain, restarts, history>>

\* A flash plan spends no wallet capital: the action carries a hook whose id was
\* never reserved.
PlanFlash(o) ==
    /\ pc["liquidator"] = "idle"
    /\ stage[o] = "unused"
    /\ Push("liquidator", o)
    /\ UNCHANGED <<capital, plan, channel, executor, polls, chain, restarts, history>>

\* The balancer takes up a candidate asset that is not to be held.
PlanRebalance(o, t) ==
    /\ pc["balancer"] = "idle"
    /\ stage[o] = "unused"
    /\ pc' = [pc EXCEPT !["balancer"] = "balance"]
    /\ job' = [job EXCEPT !["balancer"] = o]
    /\ plan' = [plan EXCEPT ![o].token = t]
    /\ stage' = [stage EXCEPT ![o] = "planning"]
    /\ UNCHANGED <<capital, outbox, channel, executor, polls, chain, restarts, history>>

\* What a handler does with the balance it asked for. The liquidator reserves at
\* once; the balancer goes on to probe the swap providers, holding on to the figure.
GotBalance(s, raw, as_of) ==
    LET o == job[s]
        available == Spendable(raw, plan[o].token)
        p == [plan[o] EXCEPT !.available = available, !.as_of = as_of]
    IN  \/ s = "liquidator" /\ TryReserve(s, p)
        \/ s = "balancer" /\ available <= 0 /\ Drop(s)
        \/ /\ s = "balancer" /\ available > 0
           /\ pc' = [pc EXCEPT ![s] = "probe"]
           /\ plan' = [plan EXCEPT ![o] = p]
           /\ UNCHANGED <<job, outbox, stage, reservations, blindSpots>>

\* try_get_balance answered from the cache.
BalanceFromCache(s) ==
    /\ pc[s] = "balance"
    /\ \E b \in FreshBalances(plan[job[s]].token) : GotBalance(s, b.amount, b.as_of)
    /\ UNCHANGED <<balances, channel, executor, polls, chain, restarts, lostReplies>>

\* try_get_balance: the RPC node reads the balance; the reply is on its way.
BalanceRead(s) ==
    /\ pc[s] = "balance"
    /\ FreshBalances(plan[job[s]].token) = {}
    /\ pc' = [pc EXCEPT ![s] = "reply"]
    /\ plan' = [plan EXCEPT ![job[s]].available = wallet[plan[job[s]].token],
                            ![job[s]].as_of = account_seq]
    /\ UNCHANGED <<capital, job, outbox, channel, executor, polls, stage, chain, restarts, history>>

\* The reply arrives: the balance is cached as of now, then used.
BalanceReply(s) ==
    /\ pc[s] = "reply"
    /\ LET p == plan[job[s]]
       IN  /\ balances' = {b \in balances : b.token # p.token} \cup
                  {[token |-> p.token, amount |-> p.available, age |-> 0, as_of |-> p.as_of]}
           /\ GotBalance(s, p.available, p.as_of)
    /\ UNCHANGED <<channel, executor, polls, chain, restarts, lostReplies>>

BalanceReadFails(s) ==
    /\ pc[s] = "balance"
    /\ FreshBalances(plan[job[s]].token) = {}
    /\ Drop(s)
    /\ UNCHANGED <<balances, channel, executor, polls, chain, restarts, lostReplies>>

\* The amounts probe_provider tries: the balance, halved up to MaxProbes times.
Probed(available) ==
    {a \in 1..available : \E k \in 0..(MaxProbes - 1) : a = available \div 2^k}

\* Some provider took one of the probed amounts; the balancer reserves it against
\* the balance it read before probing.
ProbeAdmitted ==
    /\ pc["balancer"] = "probe"
    /\ LET p == plan[job["balancer"]]
       IN  \E amount \in Probed(p.available) : TryReserve("balancer", [p EXCEPT !.amount = amount])
    /\ UNCHANGED <<balances, channel, executor, polls, chain, restarts, lostReplies>>

\* No viable provider, a value under the dust threshold, or an operation that
\* cannot be built: nothing was reserved.
ProbeFails ==
    /\ pc["balancer"] = "probe"
    /\ Drop("balancer")
    /\ UNCHANGED <<balances, channel, executor, polls, chain, restarts, lostReplies>>

\* process_event returns the collected actions to the reactor's strategy loop.
HandlerReturns(s) ==
    /\ pc[s] = "idle"
    /\ outbox[s] # <<>>
    /\ pc' = [pc EXCEPT ![s] = "sending"]
    /\ UNCHANGED <<capital, job, plan, outbox, channel, executor, polls, stage, chain, restarts, history>>

\* The strategy loop sends one action. A full channel overwrites its oldest
\* entry; the executor will only learn how many it missed.
SendAction(s) ==
    /\ pc[s] = "sending"
    /\ LET o == Head(outbox[s])
           full == Len(channel) = ActionCapacity
       IN  /\ channel' = Append(IF full THEN Tail(channel) ELSE channel, o)
           /\ stage' = [x \in Ops |-> IF x = o THEN "queued"
                                      ELSE IF full /\ x = Head(channel) THEN "dropped"
                                      ELSE stage[x]]
    /\ outbox' = [outbox EXCEPT ![s] = Tail(@)]
    /\ pc' = [pc EXCEPT ![s] = IF Len(outbox[s]) = 1 THEN "idle" ELSE "sending"]
    /\ UNCHANGED <<capital, job, plan, executor, polls, chain, restarts, history>>

-----------------------------------------------------------------------------
(* The executor. *)

\* The executor's loop receives the next action and starts its first attempt.
ExecuteAction ==
    /\ executor.at = "recv"
    /\ channel # <<>>
    /\ executor' = [at |-> "seq", op |-> Head(channel), attempt |-> 1, seq |-> 0]
    /\ channel' = Tail(channel)
    /\ stage' = [stage EXCEPT ![Head(channel)] = "executing"]
    /\ UNCHANGED <<capital, handlers, polls, chain, restarts, history>>

\* Mutant of Settle: the outcome is recorded and the hook forgotten.
SettleWithoutHook(o) ==
    /\ stage' = [stage EXCEPT ![o] = "settled"]
    /\ UNCHANGED reservations

\* A terminal outcome runs the settle hook: the reservation goes.
Settle(o) ==
    /\ reservations' = Released(o)
    /\ stage' = [stage EXCEPT ![o] = "settled"]

\* Mutant of NextAttempt: `attempt > max_retries` decides which attempt is last.
NextAttemptOneMore ==
    /\ executor.attempt <= MaxRetries
    /\ executor' = [executor EXCEPT !.at = "seq", !.attempt = @ + 1, !.seq = 0]
    /\ UNCHANGED <<reservations, stage>>

\* Mutant of NextAttempt: the attempt is not counted.
NextAttemptUncounted ==
    /\ executor.attempt < MaxRetries
    /\ executor' = [executor EXCEPT !.at = "seq", !.seq = 0]
    /\ UNCHANGED <<reservations, stage>>

\* An attempt failed: back off and start the next one, or give up for good.
NextAttempt ==
    /\ executor.attempt < MaxRetries
    /\ executor' = [executor EXCEPT !.at = "seq", !.attempt = @ + 1, !.seq = 0]
    /\ UNCHANGED <<reservations, stage>>

RetryExhausted ==
    /\ executor.attempt >= MaxRetries
    /\ executor' = Waiting
    /\ Settle(executor.op)

FetchSeqNum ==
    /\ executor.at = "seq"
    /\ executor' = [executor EXCEPT !.at = "send", !.seq = account_seq + 1]
    /\ UNCHANGED <<capital, handlers, channel, polls, stage, chain, restarts, history>>

FetchSeqNumFails ==
    /\ executor.at = "seq"
    /\ NextAttempt \/ RetryExhausted
    /\ UNCHANGED <<balances, handlers, channel, polls, chain, restarts, history>>

\* The simulation returned no results: the operation is given up at once.
SimulationEmpty ==
    /\ executor.at = "send"
    /\ executor' = Waiting
    /\ Settle(executor.op)
    /\ UNCHANGED <<balances, handlers, channel, polls, chain, restarts, history>>

\* The attempt fails and the network holds no transaction of it: the simulation
\* call failed, the fee does not fit, or the node rejected it (tx_bad_seq, ...).
SubmitFails ==
    /\ executor.at = "send"
    /\ NextAttempt \/ RetryExhausted
    /\ UNCHANGED <<balances, handlers, channel, polls, chain, restarts, history>>

\* External: the network takes a transaction only with the account's next number.
Accepted == executor.seq = account_seq + 1

Submitted == [op |-> executor.op, seq |-> executor.seq]

\* The network took the transaction and the reply was lost: to the executor
\* this is one more failed attempt.
SubmitReplyLost ==
    /\ executor.at = "send"
    /\ Accepted
    /\ mempool' = mempool \cup {Submitted}
    /\ lostReplies' = lostReplies \cup {executor.op}
    /\ NextAttempt \/ RetryExhausted
    /\ UNCHANGED <<balances, handlers, channel, polls, wallet, account_seq, ledger, restarts, blindSpots>>

\* Mutant of SubmitOk: the loop goes on after a successful submission.
SubmitOkAndRetry ==
    /\ executor.at = "send"
    /\ Accepted
    /\ mempool' = mempool \cup {Submitted}
    /\ NextAttempt \/ RetryExhausted
    /\ UNCHANGED <<balances, handlers, channel, polls, wallet, account_seq, ledger, restarts, history>>

\* Mutant of SubmitOk: the poll is spawned and the executor keeps the action.
SubmitOkKeepsAction ==
    /\ executor.at = "send"
    /\ Accepted
    /\ mempool' = mempool \cup {Submitted}
    /\ polls' = polls \cup {Submitted}
    /\ stage' = [stage EXCEPT ![executor.op] = "polling"]
    /\ executor' = [executor EXCEPT !.at = "seq", !.seq = 0]
    /\ UNCHANGED <<capital, handlers, channel, wallet, account_seq, ledger, restarts, history>>

\* The submission is accepted: a detached task polls for its confirmation with
\* the settle hook, and the executor turns to the next action.
SubmitOk ==
    /\ executor.at = "send"
    /\ Accepted
    /\ mempool' = mempool \cup {Submitted}
    /\ polls' = polls \cup {Submitted}
    /\ stage' = [stage EXCEPT ![executor.op] = "polling"]
    /\ executor' = Waiting
    /\ UNCHANGED <<capital, handlers, channel, wallet, account_seq, ledger, restarts, history>>

\* get_transaction_polling returns: confirmed, failed on chain, timed out with
\* the transaction still pending, or a transport error. Every way ends in release.
PollEnds(x) ==
    /\ x \in polls
    /\ polls' = polls \ {x}
    /\ Settle(x.op)
    /\ UNCHANGED <<balances, handlers, channel, executor, chain, restarts, history>>

-----------------------------------------------------------------------------
(* The chain, the clock and the process. *)

Landed(o) == \E x \in ledger : x.op = o /\ x.ok

\* External: the next ledger applies a transaction. It fails when the wallet does
\* not cover it, and may fail for reasons of the contract.
Apply(x, ok) ==
    LET p == plan[x.op]
    IN  /\ x \in mempool
        /\ x.seq = account_seq + 1
        /\ ok => wallet[p.token] >= p.amount
        /\ account_seq' = x.seq
        /\ mempool' = {y \in mempool : y.seq # x.seq}
        /\ ledger' = ledger \cup {[op |-> x.op, seq |-> x.seq, ok |-> ok]}
        /\ wallet' = [wallet EXCEPT ![p.token] = IF ok THEN @ - p.amount ELSE @]
        /\ blindSpots' = IF ~ok \/ p.amount = 0 THEN blindSpots
                         ELSE IF Landed(x.op) THEN Blinded({p.token}, "duplicate")
                         ELSE IF stage[x.op] \notin Pending THEN Blinded({p.token}, "late")
                         ELSE blindSpots
        /\ UNCHANGED <<capital, handlers, channel, executor, polls, stage, restarts, lostReplies>>

\* External: the network forgets a pending transaction.
Evict(x) ==
    /\ x \in mempool
    /\ mempool' = mempool \ {x}
    /\ UNCHANGED <<capital, handlers, channel, executor, polls, stage, wallet,
                   account_seq, ledger, restarts, history>>

Aged(r, ttl) == [r EXCEPT !.age = IF @ < ttl THEN @ + 1 ELSE @]

\* A second passes.
Tick ==
    /\ reservations' = {Aged(r, ReservationTtl) : r \in reservations}
    /\ balances' = {Aged(b, BalanceTtl) : b \in balances}
    /\ UNCHANGED <<handlers, channel, executor, polls, stage, chain, restarts, history>>

\* The first task of the reactor to end, or a signal, shuts the keeper down;
\* the supervisor starts it again. Reservations and queues are not persisted.
Restart ==
    /\ restarts < MaxRestarts
    /\ restarts' = restarts + 1
    /\ reservations' = {}
    /\ balances' = {}
    /\ pc' = [s \in Strategies |-> "idle"]
    /\ job' = [s \in Strategies |-> NoOp]
    /\ outbox' = [s \in Strategies |-> <<>>]
    /\ channel' = <<>>
    /\ executor' = Waiting
    /\ polls' = {}
    /\ stage' = [o \in Ops |-> IF stage[o] \in Pending \cup {"planning"} THEN "abandoned" ELSE stage[o]]
    /\ UNCHANGED <<plan, chain, history>>

Handler(s) ==
    \/ BalanceFromCache(s) \/ BalanceRead(s) \/ BalanceReply(s) \/ BalanceReadFails(s)
    \/ HandlerReturns(s) \/ SendAction(s)

Execute ==
    \/ ExecuteAction \/ FetchSeqNum \/ FetchSeqNumFails \/ SimulationEmpty
    \/ SubmitFails \/ SubmitReplyLost \/ SubmitOk

Next ==
    \/ \E t \in Tokens : PlanningRead(t)
    \/ \E o \in Ops, t \in Tokens, amount \in 1..MaxAmount : PlanLiquidation(o, t, amount)
    \/ \E o \in Ops : PlanFlash(o)
    \/ \E o \in Ops, t \in Tokens : PlanRebalance(o, t)
    \/ \E s \in Strategies : Handler(s)
    \/ ProbeAdmitted \/ ProbeFails
    \/ Execute
    \/ \E x \in polls : PollEnds(x)
    \/ \E x \in mempool, ok \in BOOLEAN : Apply(x, ok)
    \/ \E x \in mempool : Evict(x)
    \/ Tick
    \/ Restart

Spec == Init /\ [][Next]_vars

\* The tasks the tokio scheduler keeps running: handlers, whose RPC calls all
\* return or time out, the executor and the polls. Nothing is assumed of the
\* chain, of the clock or of the strategies' appetite for new plans.
Fairness ==
    /\ \A s \in Strategies : WF_vars(Handler(s))
    /\ WF_vars(ProbeAdmitted \/ ProbeFails)
    /\ WF_vars(Execute)
    /\ \A o \in Ops : WF_vars(\E x \in polls : x.op = o /\ PollEnds(x))

FairSpec == Spec /\ Fairness

-----------------------------------------------------------------------------
(* Properties. *)

\* The handler of s is between two awaits of one operation.
Planning(s) == pc[s] \in {"balance", "reply", "probe"}

\* Every operation under way has one owner, which alone decides its fate: the
\* handler that plans it, one slot of one outbox, one slot of the channel, the
\* executor, or a poll. It is what makes each settle hook run once.
SingleOwner ==
    /\ \A s \in Strategies :
           /\ Planning(s) <=> job[s] # NoOp
           /\ Planning(s) => stage[job[s]] = "planning"
           /\ pc[s] = "sending" => outbox[s] # <<>>
           /\ \A i \in 1..Len(outbox[s]) : stage[outbox[s][i]] = "outbox"
    /\ \A s, z \in Strategies :
           /\ s # z /\ Planning(s) => job[s] # job[z]
           /\ \A i \in 1..Len(outbox[s]), j \in 1..Len(outbox[z]) :
                  outbox[s][i] = outbox[z][j] => s = z /\ i = j
    /\ \A i \in 1..Len(channel) : stage[channel[i]] = "queued"
    /\ \A i, j \in 1..Len(channel) : channel[i] = channel[j] => i = j
    /\ executor.at # "recv" => executor.op # NoOp /\ stage[executor.op] = "executing"
    /\ \A x, y \in polls : stage[x.op] = "polling" /\ (x.op = y.op => x = y)

\* A reservation only ever stands for an operation that may still spend: once the
\* settle hook of an operation has run, or its plan was refused, none is left.
\* Hooks run from the executor and from detached polls (stellar_tx.rs:204, :265).
ReservationsOfLiveOps ==
    \A r \in reservations : stage[r.id] \in Pending \cup {"dropped"}

\* An operation none of whose submission replies was lost is on the network at
\* most once, whatever the retries, the shared sequence number and the other
\* operations do (the retry loop of SorobanExecutor::execute).
SubmittedOnce ==
    \A x, y \in mempool \cup ledger :
        x.op = y.op /\ x.op \notin lostReplies => x.seq = y.seq

\* The amounts of t that dispatched operations may still take from the wallet.
Outstanding(t) ==
    SumFunctionOnSet([o \in Ops |-> plan[o].amount],
        {o \in Ops : stage[o] \in Pending /\ plan[o].token = t /\ ~Landed(o)})

\* Operations in flight never need more of a token than the wallet holds beyond
\* its margin, unless the gate was got round in one of four named ways: a
\* reservation expired under its operation, the balance used predates a spend
\* already released, an operation landed after it settled, or landed twice.
CoveredUnlessBlind ==
    \A t \in Tokens :
        Outstanding(t) > 0 /\ Outstanding(t) > Spendable(wallet[t], t) => blindSpots[t] # {}

\* The promise of docs/configuration.md, "Reservations stop strategies
\* double-spending the same wallet balance", for a token all of whose reservations
\* were held until their operation had its one confirmed or failed landing.
NoDoubleSpend ==
    \A t \in Tokens :
        blindSpots[t] \cap {"expired", "late", "duplicate"} = {} => Outstanding(t) <= wallet[t]

\* A reservation disappears only because its operation settled, because its time
\* to live is over, or because the process died (liquidator_capital.rs).
ReservationEndsForAReason ==
    [][\A r \in reservations :
           (\A q \in reservations' : q.id # r.id) =>
               \/ stage'[r.id] = "settled"
               \/ r.age >= ReservationTtl
               \/ restarts' # restarts]_vars

\* Every action a handler pushed reaches an end: its hook runs, the channel
\* dropped it, or the process died. Neither retries nor polls go on for ever.
PushedActionsEnd ==
    \A o \in Ops : stage[o] = "outbox" ~> stage[o] \in {"settled", "dropped", "abandoned"}
=============================================================================
