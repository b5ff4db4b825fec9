----------------------- MODULE CapitalPipelineProofs -----------------------
(***************************************************************************)
(* Proofs about CapitalPipeline, for every set of operations and tokens,    *)
(* every wallet, retry count, channel capacity and time to live: owners,    *)
(* hooks and submissions, then the cover of what is in flight, then that    *)
(* the pipeline implements ReservationLedger.                               *)
(***************************************************************************)
EXTENDS CapitalRefinement, NumberLemmas

USE ConstantsAssumption

\* The keeper starts well typed.
LEMMA InitTypeOK == Init => TypeOK
  BY DEF Init, TypeOK, NoPlan, Waiting, Plan, Stages, Pending, Terminal, Strategies

\* Ageing keeps a reservation and a cached balance what they are.
LEMMA AgedTypes ==
  /\ \A r \in Reservation : /\ Aged(r, ReservationTtl) \in Reservation
                            /\ Aged(r, ReservationTtl).id = r.id
  /\ \A b \in CachedBalance : Aged(b, BalanceTtl) \in CachedBalance
  BY DEF Aged, Reservation, CachedBalance

\* So does writing one or two fields of a plan.
LEMMA PlanUpdates ==
  /\ \A p \in Plan : \A t \in Tokens : [p EXCEPT !.token = t] \in Plan
  /\ \A p \in Plan : \A t \in Tokens, a \in Nat : [p EXCEPT !.token = t, !.amount = a] \in Plan
  /\ \A p \in Plan : \A a \in Nat : [p EXCEPT !.amount = a] \in Plan
  /\ \A p \in Plan : \A v \in Int, q \in Nat : [p EXCEPT !.available = v, !.as_of = q] \in Plan
  BY DEF Plan

\* The clock ages every entry and changes nothing else.
LEMMA TickTypeOK == TypeOK /\ Tick => TypeOK'
  <1> SUFFICES ASSUME TypeOK, Tick PROVE TypeOK'
    OBVIOUS
  <1>1. reservations' \subseteq Reservation /\ balances' \subseteq CachedBalance
    BY AgedTypes DEF Tick, TypeOK
  <1> QED
    BY <1>1 DEF Tick, TypeOK, handlers, chain, history

\* The stages an operation can be in, spelled out.
LEMMA StageSets ==
  /\ Pending \subseteq Stages
  /\ {"unused", "planning", "refused", "settled", "dropped", "abandoned"} \subseteq Stages
  BY DEF Stages, Pending, Terminal

\* A handler that gives up its operation leaves well-typed state.
LEMMA RefuseTypeOK ==
  ASSUME TypeOK, NEW s \in Strategies, job[s] \in Ops, Refuse(s)
  PROVE  /\ stage' \in [Ops -> Stages]
         /\ pc' \in [Strategies -> {"idle", "balance", "reply", "probe", "sending"}]
         /\ job' \in [Strategies -> Ops \cup {NoOp}]
  BY StageSets DEF Refuse, TypeOK

\* So does a handler that pushes an action.
LEMMA PushTypeOK ==
  ASSUME TypeOK, NEW s \in Strategies, NEW o \in Ops, Push(s, o)
  PROVE  /\ stage' \in [Ops -> Stages]
         /\ outbox' \in [Strategies -> Seq(Ops)]
         /\ pc' \in [Strategies -> {"idle", "balance", "reply", "probe", "sending"}]
         /\ job' \in [Strategies -> Ops \cup {NoOp}]
  BY StageSets DEF Push, TypeOK, Pending

\* Recording a blind spot keeps the history's type.
LEMMA BlindedTypeOK ==
  ASSUME TypeOK, NEW T, NEW cause \in BlindSpots
  PROVE  Blinded(T, cause) \in [Tokens -> SUBSET BlindSpots]
  <1>1. \A t \in Tokens : blindSpots[t] \cup {cause} \in SUBSET BlindSpots
    BY DEF TypeOK
  <1> QED
    BY <1>1 DEF Blinded, TypeOK

\* reserve and what follows it, granted or refused, keep the types.
LEMMA TryReserveTypeOK ==
  ASSUME TypeOK, NEW s \in Strategies, job[s] \in Ops, NEW p \in Plan, TryReserve(s, p)
  PROVE  /\ reservations' \subseteq Reservation
         /\ stage' \in [Ops -> Stages]
         /\ plan' \in [Ops -> Plan]
         /\ outbox' \in [Strategies -> Seq(Ops)]
         /\ pc' \in [Strategies -> {"idle", "balance", "reply", "probe", "sending"}]
         /\ job' \in [Strategies -> Ops \cup {NoOp}]
         /\ blindSpots' \in [Tokens -> SUBSET BlindSpots]
  <1>0. Unexpired \subseteq Reservation
    BY DEF Unexpired, TypeOK
  <1>1. CASE ReserveAndPush(s, p)
    <2>1. [id |-> job[s], token |-> p.token, amount |-> p.amount, age |-> 0] \in Reservation
      BY DEF Reservation, Plan
    <2>2. blindSpots' \in [Tokens -> SUBSET BlindSpots]
      BY <1>1 DEF ReserveAndPush, TypeOK, BlindSpots
    <2> QED
      BY <1>0, <1>1, <2>1, <2>2, PushTypeOK DEF ReserveAndPush, TypeOK
  <1>2. CASE ReserveRefused(s, p) \/ BuildFails(s, p)
    <2>1. blindSpots' \in [Tokens -> SUBSET BlindSpots]
      BY <1>2, BlindedTypeOK DEF ReserveRefused, BuildFails, BlindSpots
    <2> QED
      BY <1>0, <1>2, <2>1, RefuseTypeOK DEF ReserveRefused, BuildFails, TypeOK
  <1> QED
    BY <1>1, <1>2 DEF TryReserve

\* Whatever a handler does with the balance it asked for keeps the types.
LEMMA GotBalanceTypeOK ==
  ASSUME TypeOK, NEW s \in Strategies, job[s] \in Ops, NEW raw \in Int, NEW as_of \in Nat,
         GotBalance(s, raw, as_of)
  PROVE  /\ reservations' \subseteq Reservation
         /\ stage' \in [Ops -> Stages]
         /\ plan' \in [Ops -> Plan]
         /\ outbox' \in [Strategies -> Seq(Ops)]
         /\ pc' \in [Strategies -> {"idle", "balance", "reply", "probe", "sending"}]
         /\ job' \in [Strategies -> Ops \cup {NoOp}]
         /\ blindSpots' \in [Tokens -> SUBSET BlindSpots]
  <1> DEFINE available == Spendable(raw, plan[job[s]].token)
             p == [plan[job[s]] EXCEPT !.available = available, !.as_of = as_of]
  <1>1. p \in Plan
    <2>1. plan[job[s]] \in Plan
      BY DEF TypeOK
    <2>2. available \in Int
      BY DEF Spendable
    <2> QED
      BY <2>1, <2>2, PlanUpdates
  <1>2. CASE TryReserve(s, p)
    BY <1>1, <1>2, TryReserveTypeOK
  <1>3. CASE Drop(s)
    BY <1>3, RefuseTypeOK DEF Drop, TypeOK
  <1>4. CASE /\ pc' = [pc EXCEPT ![s] = "probe"]
             /\ plan' = [plan EXCEPT ![job[s]] = p]
             /\ UNCHANGED <<job, outbox, stage, reservations, blindSpots>>
    BY <1>1, <1>4 DEF TypeOK
  <1> QED
    BY <1>2, <1>3, <1>4 DEF GotBalance

\* The executor's way out of a failed attempt.
LEMMA AttemptEndsTypeOK ==
  ASSUME TypeOK, executor.op \in Ops, NextAttempt \/ RetryExhausted
  PROVE  /\ reservations' \subseteq Reservation
         /\ stage' \in [Ops -> Stages]
         /\ executor' \in [at : {"recv", "seq", "send"}, op : Ops \cup {NoOp},
                           attempt : 0..MaxRetries, seq : Nat]
  <1>1. CASE NextAttempt
    <2>1. /\ executor.attempt \in 0..MaxRetries
          /\ executor' = [at |-> "seq", op |-> executor.op, attempt |-> executor.attempt + 1, seq |-> 0]
      BY <1>1 DEF NextAttempt, TypeOK
    <2>2. executor.attempt + 1 \in 0..MaxRetries
      BY <1>1, <2>1 DEF NextAttempt
    <2> QED
      BY <1>1, <2>1, <2>2 DEF NextAttempt, TypeOK
  <1>2. CASE RetryExhausted
    BY <1>2, StageSets DEF RetryExhausted, Settle, Released, Waiting, TypeOK
  <1> QED
    BY <1>1, <1>2

\* The steps both handlers share keep the types.
LEMMA HandlerTypeOK ==
  ASSUME TypeOK, SingleOwner, NEW s \in Strategies, Handler(s)
  PROVE  TypeOK'
  <1>0. Planning(s) => job[s] \in Ops
    BY DEF SingleOwner, TypeOK
  <1>1. CASE BalanceFromCache(s)
    <2>1. PICK b \in FreshBalances(plan[job[s]].token) : GotBalance(s, b.amount, b.as_of)
      BY <1>1 DEF BalanceFromCache
    <2>2. b.amount \in Int /\ b.as_of \in Nat
      BY DEF FreshBalances, TypeOK, CachedBalance
    <2> QED
      BY <1>0, <1>1, <2>1, <2>2, GotBalanceTypeOK DEF BalanceFromCache, Planning, TypeOK, chain
  <1>2. CASE BalanceRead(s)
    <2> DEFINE o == job[s]
               p == [plan[o] EXCEPT !.available = wallet[plan[o].token], !.as_of = account_seq]
    <2>1. o \in Ops /\ plan[o] \in Plan /\ plan[o].token \in Tokens
      BY <1>0, <1>2 DEF BalanceRead, Planning, TypeOK, Plan
    <2>2. p \in Plan
      <3>1. wallet[plan[o].token] \in Int /\ account_seq \in Nat
        BY <2>1 DEF TypeOK
      <3> QED
        BY <2>1, <3>1, PlanUpdates
    <2>3. plan' = [plan EXCEPT ![o] = p]
      BY <1>2, <2>1 DEF BalanceRead, TypeOK
    <2>4. plan' \in [Ops -> Plan]
      BY <2>2, <2>3 DEF TypeOK
    <2> QED
      BY <1>2, <2>4 DEF BalanceRead, TypeOK, capital, chain, history
  <1>3. CASE BalanceReply(s)
    <2> DEFINE p == plan[job[s]]
    <2>1. p \in Plan
      BY <1>0, <1>3 DEF BalanceReply, Planning, TypeOK
    <2>2. balances' \subseteq CachedBalance
      BY <1>3, <2>1, SMTT(30) DEF BalanceReply, TypeOK, CachedBalance, Plan
    <2>3. GotBalance(s, p.available, p.as_of) /\ p.available \in Int /\ p.as_of \in Nat
      BY <1>3, <2>1 DEF BalanceReply, Plan
    <2> QED
      BY <1>0, <1>3, <2>2, <2>3, GotBalanceTypeOK DEF BalanceReply, Planning, TypeOK, chain
  <1>4. CASE BalanceReadFails(s)
    BY <1>0, <1>4, RefuseTypeOK DEF BalanceReadFails, Drop, Planning, TypeOK, chain
  <1>5. CASE HandlerReturns(s)
    BY <1>5 DEF HandlerReturns, TypeOK, capital, chain, history
  <1>6. CASE SendAction(s)
    <2>1. outbox[s] \in Seq(Ops) /\ outbox[s] # <<>>
      BY <1>6 DEF SendAction, SingleOwner, TypeOK
    <2>2. Head(outbox[s]) \in Ops /\ Tail(outbox[s]) \in Seq(Ops)
      BY <2>1
    <2>3. channel' \in Seq(Ops)
      <3>1. Len(channel) = ActionCapacity => Tail(channel) \in Seq(Ops)
        BY DEF TypeOK
      <3> QED
        BY <1>6, <2>2, <3>1 DEF SendAction, TypeOK
    <2>4. stage' \in [Ops -> Stages]
      BY <1>6, StageSets DEF SendAction, TypeOK, Pending
    <2> QED
      BY <1>6, <2>2, <2>3, <2>4 DEF SendAction, TypeOK, capital, chain, history
  <1> QED
    BY <1>1, <1>2, <1>3, <1>4, <1>5, <1>6 DEF Handler

\* The executor's steps keep the types; the attempt counter stays in range.
LEMMA ExecuteTypeOK ==
  ASSUME TypeOK, SingleOwner, Execute
  PROVE  TypeOK'
  <1>0. executor.at # "recv" => executor.op \in Ops
    BY DEF SingleOwner, TypeOK
  <1>1. CASE ExecuteAction
    <2>1. Head(channel) \in Ops /\ Tail(channel) \in Seq(Ops)
      BY <1>1 DEF ExecuteAction, TypeOK
    <2> QED
      BY <1>1, <2>1, StageSets DEF ExecuteAction, TypeOK, Pending, capital, handlers, chain, history
  <1>2. CASE FetchSeqNum
    <2>1. executor' \in [at : {"recv", "seq", "send"}, op : Ops \cup {NoOp},
                         attempt : 0..MaxRetries, seq : Nat]
      <3>1. executor' = [at |-> "send", op |-> executor.op, attempt |-> executor.attempt,
                         seq |-> account_seq + 1]
        BY <1>2 DEF FetchSeqNum, TypeOK
      <3>2. executor.op \in Ops \cup {NoOp} /\ executor.attempt \in 0..MaxRetries /\ account_seq + 1 \in Nat
        BY DEF TypeOK
      <3> QED
        BY <3>1, <3>2
    <2> QED
      BY <1>2, <2>1 DEF FetchSeqNum, TypeOK, capital, handlers, chain, history
  <1>3. CASE FetchSeqNumFails
    BY <1>0, <1>3, AttemptEndsTypeOK DEF FetchSeqNumFails, TypeOK, handlers, chain, history
  <1>4. CASE SimulationEmpty
    BY <1>0, <1>4, StageSets
       DEF SimulationEmpty, Settle, Released, Waiting, TypeOK, handlers, chain, history
  <1>5. CASE SubmitFails
    BY <1>0, <1>5, AttemptEndsTypeOK DEF SubmitFails, TypeOK, handlers, chain, history
  <1>6. CASE SubmitReplyLost
    <2>1. Submitted \in Tx
      BY <1>0, <1>6 DEF SubmitReplyLost, Submitted, Tx, TypeOK
    <2> QED
      BY <1>0, <1>6, <2>1, AttemptEndsTypeOK DEF SubmitReplyLost, TypeOK, handlers
  <1>7. CASE SubmitOk
    <2>1. Submitted \in Tx
      BY <1>0, <1>7 DEF SubmitOk, Submitted, Tx, TypeOK
    <2> QED
      BY <1>0, <1>7, <2>1, StageSets
         DEF SubmitOk, Waiting, TypeOK, Pending, capital, handlers, history
  <1> QED
    BY <1>1, <1>2, <1>3, <1>4, <1>5, <1>6, <1>7 DEF Execute

\* Types are kept by every step; SingleOwner supplies that a handler between two
\* awaits has an operation, and so has an executor that is not waiting.
LEMMA NextTypeOK == TypeOK /\ SingleOwner /\ [Next]_vars => TypeOK'
  <1> SUFFICES ASSUME TypeOK, SingleOwner, [Next]_vars PROVE TypeOK'
    OBVIOUS
  <1>1. ASSUME NEW o \in Ops, NEW t \in Tokens, NEW amount \in 1..MaxAmount,
               PlanLiquidation(o, t, amount)
        PROVE  TypeOK'
    <2>1. [plan[o] EXCEPT !.token = t, !.amount = amount] \in Plan
      <3>1. plan[o] \in Plan /\ amount \in Nat
        BY <1>1 DEF TypeOK
      <3> QED
        BY <3>1, PlanUpdates
    <2>2. plan' = [plan EXCEPT ![o] = [plan[o] EXCEPT !.token = t, !.amount = amount]]
      BY <1>1 DEF PlanLiquidation, TypeOK
    <2>3. plan' \in [Ops -> Plan]
      BY <2>1, <2>2 DEF TypeOK
    <2>4. /\ pc' \in [Strategies -> {"idle", "balance", "reply", "probe", "sending"}]
          /\ job' \in [Strategies -> Ops \cup {NoOp}]
          /\ stage' \in [Ops -> Stages]
      BY <1>1, StageSets DEF PlanLiquidation, TypeOK
    <2> QED
      BY <1>1, <2>3, <2>4 DEF PlanLiquidation, TypeOK, capital, chain, history
  <1>2. ASSUME NEW o \in Ops, PlanFlash(o) PROVE TypeOK'
    <2>1. "liquidator" \in Strategies
      BY DEF Strategies
    <2> QED
      BY <1>2, <2>1, PushTypeOK DEF PlanFlash, TypeOK, capital, chain, history
  <1>3. ASSUME NEW o \in Ops, NEW t \in Tokens, PlanRebalance(o, t) PROVE TypeOK'
    <2>1. [plan[o] EXCEPT !.token = t] \in Plan
      BY PlanUpdates DEF TypeOK
    <2>2. plan' = [plan EXCEPT ![o] = [plan[o] EXCEPT !.token = t]]
      BY <1>3 DEF PlanRebalance, TypeOK
    <2>3. plan' \in [Ops -> Plan]
      BY <2>1, <2>2 DEF TypeOK
    <2>4. /\ pc' \in [Strategies -> {"idle", "balance", "reply", "probe", "sending"}]
          /\ job' \in [Strategies -> Ops \cup {NoOp}]
          /\ stage' \in [Ops -> Stages]
      BY <1>3, StageSets DEF PlanRebalance, TypeOK
    <2> QED
      BY <1>3, <2>3, <2>4 DEF PlanRebalance, TypeOK, capital, chain, history
  <1>4. ASSUME NEW s \in Strategies, Handler(s) PROVE TypeOK'
    BY <1>4, HandlerTypeOK
  <1>5. CASE ProbeAdmitted
    <2>1. "balancer" \in Strategies /\ job["balancer"] \in Ops
      BY <1>5 DEF ProbeAdmitted, Strategies, SingleOwner, Planning, TypeOK
    <2> DEFINE p == plan[job["balancer"]]
    <2>2. PICK amount \in Probed(p.available) : TryReserve("balancer", [p EXCEPT !.amount = amount])
      BY <1>5 DEF ProbeAdmitted
    <2>3. [p EXCEPT !.amount = amount] \in Plan
      <3>1. p \in Plan
        BY <2>1 DEF TypeOK
      <3>2. amount \in Nat
        BY <2>2, <3>1 DEF Probed, Plan
      <3> QED
        BY <3>1, <3>2, PlanUpdates
    <2> QED
      BY <1>5, <2>1, <2>2, <2>3, TryReserveTypeOK DEF ProbeAdmitted, TypeOK, chain
  <1>6. CASE ProbeFails
    <2>1. "balancer" \in Strategies /\ job["balancer"] \in Ops
      BY <1>6 DEF ProbeFails, Strategies, SingleOwner, Planning, TypeOK
    <2> QED
      BY <1>6, <2>1, RefuseTypeOK DEF ProbeFails, Drop, TypeOK, chain
  <1>7. CASE Execute
    BY <1>7, ExecuteTypeOK
  <1>8. ASSUME NEW x \in polls, PollEnds(x) PROVE TypeOK'
    BY <1>8, StageSets DEF PollEnds, Settle, Released, TypeOK, Tx, handlers, chain, history
  <1>9. ASSUME NEW x \in mempool, NEW ok \in BOOLEAN, Apply(x, ok) PROVE TypeOK'
    <2> DEFINE p == plan[x.op]
    <2>1. x \in Tx /\ p \in Plan
      BY DEF TypeOK, Tx
    <2>2. wallet' \in [Tokens -> Nat]
      <3>1. wallet \in [Tokens -> Nat] /\ p.token \in Tokens /\ p.amount \in Nat
        BY <2>1 DEF TypeOK, Plan
      <3>2. ok => wallet[p.token] - p.amount \in Nat
        BY <1>9, <3>1 DEF Apply
      <3>3. wallet' = [wallet EXCEPT ![p.token] = IF ok THEN wallet[p.token] - p.amount
                                                  ELSE wallet[p.token]]
        BY <1>9 DEF Apply
      <3> QED
        BY <3>1, <3>2, <3>3
    <2>3. blindSpots' \in [Tokens -> SUBSET BlindSpots]
      BY <1>9, BlindedTypeOK DEF Apply, TypeOK, BlindSpots
    <2>4. [op |-> x.op, seq |-> x.seq, ok |-> ok] \in Applied
      BY <2>1 DEF Tx, Applied
    <2> QED
      BY <1>9, <2>1, <2>2, <2>3, <2>4 DEF Apply, TypeOK, Tx, capital, handlers
  <1>10. ASSUME NEW x \in mempool, Evict(x) PROVE TypeOK'
    BY <1>10 DEF Evict, TypeOK, capital, handlers, history
  <1>11. CASE Tick
    BY <1>11, TickTypeOK
  <1>12. CASE Restart
    BY <1>12, StageSets DEF Restart, TypeOK, Waiting, chain, history
  <1>13. ASSUME NEW t \in Tokens, PlanningRead(t) PROVE TypeOK'
    <2>1. [token |-> t, amount |-> wallet[t], age |-> 0, as_of |-> account_seq] \in CachedBalance
      BY ConstantsAssumption DEF TypeOK, CachedBalance
    <2> QED
      BY <1>13, <2>1 DEF PlanningRead, TypeOK, handlers, chain, history
  <1>14. CASE UNCHANGED vars
    BY <1>14 DEF vars, TypeOK, capital, handlers, chain, history
  <1> QED
    BY <1>1, <1>2, <1>3, <1>4, <1>5, <1>6, <1>7, <1>8, <1>9, <1>10, <1>11, <1>12, <1>13, <1>14
       DEF Next

-----------------------------------------------------------------------------
(* Ownership: every operation under way is in one place. *)

\* Nothing is under way at the start.
LEMMA InitSingleOwner == Init => SingleOwner
  BY DEF Init, SingleOwner, Planning, Waiting

\* What SingleOwner says of one handler, for use in the steps below.
LEMMA PlanningJob ==
  ASSUME TypeOK, SingleOwner, NEW s \in Strategies, Planning(s)
  PROVE  /\ job[s] \in Ops
         /\ stage[job[s]] = "planning"
         /\ \A z \in Strategies : z # s => job[z] # job[s]
  BY DEF TypeOK, SingleOwner

\* A refused operation leaves its handler, its only owner.
LEMMA RefuseSingleOwner ==
  ASSUME TypeOK, SingleOwner, NEW s \in Strategies, Planning(s), Refuse(s),
         UNCHANGED <<outbox, channel, executor, polls>>
  PROVE  SingleOwner'
  <1>1. /\ job[s] \in Ops
        /\ stage[job[s]] = "planning"
        /\ \A z \in Strategies : z # s => job[z] # job[s]
    BY PlanningJob
  <1>2. \A o \in Ops : stage[o] # "planning" => stage'[o] = stage[o]
    BY <1>1 DEF Refuse, TypeOK
  <1> QED
    BY <1>1, <1>2 DEF Refuse, SingleOwner, Planning, TypeOK, Tx

\* A pushed action moves from the handler to the last slot of its outbox.
LEMMA PushSingleOwner ==
  ASSUME TypeOK, SingleOwner, NEW s \in Strategies, NEW o \in Ops,
         stage[o] \in {"unused", "planning"}, pc[s] # "sending",
         \A z \in Strategies : z # s => job[z] # o,
         Push(s, o), UNCHANGED <<channel, executor, polls>>
  PROVE  SingleOwner'
  <1>1. \A x \in Ops : x # o => stage'[x] = stage[x]
    BY DEF Push, TypeOK
  <1>2. stage'[o] = "outbox"
    BY DEF Push, TypeOK
  <1>3. /\ outbox[s] \in Seq(Ops)
        /\ outbox'[s] = Append(outbox[s], o)
        /\ \A z \in Strategies : z # s => outbox'[z] = outbox[z]
    BY DEF Push, TypeOK
  <1>4. /\ pc'[s] = "idle" /\ job'[s] = NoOp
        /\ \A z \in Strategies : z # s => pc'[z] = pc[z] /\ job'[z] = job[z]
    BY DEF Push, TypeOK
  <1>5. \A z \in Strategies : \A i \in 1..Len(outbox[z]) : outbox[z][i] \in Ops /\ outbox[z][i] # o
    BY DEF SingleOwner, TypeOK
  <1>6. /\ Len(outbox'[s]) = Len(outbox[s]) + 1
        /\ \A i \in 1..Len(outbox[s]) : outbox'[s][i] = outbox[s][i]
        /\ outbox'[s][Len(outbox[s]) + 1] = o
    BY <1>3
  <1>7. \A z \in Strategies :
           /\ Planning(z)' <=> job'[z] # NoOp
           /\ Planning(z)' => stage'[job'[z]] = "planning"
           /\ pc'[z] = "sending" => outbox'[z] # <<>>
    BY <1>1, <1>3, <1>4 DEF SingleOwner, Planning, TypeOK
  <1>8. \A z \in Strategies : \A i \in 1..Len(outbox'[z]) : stage'[outbox'[z][i]] = "outbox"
    <2> SUFFICES ASSUME NEW z \in Strategies, NEW i \in 1..Len(outbox'[z])
                 PROVE  stage'[outbox'[z][i]] = "outbox"
      OBVIOUS
    <2>1. CASE z # s
      BY <1>1, <1>3, <1>5, <2>1 DEF SingleOwner
    <2>2. CASE z = s /\ i = Len(outbox[s]) + 1
      BY <1>2, <1>6, <2>2
    <2>3. CASE z = s /\ i # Len(outbox[s]) + 1
      <3>1. i \in 1..Len(outbox[s])
        BY <1>3, <1>6, <2>3
      <3> QED
        BY <1>1, <1>5, <1>6, <2>3, <3>1 DEF SingleOwner
    <2> QED
      BY <2>1, <2>2, <2>3
  <1>8a. \A z \in Strategies : \A i \in 1..Len(outbox'[z]) :
            \/ i \in 1..Len(outbox[z]) /\ outbox'[z][i] = outbox[z][i]
            \/ z = s /\ i = Len(outbox[s]) + 1 /\ outbox'[z][i] = o
    <2> SUFFICES ASSUME NEW z \in Strategies, NEW i \in 1..Len(outbox'[z])
                 PROVE  \/ i \in 1..Len(outbox[z]) /\ outbox'[z][i] = outbox[z][i]
                        \/ z = s /\ i = Len(outbox[s]) + 1 /\ outbox'[z][i] = o
      OBVIOUS
    <2>1. CASE z # s
      BY <1>3, <2>1
    <2>2. CASE z = s
      <3>1. Len(outbox[s]) \in Nat
        BY <1>3
      <3> QED
        BY <1>6, <2>2, <3>1
    <2> QED
      BY <2>1, <2>2
  <1>9. \A z, y \in Strategies :
           /\ z # y /\ Planning(z)' => job'[z] # job'[y]
           /\ \A i \in 1..Len(outbox'[z]), j \in 1..Len(outbox'[y]) :
                  outbox'[z][i] = outbox'[y][j] => z = y /\ i = j
    <2>1. ASSUME NEW z \in Strategies, NEW y \in Strategies, z # y, Planning(z)'
          PROVE  job'[z] # job'[y]
      <3>1. z # s /\ Planning(z) /\ job'[z] = job[z] /\ job[z] # NoOp
        BY <1>4, <2>1 DEF Planning, SingleOwner
      <3> QED
        BY <1>4, <2>1, <3>1 DEF SingleOwner
    <2> SUFFICES ASSUME NEW z \in Strategies, NEW y \in Strategies,
                        NEW i \in 1..Len(outbox'[z]), NEW j \in 1..Len(outbox'[y]),
                        outbox'[z][i] = outbox'[y][j]
                 PROVE  z = y /\ i = j
      BY <2>1
    <2>2. \/ i \in 1..Len(outbox[z]) /\ outbox'[z][i] = outbox[z][i]
          \/ z = s /\ i = Len(outbox[s]) + 1 /\ outbox'[z][i] = o
      BY <1>8a
    <2>3. \/ j \in 1..Len(outbox[y]) /\ outbox'[y][j] = outbox[y][j]
          \/ y = s /\ j = Len(outbox[s]) + 1 /\ outbox'[y][j] = o
      BY <1>8a
    <2> QED
      BY <1>5, <2>2, <2>3 DEF SingleOwner
  <1>10. /\ \A i \in 1..Len(channel') : stage'[channel'[i]] = "queued"
         /\ \A i, j \in 1..Len(channel') : channel'[i] = channel'[j] => i = j
         /\ executor'.at # "recv" => executor'.op # NoOp /\ stage'[executor'.op] = "executing"
         /\ \A x, y \in polls' : stage'[x.op] = "polling" /\ (x.op = y.op => x = y)
    BY <1>1 DEF SingleOwner, TypeOK, Tx
  <1> QED
    BY <1>7, <1>8, <1>9, <1>10 DEF SingleOwner

\* reserve ends in one of those two ways.
LEMMA TryReserveSingleOwner ==
  ASSUME TypeOK, SingleOwner, NEW s \in Strategies, Planning(s), NEW p, TryReserve(s, p),
         UNCHANGED <<channel, executor, polls>>
  PROVE  SingleOwner'
  <1>1. CASE ReserveAndPush(s, p)
    BY <1>1, PlanningJob, PushSingleOwner DEF ReserveAndPush, Planning
  <1>2. CASE ReserveRefused(s, p) \/ BuildFails(s, p)
    BY <1>2, RefuseSingleOwner DEF ReserveRefused, BuildFails
  <1> QED
    BY <1>1, <1>2 DEF TryReserve

\* A handler moves on without taking up or giving up an operation.
LEMMA HandlerMovesSingleOwner ==
  ASSUME SingleOwner, UNCHANGED <<job, outbox, channel, executor, polls, stage>>,
         \A z \in Strategies : /\ Planning(z)' = Planning(z)
                               /\ pc'[z] = "sending" => outbox[z] # <<>>
  PROVE  SingleOwner'
  BY DEF SingleOwner

\* With the balance at hand a handler pushes, refuses or goes on probing.
LEMMA GotBalanceSingleOwner ==
  ASSUME TypeOK, SingleOwner, NEW s \in Strategies, Planning(s), NEW raw, NEW as_of,
         GotBalance(s, raw, as_of), UNCHANGED <<channel, executor, polls>>
  PROVE  SingleOwner'
  <1> DEFINE available == Spendable(raw, plan[job[s]].token)
             p == [plan[job[s]] EXCEPT !.available = available, !.as_of = as_of]
  <1>1. CASE TryReserve(s, p)
    BY <1>1, TryReserveSingleOwner
  <1>2. CASE Drop(s)
    BY <1>2, RefuseSingleOwner DEF Drop
  <1>3. CASE pc' = [pc EXCEPT ![s] = "probe"] /\ UNCHANGED <<job, outbox, stage>>
    <2>1. \A z \in Strategies : /\ Planning(z)' = Planning(z)
                               /\ pc'[z] = "sending" => outbox[z] # <<>>
      BY <1>3 DEF SingleOwner, Planning, TypeOK
    <2> QED
      BY <1>3, <2>1, HandlerMovesSingleOwner DEF Planning
  <1> QED
    BY <1>1, <1>2, <1>3 DEF GotBalance

\* A sent action moves from the head of an outbox to the tail of the channel, and
\* the one a full channel overwrites leaves it.
LEMMA SendActionSingleOwner ==
  ASSUME TypeOK, SingleOwner, NEW s \in Strategies, SendAction(s)
  PROVE  SingleOwner'
  <1> DEFINE o == Head(outbox[s])
             full == Len(channel) = ActionCapacity
             rest == IF full THEN Tail(channel) ELSE channel
  <1>1. /\ outbox[s] \in Seq(Ops) /\ outbox[s] # <<>> /\ channel \in Seq(Ops)
        /\ full => channel # <<>>
    BY DEF SendAction, SingleOwner, TypeOK
  <1>2. /\ o \in Ops /\ o = outbox[s][1] /\ stage[o] = "outbox"
        /\ full => Head(channel) = channel[1] /\ stage[Head(channel)] = "queued"
    BY <1>1 DEF SingleOwner
  <1>3. stage' = [x \in Ops |-> IF x = o THEN "queued"
                                ELSE IF full /\ x = Head(channel) THEN "dropped"
                                ELSE stage[x]]
    BY DEF SendAction
  <1>4. \A x \in Ops : x # o /\ stage[x] # "queued" => stage'[x] = stage[x]
    BY <1>2, <1>3
  <1>5. /\ outbox'[s] = Tail(outbox[s])
        /\ \A z \in Strategies : z # s => outbox'[z] = outbox[z]
    BY DEF SendAction, TypeOK
  <1>6. \A z \in Strategies : \A i \in 1..Len(outbox'[z]) :
           \E k \in 1..Len(outbox[z]) : /\ outbox'[z][i] = outbox[z][k]
                                       /\ k = IF z = s THEN i + 1 ELSE i
    <2> SUFFICES ASSUME NEW z \in Strategies, NEW i \in 1..Len(outbox'[z])
                 PROVE  \E k \in 1..Len(outbox[z]) : /\ outbox'[z][i] = outbox[z][k]
                                                    /\ k = IF z = s THEN i + 1 ELSE i
      OBVIOUS
    <2>1. CASE z # s
      BY <1>5, <2>1
    <2>2. CASE z = s
      <3>1. /\ Len(Tail(outbox[s])) = Len(outbox[s]) - 1
            /\ \A k \in 1..Len(Tail(outbox[s])) : Tail(outbox[s])[k] = outbox[s][k + 1]
        BY <1>1
      <3>2. i + 1 \in 1..Len(outbox[s])
        <4>0. Len(outbox'[z]) = Len(outbox[s]) - 1
          BY <1>5, <2>2, <3>1
        <4>1. i \in 1..(Len(outbox[s]) - 1) /\ Len(outbox[s]) \in Nat
          BY <1>1, <4>0
        <4> QED
          BY <4>1
      <3> QED
        BY <1>5, <2>2, <3>1, <3>2
    <2> QED
      BY <2>1, <2>2
  <1>7. \A z \in Strategies : \A i \in 1..Len(outbox'[z]) :
           /\ outbox'[z][i] \in Ops /\ outbox'[z][i] # o
           /\ stage'[outbox'[z][i]] = "outbox"
    <2> SUFFICES ASSUME NEW z \in Strategies, NEW i \in 1..Len(outbox'[z])
                 PROVE  /\ outbox'[z][i] \in Ops /\ outbox'[z][i] # o
                        /\ stage'[outbox'[z][i]] = "outbox"
      OBVIOUS
    <2>1. PICK k \in 1..Len(outbox[z]) : /\ outbox'[z][i] = outbox[z][k]
                                        /\ k = IF z = s THEN i + 1 ELSE i
      BY <1>6
    <2>2. outbox[z][k] \in Ops /\ stage[outbox[z][k]] = "outbox"
      BY <2>1 DEF SingleOwner, TypeOK
    <2>3. outbox[z][k] # o
      <3>1. 1 \in 1..Len(outbox[s])
        BY <1>1
      <3>2. outbox[z][k] = outbox[s][1] => z = s /\ k = 1
        BY <2>1, <3>1 DEF SingleOwner
      <3>3. z = s => k # 1
        BY <2>1
      <3> QED
        BY <1>2, <3>2, <3>3
    <2> QED
      BY <1>4, <2>1, <2>2, <2>3
  <1>8. \A z, y \in Strategies : \A i \in 1..Len(outbox'[z]), j \in 1..Len(outbox'[y]) :
           outbox'[z][i] = outbox'[y][j] => z = y /\ i = j
    <2> SUFFICES ASSUME NEW z \in Strategies, NEW y \in Strategies,
                        NEW i \in 1..Len(outbox'[z]), NEW j \in 1..Len(outbox'[y]),
                        outbox'[z][i] = outbox'[y][j]
                 PROVE  z = y /\ i = j
      OBVIOUS
    <2>1. PICK k \in 1..Len(outbox[z]) : /\ outbox'[z][i] = outbox[z][k]
                                        /\ k = IF z = s THEN i + 1 ELSE i
      BY <1>6
    <2>2. PICK m \in 1..Len(outbox[y]) : /\ outbox'[y][j] = outbox[y][m]
                                        /\ m = IF y = s THEN j + 1 ELSE j
      BY <1>6
    <2>3. outbox[z][k] = outbox[y][m]
      BY <2>1, <2>2
    <2>4. z = y /\ k = m
      BY <2>3 DEF SingleOwner
    <2> QED
      BY <2>1, <2>2, <2>4
  <1>9. \A z \in Strategies :
           /\ Planning(z)' <=> job'[z] # NoOp
           /\ Planning(z)' => stage'[job'[z]] = "planning"
           /\ pc'[z] = "sending" => outbox'[z] # <<>>
           /\ \A y \in Strategies : z # y /\ Planning(z)' => job'[z] # job'[y]
    <2> SUFFICES ASSUME NEW z \in Strategies
                 PROVE  /\ Planning(z)' <=> job'[z] # NoOp
                        /\ Planning(z)' => stage'[job'[z]] = "planning"
                        /\ pc'[z] = "sending" => outbox'[z] # <<>>
                        /\ \A y \in Strategies : z # y /\ Planning(z)' => job'[z] # job'[y]
      OBVIOUS
    <2>0. job' = job
      BY DEF SendAction
    <2>1. Planning(z)' <=> Planning(z)
      BY DEF SendAction, Planning, TypeOK
    <2>2. Planning(z) => stage'[job[z]] = "planning"
      BY <1>2, <1>4, PlanningJob
    <2>3. pc'[z] = "sending" => outbox'[z] # <<>>
      <3>1. CASE z # s
        BY <1>5, <3>1 DEF SendAction, SingleOwner, TypeOK
      <3>2. CASE z = s
        <4>1. pc'[s] = "sending" => Len(outbox[s]) # 1
          BY DEF SendAction, TypeOK
        <4>2. Len(Tail(outbox[s])) = Len(outbox[s]) - 1 /\ Len(outbox[s]) \in Nat
          BY <1>1
        <4>3. pc'[s] = "sending" => Len(outbox'[s]) # 0
          BY <1>5, <4>1, <4>2
        <4>4. Len(<<>>) = 0
          OBVIOUS
        <4> QED
          BY <3>2, <4>3, <4>4
      <3> QED
        BY <3>1, <3>2
    <2> QED
      BY <2>0, <2>1, <2>2, <2>3 DEF SingleOwner
  <1>10. \A i \in 1..Len(rest) :
            \E k \in 1..Len(channel) : rest[i] = channel[k] /\ k = IF full THEN i + 1 ELSE i
    <2>1. CASE ~full
      BY <2>1
    <2>2. CASE full
      <3>1. /\ Len(Tail(channel)) = Len(channel) - 1
            /\ \A k \in 1..Len(Tail(channel)) : Tail(channel)[k] = channel[k + 1]
        BY <1>1, <2>2
      <3>2. \A i \in 1..Len(rest) : i + 1 \in 1..Len(channel)
        BY <1>1, <2>2, <3>1
      <3> QED
        BY <2>2, <3>1, <3>2
    <2> QED
      BY <2>1, <2>2
  <1>11. rest \in Seq(Ops) /\ channel' = Append(rest, o)
    BY <1>1, <1>2 DEF SendAction
  <1>12. \A i \in 1..Len(rest) : rest[i] # o /\ stage'[rest[i]] = "queued"
    <2> SUFFICES ASSUME NEW i \in 1..Len(rest)
                 PROVE  rest[i] # o /\ stage'[rest[i]] = "queued"
      OBVIOUS
    <2>1. PICK k \in 1..Len(channel) : rest[i] = channel[k] /\ k = IF full THEN i + 1 ELSE i
      BY <1>10
    <2>2. channel[k] \in Ops /\ stage[channel[k]] = "queued"
      BY <1>1, <2>1 DEF SingleOwner
    <2>3. full => channel[k] # Head(channel)
      <3>1. full => k # 1 /\ 1 \in 1..Len(channel)
        BY <1>1, <2>1
      <3> QED
        BY <1>2, <2>1, <3>1 DEF SingleOwner
    <2> QED
      BY <1>2, <1>3, <2>1, <2>2, <2>3
  <1>13. \A i, j \in 1..Len(rest) : rest[i] = rest[j] => i = j
    <2> SUFFICES ASSUME NEW i \in 1..Len(rest), NEW j \in 1..Len(rest), rest[i] = rest[j]
                 PROVE  i = j
      OBVIOUS
    <2>1. PICK k \in 1..Len(channel) : rest[i] = channel[k] /\ k = IF full THEN i + 1 ELSE i
      BY <1>10
    <2>2. PICK m \in 1..Len(channel) : rest[j] = channel[m] /\ m = IF full THEN j + 1 ELSE j
      BY <1>10
    <2>3. k = m
      BY <2>1, <2>2 DEF SingleOwner
    <2> QED
      BY <2>1, <2>2, <2>3
  <1>14. /\ \A i \in 1..Len(channel') : stage'[channel'[i]] = "queued"
         /\ \A i, j \in 1..Len(channel') : channel'[i] = channel'[j] => i = j
    <2>1. stage'[o] = "queued"
      BY <1>2, <1>3
    <2>2. /\ Len(channel') = Len(rest) + 1 /\ Len(rest) \in Nat
          /\ \A i \in 1..Len(rest) : channel'[i] = rest[i]
          /\ channel'[Len(rest) + 1] = o
      BY <1>2, <1>11
    <2>3. \A i \in 1..Len(channel') : i \in 1..Len(rest) \/ i = Len(rest) + 1
      BY <2>2
    <2> QED
      BY <1>12, <1>13, <2>1, <2>2, <2>3
  <1>15. /\ executor'.at # "recv" => executor'.op # NoOp /\ stage'[executor'.op] = "executing"
         /\ \A x, y \in polls' : stage'[x.op] = "polling" /\ (x.op = y.op => x = y)
    <2>1. executor' = executor /\ polls' = polls
      BY DEF SendAction
    <2>2. executor.at # "recv" => stage'[executor.op] = "executing"
      BY <1>2, <1>4 DEF SingleOwner, TypeOK
    <2>3. \A x \in polls : stage'[x.op] = "polling"
      <3>1. \A x \in polls : x.op \in Ops /\ stage[x.op] = "polling"
        BY DEF SingleOwner, TypeOK, Tx
      <3> QED
        BY <1>2, <1>4, <3>1
    <2> QED
      BY <2>1, <2>2, <2>3 DEF SingleOwner
  <1> QED
    BY <1>7, <1>8, <1>9, <1>14, <1>15 DEF SingleOwner

\* The handlers' steps keep every operation in one place.
LEMMA HandlerSingleOwner ==
  ASSUME TypeOK, SingleOwner, NEW s \in Strategies, Handler(s)
  PROVE  SingleOwner'
  <1>1. CASE BalanceFromCache(s)
    BY <1>1, GotBalanceSingleOwner DEF BalanceFromCache, Planning
  <1>2. CASE BalanceRead(s)
    <2>1. \A z \in Strategies : /\ Planning(z)' = Planning(z)
                               /\ pc'[z] = "sending" => outbox[z] # <<>>
      BY <1>2 DEF BalanceRead, SingleOwner, Planning, TypeOK
    <2> QED
      BY <1>2, <2>1, HandlerMovesSingleOwner DEF BalanceRead, Planning
  <1>3. CASE BalanceReply(s)
    BY <1>3, GotBalanceSingleOwner DEF BalanceReply, Planning
  <1>4. CASE BalanceReadFails(s)
    BY <1>4, RefuseSingleOwner DEF BalanceReadFails, Drop, Planning
  <1>5. CASE HandlerReturns(s)
    <2>1. \A z \in Strategies : /\ Planning(z)' = Planning(z)
                               /\ pc'[z] = "sending" => outbox[z] # <<>>
      BY <1>5 DEF HandlerReturns, SingleOwner, Planning, TypeOK
    <2> QED
      BY <1>5, <2>1, HandlerMovesSingleOwner DEF HandlerReturns, Planning
  <1>6. CASE SendAction(s)
    BY <1>6, SendActionSingleOwner
  <1> QED
    BY <1>1, <1>2, <1>3, <1>4, <1>5, <1>6 DEF Handler

\* The executor takes the head of the channel.
LEMMA ExecuteActionSingleOwner ==
  ASSUME TypeOK, SingleOwner, ExecuteAction
  PROVE  SingleOwner'
  <1> DEFINE o == Head(channel)
  <1>1. channel \in Seq(Ops) /\ channel # <<>> /\ 1 \in 1..Len(channel)
    BY DEF ExecuteAction, TypeOK
  <1>2. o \in Ops /\ o = channel[1] /\ stage[o] = "queued"
    BY <1>1 DEF SingleOwner
  <1>3. \A x \in Ops : stage'[x] = IF x = o THEN "executing" ELSE stage[x]
    BY <1>2 DEF ExecuteAction, TypeOK
  <1>4. /\ channel' = Tail(channel)
        /\ Len(channel') = Len(channel) - 1
        /\ \A i \in 1..Len(channel') : channel'[i] = channel[i + 1]
    BY <1>1 DEF ExecuteAction
  <1>5. \A i \in 1..Len(channel') : i + 1 \in 1..Len(channel)
    BY <1>1, <1>4
  <1>6. /\ \A i \in 1..Len(channel') : stage'[channel'[i]] = "queued"
        /\ \A i, j \in 1..Len(channel') : channel'[i] = channel'[j] => i = j
    <2>1. \A i \in 1..Len(channel') :
             channel[i + 1] \in Ops /\ stage[channel[i + 1]] = "queued" /\ channel[i + 1] # o
      BY <1>1, <1>2, <1>5 DEF SingleOwner
    <2>2. \A i, j \in 1..Len(channel') : channel[i + 1] = channel[j + 1] => i = j
      BY <1>5 DEF SingleOwner
    <2>3. \A i \in 1..Len(channel') : stage'[channel'[i]] = "queued"
      BY <1>3, <1>4, <2>1, ZenonT(30)
    <2>4. \A i, j \in 1..Len(channel') : channel'[i] = channel'[j] => i = j
      BY <1>4, <2>2, ZenonT(30)
    <2> QED
      BY <2>3, <2>4
  <1>7. UNCHANGED <<pc, job, outbox, polls>>
    BY DEF ExecuteAction, handlers
  <1>8. executor'.op = o
    BY DEF ExecuteAction
  <1>9. \A s \in Strategies :
           /\ Planning(s)' <=> job'[s] # NoOp
           /\ Planning(s)' => stage'[job'[s]] = "planning"
           /\ pc'[s] = "sending" => outbox'[s] # <<>>
           /\ \A i \in 1..Len(outbox'[s]) : stage'[outbox'[s][i]] = "outbox"
    BY <1>2, <1>3, <1>7 DEF SingleOwner, Planning, TypeOK
  <1>10. \A s, z \in Strategies :
           /\ s # z /\ Planning(s)' => job'[s] # job'[z]
           /\ \A i \in 1..Len(outbox'[s]), j \in 1..Len(outbox'[z]) :
                  outbox'[s][i] = outbox'[z][j] => s = z /\ i = j
    BY <1>7 DEF SingleOwner, Planning
  <1>11. \A x, y \in polls' : stage'[x.op] = "polling" /\ (x.op = y.op => x = y)
    <2>1. \A x \in polls : x.op \in Ops /\ stage[x.op] = "polling"
      BY DEF SingleOwner, TypeOK, Tx
    <2> QED
      BY <1>2, <1>3, <1>7, <2>1 DEF SingleOwner
  <1>12. executor'.op # NoOp /\ stage'[executor'.op] = "executing"
    BY <1>2, <1>3, <1>8
  <1> QED
    BY <1>6, <1>9, <1>10, <1>11, <1>12 DEF SingleOwner

\* A hook runs: the operation leaves the executor or its poll for good.
LEMMA SettleSingleOwner ==
  ASSUME TypeOK, SingleOwner, NEW o \in Ops, stage[o] \in {"executing", "polling"}, Settle(o),
         UNCHANGED <<pc, job, outbox, channel>>,
         executor'.at # "recv" => executor' = executor /\ executor.op # o,
         polls' \subseteq polls, \A x \in polls' : x.op # o
  PROVE  SingleOwner'
  <1>1. \A x \in Ops : x # o => stage'[x] = stage[x]
    BY DEF Settle, TypeOK
  <1>2. \A x \in polls' : x.op \in Ops /\ stage[x.op] = "polling"
    BY DEF SingleOwner, TypeOK, Tx
  <1> QED
    BY <1>1, <1>2 DEF SingleOwner, Planning, TypeOK

\* The executor's steps keep every operation in one place.
LEMMA ExecuteSingleOwner ==
  ASSUME TypeOK, SingleOwner, Execute
  PROVE  SingleOwner'
  <1>0. /\ executor.at # "recv" => executor.op \in Ops /\ stage[executor.op] = "executing"
        /\ \A x \in polls : stage[x.op] = "polling"
    BY DEF SingleOwner, TypeOK
  <1>00. Waiting.at = "recv"
    BY DEF Waiting
  <1>1. CASE ExecuteAction
    BY <1>1, ExecuteActionSingleOwner
  <1>2. CASE FetchSeqNum
    BY <1>2 DEF FetchSeqNum, SingleOwner, Planning, TypeOK, handlers
  <1>3. CASE NextAttempt /\ executor.at # "recv" /\ UNCHANGED <<handlers, channel, polls>>
    BY <1>3 DEF NextAttempt, SingleOwner, Planning, TypeOK, handlers
  <1>4. CASE /\ executor.at # "recv" /\ executor' = Waiting /\ Settle(executor.op)
             /\ UNCHANGED <<handlers, channel, polls>>
    BY <1>0, <1>00, <1>4, SettleSingleOwner DEF handlers
  <1>5. CASE SubmitOk
    <2>1. executor.op \in Ops /\ stage[executor.op] = "executing"
      BY <1>0, <1>5 DEF SubmitOk
    <2>2. \A x \in Ops : stage'[x] = IF x = executor.op THEN "polling" ELSE stage[x]
      BY <1>5, <2>1 DEF SubmitOk, TypeOK
    <2>3. \A x \in polls' : x.op \in Ops /\ stage'[x.op] = "polling"
      <3>1. \A x \in polls : x.op \in Ops /\ stage[x.op] = "polling"
        BY DEF SingleOwner, TypeOK, Tx
      <3>2. Submitted.op = executor.op
        BY DEF Submitted
      <3> QED
        BY <1>5, <2>1, <2>2, <3>1, <3>2 DEF SubmitOk
    <2>3a. \A x, y \in polls' : x.op = y.op => x = y
      <3>1. \A x \in polls : x.op # executor.op
        BY <2>1 DEF SingleOwner
      <3>2. Submitted.op = executor.op
        BY DEF Submitted
      <3>3. polls' = polls \cup {Submitted}
        BY <1>5 DEF SubmitOk
      <3> QED
        BY <3>1, <3>2, <3>3 DEF SingleOwner
    <2>4. executor'.at = "recv" /\ UNCHANGED <<pc, job, outbox, channel>>
      BY <1>00, <1>5 DEF SubmitOk, handlers
    <2> QED
      BY <2>1, <2>2, <2>3, <2>3a, <2>4 DEF SingleOwner, Planning, TypeOK
  <1> QED
    BY <1>1, <1>2, <1>3, <1>4, <1>5
       DEF Execute, FetchSeqNumFails, SimulationEmpty, SubmitFails, SubmitReplyLost, RetryExhausted

\* So does every step of the system.
LEMMA NextSingleOwner == TypeOK /\ SingleOwner /\ [Next]_vars => SingleOwner'
  <1> SUFFICES ASSUME TypeOK, SingleOwner, [Next]_vars PROVE SingleOwner'
    OBVIOUS
  <1>1. ASSUME NEW s \in Strategies, NEW o \in Ops, pc[s] = "idle", stage[o] = "unused",
               pc' = [pc EXCEPT ![s] = "balance"], job' = [job EXCEPT ![s] = o],
               stage' = [stage EXCEPT ![o] = "planning"],
               UNCHANGED <<outbox, channel, executor, polls>>
        PROVE  SingleOwner'
    <2>1. \A x \in Ops : x # o => stage'[x] = stage[x]
      BY <1>1 DEF TypeOK
    <2>2. \A z \in Strategies : job[z] # o
      BY <1>1 DEF SingleOwner
    <2>3. \A x \in polls : x.op \in Ops /\ x.op # o
      BY <1>1 DEF SingleOwner, TypeOK, Tx
    <2>4. \A z \in Strategies :
             /\ Planning(z)' <=> job'[z] # NoOp
             /\ Planning(z)' => stage'[job'[z]] = "planning"
             /\ \A y \in Strategies : z # y /\ Planning(z)' => job'[z] # job'[y]
      BY <1>1, <2>1, <2>2 DEF SingleOwner, Planning, TypeOK
    <2>5. \A z \in Strategies : pc'[z] = "sending" => outbox'[z] # <<>>
      BY <1>1 DEF SingleOwner, TypeOK
    <2> QED
      BY <1>1, <2>1, <2>3, <2>4, <2>5, SMTT(30) DEF SingleOwner, TypeOK
  <1>2. ASSUME NEW o \in Ops, NEW t \in Tokens, NEW amount \in 1..MaxAmount,
               PlanLiquidation(o, t, amount)
        PROVE  SingleOwner'
    BY <1>1, <1>2 DEF PlanLiquidation, Strategies
  <1>3. ASSUME NEW o \in Ops, NEW t \in Tokens, PlanRebalance(o, t) PROVE SingleOwner'
    BY <1>1, <1>3 DEF PlanRebalance, Strategies
  <1>4. ASSUME NEW o \in Ops, PlanFlash(o) PROVE SingleOwner'
    <2>1. "liquidator" \in Strategies /\ \A z \in Strategies : job[z] # o
      BY <1>4 DEF PlanFlash, Strategies, SingleOwner
    <2> QED
      BY <1>4, <2>1, PushSingleOwner DEF PlanFlash
  <1>5. ASSUME NEW s \in Strategies, Handler(s) PROVE SingleOwner'
    BY <1>5, HandlerSingleOwner
  <1>6. CASE ProbeAdmitted
    BY <1>6, TryReserveSingleOwner DEF ProbeAdmitted, Planning, Strategies
  <1>7. CASE ProbeFails
    BY <1>7, RefuseSingleOwner DEF ProbeFails, Drop, Planning, Strategies
  <1>8. CASE Execute
    BY <1>8, ExecuteSingleOwner
  <1>9. ASSUME NEW x \in polls, PollEnds(x) PROVE SingleOwner'
    <2>1. x.op \in Ops /\ stage[x.op] = "polling"
      BY DEF SingleOwner, TypeOK, Tx
    <2>2. \A y \in polls' : y \in polls /\ y.op # x.op
      BY <1>9 DEF PollEnds, SingleOwner
    <2>3. executor.at # "recv" => executor.op # x.op
      BY <2>1 DEF SingleOwner
    <2> QED
      BY <1>9, <2>1, <2>2, <2>3, SettleSingleOwner DEF PollEnds, handlers
  <1>10. CASE UNCHANGED <<pc, job, outbox, channel, executor, polls, stage>>
    BY <1>10 DEF SingleOwner, Planning
  <1>11. CASE Restart
    BY <1>11 DEF Restart, SingleOwner, Planning, Waiting
  <1> QED
    BY <1>2, <1>3, <1>4, <1>5, <1>6, <1>7, <1>8, <1>9, <1>10, <1>11
       DEF Next, PlanningRead, Apply, Evict, Tick, vars, handlers

-----------------------------------------------------------------------------
(* What one step does to the stage of an operation and to its reservation. *)

\* The steps of the handlers, the executor and the polls, by what they do to
\* stages and reservations.
LEMMA HandlerStage ==
  ASSUME TypeOK, SingleOwner, NEW s \in Strategies,
         Handler(s) \/ (s = "balancer" /\ (ProbeAdmitted \/ ProbeFails))
  PROVE  \/ UNCHANGED <<stage, reservations>>
         \/ UNCHANGED reservations /\ SendAction(s)
         \/ Planning(s) /\ Refuse(s) /\ reservations' \in {reservations, Unexpired}
         \/ /\ Planning(s) /\ Push(s, job[s])
            /\ \E p : reservations' = Unexpired \cup
                  {[id |-> job[s], token |-> p.token, amount |-> p.amount, age |-> 0]}
  <1>1. ASSUME NEW p, TryReserve(s, p), Planning(s)
        PROVE  \/ Refuse(s) /\ reservations' \in {reservations, Unexpired}
               \/ /\ Push(s, job[s])
                  /\ reservations' = Unexpired \cup
                        {[id |-> job[s], token |-> p.token, amount |-> p.amount, age |-> 0]}
    BY <1>1 DEF TryReserve, ReserveAndPush, ReserveRefused, BuildFails
  <1>2. ASSUME NEW raw, NEW as_of, GotBalance(s, raw, as_of), Planning(s)
        PROVE  \/ UNCHANGED <<stage, reservations>>
               \/ Refuse(s) /\ reservations' \in {reservations, Unexpired}
               \/ /\ Push(s, job[s])
                  /\ \E p : reservations' = Unexpired \cup
                        {[id |-> job[s], token |-> p.token, amount |-> p.amount, age |-> 0]}
    <2> DEFINE p == [plan[job[s]] EXCEPT !.available = Spendable(raw, plan[job[s]].token), !.as_of = as_of]
    <2>1. TryReserve(s, p) \/ Drop(s) \/ UNCHANGED <<stage, reservations>>
      BY <1>2 DEF GotBalance
    <2>2. CASE TryReserve(s, p)
      BY <1>1, <1>2, <2>2
    <2> QED
      BY <2>1, <2>2 DEF Drop
  <1>3. CASE BalanceFromCache(s)
    BY <1>2, <1>3 DEF BalanceFromCache, Planning
  <1>4. CASE BalanceReply(s)
    BY <1>2, <1>4 DEF BalanceReply, Planning
  <1>5. CASE BalanceRead(s) \/ HandlerReturns(s) \/ SendAction(s)
    BY <1>5 DEF BalanceRead, HandlerReturns, SendAction, capital
  <1>6. CASE BalanceReadFails(s)
    BY <1>6 DEF BalanceReadFails, Drop, Planning
  <1>7. CASE s = "balancer" /\ ProbeAdmitted
    BY <1>1, <1>7 DEF ProbeAdmitted, Planning
  <1>8. CASE s = "balancer" /\ ProbeFails
    BY <1>8 DEF ProbeFails, Drop, Planning
  <1> QED
    BY <1>3, <1>4, <1>5, <1>6, <1>7, <1>8 DEF Handler

\* The executor's steps, by what they do to stages and reservations.
LEMMA ExecuteStage ==
  ASSUME TypeOK, SingleOwner, Execute
  PROVE  \/ UNCHANGED <<stage, reservations>>
         \/ ExecuteAction /\ UNCHANGED reservations
         \/ executor.at # "recv" /\ Settle(executor.op)
         \/ SubmitOk /\ UNCHANGED reservations
  BY DEF Execute, ExecuteAction, FetchSeqNum, FetchSeqNumFails, SimulationEmpty, SubmitFails,
         SubmitReplyLost, SubmitOk, NextAttempt, RetryExhausted, capital

\* Every step that ends an operation removes its reservation.
LEMMA NextReservations ==
  TypeOK /\ SingleOwner /\ ReservationsOfLiveOps /\ [Next]_vars => ReservationsOfLiveOps'
  <1> SUFFICES ASSUME TypeOK, SingleOwner, ReservationsOfLiveOps, [Next]_vars
               PROVE  ReservationsOfLiveOps'
    OBVIOUS
  <1> DEFINE Live == Pending \cup {"dropped"}
  <1>0. \A r \in reservations : r.id \in Ops /\ stage[r.id] \in Live
    BY DEF ReservationsOfLiveOps, TypeOK, Reservation
  <1>1. \A o \in Ops : stage[o] \in {"unused", "planning"} => \A r \in reservations : r.id # o
    BY <1>0 DEF Pending
  <1>2. ASSUME NEW o \in Ops, stage[o] = "unused", NEW v, stage' = [stage EXCEPT ![o] = v],
               UNCHANGED reservations
        PROVE  ReservationsOfLiveOps'
    BY <1>0, <1>1, <1>2 DEF ReservationsOfLiveOps, TypeOK
  <1>3. ASSUME NEW o \in Ops, NEW t \in Tokens, NEW amount \in 1..MaxAmount,
               PlanLiquidation(o, t, amount)
        PROVE  ReservationsOfLiveOps'
    BY <1>2, <1>3 DEF PlanLiquidation, capital
  <1>4. ASSUME NEW o \in Ops, PlanFlash(o) PROVE ReservationsOfLiveOps'
    BY <1>2, <1>4 DEF PlanFlash, Push, capital
  <1>5. ASSUME NEW o \in Ops, NEW t \in Tokens, PlanRebalance(o, t) PROVE ReservationsOfLiveOps'
    BY <1>2, <1>5 DEF PlanRebalance, capital
  <1>6. ASSUME NEW s \in Strategies, SendAction(s), UNCHANGED reservations PROVE ReservationsOfLiveOps'
    <2>1. \A o \in Ops : stage[o] \in Live => stage'[o] \in Live
      BY <1>6 DEF SendAction, Pending
    <2> QED
      BY <1>0, <1>6, <2>1 DEF ReservationsOfLiveOps
  <1>7. ASSUME NEW s \in Strategies, Planning(s), Refuse(s),
               reservations' \in {reservations, Unexpired}
        PROVE  ReservationsOfLiveOps'
    <2>1. job[s] \in Ops /\ stage[job[s]] = "planning"
      BY <1>7, PlanningJob
    <2>2. \A o \in Ops : o # job[s] => stage'[o] = stage[o]
      BY <1>7, <2>1 DEF Refuse, TypeOK
    <2>3. reservations' \subseteq reservations
      BY <1>7 DEF Unexpired
    <2> QED
      BY <1>0, <1>1, <2>1, <2>2, <2>3 DEF ReservationsOfLiveOps
  <1>8. ASSUME NEW s \in Strategies, Planning(s), Push(s, job[s]), NEW p,
               reservations' = Unexpired \cup
                  {[id |-> job[s], token |-> p.token, amount |-> p.amount, age |-> 0]}
        PROVE  ReservationsOfLiveOps'
    <2>1. job[s] \in Ops /\ stage[job[s]] = "planning"
      BY <1>8, PlanningJob
    <2>2. \A o \in Ops : stage'[o] = IF o = job[s] THEN "outbox" ELSE stage[o]
      BY <1>8, <2>1 DEF Push, TypeOK
    <2>3. \A r \in reservations' : r \in reservations \/ r.id = job[s]
      BY <1>8 DEF Unexpired
    <2> QED
      BY <1>0, <2>1, <2>2, <2>3 DEF ReservationsOfLiveOps, Pending
  <1>9. ASSUME NEW o \in Ops, Settle(o) PROVE ReservationsOfLiveOps'
    <2>1. \A x \in Ops : x # o => stage'[x] = stage[x]
      BY <1>9 DEF Settle, TypeOK
    <2>2. \A r \in reservations' : r \in reservations /\ r.id # o
      BY <1>9 DEF Settle, Released
    <2> QED
      BY <1>0, <2>1, <2>2 DEF ReservationsOfLiveOps
  <1>10. CASE UNCHANGED <<stage, reservations>>
    BY <1>10 DEF ReservationsOfLiveOps
  <1>11. ASSUME NEW s \in Strategies, Handler(s) \/ (s = "balancer" /\ (ProbeAdmitted \/ ProbeFails))
         PROVE  ReservationsOfLiveOps'
    BY <1>6, <1>7, <1>8, <1>10, <1>11, HandlerStage
  <1>12. CASE Execute
    <2>1. CASE ExecuteAction /\ UNCHANGED reservations
      <3>1. \A o \in Ops : stage[o] \in Live => stage'[o] \in Live
        BY <2>1 DEF ExecuteAction, Pending, TypeOK
      <3> QED
        BY <1>0, <2>1, <3>1 DEF ReservationsOfLiveOps
    <2>2. CASE SubmitOk /\ UNCHANGED reservations
      <3>1. \A o \in Ops : stage[o] \in Live => stage'[o] \in Live
        BY <2>2 DEF SubmitOk, Pending, TypeOK
      <3> QED
        BY <1>0, <2>2, <3>1 DEF ReservationsOfLiveOps
    <2>3. executor.at # "recv" => executor.op \in Ops
      BY DEF SingleOwner, TypeOK
    <2> QED
      BY <1>9, <1>10, <1>12, <2>1, <2>2, <2>3, ExecuteStage
  <1>13. ASSUME NEW x \in polls, PollEnds(x) PROVE ReservationsOfLiveOps'
    BY <1>9, <1>13 DEF PollEnds, TypeOK, Tx
  <1>14. CASE Tick
    <2>1. \A q \in reservations' : \E r \in reservations : q.id = r.id
      BY <1>14, AgedTypes DEF Tick, TypeOK
    <2> QED
      BY <1>0, <1>14, <2>1 DEF Tick, ReservationsOfLiveOps
  <1>15. CASE Restart
    BY <1>15 DEF Restart, ReservationsOfLiveOps
  <1>16. "balancer" \in Strategies
    BY DEF Strategies
  <1> QED
    BY <1>3, <1>4, <1>5, <1>10, <1>11, <1>12, <1>13, <1>14, <1>15, <1>16
       DEF Next, PlanningRead, Apply, Evict, vars, capital

-----------------------------------------------------------------------------
(* One submission per operation. *)

Sent == {"polling", "settled", "abandoned"}

\* An operation with a transaction on the network is out of the executor's hands,
\* unless a lost reply made the executor try again.
SentOps == \A x \in mempool \cup ledger : x.op \in lostReplies \/ stage[x.op] \in Sent

\* An operation that went to the network never comes back to the executor.
LEMMA SentStays ==
  ASSUME TypeOK, SingleOwner, [Next]_vars, NEW o \in Ops, stage[o] \in Sent
  PROVE  stage'[o] \in Sent
  <1>0. stage[o] \notin {"unused", "planning", "outbox", "queued", "executing"}
    BY DEF Sent
  <1>1. ASSUME NEW x \in Ops, NEW v, stage' = [stage EXCEPT ![x] = v], x # o
        PROVE  stage'[o] \in Sent
    BY <1>1 DEF TypeOK
  <1>2. ASSUME NEW x \in Ops, NEW t \in Tokens, NEW amount \in 1..MaxAmount,
               PlanLiquidation(x, t, amount)
        PROVE  stage'[o] \in Sent
    BY <1>0, <1>1, <1>2 DEF PlanLiquidation
  <1>3. ASSUME NEW x \in Ops, PlanFlash(x) PROVE stage'[o] \in Sent
    BY <1>0, <1>1, <1>3 DEF PlanFlash, Push
  <1>4. ASSUME NEW x \in Ops, NEW t \in Tokens, PlanRebalance(x, t) PROVE stage'[o] \in Sent
    BY <1>0, <1>1, <1>4 DEF PlanRebalance
  <1>5. ASSUME NEW x \in Ops, Settle(x) PROVE stage'[o] \in Sent
    BY <1>5 DEF Settle, Sent, TypeOK
  <1>6. ASSUME NEW s \in Strategies, Handler(s) \/ (s = "balancer" /\ (ProbeAdmitted \/ ProbeFails))
        PROVE  stage'[o] \in Sent
    <2>1. CASE SendAction(s)
      <3>1. /\ outbox[s] \in Seq(Ops) /\ outbox[s] # <<>> /\ channel \in Seq(Ops)
            /\ Len(channel) = ActionCapacity => channel # <<>>
        BY <2>1 DEF SendAction, SingleOwner, TypeOK
      <3>2. /\ Head(outbox[s]) \in Ops /\ stage[Head(outbox[s])] = "outbox"
            /\ Len(channel) = ActionCapacity => stage[Head(channel)] = "queued"
        BY <3>1 DEF SingleOwner
      <3> QED
        BY <1>0, <2>1, <3>2 DEF SendAction
    <2>2. CASE Planning(s) /\ (Refuse(s) \/ Push(s, job[s]))
      BY <1>0, <1>1, <2>2, PlanningJob DEF Refuse, Push
    <2> QED
      BY <1>6, <2>1, <2>2, HandlerStage
  <1>7. CASE Execute
    <2>1. CASE ExecuteAction
      <3>1. channel \in Seq(Ops) /\ channel # <<>>
        BY <2>1 DEF ExecuteAction, TypeOK
      <3>2. Head(channel) \in Ops /\ stage[Head(channel)] = "queued"
        BY <3>1 DEF SingleOwner
      <3> QED
        BY <1>0, <1>1, <2>1, <3>2 DEF ExecuteAction
    <2>2. executor.at # "recv" => executor.op \in Ops /\ stage[executor.op] = "executing"
      BY DEF SingleOwner, TypeOK
    <2>3. CASE SubmitOk
      BY <1>0, <1>1, <2>2, <2>3 DEF SubmitOk
    <2> QED
      BY <1>5, <1>7, <2>1, <2>2, <2>3, ExecuteStage
  <1>8. ASSUME NEW x \in polls, PollEnds(x) PROVE stage'[o] \in Sent
    BY <1>5, <1>8 DEF PollEnds, TypeOK, Tx
  <1>9. CASE UNCHANGED stage
    BY <1>9
  <1>10. CASE Restart
    BY <1>10 DEF Restart, Sent
  <1>11. "balancer" \in Strategies
    BY DEF Strategies
  <1> QED
    BY <1>2, <1>3, <1>4, <1>6, <1>7, <1>8, <1>9, <1>10, <1>11
       DEF Next, PlanningRead, Apply, Evict, Tick, vars

\* The steps that touch the network.
LEMMA NetworkSteps ==
  ASSUME TypeOK, SingleOwner, [Next]_vars
  PROVE  \/ UNCHANGED <<mempool, ledger, lostReplies>>
         \/ SubmitReplyLost
         \/ SubmitOk
         \/ \E x \in mempool, ok \in BOOLEAN : Apply(x, ok)
         \/ \E x \in mempool : Evict(x)
  BY DEF Next, vars, chain, history, PlanningRead, PlanLiquidation, PlanFlash, PlanRebalance, Handler,
         BalanceFromCache, BalanceRead, BalanceReply, BalanceReadFails, HandlerReturns, SendAction,
         ProbeAdmitted, ProbeFails, Execute, ExecuteAction, FetchSeqNum, FetchSeqNumFails,
         SimulationEmpty, SubmitFails, PollEnds, Tick, Restart

\* Every step keeps an operation with answered submissions on the network once.
LEMMA NextSubmittedOnce ==
  TypeOK /\ SingleOwner /\ SentOps /\ SubmittedOnce /\ [Next]_vars => (SentOps /\ SubmittedOnce)'
  <1> SUFFICES ASSUME TypeOK, SingleOwner, SentOps, SubmittedOnce, [Next]_vars
               PROVE  (SentOps /\ SubmittedOnce)'
    OBVIOUS
  <1>0. \A x \in mempool \cup ledger :
           x.op \in Ops /\ (x.op \in lostReplies \/ (stage[x.op] \in Sent /\ stage'[x.op] \in Sent))
    BY SentStays DEF SentOps, TypeOK, Tx, Applied
  <1>1. CASE UNCHANGED <<mempool, ledger, lostReplies>>
    BY <1>0, <1>1 DEF SentOps, SubmittedOnce
  <1>2. CASE SubmitReplyLost
    <2>1. /\ mempool' = mempool \cup {Submitted} /\ ledger' = ledger
          /\ lostReplies' = lostReplies \cup {executor.op} /\ Submitted.op = executor.op
      BY <1>2 DEF SubmitReplyLost, Submitted
    <2> QED
      BY <1>0, <2>1 DEF SentOps, SubmittedOnce
  <1>3. CASE SubmitOk
    <2>1. /\ mempool' = mempool \cup {Submitted} /\ ledger' = ledger
          /\ lostReplies' = lostReplies /\ Submitted.op = executor.op
      BY <1>3 DEF SubmitOk, Submitted, history
    <2>2. executor.op \in Ops /\ stage[executor.op] = "executing"
      BY <1>3 DEF SubmitOk, SingleOwner, TypeOK
    <2>3. stage'[executor.op] \in Sent
      BY <1>3, <2>2 DEF SubmitOk, Sent, TypeOK
    <2>4. \A x \in mempool \cup ledger : x.op = executor.op => x.op \in lostReplies
      BY <1>0, <2>2 DEF Sent
    <2> QED
      BY <1>0, <2>1, <2>3, <2>4 DEF SentOps, SubmittedOnce
  <1>4. ASSUME NEW x \in mempool, NEW ok \in BOOLEAN, Apply(x, ok)
        PROVE  (SentOps /\ SubmittedOnce)'
    <2>1. lostReplies' = lostReplies
      BY <1>4 DEF Apply
    <2>2. \A y \in mempool' \cup ledger' :
             \E z \in mempool \cup ledger : y.op = z.op /\ y.seq = z.seq
      BY <1>4 DEF Apply
    <2> QED
      BY <1>0, <2>1, <2>2 DEF SentOps, SubmittedOnce
  <1>5. ASSUME NEW x \in mempool, Evict(x) PROVE (SentOps /\ SubmittedOnce)'
    BY <1>0, <1>5 DEF Evict, SentOps, SubmittedOnce, history
  <1> QED
    BY <1>1, <1>2, <1>3, <1>4, <1>5, NetworkSteps

-----------------------------------------------------------------------------
(* The theorems. *)

IndInv == TypeOK /\ SingleOwner /\ ReservationsOfLiveOps /\ SentOps /\ SubmittedOnce

\* The conjunction is inductive, so it holds throughout.
LEMMA Inductive == Spec => []IndInv
  <1>1. Init => IndInv
    <2>1. Init => ReservationsOfLiveOps /\ SentOps /\ SubmittedOnce
      BY DEF Init, ReservationsOfLiveOps, SentOps, SubmittedOnce
    <2> QED
      BY <2>1, InitTypeOK, InitSingleOwner DEF IndInv
  <1>2. IndInv /\ [Next]_vars => IndInv'
    BY NextTypeOK, NextSingleOwner, NextReservations, NextSubmittedOnce DEF IndInv
  <1> QED
    BY <1>1, <1>2, PTL DEF Spec

\* Types: in particular the executor never counts past max_submission_retries.
THEOREM TypeCorrect == Spec => []TypeOK
  BY Inductive, PTL DEF IndInv

\* Every operation under way has one owner, so its settle hook is in one place.
THEOREM OneOwner == Spec => []SingleOwner
  BY Inductive, PTL DEF IndInv

\* No reservation outlives the settle hook of its operation, however retries,
\* polls, lag and expiry interleave.
THEOREM HooksRelease == Spec => []ReservationsOfLiveOps
  BY Inductive, PTL DEF IndInv

\* Without a lost submission reply an operation is submitted at most once.
THEOREM NoDuplicateSubmission == Spec => []SubmittedOnce
  BY Inductive, PTL DEF IndInv

\* A reservation ends by its operation settling, by its TTL or by a restart: no
\* other operation's settlement, refusal or submission frees it.
THEOREM ReservationsEndForAReason == Spec => ReservationEndsForAReason
  <1> DEFINE A == \A r \in reservations :
                   (\A q \in reservations' : q.id # r.id) =>
                       \/ stage'[r.id] = "settled"
                       \/ r.age >= ReservationTtl
                       \/ restarts' # restarts
  <1>1. IndInv /\ [Next]_vars => [A]_vars
    <2> SUFFICES ASSUME IndInv, [Next]_vars, NEW r \in reservations,
                        \A q \in reservations' : q.id # r.id,
                        stage'[r.id] # "settled", restarts' = restarts
                 PROVE  r.age >= ReservationTtl
      OBVIOUS
    <2>0. r.id \in Ops /\ r.age \in Int /\ (r.age >= ReservationTtl \/ r \in Unexpired)
      BY DEF IndInv, TypeOK, Reservation, Unexpired
    <2>1. CASE UNCHANGED reservations
      BY <2>1
    <2>2. CASE Unexpired \subseteq reservations'
      BY <2>0, <2>2
    <2>3. ASSUME NEW o \in Ops, Settle(o) PROVE FALSE
      <3>1. r.id = o
        BY <2>3 DEF Settle, Released
      <3> QED
        BY <2>3, <3>1 DEF Settle, IndInv, TypeOK
    <2>4. ASSUME NEW s \in Strategies, Handler(s) \/ (s = "balancer" /\ (ProbeAdmitted \/ ProbeFails))
          PROVE  r.age >= ReservationTtl
      <3>1. UNCHANGED reservations \/ Unexpired \subseteq reservations'
        BY <2>4, HandlerStage DEF IndInv
      <3> QED
        BY <2>1, <2>2, <3>1
    <2>5. CASE Execute
      <3>1. executor.at # "recv" => executor.op \in Ops
        BY DEF IndInv, SingleOwner, TypeOK
      <3> QED
        BY <2>1, <2>3, <2>5, <3>1, ExecuteStage DEF IndInv
    <2>6. ASSUME NEW x \in polls, PollEnds(x) PROVE FALSE
      BY <2>3, <2>6 DEF PollEnds, IndInv, TypeOK, Tx
    <2>7. CASE Tick
      BY <2>7, AgedTypes DEF Tick, IndInv, TypeOK
    <2>8. CASE Restart
      BY <2>8 DEF Restart, IndInv, TypeOK
    <2>9. "balancer" \in Strategies
      BY DEF Strategies
    <2> QED
      BY <2>1, <2>4, <2>5, <2>6, <2>7, <2>8, <2>9
         DEF Next, vars, capital, PlanningRead, PlanLiquidation, PlanFlash, PlanRebalance, Apply, Evict
  <1> QED
    BY <1>1, Inductive, PTL DEF Spec, ReservationEndsForAReason

-----------------------------------------------------------------------------
(* Amounts: the pipeline implements the reservation ledger, and operations in flight   *)
(* are covered by the wallet unless the gate was got round in a named way. The         *)
(* inductive invariant, on top of IndInv.                                              *)

\* Reservations of t whose operation has not landed, and what they add up to.
UnlandedOf(t) == {r \in reservations : r.token = t /\ ~Landed(r.id)}
Unlanded(t) == SumFunctionOnSet([r \in reservations |-> r.amount], UnlandedOf(t))

\* What transactions numbered above n took of t.
SpentAfter(t, n) ==
    {x \in ledger : x.ok /\ x.seq > n /\ plan[x.op].token = t /\ plan[x.op].amount > 0}
Spent(t, n) == SumFunctionOnSet([x \in ledger |-> plan[x.op].amount], SpentAfter(t, n))

\* raw is the balance of t as it was at number n.
Reading(t, raw, n) ==
    /\ n \in Nat /\ n <= account_seq
    /\ raw = wallet[t] + Spent(t, n)
    /\ raw <= InitialWallet[t]

\* The sets that sums run over are finite.
FiniteParts ==
    /\ IsFiniteSet(reservations)
    /\ IsFiniteSet(ledger)
    /\ IsFiniteSet({o \in Ops : stage[o] # "unused"})

\* An operation has one reservation, of what its plan spends.
OneReservation ==
    /\ \A q, r \in reservations : q.id = r.id => q = r
    /\ \A r \in reservations : r.token = plan[r.id].token /\ r.amount = plan[r.id].amount

\* A plan spends nothing before its operation is taken up.
Unplanned == \A o \in Ops : stage[o] = "unused" => plan[o].amount = 0

\* The stages of an operation with a transaction on the network.
OnNetwork == {"executing", "polling", "settled", "abandoned"}

Network ==
    /\ \A x \in mempool \cup ledger : stage[x.op] \in OnNetwork
    /\ \A x \in ledger : x.seq <= account_seq

\* Every figure a handler may reserve against is a balance that was read.
Readings ==
    /\ \A t \in Tokens : wallet[t] <= InitialWallet[t]
    /\ \A b \in balances : Reading(b.token, b.amount, b.as_of)
    /\ \A s \in Strategies : pc[s] \in {"reply", "probe"} =>
           \E t \in Tokens, raw \in Int, n \in Nat :
               /\ Reading(t, raw, n)
               /\ plan[job[s]].token = t /\ plan[job[s]].as_of = n
               /\ plan[job[s]].available = IF pc[s] = "reply" THEN raw ELSE Spendable(raw, t)

\* Without a recorded duplicate an operation spent once.
SpentOnce ==
    \A t \in Tokens : "duplicate" \notin blindSpots[t] =>
        \A x, y \in ledger :
            (x.ok /\ y.ok /\ x.op = y.op /\ plan[x.op].token = t /\ plan[x.op].amount > 0) => x = y

\* Without a blind spot an operation in flight still has its reservation.
Backed ==
    \A o \in Ops : stage[o] \in Pending /\ plan[o].amount > 0 /\ blindSpots[plan[o].token] = {} =>
        \E r \in reservations : r.id = o

\* What has not landed is covered by what is left.
Covered ==
    \A t \in Tokens : blindSpots[t] = {} => Unlanded(t) = 0 \/ Unlanded(t) <= Spendable(wallet[t], t)

CoverInv ==
    /\ FiniteParts
    /\ OneReservation
    /\ Unplanned
    /\ Network
    /\ Readings
    /\ SpentOnce
    /\ Backed
    /\ Covered

-----------------------------------------------------------------------------
(* The steps, by what they do to reservations, stages and the chain. *)

\* The ways an operation moves on without its reservation or the chain changing.
Moves == {<<"unused", "planning">>, <<"outbox", "queued">>, <<"queued", "dropped">>,
          <<"queued", "executing">>, <<"executing", "polling">>}

ChainKept == UNCHANGED <<wallet, account_seq, ledger>>

MovesOn ==
    /\ ChainKept
    /\ UNCHANGED <<reservations, blindSpots>>
    /\ \A o \in Ops : stage'[o] = stage[o] \/ <<stage[o], stage'[o]>> \in Moves
    /\ \E x : \A o \in Ops : <<stage[o], stage'[o]>> = <<"unused", "planning">> => o = x

Opens(o) ==
    /\ ChainKept
    /\ UNCHANGED <<reservations, blindSpots, plan>>
    /\ stage[o] = "unused"
    /\ stage' = [stage EXCEPT ![o] = "outbox"]

Refuses(o) ==
    /\ ChainKept
    /\ stage[o] = "planning"
    /\ stage' = [stage EXCEPT ![o] = "refused"]
    /\ \/ UNCHANGED <<reservations, blindSpots>>
       \/ reservations' = Unexpired /\ blindSpots' = Blinded(ExpiredInFlight, "expired")

\* The reservation is judged by a balance that was read.
Reserves(o, p, raw) ==
    /\ ChainKept
    /\ stage[o] = "planning"
    /\ stage' = [stage EXCEPT ![o] = "outbox"]
    /\ Reading(p.token, raw, p.as_of)
    /\ p.available = Spendable(raw, p.token)
    /\ CanReserve(p.amount, p.available, p.token)
    /\ reservations' = Unexpired \cup {[id |-> o, token |-> p.token, amount |-> p.amount, age |-> 0]}
    /\ plan' = [plan EXCEPT ![o] = p]
    /\ blindSpots' = [t \in Tokens |-> blindSpots[t]
           \cup (IF t \in ExpiredInFlight THEN {"expired"} ELSE {})
           \cup (IF t = p.token /\ ReadBeforeSpend(t, p.as_of) THEN {"stale"} ELSE {})]

Settles(o) ==
    /\ ChainKept
    /\ UNCHANGED blindSpots
    /\ stage[o] \in {"executing", "polling"}
    /\ Settle(o)

Shape ==
    \/ MovesOn
    \/ \E o \in Ops : Opens(o) \/ Refuses(o) \/ Settles(o)
    \/ \E o \in Ops, p \in Plan, raw \in Int : Reserves(o, p, raw)
    \/ \E x \in mempool, ok \in BOOLEAN : Apply(x, ok)
    \/ Tick
    \/ Restart

\* reserve and what follows it.
LEMMA TryReserveShape ==
  ASSUME TypeOK, SingleOwner, NEW s \in Strategies, Planning(s), NEW p \in Plan, NEW raw \in Int,
         Reading(p.token, raw, p.as_of), p.available = Spendable(raw, p.token), TryReserve(s, p), ChainKept
  PROVE  Shape
  <1>1. job[s] \in Ops /\ stage[job[s]] = "planning"
    BY PlanningJob
  <1>2. CASE ReserveAndPush(s, p)
    <2>1. Reserves(job[s], p, raw)
      BY <1>1, <1>2 DEF ReserveAndPush, Push, Reserves
    <2> QED
      BY <1>1, <2>1 DEF Shape
  <1>3. CASE ReserveRefused(s, p) \/ BuildFails(s, p)
    <2>1. Refuses(job[s])
      BY <1>1, <1>3 DEF ReserveRefused, BuildFails, Refuse, Refuses
    <2> QED
      BY <1>1, <2>1 DEF Shape
  <1> QED
    BY <1>2, <1>3 DEF TryReserve

\* Leaving without touching the reservation ledger.
LEMMA DropShape ==
  ASSUME TypeOK, SingleOwner, NEW s \in Strategies, Planning(s), Drop(s), ChainKept
  PROVE  Shape
  <1>1. job[s] \in Ops /\ stage[job[s]] = "planning"
    BY PlanningJob
  <1>2. Refuses(job[s])
    BY <1>1 DEF Drop, Refuse, Refuses
  <1> QED
    BY <1>1, <1>2 DEF Shape

\* Steps that keep stages, reservations and the chain.
LEMMA StillShape ==
  ASSUME ChainKept, UNCHANGED <<reservations, blindSpots, stage>>
  PROVE  Shape
  BY DEF Shape, MovesOn

\* What a handler does with a balance that was read.
LEMMA GotBalanceShape ==
  ASSUME TypeOK, SingleOwner, NEW s \in Strategies, Planning(s), NEW raw \in Int, NEW as_of \in Nat,
         Reading(plan[job[s]].token, raw, as_of), GotBalance(s, raw, as_of), ChainKept
  PROVE  Shape
  <1> DEFINE available == Spendable(raw, plan[job[s]].token)
             p == [plan[job[s]] EXCEPT !.available = available, !.as_of = as_of]
  <1>1. plan[job[s]] \in Plan
    BY PlanningJob DEF TypeOK
  <1>2. available \in Int
    BY DEF Spendable
  <1>3. p \in Plan /\ p.token = plan[job[s]].token /\ p.available = available /\ p.as_of = as_of
    BY <1>1, <1>2 DEF Plan
  <1>4. CASE TryReserve(s, p)
    <2>1. Reading(p.token, raw, p.as_of) /\ p.available = Spendable(raw, p.token)
      BY <1>3
    <2> HIDE DEF p
    <2> QED
      BY <1>3, <1>4, <2>1, TryReserveShape
  <1>5. CASE Drop(s)
    BY <1>5, DropShape
  <1>6. CASE UNCHANGED <<job, outbox, stage, reservations, blindSpots>>
    BY <1>6, StillShape
  <1> QED
    BY <1>4, <1>5, <1>6 DEF GotBalance

\* Every step of a handler.
LEMMA HandlerShape ==
  ASSUME TypeOK, SingleOwner, Readings, NEW s \in Strategies,
         Handler(s) \/ (s = "balancer" /\ (ProbeAdmitted \/ ProbeFails))
  PROVE  Shape
  <1>0. Planning(s) => job[s] \in Ops /\ plan[job[s]] \in Plan
    BY PlanningJob DEF TypeOK
  <1>1. CASE BalanceFromCache(s)
    <2>1. PICK b \in FreshBalances(plan[job[s]].token) : GotBalance(s, b.amount, b.as_of)
      BY <1>1 DEF BalanceFromCache
    <2>2. b \in balances /\ b.token = plan[job[s]].token /\ b.amount \in Int /\ b.as_of \in Nat
      BY DEF FreshBalances, TypeOK, CachedBalance
    <2>3. Reading(plan[job[s]].token, b.amount, b.as_of)
      BY <2>2 DEF Readings
    <2> QED
      BY <1>1, <2>1, <2>2, <2>3, GotBalanceShape DEF BalanceFromCache, Planning, ChainKept, chain
  <1>2. CASE BalanceReply(s)
    <2>1. Planning(s) /\ GotBalance(s, plan[job[s]].available, plan[job[s]].as_of) /\ ChainKept
      BY <1>2 DEF BalanceReply, Planning, ChainKept, chain
    <2>2. plan[job[s]].available \in Int /\ plan[job[s]].as_of \in Nat
      BY <1>0, <2>1 DEF Plan
    <2>3. Reading(plan[job[s]].token, plan[job[s]].available, plan[job[s]].as_of)
      BY <1>2 DEF BalanceReply, Readings
    <2> QED
      BY <2>1, <2>2, <2>3, GotBalanceShape
  <1>3. CASE BalanceRead(s) \/ HandlerReturns(s)
    BY <1>3, StillShape DEF BalanceRead, HandlerReturns, ChainKept, chain, capital, history
  <1>4. CASE BalanceReadFails(s)
    BY <1>4, DropShape DEF BalanceReadFails, Planning, ChainKept, chain
  <1>5. CASE SendAction(s)
    <2>1. /\ outbox[s] \in Seq(Ops) /\ outbox[s] # <<>> /\ channel \in Seq(Ops)
          /\ Len(channel) = ActionCapacity => channel # <<>>
      BY <1>5 DEF SendAction, SingleOwner, TypeOK
    <2>2. /\ Head(outbox[s]) \in Ops /\ stage[Head(outbox[s])] = "outbox"
          /\ Len(channel) = ActionCapacity => stage[Head(channel)] = "queued"
      BY <2>1 DEF SingleOwner
    <2>3. \A o \in Ops : stage'[o] = stage[o] \/ <<stage[o], stage'[o]>> \in Moves
      BY <1>5, <2>2 DEF SendAction, Moves
    <2> QED
      BY <1>5, <2>2, <2>3 DEF SendAction, Shape, MovesOn, ChainKept, chain, capital, history
  <1>6. CASE s = "balancer" /\ ProbeAdmitted
    <2>1. Planning(s) /\ pc[s] = "probe" /\ ChainKept
      BY <1>6 DEF ProbeAdmitted, Planning, ChainKept, chain
    <2> DEFINE q == plan[job[s]]
    <2>2. PICK amount \in Probed(q.available) : TryReserve(s, [q EXCEPT !.amount = amount])
      BY <1>6 DEF ProbeAdmitted
    <2>3. amount \in Nat
      BY DEF Probed
    <2>4. PICK raw \in Int : q.available = Spendable(raw, q.token) /\ Reading(q.token, raw, q.as_of)
      BY <2>1 DEF Readings
    <2> DEFINE p == [q EXCEPT !.amount = amount]
    <2>5. p \in Plan /\ p.token = q.token /\ p.available = q.available /\ p.as_of = q.as_of
      BY <1>0, <2>1, <2>3 DEF Plan
    <2>6. Reading(p.token, raw, p.as_of) /\ p.available = Spendable(raw, p.token)
      BY <2>4, <2>5
    <2>7. TryReserve(s, p)
      BY <2>2
    <2> HIDE DEF p, q
    <2> QED
      BY <2>1, <2>5, <2>6, <2>7, TryReserveShape
  <1>7. CASE s = "balancer" /\ ProbeFails
    BY <1>7, DropShape DEF ProbeFails, Planning, ChainKept, chain
  <1> QED
    BY <1>1, <1>2, <1>3, <1>4, <1>5, <1>6, <1>7 DEF Handler

\* Every step of the executor.
LEMMA ExecuteShape ==
  ASSUME TypeOK, SingleOwner, Execute
  PROVE  Shape
  <1>0. ChainKept /\ UNCHANGED blindSpots
    BY DEF Execute, ExecuteAction, FetchSeqNum, FetchSeqNumFails, SimulationEmpty, SubmitFails,
           SubmitReplyLost, SubmitOk, ChainKept, chain, history
  <1>1. CASE ExecuteAction /\ UNCHANGED reservations
    <2>1. channel \in Seq(Ops) /\ channel # <<>>
      BY <1>1 DEF ExecuteAction, TypeOK
    <2>2. Head(channel) \in Ops /\ stage[Head(channel)] = "queued"
      BY <2>1 DEF SingleOwner
    <2>3. \A o \in Ops : stage'[o] = stage[o] \/ <<stage[o], stage'[o]>> \in Moves
      BY <1>1, <2>2 DEF ExecuteAction, TypeOK, Moves
    <2> QED
      BY <1>0, <1>1, <2>2, <2>3 DEF Shape, MovesOn, ExecuteAction, TypeOK
  <1>2. executor.at # "recv" => executor.op \in Ops /\ stage[executor.op] = "executing"
    BY DEF SingleOwner, TypeOK
  <1>3. CASE SubmitOk /\ UNCHANGED reservations
    <2>1. \A o \in Ops : stage'[o] = stage[o] \/ <<stage[o], stage'[o]>> \in Moves
      BY <1>2, <1>3 DEF SubmitOk, TypeOK, Moves
    <2> QED
      BY <1>0, <1>2, <1>3, <2>1 DEF Shape, MovesOn, SubmitOk, TypeOK
  <1>4. CASE executor.at # "recv" /\ Settle(executor.op)
    BY <1>0, <1>2, <1>4 DEF Shape, Settles
  <1>5. CASE UNCHANGED <<stage, reservations>>
    BY <1>0, <1>5, StillShape
  <1> QED
    BY <1>1, <1>3, <1>4, <1>5, ExecuteStage

\* Every step has one of the shapes.
LEMMA NextShape ==
  ASSUME TypeOK, SingleOwner, Readings, [Next]_vars
  PROVE  Shape
  <1>1. CASE \E t \in Tokens : PlanningRead(t)
    BY <1>1, StillShape DEF PlanningRead, ChainKept, chain, history
  <1>2. ASSUME NEW o \in Ops, stage[o] = "unused", stage' = [stage EXCEPT ![o] = "planning"],
               ChainKept, UNCHANGED <<reservations, blindSpots>>
        PROVE  Shape
    <2>1. \A x \in Ops : stage'[x] = stage[x] \/ <<stage[x], stage'[x]>> \in Moves
      BY <1>2 DEF TypeOK, Moves
    <2> QED
      BY <1>2, <2>1 DEF Shape, MovesOn, TypeOK
  <1>3. ASSUME NEW o \in Ops, NEW t \in Tokens, NEW amount \in 1..MaxAmount, PlanLiquidation(o, t, amount)
        PROVE  Shape
    BY <1>2, <1>3 DEF PlanLiquidation, ChainKept, chain, capital, history
  <1>4. ASSUME NEW o \in Ops, NEW t \in Tokens, PlanRebalance(o, t)
        PROVE  Shape
    BY <1>2, <1>4 DEF PlanRebalance, ChainKept, chain, capital, history
  <1>5. ASSUME NEW o \in Ops, PlanFlash(o)
        PROVE  Shape
    BY <1>5 DEF PlanFlash, Push, Shape, Opens, ChainKept, chain, capital, history
  <1>6. ASSUME NEW s \in Strategies, Handler(s)
        PROVE  Shape
    BY <1>6, HandlerShape
  <1>7. CASE ProbeAdmitted \/ ProbeFails
    BY <1>7, HandlerShape DEF Strategies
  <1>8. CASE Execute
    BY <1>8, ExecuteShape
  <1>9. ASSUME NEW x \in polls, PollEnds(x)
        PROVE  Shape
    <2>1. x.op \in Ops /\ stage[x.op] = "polling"
      BY DEF TypeOK, Tx, SingleOwner
    <2> QED
      BY <1>9, <2>1 DEF PollEnds, Shape, Settles, ChainKept, chain, history
  <1>10. CASE \E x \in mempool, ok \in BOOLEAN : Apply(x, ok)
    BY <1>10 DEF Shape
  <1>11. CASE \E x \in mempool : Evict(x)
    BY <1>11, StillShape DEF Evict, ChainKept, capital, history
  <1>12. CASE Tick \/ Restart
    BY <1>12 DEF Shape
  <1>13. CASE UNCHANGED vars
    BY <1>13, StillShape DEF vars, ChainKept, chain, capital, history
  <1> QED
    BY <1>1, <1>3, <1>4, <1>5, <1>6, <1>7, <1>8, <1>9, <1>10, <1>11, <1>12, <1>13 DEF Next

-----------------------------------------------------------------------------
(* What a step does to plans, stages and amounts. *)

\* A plan only changes while its operation is in the hands of a handler.
LEMMA PlanStays ==
  ASSUME TypeOK, SingleOwner, [Next]_vars, NEW o \in Ops,
         stage[o] # "planning", stage[o] = "unused" => stage'[o] = "unused"
  PROVE  plan'[o] = plan[o]
  <1>0. ASSUME NEW x \in Ops, NEW v, x # o, plan' = [plan EXCEPT ![x] = v] PROVE plan'[o] = plan[o]
    BY <1>0 DEF TypeOK
  <1>1. ASSUME NEW x \in Ops, NEW t \in Tokens, NEW amount \in 1..MaxAmount, PlanLiquidation(x, t, amount)
        PROVE  plan'[o] = plan[o]
    BY <1>1 DEF PlanLiquidation, TypeOK
  <1>2. ASSUME NEW x \in Ops, NEW t \in Tokens, PlanRebalance(x, t)
        PROVE  plan'[o] = plan[o]
    BY <1>2 DEF PlanRebalance, TypeOK
  <1>3. ASSUME NEW s \in Strategies, Planning(s) PROVE job[s] \in Ops /\ job[s] # o
    BY <1>3, PlanningJob
  <1>4. ASSUME NEW s \in Strategies, NEW p, Planning(s), TryReserve(s, p) PROVE plan'[o] = plan[o]
    BY <1>0, <1>3, <1>4 DEF TryReserve, ReserveAndPush, ReserveRefused, BuildFails
  <1>5. ASSUME NEW s \in Strategies, NEW raw, NEW as_of, Planning(s), GotBalance(s, raw, as_of)
        PROVE  plan'[o] = plan[o]
    BY <1>0, <1>3, <1>4, <1>5 DEF GotBalance, Drop
  <1>6. ASSUME NEW s \in Strategies, Handler(s) PROVE plan'[o] = plan[o]
    <2>1. CASE BalanceFromCache(s)
      BY <1>5, <2>1 DEF BalanceFromCache, Planning
    <2>2. CASE BalanceReply(s)
      BY <1>5, <2>2 DEF BalanceReply, Planning
    <2>3. CASE BalanceRead(s)
      BY <1>3, <2>3 DEF BalanceRead, Planning, TypeOK
    <2>4. CASE BalanceReadFails(s) \/ HandlerReturns(s) \/ SendAction(s)
      BY <2>4 DEF BalanceReadFails, Drop, HandlerReturns, SendAction
    <2> QED
      BY <1>6, <2>1, <2>2, <2>3, <2>4 DEF Handler
  <1>7. "balancer" \in Strategies
    BY DEF Strategies
  <1>8. CASE ProbeAdmitted
    BY <1>4, <1>7, <1>8 DEF ProbeAdmitted, Planning
  <1>9. CASE UNCHANGED plan
    BY <1>9
  <1> QED
    BY <1>1, <1>2, <1>6, <1>8, <1>9
       DEF Next, vars, handlers, PlanningRead, PlanFlash, ProbeFails, Drop, Execute, ExecuteAction, FetchSeqNum,
           FetchSeqNumFails, SimulationEmpty, SubmitFails, SubmitReplyLost, SubmitOk, PollEnds, Apply, Evict,
           Tick, Restart
\* What a step can do to the stage of an operation.
LEMMA StageMoves ==
  ASSUME TypeOK, Shape, NEW o \in Ops
  PROVE  /\ stage'[o] = "unused" => stage[o] = "unused"
         /\ stage[o] \in OnNetwork => stage'[o] \in OnNetwork
         /\ stage[o] # "unused" => stage'[o] # "unused"
  <1> USE DEF OnNetwork
  <1>1. CASE MovesOn
    BY <1>1 DEF MovesOn, Moves
  <1>2. ASSUME NEW x \in Ops, Opens(x) \/ Refuses(x) \/ Settles(x)
        PROVE  /\ stage'[o] = "unused" => stage[o] = "unused"
               /\ stage[o] \in OnNetwork => stage'[o] \in OnNetwork
               /\ stage[o] # "unused" => stage'[o] # "unused"
    BY <1>2 DEF Opens, Refuses, Settles, Settle, TypeOK
  <1>3. ASSUME NEW x \in Ops, NEW p \in Plan, NEW raw \in Int, Reserves(x, p, raw)
        PROVE  /\ stage'[o] = "unused" => stage[o] = "unused"
               /\ stage[o] \in OnNetwork => stage'[o] \in OnNetwork
               /\ stage[o] # "unused" => stage'[o] # "unused"
    BY <1>3 DEF Reserves, TypeOK
  <1>4. CASE UNCHANGED stage
    BY <1>4
  <1>5. CASE Restart
    BY <1>5 DEF Restart, Pending
  <1> QED
    BY <1>1, <1>2, <1>3, <1>4, <1>5 DEF Shape, Apply, Tick

\* The plan of an operation that has left the handler, or that no handler took
\* up, does not change.
LEMMA PlansKept ==
  ASSUME TypeOK, SingleOwner, Shape, [Next]_vars
  PROVE  /\ \A o \in Ops : stage[o] \notin {"unused", "planning"} => plan'[o] = plan[o]
         /\ \A o \in Ops : stage'[o] = "unused" => stage[o] = "unused" /\ plan'[o] = plan[o]
  BY StageMoves, PlanStays

\* An operation is taken up together with its plan.
LEMMA NextUnplanned ==
  ASSUME TypeOK, SingleOwner, Shape, [Next]_vars, Unplanned
  PROVE  Unplanned'
  BY PlansKept DEF Unplanned

\* A transaction gets on the network from the executor, and on the ledger from
\* the network, under the next number.
LEMMA NextNetwork ==
  ASSUME TypeOK, SingleOwner, Shape, [Next]_vars, Network
  PROVE  Network'
  <1>0. /\ \A x \in mempool \cup ledger : x.op \in Ops /\ x.seq \in Nat /\ stage'[x.op] \in OnNetwork
        /\ \A x \in ledger : x.seq <= account_seq
    BY StageMoves DEF TypeOK, Tx, Applied, Network
  <1>1. ASSUME NEW x \in mempool, NEW ok \in BOOLEAN, Apply(x, ok)
        PROVE  Network'
    <2>1. /\ mempool' \subseteq mempool /\ account_seq' = x.seq /\ x.seq = account_seq + 1
          /\ ledger' = ledger \cup {[op |-> x.op, seq |-> x.seq, ok |-> ok]}
      BY <1>1 DEF Apply
    <2> QED
      BY <1>0, <2>1 DEF Network, TypeOK
  <1>2. CASE SubmitReplyLost \/ SubmitOk
    <2>1. /\ mempool' = mempool \cup {Submitted} /\ UNCHANGED <<ledger, account_seq>>
          /\ Submitted.op = executor.op
      BY <1>2 DEF SubmitReplyLost, SubmitOk, Submitted
    <2>2. executor.op \in Ops /\ stage[executor.op] = "executing"
      BY <1>2 DEF SubmitReplyLost, SubmitOk, SingleOwner, TypeOK
    <2>3. stage'[executor.op] \in OnNetwork
      BY <2>2, StageMoves DEF OnNetwork
    <2> QED
      BY <1>0, <2>1, <2>3 DEF Network
  <1>3. ASSUME NEW x \in mempool, Evict(x)
        PROVE  Network'
    BY <1>0, <1>3 DEF Network, Evict
  <1>4. CASE UNCHANGED <<mempool, ledger>> /\ UNCHANGED account_seq
    BY <1>0, <1>4 DEF Network
  <1>5. UNCHANGED account_seq \/ \E x \in mempool, ok \in BOOLEAN : Apply(x, ok)
    BY DEF Shape, MovesOn, Opens, Refuses, Reserves, Settles, ChainKept, Tick, Restart, chain
  <1> QED
    BY <1>1, <1>2, <1>3, <1>4, <1>5, NetworkSteps

\* While the chain stands still, what was spent since a number is the same.
LEMMA SpentKept ==
  ASSUME TypeOK, SingleOwner, Shape, [Next]_vars, Network, ChainKept, NEW t, NEW n
  PROVE  Spent(t, n)' = Spent(t, n)
  <1>1. \A x \in ledger : plan'[x.op] = plan[x.op]
    BY PlansKept DEF Network, OnNetwork, TypeOK, Applied
  <1>2. ledger' = ledger
    BY DEF ChainKept
  <1>3. SpentAfter(t, n)' = SpentAfter(t, n)
    BY <1>1, <1>2 DEF SpentAfter
  <1>4. [x \in ledger' |-> plan'[x.op].amount] = [x \in ledger |-> plan[x.op].amount]
    BY <1>1, <1>2
  <1> QED
    BY <1>3, <1>4 DEF Spent

\* So a balance that was read stays one.
LEMMA ReadingKept ==
  ASSUME TypeOK, SingleOwner, Shape, [Next]_vars, Network, ChainKept, NEW t, NEW raw, NEW n, Reading(t, raw, n)
  PROVE  Reading(t, raw, n)'
  BY SpentKept DEF Reading, ChainKept
-----------------------------------------------------------------------------
(* The figures that handlers reserve against stay balances that were read. *)

\* What transactions took is a number.
LEMMA SpentType ==
  ASSUME TypeOK, FiniteParts, NEW t, NEW n
  PROVE  /\ SpentAfter(t, n) \subseteq ledger /\ IsFiniteSet(SpentAfter(t, n))
         /\ \A x \in ledger : plan[x.op].amount \in Nat
         /\ Spent(t, n) \in Nat
  <1> DEFINE f == [x \in ledger |-> plan[x.op].amount]
  <1>1. SpentAfter(t, n) \subseteq ledger
    BY DEF SpentAfter
  <1>2. IsFiniteSet(SpentAfter(t, n))
    BY <1>1, FS_Subset DEF FiniteParts
  <1>3. \A x \in ledger : plan[x.op].amount \in Nat
    BY DEF TypeOK, Applied, Plan
  <1>4. \A x \in SpentAfter(t, n) : f[x] \in Nat
    BY <1>1, <1>3
  <1>5. SumFunctionOnSet(f, SpentAfter(t, n)) \in Nat
    <2> HIDE DEF f
    <2> QED
      BY <1>2, <1>4, SumAdd
  <1> QED
    BY <1>1, <1>2, <1>3, <1>5 DEF Spent

\* Nothing was spent since now.
LEMMA ReadNow ==
  ASSUME TypeOK, Network, NEW t \in Tokens, wallet[t] <= InitialWallet[t]
  PROVE  Reading(t, wallet[t], account_seq)
  <1>1. SpentAfter(t, account_seq) = {}
    BY DEF SpentAfter, Network, TypeOK, Applied
  <1>2. Spent(t, account_seq) = 0
    BY <1>1, SumEmpty DEF Spent
  <1> QED
    BY <1>2 DEF Reading, TypeOK

\* A transaction that lands is spent after every balance read before it.
LEMMA ReadingLands ==
  ASSUME TypeOK, FiniteParts, Network, NEW x \in mempool, NEW ok \in BOOLEAN, Apply(x, ok),
         NEW t \in Tokens, NEW raw, NEW n, Reading(t, raw, n)
  PROVE  Reading(t, raw, n)'
  <1> DEFINE y == [op |-> x.op, seq |-> x.seq, ok |-> ok]
             f == [z \in ledger |-> plan[z.op].amount]
             g == [z \in ledger' |-> plan[z.op].amount]
             A == SpentAfter(t, n)
             B == SpentAfter(t, n)'
             p == plan[x.op]
  <1>1. /\ ledger' = ledger \cup {y} /\ plan' = plan /\ account_seq' = x.seq /\ x.seq = account_seq + 1
        /\ ok => wallet[p.token] >= p.amount
        /\ wallet' = [wallet EXCEPT ![p.token] = IF ok THEN @ - p.amount ELSE @]
    BY DEF Apply, handlers
  <1>2. /\ y.op = x.op /\ y.seq = x.seq /\ y.ok = ok
        /\ x.op \in Ops /\ x.seq \in Nat /\ p.token \in Tokens /\ p.amount \in Nat
        /\ account_seq \in Nat /\ wallet \in [Tokens -> Nat]
    BY DEF TypeOK, Tx, Plan
  <1>3. y \notin ledger
    BY <1>1, <1>2 DEF Network
  <1>4. n \in Nat /\ n < y.seq
    BY <1>1, <1>2 DEF Reading
  <1>5. /\ A \subseteq ledger /\ IsFiniteSet(A) /\ Spent(t, n) \in Nat
        /\ \A z \in ledger : plan[z.op].amount \in Nat
    BY SpentType
  <1>6. \A z \in A : f[z] \in Nat /\ f[z] = g[z]
    BY <1>1, <1>5
  <1>7. SumFunctionOnSet(g, A) = Spent(t, n)
    <2>1. Spent(t, n) = SumFunctionOnSet(f, A)
      BY DEF Spent
    <2> HIDE DEF f, g, A
    <2> QED
      BY <1>5, <1>6, <2>1, SumSame
  <1>8. Spent(t, n)' = SumFunctionOnSet(g, B)
    BY <1>1 DEF Spent
  <1>9. CASE ok /\ p.token = t /\ p.amount > 0
    <2>1. B = A \cup {y}
      BY <1>1, <1>2, <1>4, <1>9 DEF SpentAfter
    <2>2. y \in B /\ B \ {y} = A
      BY <1>3, <1>5, <2>1
    <2>3. IsFiniteSet(B)
      <3> HIDE DEF A, B, y
      <3> QED
        BY <1>5, <2>1, FS_AddElement
    <2>4. \A z \in B : g[z] \in Nat
      BY <1>1, <1>2, <1>5, <2>1
    <2>5. g[y] = p.amount
      BY <1>1, <1>2
    <2>6. Spent(t, n)' = p.amount + Spent(t, n)
      <3> HIDE DEF g, A, B, y, p
      <3> QED
        BY <1>7, <1>8, <2>2, <2>3, <2>4, <2>5, SumAdd
    <2>7. wallet'[t] = wallet[t] - p.amount
      BY <1>1, <1>2, <1>9
    <2> QED
      BY <1>1, <1>2, <1>5, <2>6, <2>7 DEF Reading
  <1>10. CASE ~(ok /\ p.token = t /\ p.amount > 0)
    <2>1. B = A
      BY <1>1, <1>2, <1>10 DEF SpentAfter
    <2>2. Spent(t, n)' = Spent(t, n)
      BY <1>7, <1>8, <2>1
    <2>3. wallet'[t] = wallet[t]
      BY <1>1, <1>2, <1>10
    <2> QED
      BY <1>1, <1>2, <2>2, <2>3 DEF Reading
  <1> QED
    BY <1>9, <1>10

\* The steps that write the balance cache.
LEMMA BalanceSteps ==
  ASSUME TypeOK, SingleOwner, [Next]_vars
  PROVE  \/ UNCHANGED balances
         \/ \E t \in Tokens : PlanningRead(t)
         \/ \E s \in Strategies : BalanceReply(s)
         \/ Tick
         \/ Restart
  BY DEF Next, vars, capital, PlanLiquidation, PlanFlash, PlanRebalance, Handler,
         BalanceFromCache, BalanceRead, BalanceReadFails, HandlerReturns, SendAction,
         ProbeAdmitted, ProbeFails, Execute, ExecuteAction, FetchSeqNum, FetchSeqNumFails,
         SimulationEmpty, SubmitFails, SubmitReplyLost, SubmitOk, PollEnds, Apply, Evict

\* z goes on with the figure it holds, or takes up one that was read.
KeepsFigure(z) == pc'[z] = pc[z] /\ job'[z] = job[z] /\ plan'[job[z]] = plan[job[z]]

TakesFigure(z, raw, n) ==
    /\ pc'[z] = "probe" /\ job'[z] = job[z] /\ job[z] \in Ops
    /\ Reading(plan[job[z]].token, raw, n)
    /\ plan'[job[z]] = [plan[job[z]] EXCEPT !.available = Spendable(raw, plan[job[z]].token), !.as_of = n]

\* A balance that arrives is reserved against, given up, or probed with.
LEMMA GotBalanceFigure ==
  ASSUME TypeOK, SingleOwner, NEW s \in Strategies, Planning(s), NEW raw \in Int, NEW n \in Nat,
         Reading(plan[job[s]].token, raw, n), GotBalance(s, raw, n), pc'[s] \in {"reply", "probe"}
  PROVE  TakesFigure(s, raw, n)
  <1> DEFINE p == [plan[job[s]] EXCEPT !.available = Spendable(raw, plan[job[s]].token), !.as_of = n]
  <1>1. job[s] \in Ops
    BY PlanningJob
  <1>2. ASSUME Drop(s) \/ TryReserve(s, p) PROVE FALSE
    BY <1>2 DEF Drop, TryReserve, ReserveAndPush, ReserveRefused, BuildFails, Refuse, Push, TypeOK
  <1>3. /\ pc' = [pc EXCEPT ![s] = "probe"]
        /\ plan' = [plan EXCEPT ![job[s]] = p]
        /\ UNCHANGED job
    BY <1>2 DEF GotBalance
  <1> QED
    BY <1>1, <1>3 DEF TakesFigure, TypeOK

\* A handler leaves the other handler's operation alone.
LEMMA HandlerLocal ==
  ASSUME TypeOK, SingleOwner, NEW s \in Strategies,
         Handler(s) \/ (s = "balancer" /\ (ProbeAdmitted \/ ProbeFails)),
         NEW z \in Strategies, z # s, Planning(z)
  PROVE  KeepsFigure(z)
  <1> DEFINE Local == /\ pc'[z] = pc[z] /\ job'[z] = job[z]
                      /\ \A o \in Ops : o # job[s] => plan'[o] = plan[o]
  <1> SUFFICES Local
    BY PlanningJob DEF KeepsFigure
  <1>1. ASSUME NEW p, TryReserve(s, p) PROVE Local
    BY <1>1 DEF TryReserve, ReserveAndPush, ReserveRefused, BuildFails, Refuse, Push, TypeOK
  <1>2. CASE Drop(s)
    BY <1>2 DEF Drop, Refuse, TypeOK
  <1>3. ASSUME NEW raw, NEW n, GotBalance(s, raw, n) PROVE Local
    BY <1>1, <1>2, <1>3 DEF GotBalance, TypeOK
  <1>4. CASE BalanceFromCache(s)
    BY <1>3, <1>4 DEF BalanceFromCache
  <1>5. CASE BalanceReply(s)
    BY <1>3, <1>5 DEF BalanceReply
  <1>6. CASE BalanceRead(s) \/ HandlerReturns(s) \/ SendAction(s)
    BY <1>6 DEF BalanceRead, HandlerReturns, SendAction, TypeOK
  <1>7. CASE BalanceReadFails(s) \/ (s = "balancer" /\ ProbeFails)
    BY <1>2, <1>7 DEF BalanceReadFails, ProbeFails
  <1>8. CASE s = "balancer" /\ ProbeAdmitted
    BY <1>1, <1>8 DEF ProbeAdmitted
  <1> HIDE DEF Local
  <1> QED
    BY <1>4, <1>5, <1>6, <1>7, <1>8 DEF Handler

\* Where the figure of a handler comes from.
LEMMA Figures ==
  ASSUME TypeOK, SingleOwner, Readings, [Next]_vars, NEW z \in Strategies, pc'[z] \in {"reply", "probe"}
  PROVE  \/ KeepsFigure(z)
         \/ BalanceRead(z)
         \/ \E raw \in Int, n \in Nat : TakesFigure(z, raw, n)
  <1> DEFINE Goal == \/ KeepsFigure(z)
                     \/ BalanceRead(z)
                     \/ \E raw \in Int, n \in Nat : TakesFigure(z, raw, n)
  <1> SUFFICES Goal
    OBVIOUS
  <1>0. pc[z] = pc'[z] => Planning(z) /\ job[z] \in Ops /\ stage[job[z]] = "planning"
    BY PlanningJob DEF Planning
  <1>1. ASSUME NEW s \in Strategies, NEW o \in Ops, stage[o] = "unused", pc'[s] \notin {"reply", "probe"},
               \A q \in Strategies : q # s => pc'[q] = pc[q] /\ job'[q] = job[q],
               \A q \in Ops : q # o => plan'[q] = plan[q]
        PROVE  Goal
    BY <1>0, <1>1 DEF KeepsFigure
  <1>2. ASSUME NEW o \in Ops, NEW t \in Tokens, NEW amount \in 1..MaxAmount, PlanLiquidation(o, t, amount)
        PROVE  Goal
    <2>1. "liquidator" \in Strategies
      BY DEF Strategies
    <2> QED
      BY <1>1, <1>2, <2>1 DEF PlanLiquidation, TypeOK
  <1>3. ASSUME NEW o \in Ops, PlanFlash(o)
        PROVE  Goal
    <2>1. "liquidator" \in Strategies
      BY DEF Strategies
    <2> QED
      BY <1>1, <1>3, <2>1 DEF PlanFlash, Push, TypeOK
  <1>4. ASSUME NEW o \in Ops, NEW t \in Tokens, PlanRebalance(o, t)
        PROVE  Goal
    <2>1. "balancer" \in Strategies
      BY DEF Strategies
    <2> QED
      BY <1>1, <1>4, <2>1 DEF PlanRebalance, TypeOK
  <1>5. ASSUME NEW s \in Strategies, Handler(s) \/ (s = "balancer" /\ (ProbeAdmitted \/ ProbeFails))
        PROVE  Goal
    <2>1. CASE z = s
      <3>1. CASE BalanceFromCache(s)
        <4>1. PICK b \in FreshBalances(plan[job[s]].token) : GotBalance(s, b.amount, b.as_of)
          BY <3>1 DEF BalanceFromCache
        <4>2. b \in balances /\ b.token = plan[job[s]].token /\ b.amount \in Int /\ b.as_of \in Nat
          BY DEF FreshBalances, TypeOK, CachedBalance
        <4>3. Reading(plan[job[s]].token, b.amount, b.as_of)
          BY <4>2 DEF Readings
        <4> QED
          BY <2>1, <3>1, <4>1, <4>2, <4>3, GotBalanceFigure DEF BalanceFromCache, Planning
      <3>2. CASE BalanceReply(s)
        <4>1. Planning(s) /\ GotBalance(s, plan[job[s]].available, plan[job[s]].as_of)
          BY <3>2 DEF BalanceReply, Planning
        <4>2. plan[job[s]].available \in Int /\ plan[job[s]].as_of \in Nat
          BY <4>1, PlanningJob DEF TypeOK, Plan
        <4>3. Reading(plan[job[s]].token, plan[job[s]].available, plan[job[s]].as_of)
          BY <3>2 DEF BalanceReply, Readings
        <4> QED
          BY <2>1, <4>1, <4>2, <4>3, GotBalanceFigure
      <3>3. CASE BalanceRead(s)
        BY <2>1, <3>3
      <3>4. ASSUME BalanceReadFails(s) \/ HandlerReturns(s) \/ SendAction(s) \/ (ProbeFails /\ s = "balancer")
            PROVE  FALSE
        BY <2>1, <3>4 DEF BalanceReadFails, HandlerReturns, SendAction, ProbeFails, Drop, Refuse, TypeOK
      <3>5. ASSUME ProbeAdmitted, s = "balancer" PROVE FALSE
        BY <2>1, <3>5 DEF ProbeAdmitted, TryReserve, ReserveAndPush, ReserveRefused, BuildFails, Refuse, Push, TypeOK
      <3> HIDE DEF Goal
      <3> QED
        BY <1>5, <3>1, <3>2, <3>3, <3>4, <3>5 DEF Handler
    <2>2. CASE z # s
      <3>1. pc'[z] = pc[z]
        BY <1>5, <2>2 DEF Handler, BalanceFromCache, BalanceReply, BalanceRead, BalanceReadFails, HandlerReturns,
              SendAction, ProbeFails, ProbeAdmitted, GotBalance, Drop, TryReserve, ReserveAndPush, ReserveRefused,
              BuildFails, Refuse, Push, TypeOK
      <3> QED
        BY <1>0, <1>5, <2>2, <3>1, HandlerLocal
    <2> QED
      BY <2>1, <2>2
  <1>6. CASE UNCHANGED handlers
    BY <1>6 DEF handlers, KeepsFigure
  <1>7. ~Restart
    BY DEF Restart
  <1>8. "balancer" \in Strategies
    BY DEF Strategies
  <1> HIDE DEF Goal
  <1> QED
    BY <1>2, <1>3, <1>4, <1>5, <1>6, <1>7, <1>8
       DEF Next, vars, PlanningRead, Execute, ExecuteAction, FetchSeqNum, FetchSeqNumFails,
           SimulationEmpty, SubmitFails, SubmitReplyLost, SubmitOk, PollEnds, Apply, Evict, Tick

\* Every figure stays a balance that was read.
LEMMA NextReadings ==
  ASSUME TypeOK, SingleOwner, Shape, [Next]_vars, FiniteParts, Network, Network', Readings
  PROVE  Readings'
  <1>1. ChainKept \/ \E x \in mempool, ok \in BOOLEAN : Apply(x, ok)
    BY DEF Shape, MovesOn, Opens, Refuses, Reserves, Settles, ChainKept, Tick, Restart, chain
  <1>2. ASSUME NEW t \in Tokens, NEW raw, NEW n, Reading(t, raw, n)
        PROVE  Reading(t, raw, n)'
    BY <1>1, <1>2, ReadingKept, ReadingLands
  <1>3. \A t \in Tokens : wallet[t] \in Nat /\ Reading(t, wallet[t], account_seq)
    BY ReadNow DEF Readings, TypeOK
  <1>4. ASSUME NEW t \in Tokens PROVE wallet'[t] <= InitialWallet[t]
    <2>1. wallet'[t] <= wallet[t] /\ wallet'[t] \in Int
      <3>1. CASE ChainKept
        BY <1>3, <3>1 DEF ChainKept
      <3>2. ASSUME NEW x \in mempool, NEW ok \in BOOLEAN, Apply(x, ok)
            PROVE  wallet'[t] <= wallet[t] /\ wallet'[t] \in Int
        <4>1. plan[x.op].amount \in Nat /\ wallet \in [Tokens -> Nat]
          BY DEF TypeOK, Tx, Plan
        <4>2. wallet' = [wallet EXCEPT ![plan[x.op].token] = IF ok THEN @ - plan[x.op].amount ELSE @]
          BY <3>2 DEF Apply
        <4> QED
          BY <4>1, <4>2
      <3> QED
        BY <1>1, <3>1, <3>2
    <2> QED
      BY <1>3, <2>1 DEF Readings
  <1>5. ASSUME NEW b \in balances' PROVE Reading(b.token, b.amount, b.as_of)'
    <2>1. ASSUME NEW c \in balances, b.token = c.token, b.amount = c.amount, b.as_of = c.as_of
          PROVE  Reading(b.token, b.amount, b.as_of)'
      <3>1. c.token \in Tokens /\ Reading(c.token, c.amount, c.as_of)
        BY DEF Readings, TypeOK, CachedBalance
      <3> QED
        BY <1>2, <2>1, <3>1
    <2>2. CASE UNCHANGED balances
      BY <2>1, <2>2
    <2>3. ASSUME NEW t \in Tokens, PlanningRead(t)
          PROVE  Reading(b.token, b.amount, b.as_of)'
      <3>1. b \in balances \/ (b.token = t /\ b.amount = wallet[t] /\ b.as_of = account_seq)
        BY <2>3 DEF PlanningRead
      <3> QED
        BY <1>2, <1>3, <2>1, <3>1
    <2>4. ASSUME NEW s \in Strategies, BalanceReply(s)
          PROVE  Reading(b.token, b.amount, b.as_of)'
      <3> DEFINE p == plan[job[s]]
      <3>1. b \in balances \/ (b.token = p.token /\ b.amount = p.available /\ b.as_of = p.as_of)
        BY <2>4 DEF BalanceReply
      <3>2. Reading(p.token, p.available, p.as_of)
        BY <2>4 DEF BalanceReply, Readings
      <3>3. p.token \in Tokens
        BY <2>4, PlanningJob DEF BalanceReply, Planning, TypeOK, Plan
      <3> HIDE DEF p
      <3> QED
        BY <1>2, <2>1, <3>1, <3>2, <3>3
    <2>5. CASE Tick
      <3>1. PICK c \in balances : b = Aged(c, BalanceTtl)
        BY <2>5 DEF Tick
      <3>2. b.token = c.token /\ b.amount = c.amount /\ b.as_of = c.as_of
        BY <3>1 DEF Aged, TypeOK, CachedBalance
      <3> QED
        BY <2>1, <3>2
    <2>6. ~Restart
      BY DEF Restart
    <2> QED
      BY <2>2, <2>3, <2>4, <2>5, <2>6, BalanceSteps
  <1>6. ASSUME NEW z \in Strategies, pc'[z] \in {"reply", "probe"}
        PROVE  \E t \in Tokens, raw \in Int, n \in Nat :
                  /\ Reading(t, raw, n)'
                  /\ plan'[job'[z]].token = t /\ plan'[job'[z]].as_of = n
                  /\ plan'[job'[z]].available = IF pc'[z] = "reply" THEN raw ELSE Spendable(raw, t)
    <2>0. \A o \in Ops : plan[o] \in Plan /\ plan[o].token \in Tokens
      BY DEF TypeOK, Plan
    <2>1. CASE KeepsFigure(z)
      <3>1. pc'[z] = pc[z] /\ plan'[job'[z]] = plan[job[z]]
        BY <2>1 DEF KeepsFigure
      <3>2. PICK t \in Tokens, raw \in Int, n \in Nat :
               /\ Reading(t, raw, n)
               /\ plan[job[z]].token = t /\ plan[job[z]].as_of = n
               /\ plan[job[z]].available = IF pc[z] = "reply" THEN raw ELSE Spendable(raw, t)
        BY <1>6, <3>1 DEF Readings
      <3>3. Reading(t, raw, n)'
        BY <1>2, <3>2
      <3> QED
        BY <3>1, <3>2, <3>3
    <2>2. ASSUME NEW raw \in Int, NEW n \in Nat, TakesFigure(z, raw, n)
          PROVE  \E t \in Tokens : /\ Reading(t, raw, n)'
                                  /\ plan'[job'[z]].token = t /\ plan'[job'[z]].as_of = n
                                  /\ plan'[job'[z]].available = Spendable(raw, t) /\ pc'[z] # "reply"
      <3>1. job[z] \in Ops
        BY <2>2 DEF TakesFigure
      <3>2. PICK t \in Tokens : t = plan[job[z]].token
        BY <2>0, <3>1
      <3>3. Reading(t, raw, n)'
        BY <1>2, <2>2, <3>2 DEF TakesFigure
      <3>4. /\ plan'[job'[z]].token = t /\ plan'[job'[z]].as_of = n
            /\ plan'[job'[z]].available = Spendable(raw, t) /\ pc'[z] # "reply"
        BY <2>0, <2>2, <3>1, <3>2 DEF TakesFigure, Plan
      <3> QED
        BY <3>3, <3>4
    <2>3. CASE BalanceRead(z)
      <3>1. job[z] \in Ops
        BY <2>3, PlanningJob DEF BalanceRead, Planning
      <3>2. PICK t \in Tokens : t = plan[job[z]].token
        BY <2>0, <3>1
      <3>3. PICK raw \in Int, n \in Nat : raw = wallet[t] /\ n = account_seq
        BY <1>3 DEF TypeOK
      <3>4. Reading(t, raw, n)'
        BY <1>2, <1>3, <3>3
      <3>5. /\ plan'[job'[z]].token = t /\ plan'[job'[z]].as_of = n
            /\ plan'[job'[z]].available = raw /\ pc'[z] = "reply"
        BY <2>0, <2>3, <3>1, <3>2, <3>3 DEF BalanceRead, Plan, TypeOK
      <3> QED
        BY <3>4, <3>5
    <2> QED
      BY <1>6, <2>1, <2>2, <2>3, Figures
  <1> QED
    BY <1>4, <1>5, <1>6 DEF Readings

-----------------------------------------------------------------------------
(* The other parts of the invariant. *)

\* A step adds at most one reservation, one transaction and one operation.
LEMMA NextFinite ==
  ASSUME TypeOK, Shape, FiniteParts
  PROVE  FiniteParts'
  <1> DEFINE Used == {o \in Ops : stage[o] # "unused"}
  <1>0. IsFiniteSet(reservations) /\ IsFiniteSet(ledger) /\ IsFiniteSet(Used)
    BY DEF FiniteParts
  <1>1. IsFiniteSet(reservations')
    <2>1. CASE reservations' \subseteq reservations
      BY <1>0, <2>1, FS_Subset
    <2>2. ASSUME NEW r, reservations' = Unexpired \cup {r}
          PROVE  IsFiniteSet(reservations')
      <3>1. IsFiniteSet(Unexpired)
        BY <1>0, FS_Subset DEF Unexpired
      <3> QED
        BY <2>2, <3>1, FS_AddElement
    <2>3. CASE Tick
      <3> DEFINE h == [r \in reservations |-> Aged(r, ReservationTtl)]
      <3>1. reservations' = {h[r] : r \in reservations}
        BY <2>3 DEF Tick
      <3> HIDE DEF h
      <3> QED
        BY <1>0, <3>1, ImageFinite
    <2>4. Unexpired \subseteq reservations
      BY DEF Unexpired
    <2> QED
      BY <2>1, <2>2, <2>3, <2>4
         DEF Shape, MovesOn, Opens, Refuses, Reserves, Settles, Settle, Released, Apply, capital, Restart
  <1>2. IsFiniteSet(ledger')
    <2>1. ledger' = ledger \/ \E y : ledger' = ledger \cup {y}
      BY DEF Shape, MovesOn, Opens, Refuses, Reserves, Settles, ChainKept, Apply, Tick, Restart, chain
    <2> QED
      BY <1>0, <2>1, FS_AddElement
  <1>3. IsFiniteSet(Used')
    <2>1. \E x : Used' \subseteq Used \cup {x}
      <3>1. CASE MovesOn
        BY <3>1 DEF MovesOn, Moves
      <3>2. ASSUME NEW x \in Ops, NEW v, stage' = [stage EXCEPT ![x] = v]
            PROVE  \E z : Used' \subseteq Used \cup {z}
        <4>1. Used' \subseteq Used \cup {x}
          BY <3>2 DEF TypeOK
        <4> QED
          BY <4>1
      <3>3. CASE \A o \in Ops : stage[o] = "unused" => stage'[o] = "unused"
        BY <3>3
      <3>4. Restart => \A o \in Ops : stage[o] = "unused" => stage'[o] = "unused"
        BY DEF Restart, Pending
      <3> HIDE DEF Used
      <3> QED
        BY <3>1, <3>2, <3>3, <3>4
           DEF Shape, Opens, Refuses, Reserves, Settles, Settle, Apply, Tick
    <2>2. PICK x : Used' \subseteq Used \cup {x}
      BY <2>1
    <2>3. IsFiniteSet(Used \cup {x})
      <3> HIDE DEF Used
      <3> QED
        BY <1>0, FS_AddElement
    <2> HIDE DEF Used
    <2> QED
      BY <2>2, <2>3, FS_Subset
  <1> QED
    BY <1>1, <1>2, <1>3 DEF FiniteParts

\* A blind spot that was recorded stays recorded.
LEMMA BlindSpotsStay ==
  ASSUME TypeOK, Shape, NEW t \in Tokens
  PROVE  blindSpots[t] \subseteq blindSpots'[t]
  <1>1. \A T, cause : blindSpots[t] \subseteq Blinded(T, cause)[t]
    BY DEF Blinded
  <1>2. ASSUME NEW o \in Ops, NEW p \in Plan, NEW raw \in Int, Reserves(o, p, raw)
        PROVE  blindSpots[t] \subseteq blindSpots'[t]
    BY <1>2 DEF Reserves
  <1>3. ASSUME NEW x \in mempool, NEW ok \in BOOLEAN, Apply(x, ok)
        PROVE  blindSpots[t] \subseteq blindSpots'[t]
    <2>1. \/ blindSpots' = blindSpots
          \/ \E T, cause : blindSpots' = Blinded(T, cause)
      BY <1>3 DEF Apply
    <2> QED
      BY <1>1, <2>1
  <1>4. ASSUME NEW o \in Ops, Refuses(o)
        PROVE  blindSpots[t] \subseteq blindSpots'[t]
    BY <1>1, <1>4 DEF Refuses
  <1>5. CASE UNCHANGED blindSpots
    BY <1>5
  <1> QED
    BY <1>2, <1>3, <1>4, <1>5 DEF Shape, MovesOn, Opens, Settles, Tick, Restart, history

\* A reservation copies the plan it is made for, and plans of operations in
\* flight do not change.
LEMMA NextOneReservation ==
  ASSUME TypeOK, SingleOwner, ReservationsOfLiveOps, Shape, [Next]_vars, OneReservation
  PROVE  OneReservation'
  <1>0. \A r \in reservations : /\ r.id \in Ops /\ stage[r.id] \notin {"unused", "planning"}
                                /\ plan'[r.id] = plan[r.id]
    BY PlansKept DEF ReservationsOfLiveOps, Pending, TypeOK, Reservation
  <1>1. CASE reservations' \subseteq reservations
    BY <1>0, <1>1 DEF OneReservation
  <1>2. ASSUME NEW o \in Ops, NEW p \in Plan, NEW raw \in Int, Reserves(o, p, raw)
        PROVE  OneReservation'
    <2> DEFINE q == [id |-> o, token |-> p.token, amount |-> p.amount, age |-> 0]
    <2>1. reservations' = Unexpired \cup {q} /\ plan'[o] = p /\ stage[o] = "planning"
      BY <1>2 DEF Reserves, TypeOK
    <2>2. q.id = o /\ q.token = p.token /\ q.amount = p.amount
      OBVIOUS
    <2>3. Unexpired \subseteq reservations
      BY DEF Unexpired
    <2> HIDE DEF q
    <2> QED
      BY <1>0, <2>1, <2>2, <2>3 DEF OneReservation
  <1>3. CASE Tick
    <2>1. \A r \in reservations : LET a == Aged(r, ReservationTtl) IN
             a.id = r.id /\ a.token = r.token /\ a.amount = r.amount
      BY DEF Aged, TypeOK, Reservation
    <2>2. reservations' = {Aged(r, ReservationTtl) : r \in reservations}
      BY <1>3 DEF Tick
    <2> QED
      BY <1>0, <2>1, <2>2 DEF OneReservation
  <1>4. Unexpired \subseteq reservations
    BY DEF Unexpired
  <1> QED
    BY <1>1, <1>2, <1>3, <1>4
       DEF Shape, MovesOn, Opens, Refuses, Settles, Settle, Released, Apply, capital, Restart

\* A second landing of an operation that spends is recorded.
LEMMA NextSpentOnce ==
  ASSUME TypeOK, SingleOwner, Shape, [Next]_vars, Network, SpentOnce
  PROVE  SpentOnce'
  <1>0. \A x \in ledger : x.op \in Ops /\ plan'[x.op] = plan[x.op] /\ plan[x.op].token \in Tokens
    BY PlansKept DEF Network, OnNetwork, TypeOK, Applied, Plan
  <1>1. CASE ledger' = ledger
    BY <1>0, <1>1, BlindSpotsStay DEF SpentOnce
  <1>2. ASSUME NEW x \in mempool, NEW ok \in BOOLEAN, Apply(x, ok)
        PROVE  SpentOnce'
    <2> DEFINE y == [op |-> x.op, seq |-> x.seq, ok |-> ok]
               p == plan[x.op]
    <2>1. ledger' = ledger \cup {y} /\ plan' = plan /\ y.op = x.op /\ y.ok = ok
      BY <1>2 DEF Apply, handlers
    <2>2. x.op \in Ops /\ p.token \in Tokens /\ p.amount \in Nat
      BY DEF TypeOK, Tx, Plan
    <2>3. ok /\ p.amount > 0 /\ Landed(x.op) => "duplicate" \in blindSpots'[p.token]
      BY <1>2, <2>2 DEF Apply, Blinded
    <2> SUFFICES ASSUME NEW t \in Tokens, "duplicate" \notin blindSpots'[t],
                        NEW a \in ledger', NEW b \in ledger', a.ok, b.ok, a.op = b.op,
                        plan[a.op].token = t, plan[a.op].amount > 0
                 PROVE  a = b
      BY <2>1 DEF SpentOnce
    <2>4. "duplicate" \notin blindSpots[t]
      BY BlindSpotsStay
    <2>5. CASE a \in ledger /\ b \in ledger
      BY <2>4, <2>5 DEF SpentOnce
    <2>6. ASSUME NEW c \in ledger, c.ok, c.op = x.op, ok, p.token = t, p.amount > 0 PROVE FALSE
      BY <2>3, <2>6 DEF Landed
    <2> HIDE DEF y, p
    <2>7. a \in ledger \/ a = y
      BY <2>1
    <2>8. b \in ledger \/ b = y
      BY <2>1
    <2> QED
      BY <2>1, <2>5, <2>6, <2>7, <2>8 DEF p
  <1> QED
    BY <1>1, <1>2 DEF Shape, MovesOn, Opens, Refuses, Reserves, Settles, ChainKept, Tick, Restart, chain

\* An operation in flight loses its reservation to expiry only, and that is
\* recorded.
LEMMA NextBacked ==
  ASSUME TypeOK, SingleOwner, Shape, [Next]_vars, OneReservation, Unplanned, Backed
  PROVE  Backed'
  <1> SUFFICES ASSUME NEW o \in Ops, stage'[o] \in Pending, plan'[o].amount > 0,
                      blindSpots'[plan'[o].token] = {}
               PROVE  \E r \in reservations' : r.id = o
    BY DEF Backed
  <1>0. ASSUME stage[o] \in Pending
        PROVE  /\ plan'[o] = plan[o] /\ plan[o].token \in Tokens
               /\ \E r \in reservations : r.id = o
    <2>1. plan'[o] = plan[o] /\ plan[o].token \in Tokens
      BY <1>0, PlansKept DEF Pending, TypeOK, Plan
    <2>2. blindSpots[plan[o].token] = {}
      BY <2>1, BlindSpotsStay
    <2> QED
      BY <1>0, <2>1, <2>2 DEF Backed
  <1>1. ASSUME NEW r \in reservations, r.id = o, stage[o] \in Pending, r \notin Unexpired
        PROVE  r.token \in ExpiredInFlight /\ r.token = plan'[o].token /\ r.token \in Tokens
    BY <1>0, <1>1 DEF ExpiredInFlight, OneReservation
  <1>2. CASE MovesOn
    BY <1>0, <1>2 DEF MovesOn, Moves, Pending
  <1>3. ASSUME NEW x \in Ops, Opens(x)
        PROVE  \E r \in reservations' : r.id = o
    <2>1. x # o
      BY <1>3 DEF Opens, Unplanned
    <2> QED
      BY <1>0, <1>3, <2>1 DEF Opens, TypeOK
  <1>4. ASSUME NEW x \in Ops, Refuses(x)
        PROVE  \E r \in reservations' : r.id = o
    <2>1. stage[o] \in Pending
      BY <1>4 DEF Refuses, TypeOK, Pending
    <2>2. PICK r \in reservations : r.id = o
      BY <1>0, <2>1
    <2>3. reservations' = reservations \/ r \in Unexpired
      BY <1>1, <1>4, <2>1, <2>2 DEF Refuses, Blinded
    <2> QED
      BY <1>4, <2>2, <2>3 DEF Refuses
  <1>5. ASSUME NEW x \in Ops, NEW p \in Plan, NEW raw \in Int, Reserves(x, p, raw)
        PROVE  \E r \in reservations' : r.id = o
    <2>1. CASE o = x
      <3>1. [id |-> o, token |-> p.token, amount |-> p.amount, age |-> 0] \in reservations'
        BY <1>5, <2>1 DEF Reserves
      <3> QED
        BY <3>1
    <2>2. CASE o # x
      <3>1. stage[o] \in Pending
        BY <1>5, <2>2 DEF Reserves, TypeOK
      <3>2. PICK r \in reservations : r.id = o
        BY <1>0, <3>1
      <3>3. r \in Unexpired
        BY <1>1, <1>5, <3>1, <3>2 DEF Reserves
      <3> QED
        BY <1>5, <3>2, <3>3 DEF Reserves
    <2> QED
      BY <2>1, <2>2
  <1>6. ASSUME NEW x \in Ops, Settles(x)
        PROVE  \E r \in reservations' : r.id = o
    BY <1>0, <1>6 DEF Settles, Settle, Released, TypeOK, Pending
  <1>7. CASE UNCHANGED <<stage, reservations>>
    BY <1>0, <1>7
  <1>8. CASE Tick
    <2>1. stage[o] \in Pending
      BY <1>8 DEF Tick
    <2>2. PICK r \in reservations : r.id = o
      BY <1>0, <2>1
    <2>3. Aged(r, ReservationTtl).id = o
      BY <2>2, AgedTypes DEF TypeOK
    <2> QED
      BY <1>8, <2>3 DEF Tick
  <1>9. ~Restart
    BY DEF Restart, Pending
  <1> QED
    BY <1>2, <1>3, <1>4, <1>5, <1>6, <1>7, <1>8, <1>9 DEF Shape, Apply, capital

-----------------------------------------------------------------------------
(* Sums of the amounts of reservations. *)

Total(S) == SumFunctionOnSet([r \in S |-> r.amount], S)

\* A finite set of entries with amounts.
Entries(S) == IsFiniteSet(S) /\ \A r \in S : r.amount \in Nat

\* The total of a set does not depend on the set the amounts are taken from.
LEMMA TotalOf ==
  ASSUME NEW R, NEW S \in SUBSET R, Entries(S)
  PROVE  SumFunctionOnSet([r \in R |-> r.amount], S) = Total(S) /\ Total(S) \in Nat
  <1> DEFINE f == [r \in R |-> r.amount]
             g == [r \in S |-> r.amount]
  <1>1. \A r \in S : g[r] \in Nat /\ g[r] = f[r]
    BY DEF Entries
  <1>2. IsFiniteSet(S)
    BY DEF Entries
  <1>3. SumFunctionOnSet(g, S) \in Nat /\ SumFunctionOnSet(g, S) = SumFunctionOnSet(f, S)
    <2> HIDE DEF f, g
    <2> QED
      BY <1>1, <1>2, SumAdd, SumSame
  <1> QED
    BY <1>3 DEF Total

\* A part is no more than the whole.
LEMMA TotalLess ==
  ASSUME NEW S, Entries(S), NEW B \in SUBSET S
  PROVE  Entries(B) /\ Total(B) \in Nat /\ Total(S) \in Nat /\ Total(B) <= Total(S)
  <1> DEFINE f == [r \in S |-> r.amount]
  <1>1. Entries(B)
    BY FS_Subset DEF Entries
  <1>2. SumFunctionOnSet(f, B) = Total(B) /\ Total(B) \in Nat /\ Total(S) \in Nat
    BY <1>1, TotalOf
  <1>3. IsFiniteSet(S) /\ \A r \in S : f[r] \in Nat
    BY DEF Entries
  <1>4. SumFunctionOnSet(f, B) <= SumFunctionOnSet(f, S)
    <2> HIDE DEF f
    <2> QED
      BY <1>3, SumMono
  <1> QED
    BY <1>1, <1>2, <1>4 DEF Total

\* The total of two sets that have nothing in common.
LEMMA TotalParts ==
  ASSUME NEW B, NEW C, Entries(B), Entries(C), B \cap C = {}
  PROVE  Entries(B \cup C) /\ Total(B \cup C) = Total(B) + Total(C)
  <1> DEFINE A == B \cup C
             f == [r \in A |-> r.amount]
  <1>1. Entries(A)
    BY FS_Union DEF Entries
  <1>2. SumFunctionOnSet(f, B) = Total(B) /\ SumFunctionOnSet(f, C) = Total(C)
    BY TotalOf
  <1>3. IsFiniteSet(A) /\ \A r \in A : f[r] \in Nat
    BY <1>1 DEF Entries
  <1>4. SumFunctionOnSet(f, A) = SumFunctionOnSet(f, B) + SumFunctionOnSet(f, C)
    <2>1. A = B \cup C
      OBVIOUS
    <2> HIDE DEF f, A
    <2> QED
      BY <1>3, <2>1, SumUnion
  <1> QED
    BY <1>1, <1>2, <1>4 DEF Total

\* One entry more.
LEMMA TotalWith ==
  ASSUME NEW S, Entries(S), NEW r, r \notin S, r.amount \in Nat
  PROVE  /\ Entries(S \cup {r}) /\ Total(S \cup {r}) = Total(S) + r.amount
         /\ Total(S) \in Nat
  <1> DEFINE A == S \cup {r}
             f == [q \in A |-> q.amount]
  <1>1. IsFiniteSet(A)
    BY FS_AddElement DEF Entries
  <1>2. Entries(A)
    BY <1>1 DEF Entries
  <1>3. \A q \in A : f[q] \in Nat
    BY DEF Entries
  <1>4. r \in A /\ A \ {r} = S /\ f[r] = r.amount
    OBVIOUS
  <1>5. SumFunctionOnSet(f, S) = Total(S) /\ Total(S) \in Nat
    BY TotalOf
  <1>6. SumFunctionOnSet(f, A) = f[r] + SumFunctionOnSet(f, A \ {r})
    <2> HIDE DEF f, A
    <2> QED
      BY <1>1, <1>3, <1>4, SumAdd
  <1>7. Total(A) = SumFunctionOnSet(f, A)
    BY DEF Total
  <1>8. Total(A) = Total(S) + r.amount
    <2> HIDE DEF f, A
    <2>1. SumFunctionOnSet(f, A \ {r}) = Total(S)
      BY <1>4, <1>5, Zenon
    <2> QED
      BY <1>4, <1>5, <1>6, <1>7, <2>1
  <1> QED
    BY <1>2, <1>5, <1>8

\* Entries that are replaced one by one by entries of the same amounts.
LEMMA TotalImage ==
  ASSUME NEW S, Entries(S), NEW h, \A x \in S : h[x].amount = x.amount,
         \A x, y \in S : h[x] = h[y] => x = y
  PROVE  Entries({h[x] : x \in S}) /\ Total({h[x] : x \in S}) = Total(S)
  <1> DEFINE T == {h[x] : x \in S}
             f == [r \in S |-> r.amount]
             g == [r \in T |-> r.amount]
  <1>1. IsFiniteSet(S) /\ \A r \in S : f[r] \in Nat /\ g[h[r]] = f[r]
    BY DEF Entries
  <1>2. IsFiniteSet(T)
    BY <1>1, ImageFinite
  <1>3. Entries(T)
    BY <1>2 DEF Entries
  <1>4. SumFunctionOnSet(g, T) = SumFunctionOnSet(f, S)
    <2> HIDE DEF f, g
    <2> QED
      BY <1>1, SumImage
  <1> QED
    BY <1>3, <1>4 DEF Total

-----------------------------------------------------------------------------
(* What has not landed is covered by what is left. *)

\* The reservations are entries, and what has not landed adds up to a number.
LEMMA UnlandedType ==
  ASSUME TypeOK, FiniteParts, NEW t
  PROVE  /\ Entries(reservations) /\ Entries(UnlandedOf(t)) /\ UnlandedOf(t) \subseteq reservations
         /\ Unlanded(t) = Total(UnlandedOf(t)) /\ Unlanded(t) \in Nat
  <1>1. Entries(reservations)
    BY DEF Entries, TypeOK, Reservation, FiniteParts
  <1>2. UnlandedOf(t) \subseteq reservations
    BY DEF UnlandedOf
  <1>3. Entries(UnlandedOf(t))
    BY <1>1, <1>2, TotalLess
  <1>4. Unlanded(t) = Total(UnlandedOf(t)) /\ Total(UnlandedOf(t)) \in Nat
    BY <1>2, <1>3, TotalOf DEF Unlanded
  <1> QED
    BY <1>1, <1>2, <1>3, <1>4

\* The same of the next state.
LEMMA UnlandedNext ==
  ASSUME TypeOK', FiniteParts', NEW t
  PROVE  /\ Entries(reservations') /\ Entries(UnlandedOf(t)') /\ UnlandedOf(t)' \subseteq reservations'
         /\ Unlanded(t)' = Total(UnlandedOf(t)') /\ Unlanded(t)' \in Nat
  <1>1. Entries(reservations')
    BY DEF Entries, TypeOK, Reservation, FiniteParts
  <1>2. UnlandedOf(t)' \subseteq reservations'
    BY DEF UnlandedOf
  <1>3. Entries(UnlandedOf(t)')
    BY <1>1, <1>2, TotalLess
  <1>4. Unlanded(t)' = Total(UnlandedOf(t)') /\ Total(UnlandedOf(t)') \in Nat
    BY <1>2, <1>3, TotalOf DEF Unlanded
  <1> QED
    BY <1>1, <1>2, <1>3, <1>4

\* Covered, for one token.
CoveredFor(t) == blindSpots[t] = {} => Unlanded(t) = 0 \/ Unlanded(t) <= Spendable(wallet[t], t)

\* It stays when reservations go and the balance does not.
LEMMA CoveredShrinks ==
  ASSUME TypeOK, TypeOK', FiniteParts, FiniteParts', NEW t \in Tokens, CoveredFor(t),
         blindSpots[t] \subseteq blindSpots'[t], wallet'[t] = wallet[t],
         UnlandedOf(t)' \subseteq UnlandedOf(t)
  PROVE  CoveredFor(t)'
  <1>1. Unlanded(t)' <= Unlanded(t)
    BY UnlandedType, UnlandedNext, TotalLess
  <1>2. Unlanded(t)' \in Nat /\ Unlanded(t) \in Nat /\ wallet[t] \in Nat
    BY UnlandedType, UnlandedNext DEF TypeOK
  <1> QED
    BY <1>1, <1>2 DEF CoveredFor, Spendable

\* Ageing a reservation leaves the rest of it alone.
LEMMA AgedParts ==
  ASSUME TypeOK, NEW r \in reservations
  PROVE  /\ Aged(r, ReservationTtl).id = r.id
         /\ Aged(r, ReservationTtl).token = r.token
         /\ Aged(r, ReservationTtl).amount = r.amount
  BY DEF Aged, TypeOK, Reservation

\* The clock changes no amount.
LEMMA CoveredTick ==
  ASSUME TypeOK, TypeOK', FiniteParts, FiniteParts', OneReservation, Tick, NEW t \in Tokens, CoveredFor(t)
  PROVE  CoveredFor(t)'
  <1> DEFINE A == UnlandedOf(t)
             h == [r \in reservations |-> Aged(r, ReservationTtl)]
  <1>1. \A r \in reservations : h[r].id = r.id /\ h[r].token = r.token /\ h[r].amount = r.amount
    BY AgedParts
  <1>2. ledger' = ledger /\ wallet' = wallet /\ blindSpots' = blindSpots
    BY DEF Tick, chain, history
  <1>3. reservations' = {h[r] : r \in reservations}
    BY DEF Tick
  <1> HIDE DEF h
  <1>4. UnlandedOf(t)' = {h[r] : r \in A}
    BY <1>1, <1>2, <1>3 DEF UnlandedOf, Landed
  <1>5. A \subseteq reservations /\ Entries(A) /\ Unlanded(t) = Total(A)
    BY UnlandedType
  <1>6. /\ \A x \in A : h[x].amount = x.amount
        /\ \A x, y \in A : h[x] = h[y] => x = y
    BY <1>1, <1>5 DEF OneReservation
  <1>7. Unlanded(t)' = Unlanded(t)
    <2>1. Unlanded(t)' = Total({h[r] : r \in A})
      BY <1>4, UnlandedNext
    <2> HIDE DEF A
    <2> QED
      BY <1>5, <1>6, <2>1, TotalImage
  <1> QED
    BY <1>2, <1>7 DEF CoveredFor

\* A transaction that lands takes from the wallet what was reserved for it.
LEMMA CoveredApply ==
  ASSUME TypeOK, TypeOK', FiniteParts, FiniteParts', OneReservation, Backed,
         NEW x \in mempool, NEW ok \in BOOLEAN, Apply(x, ok), NEW t \in Tokens,
         blindSpots[t] \subseteq blindSpots'[t], CoveredFor(t)
  PROVE  CoveredFor(t)'
  <1> DEFINE p == plan[x.op]
  <1>1. /\ x.op \in Ops /\ p.token \in Tokens /\ p.amount \in Nat /\ wallet \in [Tokens -> Nat]
    BY DEF TypeOK, Tx, Plan
  <1>2. /\ reservations' = reservations
        /\ ledger' = ledger \cup {[op |-> x.op, seq |-> x.seq, ok |-> ok]}
        /\ wallet' = [wallet EXCEPT ![p.token] = IF ok THEN @ - p.amount ELSE @]
        /\ ok => wallet[p.token] >= p.amount
    BY DEF Apply, capital
  <1>3. \A o : Landed(o)' <=> Landed(o) \/ (ok /\ o = x.op)
    <2> DEFINE y == [op |-> x.op, seq |-> x.seq, ok |-> ok]
    <2>1. ledger' = ledger \cup {y} /\ y.op = x.op /\ y.ok = ok
      BY <1>2
    <2> HIDE DEF y
    <2> QED
      BY <2>1 DEF Landed
  <1>4. UnlandedOf(t)' \subseteq UnlandedOf(t)
    BY <1>2, <1>3 DEF UnlandedOf
  <1>5. CASE ~ok \/ p.amount = 0 \/ p.token # t
    <2>1. wallet'[t] = wallet[t]
      BY <1>1, <1>2, <1>5
    <2> QED
      BY <1>4, <2>1, CoveredShrinks
  <1>6. CASE ok /\ p.amount > 0 /\ p.token = t
    <2> SUFFICES ASSUME blindSpots'[t] = {}
                 PROVE  Unlanded(t)' = 0 \/ Unlanded(t)' <= Spendable(wallet'[t], t)
      BY DEF CoveredFor
    <2>1. blindSpots[t] = {} /\ ~Landed(x.op) /\ stage[x.op] \in Pending
      BY <1>1, <1>6 DEF Apply, Blinded
    <2>2. PICK r \in reservations : r.id = x.op
      BY <1>1, <1>6, <2>1 DEF Backed
    <2>3. r.token = t /\ r.amount = p.amount /\ r \in UnlandedOf(t)
      BY <1>6, <2>1, <2>2 DEF OneReservation, UnlandedOf
    <2>4. UnlandedOf(t) = UnlandedOf(t)' \cup {r} /\ r \notin UnlandedOf(t)'
      BY <1>2, <1>3, <1>6, <2>2, <2>3 DEF UnlandedOf, OneReservation
    <2>5. Unlanded(t) = Unlanded(t)' + p.amount
      <3>1. /\ Unlanded(t) = Total(UnlandedOf(t))
            /\ Unlanded(t)' = Total(UnlandedOf(t)') /\ Entries(UnlandedOf(t)')
        BY UnlandedType, UnlandedNext
      <3>2. Total(UnlandedOf(t)' \cup {r}) = Total(UnlandedOf(t)') + r.amount
        BY <1>1, <2>3, <2>4, <3>1, TotalWith
      <3> QED
        BY <2>3, <2>4, <3>1, <3>2
    <2>6. wallet'[t] = wallet[t] - p.amount
      BY <1>1, <1>2, <1>6
    <2>7. Unlanded(t)' \in Nat
      BY UnlandedNext
    <2> QED
      BY <1>1, <1>6, <2>1, <2>5, <2>6, <2>7 DEF CoveredFor, Spendable
  <1> QED
    BY <1>1, <1>5, <1>6

\* Reservations in time whose operation has landed.
LandedOf(t) == {r \in Unexpired : r.token = t /\ Landed(r.id)}

\* What was spent since a balance was read is still reserved, unless a spend of
\* it was released or made twice.
LEMMA SpentIsReserved ==
  ASSUME TypeOK, FiniteParts, OneReservation, SpentOnce, NEW t \in Tokens, NEW n,
         "duplicate" \notin blindSpots[t], ~ReadBeforeSpend(t, n)
  PROVE  Spent(t, n) <= Total(LandedOf(t))
  <1> DEFINE S == SpentAfter(t, n)
             L == LandedOf(t)
             f == [x \in ledger |-> plan[x.op].amount]
             g == [r \in L |-> r.amount]
             h == [x \in S |-> CHOOSE r \in L : r.id = x.op]
  <1>1. /\ S \subseteq ledger /\ IsFiniteSet(S) /\ \A x \in ledger : plan[x.op].amount \in Nat
    BY SpentType
  <1>2. \A x \in S : x.ok /\ plan[x.op].token = t /\ plan[x.op].amount > 0
    BY DEF SpentAfter
  <1>3. ASSUME NEW x \in S PROVE \E r \in L : r.id = x.op
    <2>1. PICK r \in Unexpired : r.id = x.op
      BY <1>3 DEF ReadBeforeSpend, SpentAfter
    <2>2. r.token = t
      BY <1>2, <1>3, <2>1 DEF OneReservation, Unexpired
    <2>3. Landed(r.id)
      BY <1>1, <1>2, <1>3, <2>1 DEF Landed
    <2> QED
      BY <2>1, <2>2, <2>3 DEF LandedOf
  <1>4. \A x \in S : h[x] \in L /\ h[x].id = x.op
    BY <1>3
  <1>5. \A r \in L : r \in reservations /\ r.amount = plan[r.id].amount
    BY DEF LandedOf, Unexpired, OneReservation
  <1>6. IsFiniteSet(L) /\ \A r \in L : g[r] \in Nat
    <2>1. IsFiniteSet(L)
      BY <1>5, FS_Subset DEF FiniteParts
    <2> QED
      BY <1>5, <2>1 DEF TypeOK, Reservation
  <1>7. \A x \in S : f[x] \in Nat /\ g[h[x]] = f[x]
    BY <1>1, <1>4, <1>5
  <1>8. \A x, y \in S : h[x] = h[y] => x = y
    BY <1>1, <1>2, <1>4 DEF SpentOnce
  <1>9. {h[x] : x \in S} \subseteq L
    BY <1>4
  <1>10. Spent(t, n) = SumFunctionOnSet(f, S) /\ Total(L) = SumFunctionOnSet(g, L)
    BY DEF Spent, Total
  <1> HIDE DEF S, L, f, g, h
  <1>11. SumFunctionOnSet(g, {h[x] : x \in S}) = SumFunctionOnSet(f, S)
    BY <1>1, <1>7, <1>8, SumImage
  <1>12. SumFunctionOnSet(g, {h[x] : x \in S}) <= SumFunctionOnSet(g, L)
    BY <1>6, <1>9, SumMono
  <1> QED
    BY <1>10, <1>11, <1>12 DEF L

\* reserve's comparison keeps what has not landed covered.
LEMMA CoveredReserve ==
  ASSUME TypeOK, TypeOK', SingleOwner, ReservationsOfLiveOps, FiniteParts, FiniteParts', OneReservation,
         Network, SpentOnce, NEW o \in Ops, NEW p \in Plan, NEW raw \in Int, Reserves(o, p, raw),
         NEW t \in Tokens, blindSpots[t] \subseteq blindSpots'[t], CoveredFor(t)
  PROVE  CoveredFor(t)'
  <1> DEFINE q == [id |-> o, token |-> p.token, amount |-> p.amount, age |-> 0]
             E == {r \in Unexpired : r.token = t}
             U == {r \in E : ~Landed(r.id)}
             L == LandedOf(t)
  <1>1. /\ reservations' = Unexpired \cup {q} /\ ledger' = ledger /\ wallet' = wallet
        /\ stage[o] = "planning"
    BY DEF Reserves, ChainKept
  <1>2. q.id = o /\ q.token = p.token /\ q.amount = p.amount /\ p.amount \in Nat /\ p.token \in Tokens
    BY DEF Plan
  <1>3. \A r \in reservations : r.id # o
    BY <1>1 DEF ReservationsOfLiveOps, Pending
  <1>4. ~Landed(o)
    BY <1>1 DEF Landed, Network, OnNetwork
  <1>5. Unexpired \subseteq reservations
    BY DEF Unexpired
  <1>6. CASE t # p.token
    <2>1. UnlandedOf(t)' \subseteq UnlandedOf(t)
      <3> HIDE DEF q
      <3> QED
        BY <1>1, <1>2, <1>5, <1>6 DEF UnlandedOf, Landed
    <2> QED
      BY <1>1, <2>1, CoveredShrinks
  <1>7. CASE t = p.token
    <2> SUFFICES ASSUME blindSpots'[t] = {}
                 PROVE  Unlanded(t)' <= Spendable(wallet[t], t)
      BY <1>1 DEF CoveredFor
    <2>1. blindSpots[t] = {} /\ ~ReadBeforeSpend(t, p.as_of)
      BY <1>7 DEF Reserves
    <2>2. Spent(t, p.as_of) <= Total(L)
      BY <2>1, SpentIsReserved
    <2>3. Entries(E) /\ U \subseteq E /\ L \subseteq E
      <3>1. Entries(reservations) /\ E \subseteq reservations
        BY <1>5, UnlandedType
      <3>2. Entries(E)
        <4> HIDE DEF E
        <4> QED
          BY <3>1, TotalLess
      <3> QED
        BY <3>2 DEF LandedOf
    <2>4. E = U \cup L /\ U \cap L = {}
      BY DEF LandedOf
    <2>5. UnlandedOf(t)' = U \cup {q} /\ q \notin U
      <3> HIDE DEF q
      <3> QED
        BY <1>1, <1>2, <1>3, <1>4, <1>5, <1>7 DEF UnlandedOf, Landed
    <2>6. Committed(Unexpired, t) = Total(E)
      <3>1. E \in SUBSET Unexpired
        OBVIOUS
      <3>2. SumFunctionOnSet([r \in Unexpired |-> r.amount], E) = Total(E)
        <4> HIDE DEF E
        <4> QED
          BY <2>3, <3>1, TotalOf
      <3> QED
        BY <3>2 DEF Committed
    <2>7. Committed(Unexpired, t) + p.amount <= Spendable(raw, t) /\ Reading(t, raw, p.as_of)
      BY <1>7 DEF Reserves, CanReserve
    <2>8. /\ Total(E) = Total(U) + Total(L) /\ Total(U) \in Nat /\ Total(L) \in Nat
          /\ Entries(U)
      <3> HIDE DEF E, U, L
      <3>1. Entries(U) /\ Entries(L) /\ Total(U) \in Nat /\ Total(L) \in Nat
        BY <2>3, TotalLess
      <3> QED
        BY <2>4, <3>1, TotalParts
    <2>9. Unlanded(t)' = Total(U) + p.amount
      <3>1. Unlanded(t)' = Total(UnlandedOf(t)')
        BY UnlandedNext
      <3> HIDE DEF U, q
      <3>2. Total(U \cup {q}) = Total(U) + q.amount
        BY <1>2, <2>5, <2>8, TotalWith
      <3> QED
        BY <1>2, <2>5, <3>1, <3>2
    <2>10. Spent(t, p.as_of) \in Nat /\ wallet[t] \in Nat /\ raw = wallet[t] + Spent(t, p.as_of)
      BY <2>7, SpentType DEF Reading, TypeOK
    <2> HIDE DEF E, U, L
    <2> QED
      BY <1>2, <2>2, <2>6, <2>7, <2>8, <2>9, <2>10 DEF Spendable
  <1> QED
    BY <1>6, <1>7

\* Every step keeps what has not landed covered.
LEMMA NextCovered ==
  ASSUME IndInv, TypeOK', CoverInv, FiniteParts', Shape
  PROVE  Covered'
  <1> USE DEF IndInv, CoverInv
  <1> SUFFICES ASSUME NEW t \in Tokens PROVE CoveredFor(t)'
    BY DEF Covered, CoveredFor
  <1>0. blindSpots[t] \subseteq blindSpots'[t] /\ CoveredFor(t)
    BY BlindSpotsStay DEF Covered, CoveredFor
  <1>1. ASSUME NEW o \in Ops, NEW p \in Plan, NEW raw \in Int, Reserves(o, p, raw)
        PROVE  CoveredFor(t)'
    BY <1>0, <1>1, CoveredReserve
  <1>2. ASSUME NEW x \in mempool, NEW ok \in BOOLEAN, Apply(x, ok)
        PROVE  CoveredFor(t)'
    BY <1>0, <1>2, CoveredApply
  <1>3. CASE Tick
    BY <1>0, <1>3, CoveredTick
  <1>4. CASE ChainKept /\ reservations' \subseteq reservations
    <2>1. UnlandedOf(t)' \subseteq UnlandedOf(t)
      BY <1>4 DEF UnlandedOf, Landed, ChainKept
    <2> QED
      BY <1>0, <1>4, <2>1, CoveredShrinks DEF ChainKept
  <1>5. Unexpired \subseteq reservations
    BY DEF Unexpired
  <1> QED
    BY <1>1, <1>2, <1>3, <1>4, <1>5
       DEF Shape, MovesOn, Opens, Refuses, Settles, Settle, Released, Restart, ChainKept, chain

-----------------------------------------------------------------------------
(* The amounts in flight. *)

\* The keeper starts with nothing reserved, spent or planned.
LEMMA InitCover == Init => CoverInv
  <1> SUFFICES ASSUME Init PROVE CoverInv
    OBVIOUS
  <1>1. FiniteParts
    <2>1. {o \in Ops : stage[o] # "unused"} = {}
      BY DEF Init
    <2> QED
      BY <2>1, FS_EmptySet DEF Init, FiniteParts
  <1>2. OneReservation /\ Unplanned /\ Network /\ SpentOnce /\ Backed
    BY DEF Init, OneReservation, Unplanned, NoPlan, Network, SpentOnce, Backed, Pending
  <1>3. Readings
    BY DEF Init, Readings
  <1>4. Covered
    <2>1. \A t \in Tokens : UnlandedOf(t) = {}
      BY DEF Init, UnlandedOf
    <2> QED
      BY <2>1, SumEmpty DEF Covered, Unlanded
  <1> QED
    BY <1>1, <1>2, <1>3, <1>4 DEF CoverInv

\* CoverInv is inductive on top of IndInv.
LEMMA CoverInductive == Spec => [](IndInv /\ CoverInv)
  <1>1. IndInv /\ IndInv' /\ CoverInv /\ [Next]_vars => CoverInv'
    <2> SUFFICES ASSUME IndInv, IndInv', CoverInv, [Next]_vars PROVE CoverInv'
      OBVIOUS
    <2>1. /\ TypeOK /\ TypeOK' /\ SingleOwner /\ ReservationsOfLiveOps
          /\ FiniteParts /\ OneReservation /\ Unplanned /\ Network /\ Readings /\ SpentOnce /\ Backed
      BY DEF IndInv, CoverInv
    <2>2. Shape
      BY <2>1, NextShape
    <2>3. FiniteParts' /\ OneReservation' /\ Unplanned' /\ Network' /\ SpentOnce' /\ Backed'
      BY <2>1, <2>2, NextFinite, NextOneReservation, NextUnplanned, NextNetwork, NextSpentOnce, NextBacked
    <2>4. Readings' /\ Covered'
      BY <2>1, <2>2, <2>3, NextReadings, NextCovered
    <2> QED
      BY <2>3, <2>4 DEF CoverInv
  <1> QED
    BY <1>1, InitCover, Inductive, PTL DEF Spec

\* Without a blind spot, operations in flight want no more than is reserved.
LEMMA OutstandingReserved ==
  ASSUME IndInv, CoverInv, NEW t \in Tokens, blindSpots[t] = {}
  PROVE  Outstanding(t) \in Nat /\ Outstanding(t) <= Unlanded(t)
  <1> DEFINE D == {o \in Ops : stage[o] \in Pending /\ plan[o].token = t /\ ~Landed(o)}
             P == {o \in D : plan[o].amount > 0}
             Z == {o \in D : plan[o].amount = 0}
             f == [o \in Ops |-> plan[o].amount]
             W == UnlandedOf(t)
             g == [r \in W |-> r.amount]
             h == [o \in P |-> CHOOSE r \in W : r.id = o]
  <1>1. IsFiniteSet(D)
    <2>1. D \subseteq {o \in Ops : stage[o] # "unused"}
      BY DEF Pending
    <2> QED
      BY <2>1, FS_Subset DEF CoverInv, FiniteParts
  <1>2. \A o \in Ops : f[o] \in Nat
    BY DEF IndInv, TypeOK, Plan
  <1>3. D = P \cup Z /\ P \cap Z = {}
    BY <1>2
  <1>4. ASSUME NEW o \in P PROVE \E r \in W : r.id = o
    BY DEF CoverInv, Backed, UnlandedOf, OneReservation
  <1>5. \A o \in P : o \in Ops /\ h[o] \in W /\ h[o].id = o
    BY <1>4
  <1>6. W \subseteq reservations /\ Entries(W) /\ Unlanded(t) = Total(W)
    BY UnlandedType DEF IndInv, CoverInv
  <1>7. \A r \in W : g[r] \in Nat
    BY <1>6 DEF Entries
  <1>8. Outstanding(t) = SumFunctionOnSet(f, D) /\ Total(W) = SumFunctionOnSet(g, W)
    BY DEF Outstanding, Total
  <1>9. D \subseteq Ops /\ \A o \in Z : f[o] = 0
    OBVIOUS
  <1>10. IsFiniteSet(P) /\ IsFiniteSet(Z)
    BY <1>1, FS_Subset
  <1> HIDE DEF D, P, Z, W, h
  <1>11. \A o \in P : o \in Ops /\ g[h[o]] = f[o]
    BY <1>5, <1>6 DEF CoverInv, OneReservation
  <1>12. \A x, y \in P : h[x] = h[y] => x = y
    BY <1>5
  <1>13. {h[o] : o \in P} \subseteq W
    BY <1>5
  <1> HIDE DEF f, g
  <1>14. SumFunctionOnSet(f, D) = SumFunctionOnSet(f, P) + SumFunctionOnSet(f, Z)
    BY <1>1, <1>2, <1>3, <1>9, SumUnion
  <1>15. SumFunctionOnSet(f, Z) = 0
    BY <1>9, <1>10, SumZero
  <1>16. SumFunctionOnSet(g, {h[o] : o \in P}) = SumFunctionOnSet(f, P) /\ SumFunctionOnSet(f, P) \in Nat
    BY <1>2, <1>11, <1>12, <1>10, SumImage, SumAdd
  <1>17. SumFunctionOnSet(g, {h[o] : o \in P}) <= SumFunctionOnSet(g, W)
    BY <1>6, <1>7, <1>13, SumMono DEF Entries
  <1> QED
    BY <1>6, <1>8, <1>14, <1>15, <1>16, <1>17

\* Operations in flight never need more of a token than the wallet holds beyond
\* its margin, unless a blind spot of the gate was recorded for the token: for
\* any number of operations, tokens and retries, however handlers, the executor,
\* the polls, expiry, the chain and restarts interleave.
THEOREM CoverHolds == Spec => []CoveredUnlessBlind
  <1>1. IndInv /\ CoverInv => CoveredUnlessBlind
    <2> SUFFICES ASSUME IndInv, CoverInv, NEW t \in Tokens, blindSpots[t] = {}, Outstanding(t) > 0
                 PROVE  ~(Outstanding(t) > Spendable(wallet[t], t))
      BY OutstandingReserved DEF CoveredUnlessBlind
    <2>1. Outstanding(t) \in Nat /\ Outstanding(t) <= Unlanded(t)
      BY OutstandingReserved
    <2>2. Unlanded(t) \in Nat /\ (Unlanded(t) = 0 \/ Unlanded(t) <= Spendable(wallet[t], t))
      BY UnlandedType DEF IndInv, CoverInv, Covered
    <2>3. Spendable(wallet[t], t) \in Int
      BY DEF IndInv, TypeOK, Spendable
    <2> QED
      BY <2>1, <2>2, <2>3
  <1> QED
    BY <1>1, CoverInductive, PTL

-----------------------------------------------------------------------------
(* The refinement. *)

\* A reservation and a stage, as the abstract ledger sees them.
AbsOf(r) == [id |-> r.id, token |-> r.token, amount |-> r.amount, due |-> r.age >= ReservationTtl]
StatusOf(v) == IF v \in {"unused", "planning"} THEN "new"
               ELSE IF v \in Pending \cup {"dropped"} THEN "open"
               ELSE "closed"

\* The refinement mapping in these terms, before and after a step.
LEMMA AbsDefs ==
  /\ HeldAbs = {AbsOf(r) : r \in reservations}
  /\ HeldAbs' = {AbsOf(r) : r \in reservations'}
  /\ StatusAbs = [o \in Ops |-> StatusOf(stage[o])]
  /\ StatusAbs' = [o \in Ops |-> StatusOf(stage'[o])]
  BY DEF HeldAbs, StatusAbs, AbsOf, StatusOf

\* The parts of what the abstract ledger sees.
LEMMA AbsParts ==
  ASSUME NEW r
  PROVE  /\ AbsOf(r).id = r.id /\ AbsOf(r).token = r.token /\ AbsOf(r).amount = r.amount
         /\ AbsOf(r).due <=> r.age >= ReservationTtl
  BY DEF AbsOf

\* Unlocking the expired entries leaves those in time.
LEMMA UnexpiredAbs ==
  ASSUME TypeOK
  PROVE  {AbsOf(r) : r \in Unexpired} = Ledger!InTime
  <1>1. \A r \in reservations : r.age < ReservationTtl <=> ~(r.age >= ReservationTtl)
    BY DEF TypeOK, Reservation
  <1> QED
    BY <1>1, AbsDefs, AbsParts DEF Ledger!InTime, Unexpired

\* The status of every other operation stays when one stage is written.
LEMMA StatusWritten ==
  ASSUME TypeOK, NEW o \in Ops, NEW v, stage' = [stage EXCEPT ![o] = v]
  PROVE  StatusAbs' = [StatusAbs EXCEPT ![o] = StatusOf(v)]
  BY AbsDefs DEF TypeOK

\* The sums of the abstract ledger are the same sums.
LEMMA SumInstance == \A f, S : Ledger!SumFunctionOnSet(f, S) = SumFunctionOnSet(f, S)
  BY DEF Ledger!SumFunctionOnSet, Ledger!FoldFunctionOnSet, Ledger!MapThenFoldSet,
         SumFunctionOnSet, FoldFunctionOnSet, MapThenFoldSet

\* What the abstract ledger counts in time is what reserve counts.
LEMMA SumInTime ==
  ASSUME TypeOK, FiniteParts, OneReservation, NEW t
  PROVE  Ledger!Sum(Ledger!InTime, t) = Committed(Unexpired, t) /\ Committed(Unexpired, t) \in Nat
  <1> DEFINE E == {r \in Unexpired : r.token = t}
             h == [r \in E |-> AbsOf(r)]
             A == {a \in Ledger!InTime : a.token = t}
  <1>1. Unexpired \subseteq reservations /\ E \subseteq reservations
    BY DEF Unexpired
  <1>2. Entries(E)
    <2>1. Entries(reservations)
      BY UnlandedType
    <2> HIDE DEF E
    <2> QED
      BY <1>1, <2>1, TotalLess
  <1>3. Committed(Unexpired, t) = Total(E) /\ Total(E) \in Nat
    <2>1. E \in SUBSET Unexpired
      OBVIOUS
    <2>2. SumFunctionOnSet([r \in Unexpired |-> r.amount], E) = Total(E) /\ Total(E) \in Nat
      <3> HIDE DEF E
      <3> QED
        BY <1>2, <2>1, TotalOf
    <2> QED
      BY <2>2 DEF Committed
  <1>4. /\ \A r \in E : h[r].amount = r.amount
        /\ \A q, r \in E : h[q] = h[r] => q = r
    BY <1>1, AbsParts DEF OneReservation
  <1>5. A = {h[r] : r \in E}
    <2>1. A = {a \in {AbsOf(r) : r \in Unexpired} : a.token = t}
      BY UnexpiredAbs
    <2>2. \A r \in E : h[r] = AbsOf(r)
      OBVIOUS
    <2> HIDE DEF A, h
    <2> QED
      BY <2>1, <2>2, AbsParts
  <1>6. Entries(A) /\ Total(A) = Total(E)
    <2> HIDE DEF E, h, A
    <2> QED
      BY <1>2, <1>4, <1>5, TotalImage
  <1>7. SumFunctionOnSet([a \in Ledger!InTime |-> a.amount], A) = Total(A)
    <2>1. A \in SUBSET Ledger!InTime
      OBVIOUS
    <2> HIDE DEF A
    <2> QED
      BY <1>6, <2>1, TotalOf
  <1>8. Ledger!Sum(Ledger!InTime, t) = Total(A)
    BY <1>7, SumInstance DEF Ledger!Sum
  <1> QED
    BY <1>3, <1>6, <1>8

AbsNext == Ledger!Next \/ UNCHANGED <<HeldAbs, StatusAbs>>

\* Moving on, and everything on the chain, is invisible.
LEMMA StutterAbs ==
  ASSUME TypeOK, reservations' = reservations, \A o \in Ops : StatusOf(stage'[o]) = StatusOf(stage[o])
  PROVE  AbsNext
  <1>1. HeldAbs' = HeldAbs
    BY AbsDefs
  <1>2. StatusAbs' = StatusAbs
    BY AbsDefs
  <1> QED
    BY <1>1, <1>2 DEF AbsNext

\* An action with nothing reserved opens its operation.
LEMMA OpensAbs ==
  ASSUME TypeOK, NEW o \in Ops, Opens(o)
  PROVE  AbsNext
  <1>1. StatusAbs' = [StatusAbs EXCEPT ![o] = "open"]
    BY StatusWritten DEF Opens, StatusOf, Pending
  <1>2. StatusAbs[o] = "new"
    BY AbsDefs DEF Opens, StatusOf
  <1>3. HeldAbs' = HeldAbs
    BY AbsDefs DEF Opens
  <1>4. Ledger!Open(o)
    BY <1>1, <1>2, <1>3 DEF Ledger!Open
  <1> QED
    BY <1>4 DEF AbsNext, Ledger!Next

\* A plan that is given up closes its operation, with or without the expired
\* entries.
LEMMA RefusesAbs ==
  ASSUME TypeOK, NEW o \in Ops, Refuses(o)
  PROVE  AbsNext
  <1>1. StatusAbs' = [StatusAbs EXCEPT ![o] = "closed"]
    BY StatusWritten DEF Refuses, StatusOf, Pending
  <1>2. StatusAbs[o] = "new"
    BY AbsDefs DEF Refuses, StatusOf
  <1>3. HeldAbs' = HeldAbs \/ HeldAbs' = Ledger!InTime
    BY AbsDefs, UnexpiredAbs DEF Refuses
  <1>4. Ledger!Refuse(o)
    BY <1>1, <1>2, <1>3 DEF Ledger!Refuse
  <1> QED
    BY <1>4 DEF AbsNext, Ledger!Next

\* The settle hook closes its operation and frees what it held.
LEMMA SettlesAbs ==
  ASSUME TypeOK, NEW o \in Ops, Settles(o)
  PROVE  AbsNext
  <1>1. StatusAbs' = [StatusAbs EXCEPT ![o] = "closed"]
    BY StatusWritten, ZenonT(30) DEF Settles, Settle, StatusOf, Pending
  <1>2. StatusAbs[o] = "open"
    BY AbsDefs DEF Settles, StatusOf, Pending
  <1>3. HeldAbs' = {a \in HeldAbs : a.id # o}
    <2>1. reservations' = {r \in reservations : r.id # o}
      BY DEF Settles, Settle, Released
    <2> QED
      BY <2>1, AbsDefs, AbsParts
  <1>4. Ledger!Close(o)
    BY <1>1, <1>2, <1>3 DEF Ledger!Close
  <1> QED
    BY <1>4 DEF AbsNext, Ledger!Next

\* A reservation holds what fits under the cap: the balance it was judged by was
\* read, and no balance exceeds the first.
LEMMA ReservesAbs ==
  ASSUME TypeOK, FiniteParts, OneReservation, NEW o \in Ops, NEW p \in Plan, NEW raw \in Int,
         Reserves(o, p, raw)
  PROVE  AbsNext
  <1> DEFINE t == p.token
             a == [id |-> o, token |-> t, amount |-> p.amount, due |-> FALSE]
             q == [id |-> o, token |-> t, amount |-> p.amount, age |-> 0]
  <1>1. StatusAbs' = [StatusAbs EXCEPT ![o] = "open"]
    BY StatusWritten DEF Reserves, StatusOf, Pending
  <1>2. StatusAbs[o] = "new"
    BY AbsDefs DEF Reserves, StatusOf
  <1>3. t \in Tokens /\ p.amount \in Nat /\ InitialWallet[t] \in Nat
    BY DEF Plan
  <1>4. /\ Committed(Unexpired, t) + p.amount <= Spendable(raw, t) /\ p.amount > 0
        /\ raw <= InitialWallet[t]
    BY DEF Reserves, CanReserve, Reading
  <1>5. CapAbs[t] = Spendable(InitialWallet[t], t)
    BY <1>3 DEF CapAbs
  <1>6. Committed(Unexpired, t) + p.amount <= CapAbs[t]
    <2>1. Committed(Unexpired, t) \in Nat
      BY SumInTime
    <2> QED
      BY <1>3, <1>4, <1>5, <2>1 DEF Spendable
  <1>7. p.amount \in 1..CapAbs[t]
    <2>1. Committed(Unexpired, t) \in Nat
      BY SumInTime
    <2>2. CapAbs[t] \in Int
      BY <1>3, <1>5 DEF Spendable
    <2> QED
      BY <1>3, <1>4, <1>6, <2>1, <2>2
  <1>8. HeldAbs' = Ledger!InTime \cup {a}
    <2>1. reservations' = Unexpired \cup {q}
      BY DEF Reserves
    <2>2. AbsOf(q) = a
      <3>1. q.id = o /\ q.token = t /\ q.amount = p.amount /\ (q.age >= ReservationTtl) = FALSE
        OBVIOUS
      <3> HIDE DEF q
      <3> QED
        BY <3>1, Zenon DEF AbsOf
    <2> HIDE DEF q, a
    <2>3. HeldAbs' = {AbsOf(r) : r \in Unexpired} \cup {a}
      BY <2>1, <2>2, AbsDefs
    <2> QED
      BY <2>3, UnexpiredAbs
  <1>9. Ledger!Hold(o, t, p.amount)
    <2>1. Ledger!Sum(Ledger!InTime, t) + p.amount <= CapAbs[t]
      BY <1>6, SumInTime
    <2> QED
      BY <1>1, <1>2, <1>8, <2>1 DEF Ledger!Hold
  <1>10. Ledger!Next
    BY <1>3, <1>7, <1>9 DEF Ledger!Next
  <1> QED
    BY <1>10 DEF AbsNext

\* A second makes some entries overdue.
LEMMA TickAbs ==
  ASSUME TypeOK, OneReservation, Tick
  PROVE  AbsNext
  <1> DEFINE Next1(r) == Aged(r, ReservationTtl)
             S == {AbsOf(r) : r \in {q \in reservations : Next1(q).age >= ReservationTtl}}
             D(a) == [a EXCEPT !.due = @ \/ a \in S]
  <1>1. ASSUME NEW r \in reservations
        PROVE  AbsOf(Next1(r)) = D(AbsOf(r))
    <2>1. AbsOf(r) \in S <=> Next1(r).age >= ReservationTtl
      BY AbsParts DEF OneReservation
    <2>2. r.age >= ReservationTtl => Next1(r).age >= ReservationTtl
      BY SMTT(30) DEF Aged, TypeOK, Reservation
    <2>3. AbsOf(Next1(r)) = [id |-> r.id, token |-> r.token, amount |-> r.amount,
                             due |-> Next1(r).age >= ReservationTtl]
      BY AgedParts DEF AbsOf
    <2> HIDE DEF S, Next1
    <2>4. PICK b : b = AbsOf(r)
      OBVIOUS
    <2>5. PICK d \in BOOLEAN, e \in BOOLEAN :
             (d <=> r.age >= ReservationTtl) /\ (e <=> Next1(r).age >= ReservationTtl)
      OBVIOUS
    <2>6. d = (r.age >= ReservationTtl) /\ e = (Next1(r).age >= ReservationTtl)
      BY <2>5
    <2>7. b = [id |-> r.id, token |-> r.token, amount |-> r.amount, due |-> d]
      BY <2>4, <2>6, Zenon DEF AbsOf
    <2>8. AbsOf(Next1(r)) = [id |-> r.id, token |-> r.token, amount |-> r.amount, due |-> e]
      BY <2>3, <2>6, Zenon
    <2>9. (b.due \/ b \in S) = e
      <3>1. b.due = d
        BY <2>7
      <3>2. (d \/ b \in S) <=> e
        BY <2>1, <2>2, <2>4, <2>5
      <3> QED
        BY <3>1, <3>2
    <2>10. D(b) = [b EXCEPT !.due = e]
      BY <2>9, Zenon
    <2>11. [b EXCEPT !.due = e] = [id |-> r.id, token |-> r.token, amount |-> r.amount, due |-> e]
      BY <2>7
    <2> QED
      BY <2>4, <2>8, <2>10, <2>11
  <1>2. S \in SUBSET HeldAbs
    BY AbsDefs
  <1>3. HeldAbs' = {D(a) : a \in HeldAbs}
    <2>1. reservations' = {Next1(r) : r \in reservations}
      BY DEF Tick
    <2> HIDE DEF Next1, D
    <2> QED
      BY <1>1, <2>1, AbsDefs
  <1>4. StatusAbs' = StatusAbs
    BY AbsDefs DEF Tick
  <1>5. Ledger!Age(S)
    BY <1>3, <1>4 DEF Ledger!Age
  <1> HIDE DEF S
  <1> QED
    BY <1>2, <1>5 DEF AbsNext, Ledger!Next

\* The process dies.
LEMMA RestartAbs ==
  ASSUME TypeOK, Restart
  PROVE  AbsNext
  <1> DEFINE S == {o \in Ops : stage[o] \in Pending \cup {"planning"}}
  <1>1. HeldAbs' = {}
    BY AbsDefs DEF Restart
  <1>2. StatusAbs' = [o \in Ops |-> IF o \in S THEN "closed" ELSE StatusAbs[o]]
    <2>1. ASSUME NEW o \in Ops
          PROVE  StatusOf(stage'[o]) = IF o \in S THEN "closed" ELSE StatusOf(stage[o])
      BY DEF Restart, StatusOf, Pending
    <2> HIDE DEF S
    <2> QED
      BY <2>1, AbsDefs
  <1>3. Ledger!Crash
    BY <1>1, <1>2 DEF Ledger!Crash
  <1> QED
    BY <1>3 DEF AbsNext, Ledger!Next

\* The pipeline implements the reservation ledger, for any number of operations:
\* each of its steps holds, opens, refuses, closes, ages or crashes as the
\* ledger allows, or does not show.
THEOREM LedgerImplemented == Spec => ImplementsReservationLedger
  <1>1. Init => Ledger!Init
    BY AbsDefs DEF Init, Ledger!Init, StatusOf
  <1>2. IndInv /\ CoverInv /\ [Next]_vars => [Ledger!Next]_<<HeldAbs, StatusAbs>>
    <2> SUFFICES ASSUME IndInv, CoverInv, [Next]_vars PROVE AbsNext
      BY DEF AbsNext
    <2>1. TypeOK /\ SingleOwner /\ FiniteParts /\ OneReservation /\ Readings
      BY DEF IndInv, CoverInv
    <2>2. Shape
      BY <2>1, NextShape
    <2>3. CASE MovesOn
      <3>1. \A o \in Ops : StatusOf(stage'[o]) = StatusOf(stage[o])
        BY <2>3 DEF MovesOn, Moves, StatusOf, Pending
      <3> QED
        BY <2>1, <2>3, <3>1, StutterAbs DEF MovesOn
    <2>4. CASE \E x \in mempool, ok \in BOOLEAN : Apply(x, ok)
      BY <2>1, <2>4, StutterAbs DEF Apply, capital
    <2> QED
      BY <2>1, <2>2, <2>3, <2>4, OpensAbs, RefusesAbs, SettlesAbs, ReservesAbs, TickAbs, RestartAbs DEF Shape
  <1> QED
    BY <1>1, <1>2, CoverInductive, PTL DEF Spec, ImplementsReservationLedger, Ledger!Spec
=============================================================================
