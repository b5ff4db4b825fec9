-------------------------- MODULE MarketScanProofs --------------------------
(***************************************************************************)
(* Proofs about MarketScan, for every list of markets and pools, every      *)
(* refresh interval, age limit and channel capacity.                        *)
(***************************************************************************)
EXTENDS MarketScan, SequenceTheorems, TLAPS

USE ScanAssumption

Scanning == {"judge", "plan", "simulate"}

\* The first price of a read pool by pool was read within the round, and a market
\* is at hand where the code takes one.
RoundInv ==
    /\ round.lag <= round.spent
    /\ round.at \in Scanning \cup {"pools"} => round.todo # <<>>

\* A stamp is no younger than the prices by more than the round that read them.
StampInv ==
    \A m \in Markets : snapshot[m].held =>
        snapshot[m].priced # {} /\ snapshot[m].oldest <= snapshot[m].age + RoundBudget

\* The age guard is looked at once; the scan goes on for the rest of the round.
ScanInv ==
    round.at \in Scanning =>
        /\ snapshot[Market].held
        /\ snapshot[Market].age <= MaxDataAge + round.spent

IndInv == TypeOK /\ RoundInv /\ StampInv /\ ScanInv

-----------------------------------------------------------------------------
(* Types. *)

Rounds == [at : Places, syncing : BOOLEAN, todo : Seq(Markets),
           unread : SUBSET Pools, read : SUBSET Pools, lag : 0..RoundBudget,
           left : SUBSET Obligations, job : Obligations \cup {NoObligation},
           retry : BOOLEAN, spent : 0..RoundBudget]

\* Nothing is under way between rounds.
LEMMA IdleType == Idle \in Rounds
  BY DEF Idle, Rounds, Places

\* The market at hand is one of the configured ones.
LEMMA MarketType ==
  ASSUME TypeOK, round.todo # <<>>
  PROVE  Market \in Markets /\ Tail(round.todo) \in Seq(Markets) /\ snapshot[Market] \in Snapshots
  <1>1. round.todo \in Seq(Markets)
    BY DEF TypeOK
  <1>2. Head(round.todo) \in Markets /\ Tail(round.todo) \in Seq(Markets)
    BY <1>1
  <1> QED
    BY <1>2 DEF Market, TypeOK

\* A full channel overwrites its oldest event: the next one is that much further
\* past the one before it.
LEMMA QueueType ==
  ASSUME NEW q \in Seq(1..RefreshInterval), Len(q) <= EventCapacity, NEW n \in 1..RefreshInterval,
         NEW r, r = IF Len(Append(q, n)) <= EventCapacity THEN Append(q, n)
                    ELSE [Tail(Append(q, n)) EXCEPT ![1] = UpTo(@ + Head(Append(q, n)), RefreshInterval)]
  PROVE  r \in Seq(1..RefreshInterval) /\ Len(r) <= EventCapacity
  <1> DEFINE s == Append(q, n)
             t == Tail(s)
             v == UpTo(t[1] + Head(s), RefreshInterval)
  <1>1. s \in Seq(1..RefreshInterval) /\ Len(s) = Len(q) + 1 /\ s # <<>> /\ Len(q) \in Nat
    OBVIOUS
  <1>2. CASE Len(s) <= EventCapacity
    BY <1>1, <1>2
  <1>3. CASE ~(Len(s) <= EventCapacity)
    <2>1. t \in Seq(1..RefreshInterval) /\ Len(t) = Len(q) /\ Len(t) >= 1
      BY <1>1, <1>3
    <2>2. t[1] \in 1..RefreshInterval /\ Head(s) \in 1..RefreshInterval
      <3> HIDE DEF s, t
      <3>1. 1 \in 1..Len(t)
        BY <2>1
      <3>2. t[1] \in 1..RefreshInterval
        BY <2>1, <3>1, ElementOfSeq
      <3> QED
        BY <1>1, <3>2, HeadTailProperties
    <2>3. v \in 1..RefreshInterval
      <3>1. PICK i \in 1..RefreshInterval, j \in 1..RefreshInterval : i = t[1] /\ j = Head(s)
        BY <2>2
      <3>2. UpTo(i + j, RefreshInterval) \in 1..RefreshInterval
        BY DEF UpTo
      <3>3. v = UpTo(i + j, RefreshInterval)
        BY <3>1
      <3> QED
        BY <3>2, <3>3
    <2>4. r = [t EXCEPT ![1] = v]
      BY <1>3
    <2> HIDE DEF s, t, v
    <2>5. 1 \in 1..Len(t)
      BY <2>1
    <2>6. [t EXCEPT ![1] = v] \in Seq(1..RefreshInterval) /\ Len([t EXCEPT ![1] = v]) = Len(t)
      BY <2>1, <2>3, <2>5, ExceptSeq
    <2> QED
      BY <2>1, <2>4, <2>6
  <1> QED
    BY <1>2, <1>3

-----------------------------------------------------------------------------
(* Steps. *)

\* The keeper starts with nothing read.
LEMMA InitKeeps == Init => IndInv
  <1> SUFFICES ASSUME Init PROVE IndInv
    OBVIOUS
  <1>1. /\ round \in Rounds /\ round.lag = 0 /\ round.spent = 0 /\ round.at = "refresh"
    BY IdleType DEF Init, Idle, Rounds, Places
  <1>2. snapshot \in [Markets -> Snapshots] /\ \A m \in Markets : ~snapshot[m].held
    BY DEF Init, NoSnapshot, Snapshots, Ages, AgeCap
  <1>3. TypeOK
    BY <1>1, <1>2 DEF Init, TypeOK, Rounds
  <1> QED
    BY <1>1, <1>2, <1>3 DEF IndInv, RoundInv, StampInv, ScanInv, Scanning

\* What is said of the round and of the snapshots is about nothing else.
LEMMA OutsideMovesKeep ==
  ASSUME IndInv, TypeOK', UNCHANGED <<snapshot, round>>
  PROVE  IndInv'
  BY DEF IndInv, RoundInv, StampInv, ScanInv, Market

\* Ledgers close and are reported; events change the obligations.
LEMMA OutsideKeeps ==
  ASSUME IndInv, CloseLedger \/ ReportLedger \/ IgnoreLedger \/ \E o \in Obligations : EventChanges(o)
  PROVE  IndInv'
  <1>1. UNCHANGED <<snapshot, round>> /\ TypeOK
    BY DEF CloseLedger, ReportLedger, IgnoreLedger, EventChanges, IndInv
  <1> SUFFICES TypeOK'
    BY <1>1, OutsideMovesKeep
  <1>2. CASE CloseLedger
    <2>1. unreported' \in 0..RefreshInterval
      BY <1>1, <1>2 DEF CloseLedger, UpTo, TypeOK
    <2> QED
      BY <1>1, <1>2, <2>1 DEF CloseLedger, TypeOK
  <1>3. CASE ReportLedger
    <2>1. unreported \in 1..RefreshInterval /\ queue \in Seq(1..RefreshInterval) /\ Len(queue) <= EventCapacity
      BY <1>1, <1>3 DEF ReportLedger, TypeOK
    <2>2. queue' \in Seq(1..RefreshInterval) /\ Len(queue') <= EventCapacity
      <3> DEFINE r == IF Len(Append(queue, unreported)) <= EventCapacity THEN Append(queue, unreported)
                      ELSE [Tail(Append(queue, unreported)) EXCEPT
                              ![1] = UpTo(@ + Head(Append(queue, unreported)), RefreshInterval)]
      <3>1. queue' = r
        BY <1>3 DEF ReportLedger
      <3>2. r \in Seq(1..RefreshInterval) /\ Len(r) <= EventCapacity
        BY <2>1, QueueType
      <3> QED
        BY <3>1, <3>2
    <2>3. unreported' \in 0..RefreshInterval /\ UNCHANGED <<since, mem>>
      BY <1>3 DEF ReportLedger
    <2> QED
      BY <1>1, <2>2, <2>3 DEF TypeOK
  <1>4. CASE IgnoreLedger
    <2>1. queue \in Seq(1..RefreshInterval) /\ queue # <<>> /\ Len(queue) <= EventCapacity
      BY <1>1, <1>4 DEF IgnoreLedger, TypeOK
    <2>2. Head(queue) \in 1..RefreshInterval /\ Tail(queue) \in Seq(1..RefreshInterval)
          /\ Len(Tail(queue)) <= EventCapacity
      BY <2>1
    <2>3. since' \in 0..RefreshInterval
      BY <1>1, <1>4, <2>2, SMTT(30) DEF IgnoreLedger, TypeOK
    <2> QED
      BY <1>1, <1>4, <2>2, <2>3 DEF IgnoreLedger, TypeOK
  <1>5. ASSUME NEW o \in Obligations, EventChanges(o)
        PROVE  TypeOK'
    <2>1. mem' \subseteq Obligations
      BY <1>1, <1>5 DEF EventChanges, TypeOK
    <2>2. UNCHANGED <<unreported, queue, since>>
      BY <1>5 DEF EventChanges, ledgers
    <2> QED
      BY <1>1, <2>1, <2>2 DEF TypeOK
  <1> QED
    BY <1>2, <1>3, <1>4, <1>5

\* Steps of the handler that leave the snapshots and the market at hand alone, and
\* pass no time.
LEMMA RoundMovesKeep ==
  ASSUME IndInv, UNCHANGED <<ledgers, mem, snapshot>>, round' \in Rounds,
         round'.lag <= round'.spent,
         round'.at \in Scanning \cup {"pools"} => round'.todo # <<>>,
         round'.at \in Scanning => /\ snapshot[Head(round'.todo)].held
                                   /\ snapshot[Head(round'.todo)].age <= MaxDataAge + round'.spent
  PROVE  IndInv'
  <1> USE DEF IndInv
  <1>1. TypeOK'
    BY DEF TypeOK, ledgers, Rounds
  <1> QED
    BY <1>1 DEF RoundInv, StampInv, ScanInv, Market

\* A round begins on a ledger far enough past the last one.
LEMMA StartKeeps ==
  ASSUME IndInv, StartRound
  PROVE  IndInv'
  <1>1. round' \in Rounds /\ round'.lag = 0 /\ round'.spent = 0 /\ round'.at = "refresh"
    BY IdleType DEF StartRound, Idle, Rounds, Places
  <1>2. queue \in Seq(1..RefreshInterval) /\ queue # <<>> /\ Len(queue) <= EventCapacity
    BY DEF StartRound, IndInv, TypeOK
  <1>3. Tail(queue) \in Seq(1..RefreshInterval) /\ Len(Tail(queue)) <= EventCapacity
    BY <1>2
  <1>4. TypeOK'
    BY <1>1, <1>3, SMTT(30) DEF StartRound, IndInv, TypeOK, Rounds
  <1> QED
    BY <1>1, <1>4 DEF StartRound, IndInv, RoundInv, StampInv, ScanInv, Scanning

\* On to the next market's refresh.
LEMMA NextRefreshType ==
  ASSUME IndInv, round.todo # <<>>, round' = NextRefresh
  PROVE  round' \in Rounds /\ round'.lag = 0 /\ round'.spent = round.spent /\ round'.at = "refresh"
  <1>1. Tail(round.todo) \in Seq(Markets) /\ round \in Rounds
    BY MarketType DEF IndInv, TypeOK, Rounds
  <1> QED
    <2>1. "refresh" \in Places
      BY DEF Places
    <2>2. round' \in Rounds
      <3> DEFINE r1 == [round EXCEPT !.at = "refresh", !.todo = Tail(@)]
                 r2 == [r1 EXCEPT !.unread = {}, !.read = {}]
      <3>1. r1 \in Rounds
        BY <1>1, <2>1 DEF Rounds
      <3>2. r2 \in Rounds
        <4> HIDE DEF r1
        <4> QED
          BY <3>1 DEF Rounds
      <3>3. [r2 EXCEPT !.lag = 0] \in Rounds
        <4> HIDE DEF r2
        <4>1. 0 \in 0..RoundBudget
          OBVIOUS
        <4> QED
          BY ONLY <3>2, <4>1 DEF Rounds
      <3>4. round' = [r2 EXCEPT !.lag = 0]
        BY <1>1 DEF NextRefresh, Rounds
      <3> QED
        BY <3>3, <3>4
    <2>3. round'.lag = 0 /\ round'.spent = round.spent /\ round'.at = "refresh"
      BY <1>1 DEF NextRefresh, Rounds
    <2> QED
      BY <2>2, <2>3

\* On to the next market's scan.
LEMMA NextScanType ==
  ASSUME IndInv, round.todo # <<>>, round' = NextScan
  PROVE  round' \in Rounds /\ round'.lag = round.lag /\ round'.spent = round.spent /\ round'.at = "evaluate"
  <1>1. Tail(round.todo) \in Seq(Markets) /\ round \in Rounds
    BY MarketType DEF IndInv, TypeOK, Rounds
  <1> QED
    BY <1>1 DEF NextScan, Rounds, Places

\* The handler between calls, and calls that install nothing.
LEMMA HandlerKeeps ==
  ASSUME IndInv,
         \/ ReadFails \/ ReadPerPool \/ Refreshed
         \/ \E p \in Pools, ok \in BOOLEAN : ReadPool(p, ok)
         \/ EvaluateMarket
         \/ \E o \in Obligations : SkipObligation(o) \/ Judge(o)
         \/ NothingToDo \/ PlanFound \/ Simulated \/ LeavesDust
         \/ ScanDone \/ RoundDone
  PROVE  IndInv'
  <1>1. UNCHANGED <<ledgers, mem, snapshot>>
    BY DEF ReadFails, ReadPerPool, Refreshed, ReadPool, EvaluateMarket, SkipObligation, Judge,
           NothingToDo, PlanFound, Simulated, LeavesDust, ScanDone, RoundDone
  <1>2. /\ TypeOK /\ round \in Rounds /\ round.lag <= round.spent /\ mem \subseteq Obligations
        /\ round.at \in Scanning \cup {"pools"} => round.todo # <<>>
        /\ round.at \in Scanning => /\ snapshot[Head(round.todo)].held
                                    /\ snapshot[Head(round.todo)].age <= MaxDataAge + round.spent
    BY DEF IndInv, TypeOK, RoundInv, ScanInv, Market, Rounds
  <1> SUFFICES /\ round' \in Rounds
               /\ round'.lag <= round'.spent
               /\ round'.at \in Scanning \cup {"pools"} => round'.todo # <<>>
               /\ round'.at \in Scanning => /\ snapshot[Head(round'.todo)].held
                                            /\ snapshot[Head(round'.todo)].age <= MaxDataAge + round'.spent
    BY <1>1, RoundMovesKeep
  <1>3. CASE ReadFails
    <2>1. round.todo # <<>> /\ round' = NextRefresh
      BY <1>3 DEF ReadFails
    <2>2. round' \in Rounds /\ round'.lag = 0 /\ round'.spent = round.spent /\ round'.at = "refresh"
      BY <2>1, NextRefreshType
    <2>3. round.spent \in Nat
      BY <1>2 DEF Rounds
    <2> QED
      BY <2>2, <2>3 DEF Scanning
  <1>4. CASE ReadPerPool
    <2>1. PoolsOf[Market] \subseteq Pools
      BY <1>2, <1>4, MarketType DEF ReadPerPool
    <2> QED
      BY <1>2, <1>4, <2>1 DEF ReadPerPool, Rounds, Places, Scanning
  <1>5. CASE Refreshed
    <2>1. CASE round.syncing
      BY <1>5, <2>1, IdleType DEF Refreshed, Idle, Scanning
    <2>2. CASE ~round.syncing
      BY <1>2, <1>5, <2>2 DEF Refreshed, Rounds, Places, Scanning
    <2> QED
      BY <2>1, <2>2
  <1>6. ASSUME NEW p \in Pools, NEW ok \in BOOLEAN, ReadPool(p, ok)
        PROVE  /\ round' \in Rounds /\ round'.lag = round.lag /\ round'.spent = round.spent
               /\ round'.at = "pools" /\ round'.todo = round.todo /\ round.at = "pools"
    BY <1>2, <1>6, ZenonT(30) DEF ReadPool, Rounds, Places
  <1>7. CASE EvaluateMarket
    <2>1. CASE ~snapshot[Market].held \/ TooOld(snapshot[Market]) \/ InMarket(Market) = {}
      BY <1>2, <1>7, <2>1, NextScanType DEF EvaluateMarket, Scanning
    <2>2. CASE ~(~snapshot[Market].held \/ TooOld(snapshot[Market]) \/ InMarket(Market) = {})
      <3>1. InMarket(Market) \subseteq Obligations
        BY <1>2 DEF InMarket
      <3>2. /\ round' = [round EXCEPT !.at = "judge", !.left = InMarket(Market)]
            /\ round.todo # <<>>
        BY <1>7, <2>2 DEF EvaluateMarket
      <3>3. snapshot[Market].held /\ ~TooOld(snapshot[Market])
        BY <2>2
      <3>4. snapshot[Market].age \in Nat
        BY <1>2, <3>2, MarketType DEF Snapshots, Ages
      <3>5. round.spent \in Nat
        BY <1>2 DEF Rounds
      <3>6. snapshot[Market].age <= MaxDataAge + round.spent
        BY <3>3, <3>4, <3>5 DEF TooOld
      <3>7. /\ round' \in Rounds /\ round'.lag = round.lag /\ round'.spent = round.spent
            /\ round'.todo = round.todo /\ round'.at = "judge"
        BY <1>2, <3>1, <3>2 DEF Rounds, Places
      <3> QED
        BY <1>2, <3>2, <3>3, <3>6, <3>7 DEF Market, Scanning
    <2> QED
      BY <2>1, <2>2
  <1>8. ASSUME NEW o \in Obligations, SkipObligation(o) \/ Judge(o)
        PROVE  /\ round' \in Rounds /\ round'.lag = round.lag /\ round'.spent = round.spent
               /\ round'.at \in Scanning /\ round'.todo = round.todo /\ round.at \in Scanning
    <2>1. CASE SkipObligation(o)
      <3>1. round' = [round EXCEPT !.left = @ \ {o}] /\ round.at = "judge"
        BY <2>1 DEF SkipObligation
      <3> QED
        BY <1>2, <3>1 DEF Rounds, Scanning
    <2>2. CASE Judge(o)
      <3>1. round' = [round EXCEPT !.at = "plan", !.job = o] /\ round.at = "judge" /\ "plan" \in Places
        BY <2>2 DEF Judge, Places
      <3> QED
        BY <1>2, <3>1 DEF Rounds, Scanning
    <2> QED
      BY <1>8, <2>1, <2>2
  <1>9. ASSUME NothingToDo \/ PlanFound \/ Simulated \/ LeavesDust
        PROVE  /\ round' \in Rounds /\ round'.lag = round.lag /\ round'.spent = round.spent
               /\ round'.at \in Scanning /\ round'.todo = round.todo /\ round.at \in Scanning
    <2>1. "judge" \in Places /\ "plan" \in Places /\ "simulate" \in Places
      BY DEF Places
    <2>2. CASE NothingToDo \/ Simulated
      <3>1. round' = NextObligation /\ round.at \in Scanning
        BY <2>2 DEF NothingToDo, Simulated, Scanning
      <3>2. round' \in Rounds
        BY <1>2, <2>1, <3>1 DEF NextObligation, Rounds
      <3> QED
        BY <1>2, <3>1, <3>2 DEF NextObligation, Rounds, Scanning
    <2>3. CASE PlanFound
      <3>1. round' = [round EXCEPT !.at = "simulate"] /\ round.at = "plan"
        BY <2>3 DEF PlanFound
      <3> QED
        BY <1>2, <2>1, <3>1 DEF Rounds, Scanning
    <2>4. CASE LeavesDust
      <3>1. round' = [round EXCEPT !.at = "plan", !.retry = TRUE] /\ round.at = "simulate"
        BY <2>4 DEF LeavesDust
      <3> QED
        BY <1>2, <2>1, <3>1 DEF Rounds, Scanning
    <2> QED
      BY <1>9, <2>2, <2>3, <2>4
  <1>10. CASE ScanDone
    BY <1>2, <1>10, NextScanType DEF ScanDone, Scanning
  <1>11. CASE RoundDone
    BY <1>11, IdleType DEF RoundDone, Idle, Scanning
  <1> QED
    BY <1>2, <1>3, <1>4, <1>5, <1>6, <1>7, <1>8, <1>9, <1>10, <1>11 DEF Scanning

\* A snapshot is installed when it prices a pool, and is no older than the round.
LEMMA InstallKeeps ==
  ASSUME IndInv, ReadAll \/ InstallSnapshot
  PROVE  IndInv'
  <1>1. TypeOK /\ round.todo # <<>> /\ StampInv
    BY DEF IndInv, ReadAll, InstallSnapshot, RoundInv
  <1>2. round' \in Rounds /\ round'.lag = 0 /\ round'.spent = round.spent /\ round'.at = "refresh"
    BY <1>1, NextRefreshType DEF ReadAll, InstallSnapshot
  <1>3. Market \in Markets
    BY <1>1, MarketType
  <1>4. round.lag \in 0..RoundBudget /\ round.spent \in Nat /\ round.read \subseteq Pools
    BY <1>1 DEF TypeOK
  <1>5. CASE UNCHANGED snapshot
    <2>1. UNCHANGED <<ledgers, mem, snapshot>>
      BY <1>5 DEF ReadAll, InstallSnapshot
    <2> QED
      BY <1>2, <1>4, <2>1, RoundMovesKeep DEF Scanning
  <1>6. ASSUME snapshot' # snapshot
        PROVE  \E ps \in SUBSET Pools, l \in 0..RoundBudget :
                  ps # {} /\ snapshot' = [snapshot EXCEPT ![Market] =
                                            [held |-> TRUE, priced |-> ps, age |-> 0, oldest |-> l]]
    <2>1. CASE ReadAll
      <3>1. PoolsOf[Market] \in SUBSET Pools /\ PoolsOf[Market] # {}
        BY <1>3
      <3> QED
        BY <2>1, <3>1, 0 \in 0..RoundBudget, Zenon DEF ReadAll
    <2>2. CASE InstallSnapshot
      BY <1>4, <1>6, <2>2 DEF InstallSnapshot
    <2> QED
      BY <2>1, <2>2
  <1>7. CASE snapshot' # snapshot
    <2>1. PICK ps \in SUBSET Pools, l \in 0..RoundBudget :
            ps # {} /\ snapshot' = [snapshot EXCEPT ![Market] =
                                      [held |-> TRUE, priced |-> ps, age |-> 0, oldest |-> l]]
      BY <1>6, <1>7
    <2>2. [held |-> TRUE, priced |-> ps, age |-> 0, oldest |-> l] \in Snapshots
      BY DEF Snapshots, Ages, AgeCap
    <2>3. snapshot' \in [Markets -> Snapshots]
      BY <1>1, <2>1, <2>2 DEF TypeOK
    <2>4. StampInv'
      BY <1>1, <1>3, <2>1, <2>3 DEF StampInv, TypeOK
    <2>5. TypeOK'
      BY <1>1, <1>2, <2>3 DEF TypeOK, Rounds, ReadAll, InstallSnapshot, ledgers
    <2> QED
      BY <1>2, <1>4, <2>4, <2>5 DEF IndInv, RoundInv, ScanInv, Scanning
  <1> QED
    BY <1>5, <1>7


\* A second passes: the stamp and the prices age together, and the scan has as much
\* less of the round to go.
LEMMA TickKeeps ==
  ASSUME IndInv, Tick
  PROVE  IndInv'
  <1>1. TypeOK /\ RoundInv /\ StampInv /\ ScanInv /\ round \in Rounds /\ snapshot \in [Markets -> Snapshots]
    BY DEF IndInv, TypeOK, Rounds
  <1>2. AgeCap \in Nat /\ AgeCap = MaxDataAge + 2 * RoundBudget + 1
    BY DEF AgeCap
  <1>3. \A m \in Markets : /\ ~snapshot[m].held => snapshot'[m] = snapshot[m]
                           /\ snapshot[m].held => snapshot'[m] = [snapshot[m] EXCEPT
                                  !.age = UpTo(@ + 1, AgeCap), !.oldest = UpTo(@ + 1, AgeCap)]
    BY DEF Tick
  <1>4. ASSUME NEW s \in Snapshots, NEW t, t = [s EXCEPT !.age = UpTo(@ + 1, AgeCap), !.oldest = UpTo(@ + 1, AgeCap)]
        PROVE  /\ t \in Snapshots /\ t.held = s.held /\ t.priced = s.priced
               /\ t.age <= s.age + 1
               /\ s.oldest <= s.age + RoundBudget => t.oldest <= t.age + RoundBudget
    <2>1. s.age \in Nat /\ s.oldest \in Nat /\ s.age <= AgeCap /\ s.oldest <= AgeCap
      BY <1>2 DEF Snapshots, Ages
    <2>2. UpTo(s.age + 1, AgeCap) \in Ages /\ UpTo(s.oldest + 1, AgeCap) \in Ages
      BY <1>2, <2>1 DEF UpTo, Ages
    <2>3. /\ t \in Snapshots /\ t.held = s.held /\ t.priced = s.priced
          /\ t.age = UpTo(s.age + 1, AgeCap) /\ t.oldest = UpTo(s.oldest + 1, AgeCap)
      BY <1>4, <2>2 DEF Snapshots
    <2>4. UpTo(s.age + 1, AgeCap) <= s.age + 1
      BY <1>2, <2>1 DEF UpTo
    <2>5. s.oldest <= s.age + RoundBudget => UpTo(s.oldest + 1, AgeCap) <= UpTo(s.age + 1, AgeCap) + RoundBudget
      BY <1>2, <2>1 DEF UpTo
    <2> QED
      BY <2>3, <2>4, <2>5
  <1>5. ASSUME NEW m \in Markets
        PROVE  /\ snapshot'[m] \in Snapshots /\ snapshot'[m].held = snapshot[m].held
               /\ snapshot'[m].priced = snapshot[m].priced /\ snapshot'[m].age <= snapshot[m].age + 1
               /\ snapshot[m].held => snapshot'[m].oldest <= snapshot'[m].age + RoundBudget
    <2>1. snapshot[m] \in Snapshots /\ snapshot[m].age \in Nat
      BY <1>1, <1>2 DEF Snapshots, Ages
    <2>2. CASE snapshot[m].held
      <3>1. snapshot[m].oldest <= snapshot[m].age + RoundBudget
        BY <1>1, <2>2 DEF StampInv
      <3> QED
        BY <1>3, <1>4, <2>1, <2>2, <3>1
    <2>3. CASE ~snapshot[m].held
      <3>1. snapshot'[m] = snapshot[m]
        BY <1>3, <2>3
      <3>2. snapshot[m].age <= snapshot[m].age + 1
        BY <2>1
      <3> QED
        BY <2>1, <2>3, <3>1, <3>2
    <2> QED
      BY <2>2, <2>3
  <1>6. snapshot' \in [Markets -> Snapshots]
    <2>1. snapshot' = [m \in Markets |-> snapshot'[m]]
      BY DEF Tick
    <2> QED
      BY <1>5, <2>1
  <1>7. /\ round' \in Rounds /\ round'.at = round.at /\ round'.todo = round.todo
        /\ round'.lag <= round'.spent
        /\ round.at # "recv" => round'.spent = round.spent + 1
    <2>1. CASE round.at = "recv"
      BY <1>1, <2>1 DEF Tick, RoundInv
    <2>2. CASE round.at # "recv"
      <3>0. /\ round.spent \in 0..RoundBudget /\ round.lag \in 0..RoundBudget /\ round.lag <= round.spent
            /\ round.spent < RoundBudget
        BY <1>1, <2>2 DEF Tick, RoundInv, TypeOK
      <3>1. PICK sp \in Nat, l \in Nat : sp = round.spent /\ l = round.lag /\ l <= sp /\ sp < RoundBudget
        BY <3>0
      <3>2. PICK k : k = IF round.read = {} THEN 0 ELSE l + 1
        OBVIOUS
      <3>3. k \in 0..RoundBudget /\ k <= sp + 1 /\ sp + 1 \in 0..RoundBudget
        BY <3>1, <3>2
      <3>4. round' = [round EXCEPT !.spent = sp + 1, !.lag = k]
        BY <2>2, <3>1, <3>2 DEF Tick
      <3> QED
        BY <1>1, <3>1, <3>3, <3>4 DEF Rounds
    <2> QED
      BY <2>1, <2>2
  <1>8. TypeOK'
    BY <1>1, <1>6, <1>7 DEF TypeOK, Rounds, Tick, ledgers
  <1>9. RoundInv'
    BY <1>1, <1>7 DEF RoundInv
  <1>10. StampInv'
    BY <1>1, <1>5 DEF StampInv
  <1>11. ScanInv'
    <2> SUFFICES ASSUME round.at \in Scanning
                 PROVE  snapshot'[Market].held /\ snapshot'[Market].age <= MaxDataAge + round'.spent
      BY <1>7 DEF ScanInv, Market
    <2>1. snapshot[Market].held /\ snapshot[Market].age <= MaxDataAge + round.spent /\ round.todo # <<>>
      BY <1>1 DEF ScanInv, RoundInv
    <2>2. Market \in Markets
      BY <1>1, <2>1, MarketType
    <2>3. snapshot[Market].age \in Nat /\ snapshot'[Market].age \in Nat /\ round.spent \in Nat
      <3>1. snapshot[Market] \in Snapshots /\ snapshot'[Market] \in Snapshots
        BY <1>1, <1>6, <2>2
      <3>2. snapshot[Market].age \in 0..AgeCap /\ snapshot'[Market].age \in 0..AgeCap
        BY <3>1 DEF Snapshots, Ages
      <3>3. round.spent \in 0..RoundBudget
        BY <1>1 DEF TypeOK
      <3> QED
        BY <1>2, <3>2, <3>3
    <2>4. round'.spent = round.spent + 1
      BY <1>7 DEF Scanning
    <2> QED
      BY <1>5, <2>1, <2>2, <2>3, <2>4, SMTT(30)
  <1> QED
    BY <1>8, <1>9, <1>10, <1>11 DEF IndInv

\* Every step keeps the invariant.
LEMMA NextKeeps == IndInv /\ [Next]_vars => IndInv'
  <1> SUFFICES ASSUME IndInv, [Next]_vars PROVE IndInv'
    OBVIOUS
  <1>1. CASE UNCHANGED vars
    BY <1>1 DEF vars, IndInv, TypeOK, RoundInv, StampInv, ScanInv, Market
  <1>2. CASE Next
    BY <1>2, OutsideKeeps, StartKeeps, HandlerKeeps, InstallKeeps, TickKeeps DEF Next, Handle
  <1> QED
    BY <1>1, <1>2

-----------------------------------------------------------------------------
(* Theorems. *)

\* What holds between any two steps of the round.
THEOREM ScanInvariance == Spec => []IndInv
  <1> QED
    BY InitKeeps, NextKeeps, PTL DEF Spec

\* Every variable keeps its type: the ages stay under the cap, the event channel
\* within its capacity, and a round within its budget.
THEOREM ScanTypeCorrect == Spec => []TypeOK
  <1>1. IndInv => TypeOK
    BY DEF IndInv
  <1> QED
    BY <1>1, ScanInvariance, PTL

\* A market is scanned only on prices that are held, and that were read at most the
\* age limit and two rounds before: refresh_market_data keeps the stamp of a snapshot
\* it could not replace, install_snapshot refuses an empty one, and the age guard of
\* evaulate_market is looked at before the scan.
THEOREM HeldPricesScanned == Spec => []ScansOnHeldPrices
  <1>1. IndInv => ScansOnHeldPrices
    <2> SUFFICES ASSUME IndInv, round.at \in Scanning
                 PROVE  /\ snapshot[Market].priced # {}
                        /\ snapshot[Market].oldest <= MaxDataAge + 2 * RoundBudget
      BY DEF ScansOnHeldPrices, Scanning
    <2>1. TypeOK /\ round.todo # <<>> /\ snapshot[Market].held
          /\ snapshot[Market].age <= MaxDataAge + round.spent
      BY DEF IndInv, RoundInv, ScanInv
    <2>2. Market \in Markets /\ snapshot[Market] \in Snapshots
      BY <2>1, MarketType
    <2>3. snapshot[Market].priced # {} /\ snapshot[Market].oldest <= snapshot[Market].age + RoundBudget
      BY <2>1, <2>2 DEF IndInv, StampInv
    <2>4. round.spent \in 0..RoundBudget
      BY <2>1 DEF TypeOK
    <2>5. snapshot[Market].age \in Nat /\ snapshot[Market].oldest \in Nat
      BY <2>2 DEF Snapshots, Ages, AgeCap
    <2> QED
      BY <2>1, <2>3, <2>4, <2>5
  <1> QED
    BY <1>1, ScanInvariance, PTL
=============================================================================
