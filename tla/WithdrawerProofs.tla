-------------------------- MODULE WithdrawerProofs --------------------------
(***************************************************************************)
(* Proofs about Withdrawer, for every set of pools and markets, every       *)
(* configuration and any number of changes made by others. What was sized   *)
(* on a reading that still stands is paid, in the safe band, and as large   *)
(* as the band allows.                                                      *)
(***************************************************************************)
EXTENDS Withdrawer, NumberLemmas, SequenceTheorems

USE WithdrawerAssumption

-----------------------------------------------------------------------------
(* The inductive invariant. *)

\* A withdrawal sized on a reading, pools ps and positions sh being what stands: it
\* is as large as the band allows, and while the reading stands it is paid and keeps
\* the pool in the band.
Sound(w, ps, sh) ==
    /\ w.amount # Everything =>
          w.on.borrowed * BPS_FACTOR > (w.on.limit - SafetyMargin) * (w.on.supply - w.amount - 1)
    /\ ~w.stale => /\ Pays(w, w.on, w.held)
                   /\ Tokens(w, w.on, w.held) <= compute_max_safe_withdrawal(w.on, SafetyMargin)
                   /\ w.on = ps[w.pool] /\ w.held = sh[w.pool]

SoundOn(ps, sh) == {w \in Withdrawal : Sound(w, ps, sh)}

\* No pool is past i128::MAX, and its limit is a share of one.
PoolInv == \A p \in Pools : pools[p].supply <= Everything /\ pools[p].limit <= BPS_FACTOR

\* A position that was read and has not changed since is the one the keeper has.
ReadInv ==
    /\ at # "market" => \A p \in Pools : deposits[p].held = 0
    /\ \A p \in Pools : ~deposits[p].stale => deposits[p].held = 0 \/ deposits[p].held = shares[p]

SoundInv == built \in Seq(SoundOn(pools, shares)) /\ actions \in Seq(SoundOn(pools, shares))

IndInv == TypeOK /\ PoolInv /\ ReadInv /\ SoundInv /\ SafeUnlessStale

-----------------------------------------------------------------------------
(* Arithmetic of pools. *)

\* What rounding up returns.
LEMMA CeilBounds ==
  ASSUME NEW a \in Nat, NEW b \in Nat \ {0}
  PROVE  CeilDiv(a, b) \in Nat /\ a <= CeilDiv(a, b) * b /\ CeilDiv(a, b) * b < a + b
  BY UpBounds DEF CeilDiv

\* Rounding up returns the least that covers.
LEMMA CeilLeast ==
  ASSUME NEW a \in Nat, NEW b \in Nat \ {0}, NEW c \in Nat, a <= c * b
  PROVE  CeilDiv(a, b) <= c
  BY UpLeast DEF CeilDiv

\* A position is worth no more than the pool holds.
LEMMA PositionType ==
  ASSUME NEW p \in PoolType, NEW h \in Nat
  PROVE  /\ j_tokens_to_tokens_floor(p, h) \in Nat
         /\ h <= p.j => j_tokens_to_tokens_floor(p, h) <= p.supply
  <1>1. PICK j \in Nat, s \in Nat : j = p.j /\ s = p.supply
    BY DEF PoolType
  <1>2. CASE j = 0
    BY <1>1, <1>2 DEF j_tokens_to_tokens_floor
  <1>3. CASE j # 0
    <2>1. h * s \in Nat /\ (h * s) \div j \in Nat
      BY <1>3, DivBounds
    <2>2. h <= j => (h * s) \div j <= s
      <3> SUFFICES ASSUME h <= j PROVE (h * s) \div j <= s
        OBVIOUS
      <3>1. h * s <= s * j
        BY TimesMono
      <3> QED
        BY <1>3, <2>1, <3>1, FloorMost
    <2> QED
      BY <1>1, <1>3, <2>1, <2>2 DEF j_tokens_to_tokens_floor
  <1> QED
    BY <1>2, <1>3

\* What a position is worth, rounded down, costs no more shares than the position
\* has, rounded up (j_tokens_to_tokens_floor, tokens_to_j_tokens_ceil).
LEMMA SharesCovered ==
  ASSUME NEW p \in PoolType, NEW h \in Nat, NEW a \in Nat, a <= j_tokens_to_tokens_floor(p, h)
  PROVE  tokens_to_j_tokens_ceil(p, a) \in Nat /\ tokens_to_j_tokens_ceil(p, a) <= h
  <1>1. PICK j \in Nat, s \in Nat : j = p.j /\ s = p.supply
    BY DEF PoolType
  <1>2. a * j <= h * s
    <2>1. CASE j = 0
      <3>1. a * j = 0 /\ h * s \in Nat
        BY <2>1
      <3> QED
        BY <3>1
    <2>2. CASE j # 0
      <3>1. h * s \in Nat
        OBVIOUS
      <3>2. PICK q \in Nat : q = (h * s) \div j /\ q * j <= h * s
        BY <2>2, <3>1, DivBounds
      <3>3. a <= q
        BY <1>1, <2>2, <3>2 DEF j_tokens_to_tokens_floor
      <3>4. a * j <= q * j /\ a * j \in Nat /\ q * j \in Nat
        BY <3>3, TimesMono
      <3> QED
        BY <3>1, <3>2, <3>4
    <2> QED
      BY <2>1, <2>2
  <1>3. CASE s = 0
    <2>1. h * s = 0
      BY <1>3
    <2>2. j_tokens_to_tokens_floor(p, h) = 0
      <3>1. CASE j = 0
        BY <1>1, <3>1 DEF j_tokens_to_tokens_floor
      <3>2. CASE j # 0
        <4>1. 0 \div j = 0
          BY <3>2
        <4> QED
          BY <1>1, <2>1, <3>2, <4>1 DEF j_tokens_to_tokens_floor
      <3> QED
        BY <3>1, <3>2
    <2> QED
      BY <1>1, <1>3, <2>2 DEF tokens_to_j_tokens_ceil
  <1>4. CASE s # 0
    <2>1. a * j \in Nat
      OBVIOUS
    <2>2. CeilDiv(a * j, s) \in Nat /\ CeilDiv(a * j, s) <= h
      BY <1>2, <1>4, <2>1, CeilLeast, CeilBounds
    <2> QED
      BY <1>1, <1>4, <2>2 DEF tokens_to_j_tokens_ceil
  <1> QED
    BY <1>3, <1>4

\* compute_max_safe_withdrawal: it leaves the borrowed tokens alone, keeps utilisation
\* within the limit less the margin, and one token more would not.
LEMMA SafeWithdrawal ==
  ASSUME NEW p \in PoolType, p.limit <= BPS_FACTOR, NEW m,
         m = compute_max_safe_withdrawal(p, SafetyMargin), m > 0
  PROVE  /\ m \in Nat
         /\ p.limit - SafetyMargin > 0
         /\ m <= p.supply - p.borrowed
         /\ p.borrowed * BPS_FACTOR > (p.limit - SafetyMargin) * (p.supply - m - 1)
         /\ p.borrowed * BPS_FACTOR <= (p.limit - SafetyMargin) * (p.supply - m)
  <1>1. PICK s \in Nat, b \in Nat, l \in Nat : s = p.supply /\ b = p.borrowed /\ l = p.limit /\ l <= BPS_FACTOR
    BY DEF PoolType
  <1>2. l - SafetyMargin > 0
    BY <1>1 DEF compute_max_safe_withdrawal
  <1>3. PICK e \in Nat \ {0} : e = l - SafetyMargin /\ e <= BPS_FACTOR
    BY <1>1, <1>2
  <1>4. b * BPS_FACTOR \in Nat
    OBVIOUS
  <1>5. PICK k \in Nat : k = CeilDiv(b * BPS_FACTOR, e) /\ b * BPS_FACTOR <= k * e /\ k * e < b * BPS_FACTOR + e
    BY <1>4, CeilBounds
  <1>6. m = s - k /\ k < s
    BY <1>1, <1>3, <1>5 DEF compute_max_safe_withdrawal, bps_fixed_div_ceil
  <1>7. b <= k
    <2> SUFFICES ASSUME k + 1 <= b PROVE FALSE
      OBVIOUS
    <2>1. (k + 1) * BPS_FACTOR <= b * BPS_FACTOR
      BY TimesMono
    <2>2. k * e <= k * BPS_FACTOR
      BY <1>3, TimesMono
    <2>3. (k + 1) * BPS_FACTOR = k * BPS_FACTOR + BPS_FACTOR /\ k * BPS_FACTOR \in Nat /\ k * e \in Nat
      OBVIOUS
    <2> QED
      BY <1>4, <1>5, <2>1, <2>2, <2>3
  <1>8. e * (k - 1) = k * e - e /\ e * k = k * e /\ k * e \in Nat
    OBVIOUS
  <1>9. s - m = k /\ s - m - 1 = k - 1
    BY <1>6
  <1> QED
    BY <1>1, <1>3, <1>4, <1>5, <1>6, <1>7, <1>8, <1>9

\* With at least the least safe supply left, utilisation rounded up is in the band.
LEMMA StaysInBand ==
  ASSUME NEW b \in Nat, NEW e \in Nat \ {0}, NEW k \in Nat, NEW s \in Nat,
         b * BPS_FACTOR <= e * k, k <= s, s # 0
  PROVE  CeilDiv(b * BPS_FACTOR, s) \in Nat /\ CeilDiv(b * BPS_FACTOR, s) <= e
  <1>1. e * k <= e * s /\ e * k \in Nat /\ e * s \in Nat /\ b * BPS_FACTOR \in Nat
    BY TimesMono
  <1>2. PICK n \in Nat : n = b * BPS_FACTOR /\ n <= e * s
    BY <1>1
  <1>3. CeilDiv(n, s) \in Nat /\ CeilDiv(n, s) <= e
    BY <1>2, CeilLeast, CeilBounds
  <1> QED
    BY <1>2, <1>3

-----------------------------------------------------------------------------
(* Sequences. *)

\* SetToSeq lists the elements of a finite set.
LEMMA SetToSeqType ==
  ASSUME NEW S, IsFiniteSet(S)
  PROVE  SetToSeq(S) \in Seq(S) /\ Len(SetToSeq(S)) = Cardinality(S)
  <1>1. Cardinality(S) \in Nat /\ ExistsBijection(1..Cardinality(S), S)
    BY FS_CardinalityType
  <1>2. PICK n \in Nat : n = Cardinality(S)
    BY <1>1
  <1>3. \E f \in [1..n -> S] : IsInjective(f)
    BY <1>1, <1>2 DEF ExistsBijection, Bijection, Injection
  <1>4. SetToSeq(S) \in [1..n -> S]
    BY <1>2, <1>3, Zenon DEF SetToSeq
  <1> QED
    BY <1>2, <1>4

\* A channel of n keeps n entries, and no others than it was sent.
LEMMA NewestType ==
  ASSUME NEW S, NEW s \in Seq(S), NEW n \in Nat
  PROVE  Newest(s, n) \in Seq(S) /\ Len(Newest(s, n)) <= n
  <1>1. CASE Len(s) <= n
    BY <1>1 DEF Newest
  <1>2. CASE ~(Len(s) <= n)
    <2>1. PICK l \in Nat : l = Len(s) /\ l > n
      BY <1>2
    <2>2. \A i \in (l - n + 1)..l : s[i] \in S
      BY <2>1, ElementOfSeq
    <2>3. SubSeq(s, l - n + 1, l) \in Seq(S) /\ Len(SubSeq(s, l - n + 1, l)) = IF l - n + 1 <= l THEN l - (l - n + 1) + 1 ELSE 0
      BY <2>1, <2>2, SubSeqProperties
    <2>4. Len(SubSeq(s, l - n + 1, l)) <= n
      BY <2>1, <2>3
    <2> QED
      BY <1>2, <2>1, <2>3, <2>4 DEF Newest
  <1> QED
    BY <1>1, <1>2

\* An event is added to the strategy's channel.
LEMMA EmitType ==
  ASSUME TypeOK, NEW m \in Markets, NEW k \in Kinds, Emit(m, k)
  PROVE  events' \in Seq([market : Markets, kind : Kinds]) /\ Len(events') <= EventCapacity
  <1> DEFINE e == [market |-> m, kind |-> k]
             E == [market : Markets, kind : Kinds]
  <1>1. e \in E /\ events \in Seq(E)
    BY DEF TypeOK
  <1>2. events' = Newest(Append(events, e), EventCapacity)
    BY DEF Emit
  <1> HIDE DEF e, E
  <1>3. Append(events, e) \in Seq(E)
    BY <1>1
  <1>4. events' \in Seq(E) /\ Len(events') <= EventCapacity
    BY <1>2, <1>3, NewestType
  <1> QED
    BY <1>4 DEF E

\* Nothing but pool p, and the keeper's position in it, is different.
SameBut(p, ps, sh, qs, th) == \A q \in Pools : q # p => qs[q] = ps[q] /\ th[q] = sh[q]

\* Withdrawals that are marked when their pool changes stay sound.
LEMMA MarkedSound ==
  ASSUME NEW ps, NEW sh, NEW qs, NEW th, NEW p \in Pools, SameBut(p, ps, sh, qs, th),
         NEW ws \in Seq(SoundOn(ps, sh))
  PROVE  OutOfDate(ws, p) \in Seq(SoundOn(qs, th)) /\ Len(OutOfDate(ws, p)) = Len(ws)
  <1>1. PICK n \in Nat : n = Len(ws) /\ DOMAIN ws = 1..n
    OBVIOUS
  <1>2. ASSUME NEW i \in 1..n
        PROVE  [ws[i] EXCEPT !.stale = @ \/ ws[i].pool = p] \in SoundOn(qs, th)
    <2>1. PICK w : w = ws[i] /\ w \in Withdrawal /\ Sound(w, ps, sh)
      BY <1>1, ElementOfSeq DEF SoundOn
    <2>2. PICK b \in BOOLEAN : b = (w.stale \/ w.pool = p)
      OBVIOUS
    <2>3. PICK v : v = [w EXCEPT !.stale = b]
      OBVIOUS
    <2>4. /\ v \in Withdrawal /\ v.pool = w.pool /\ v.amount = w.amount /\ v.on = w.on /\ v.held = w.held
          /\ v.stale = b
      BY <2>1, <2>3 DEF Withdrawal
    <2>5. ~v.stale => ~w.stale /\ w.pool # p
      BY <2>2, <2>4
    <2>6. Tokens(v, v.on, v.held) = Tokens(w, w.on, w.held) /\ Pays(w, w.on, w.held) = Pays(v, v.on, v.held)
      BY <2>4 DEF Tokens, Pays, Shares
    <2>7. w.pool \in Pools
      BY <2>1 DEF Withdrawal
    <2>8. Sound(v, qs, th)
      BY <2>1, <2>4, <2>5, <2>6, <2>7 DEF Sound, SameBut
    <2>9. v = [ws[i] EXCEPT !.stale = @ \/ ws[i].pool = p]
      BY <2>1, <2>2, <2>3
    <2> QED
      BY <2>4, <2>8, <2>9 DEF SoundOn
  <1> DEFINE f == OutOfDate(ws, p)
  <1>3. f \in [1..n -> SoundOn(qs, th)]
    BY <1>1, <1>2 DEF OutOfDate
  <1> HIDE DEF f
  <1>4. f \in Seq(SoundOn(qs, th)) /\ Len(f) = n
    BY <1>3
  <1> QED
    BY <1>1, <1>4 DEF f

-----------------------------------------------------------------------------
(* The start. *)

\* Nothing is read and nothing is under way at the start.
LEMMA InitKeeps == Init => IndInv
  <1> SUFFICES ASSUME Init PROVE IndInv
    OBVIOUS
  <1>1. Max(Prices) \in Prices
    <2>1. PICK n \in Nat : \A x \in Prices : x <= n
      BY FiniteBounded
    <2> QED
      BY <2>1, MaxProperties
  <1>2. price \in [Pools -> Prices]
    BY <1>1 DEF Init
  <1>3. /\ deposits \in [Pools -> [held : Nat, stale : BOOLEAN]]
        /\ \A p \in Pools : deposits[p].held = 0
    BY DEF Init, NothingRead
  <1>4. phase \in 0..(Interval - 1)
    <2>1. 1 % Interval \in 0..(Interval - 1)
      OBVIOUS
    <2> QED
      BY <2>1 DEF Init
  <1>5. \A S : <<>> \in Seq(S) /\ Len(<<>>) = 0
    OBVIOUS
  <1>6. /\ events \in Seq([market : Markets, kind : Kinds]) /\ Len(events) <= EventCapacity
        /\ todo \in Seq(Markets) /\ (at = "idle" <=> todo = <<>>)
        /\ built \in Seq(Withdrawal)
        /\ actions \in Seq(Withdrawal) /\ Len(actions) <= ActionCapacity
    BY <1>5 DEF Init
  <1>7. TypeOK
    BY <1>2, <1>3, <1>4, <1>6 DEF Init, TypeOK
  <1>8. SoundInv
    BY <1>5 DEF Init, SoundInv
  <1> QED
    BY <1>3, <1>7, <1>8 DEF Init, IndInv, PoolInv, ReadInv, SafeUnlessStale

-----------------------------------------------------------------------------
(* The chain. *)

\* The withdrawals under way are marked when p changes.
LEMMA UnderWayMarked ==
  ASSUME IndInv, NEW p \in Pools, NEW ws \in Seq(SoundOn(pools, shares)),
         \A q \in Pools : q # p => pools'[q] = pools[q] /\ shares'[q] = shares[q]
  PROVE  /\ OutOfDate(ws, p) \in Seq(SoundOn(pools', shares')) /\ Len(OutOfDate(ws, p)) = Len(ws)
         /\ OutOfDate(ws, p) \in Seq(Withdrawal)
  <1>1. PICK ps, sh, qs, th : ps = pools /\ sh = shares /\ qs = pools' /\ th = shares'
    OBVIOUS
  <1>2. SameBut(p, ps, sh, qs, th)
    BY <1>1 DEF SameBut
  <1>3. \A xs \in Seq(SoundOn(ps, sh)) :
          OutOfDate(xs, p) \in Seq(SoundOn(qs, th)) /\ Len(OutOfDate(xs, p)) = Len(xs)
    BY <1>2, MarkedSound
  <1>4. OutOfDate(ws, p) \in Seq(SoundOn(qs, th)) /\ Len(OutOfDate(ws, p)) = Len(ws)
    BY <1>1, <1>3
  <1>5. Seq(SoundOn(qs, th)) \subseteq Seq(Withdrawal)
    BY DEF SoundOn
  <1> QED
    BY <1>1, <1>4, <1>5

\* Other users change a pool: what was sized on it is marked.
LEMMA OthersKeep ==
  ASSUME IndInv, NEW p \in Pools, NEW t \in PoolType, NEW k \in Kinds, OthersChange(p, t, k),
         t.borrowed <= t.supply, t.supply <= Everything, shares[p] <= t.j, t.limit = pools[p].limit
  PROVE  IndInv'
  <1>1. TypeOK /\ PoolInv /\ ReadInv /\ SoundInv /\ SafeUnlessStale
    BY DEF IndInv
  <1>2. pools' = [pools EXCEPT ![p] = t] /\ pools \in [Pools -> PoolType]
    BY <1>1 DEF OthersChange, TypeOK
  <1>3. pools' \in [Pools -> PoolType] /\ \A q \in Pools : pools'[q] = IF q = p THEN t ELSE pools[q]
    BY <1>2
  <1>4. UNCHANGED <<shares, price, phase, at, todo, deposits, strayed, faults>>
    BY DEF OthersChange
  <1>5. /\ built' \in Seq(SoundOn(pools', shares'))
        /\ actions' \in Seq(SoundOn(pools', shares')) /\ Len(actions') = Len(actions)
    <2>1. \A q \in Pools : q # p => pools'[q] = pools[q] /\ shares'[q] = shares[q]
      BY <1>3, <1>4
    <2>2. built \in Seq(SoundOn(pools, shares)) /\ actions \in Seq(SoundOn(pools, shares))
      BY <1>1 DEF SoundInv
    <2>3. built' = OutOfDate(built, p) /\ actions' = OutOfDate(actions, p)
      BY DEF OthersChange
    <2> QED
      BY <2>1, <2>2, <2>3, UnderWayMarked
  <1>6. built' \in Seq(Withdrawal) /\ actions' \in Seq(Withdrawal)
    BY <1>5 DEF SoundOn
  <1>7. events' \in Seq([market : Markets, kind : Kinds]) /\ Len(events') <= EventCapacity
    <2>1. Emit(MarketOf[p], k) /\ MarketOf[p] \in Markets
      BY DEF OthersChange
    <2> QED
      BY <1>1, <2>1, EmitType
  <1>8. changes' \in 0..MaxChanges
    <2>1. changes \in 0..MaxChanges /\ changes < MaxChanges /\ changes' = changes + 1
      BY <1>1 DEF OthersChange, TypeOK
    <2> QED
      BY <2>1
  <1>9. TypeOK'
    <2>1. \A q \in Pools : shares'[q] <= pools'[q].j /\ pools'[q].borrowed <= pools'[q].supply
      BY <1>1, <1>3, <1>4 DEF TypeOK
    <2> QED
      BY <1>1, <1>3, <1>4, <1>5, <1>6, <1>7, <1>8, <2>1 DEF TypeOK
  <1>10. PoolInv'
    BY <1>1, <1>3 DEF PoolInv
  <1> QED
    BY <1>1, <1>4, <1>5, <1>9, <1>10 DEF IndInv, ReadInv, SoundInv, SafeUnlessStale

\* Deposits, repays, borrows and withdrawals of others leave a pool a pool.
LEMMA UsersKeep ==
  ASSUME IndInv, NEW p \in Pools, NEW amount \in Steps,
         Deposit(p, amount) \/ Repay(p, amount) \/ Borrow(p, amount) \/ OthersWithdraw(p, amount)
  PROVE  IndInv'
  <1>1. PICK t : t = pools[p]
    OBVIOUS
  <1>2. /\ t \in PoolType /\ t.borrowed <= t.supply /\ t.supply <= Everything
        /\ shares[p] \in Nat /\ shares[p] <= t.j
    BY <1>1 DEF IndInv, TypeOK, PoolInv
  <1>3. PICK s \in Nat, j \in Nat, b \in Nat, n \in Nat :
          s = t.supply /\ j = t.j /\ b = t.borrowed /\ n = amount /\ b <= s /\ s <= Everything
    BY <1>2 DEF PoolType
  <1>4. CASE Deposit(p, amount)
    <2>1. PICK f \in Nat : f = tokens_to_j_tokens_floor(t, amount)
      <3>1. n * j \in Nat /\ (s # 0 => (n * j) \div s \in Nat)
        BY DivBounds
      <3> QED
        BY <1>3, <3>1 DEF tokens_to_j_tokens_floor
    <2>2. PICK u : u = [t EXCEPT !.supply = s + n, !.j = j + f]
      OBVIOUS
    <2>3. /\ u \in PoolType /\ u.borrowed = b /\ u.supply = s + n /\ u.j = j + f /\ u.limit = t.limit
      <3>1. PICK x \in Nat, y \in Nat : x = s + n /\ y = j + f
        OBVIOUS
      <3> QED
        BY <1>2, <1>3, <2>2, <3>1 DEF PoolType
    <2>4. s + n <= Everything /\ OthersChange(p, u, "deposit")
      BY <1>1, <1>3, <1>4, <2>1, <2>2 DEF Deposit
    <2>5. shares[p] <= j + f /\ b <= s + n
      BY <1>2, <1>3
    <2>6. "deposit" \in Kinds
      BY DEF Kinds, Increasing
    <2> QED
      BY <1>1, <2>3, <2>4, <2>5, <2>6, OthersKeep
  <1>5. CASE Repay(p, amount)
    <2>1. n <= b
      BY <1>1, <1>3, <1>5 DEF Repay
    <2>2. PICK u : u = [t EXCEPT !.borrowed = b - n]
      OBVIOUS
    <2>3. /\ u \in PoolType /\ u.borrowed = b - n /\ u.supply = s /\ u.j = j /\ u.limit = t.limit
      BY <1>2, <1>3, <2>1, <2>2 DEF PoolType
    <2>4. OthersChange(p, u, "repay")
      BY <1>1, <1>3, <1>5, <2>2 DEF Repay
    <2>5. b - n <= s
      BY <1>3
    <2>6. "repay" \in Kinds
      BY DEF Kinds, Increasing
    <2> QED
      BY <1>1, <1>2, <1>3, <2>3, <2>4, <2>5, <2>6, OthersKeep
  <1>6. CASE Borrow(p, amount)
    <2>1. b + n <= s
      BY <1>1, <1>3, <1>6 DEF Borrow
    <2>2. PICK u : u = [t EXCEPT !.borrowed = b + n]
      OBVIOUS
    <2>3. /\ u \in PoolType /\ u.borrowed = b + n /\ u.supply = s /\ u.j = j /\ u.limit = t.limit
      BY <1>2, <1>3, <2>2 DEF PoolType
    <2>4. OthersChange(p, u, "other")
      BY <1>1, <1>3, <1>6, <2>2 DEF Borrow
    <2>5. "other" \in Kinds
      BY DEF Kinds
    <2> QED
      BY <1>1, <1>2, <1>3, <2>1, <2>3, <2>4, <2>5, OthersKeep
  <1>7. CASE OthersWithdraw(p, amount)
    <2>1. PICK f : f = tokens_to_j_tokens_ceil(t, amount)
      OBVIOUS
    <2>2. f \in Nat
      <3>1. n * j \in Nat /\ (s # 0 => CeilDiv(n * j, s) \in Nat)
        BY CeilBounds
      <3> QED
        BY <1>3, <2>1, <3>1 DEF tokens_to_j_tokens_ceil
    <2>3. n <= s - b /\ f <= j - shares[p]
      BY <1>1, <1>3, <1>7, <2>1 DEF OthersWithdraw
    <2>4. PICK u : u = [t EXCEPT !.supply = s - n, !.j = j - f]
      OBVIOUS
    <2>5. s - n \in Nat /\ j - f \in Nat /\ shares[p] <= j - f /\ b <= s - n /\ s - n <= Everything
      BY <1>2, <1>3, <2>2, <2>3
    <2>6. /\ u \in PoolType /\ u.borrowed = b /\ u.supply = s - n /\ u.j = j - f /\ u.limit = t.limit
      BY <1>2, <1>3, <2>4, <2>5 DEF PoolType
    <2>7. OthersChange(p, u, "other")
      BY <1>1, <1>3, <1>7, <2>1, <2>4 DEF OthersWithdraw
    <2>8. "other" \in Kinds
      BY DEF Kinds
    <2> QED
      BY <1>1, <2>5, <2>6, <2>7, <2>8, OthersKeep
  <1> QED
    BY <1>4, <1>5, <1>6, <1>7

\* What was read of the position in p is marked, unless nothing is.
LEMMA ReadMarked ==
  ASSUME IndInv, NEW p \in Pools, UNCHANGED at,
         \A q \in Pools : q # p => shares'[q] = shares[q],
         deposits' = [deposits EXCEPT ![p].stale = at # "idle"]
  PROVE  deposits' \in [Pools -> [held : Nat, stale : BOOLEAN]] /\ ReadInv'
  <1>1. deposits \in [Pools -> [held : Nat, stale : BOOLEAN]] /\ ReadInv
    BY DEF IndInv, TypeOK
  <1>2. PICK b \in BOOLEAN : b = (at # "idle")
    OBVIOUS
  <1>3. deposits' = [deposits EXCEPT ![p] = [deposits[p] EXCEPT !.stale = b]]
    BY <1>1, <1>2
  <1>4. PICK d : d = [deposits[p] EXCEPT !.stale = b]
    OBVIOUS
  <1>5. d \in [held : Nat, stale : BOOLEAN] /\ d.held = deposits[p].held /\ d.stale = b
    BY <1>1, <1>4
  <1>6. /\ deposits' \in [Pools -> [held : Nat, stale : BOOLEAN]]
        /\ \A q \in Pools : deposits'[q] = IF q = p THEN d ELSE deposits[q]
    BY <1>1, <1>3, <1>4, <1>5
  <1>7. at # "market" => d.held = 0
    BY <1>1, <1>5 DEF ReadInv
  <1>8. ~d.stale => d.held = 0
    BY <1>2, <1>5, <1>7
  <1>9. ASSUME at' # "market", NEW q \in Pools PROVE deposits'[q].held = 0
    BY <1>1, <1>6, <1>7, <1>9 DEF ReadInv
  <1>10. ASSUME NEW q \in Pools, ~deposits'[q].stale PROVE deposits'[q].held = 0 \/ deposits'[q].held = shares'[q]
    BY <1>1, <1>6, <1>8, <1>10 DEF ReadInv
  <1> QED
    BY <1>6, <1>9, <1>10 DEF ReadInv

\* A liquidation credits shares to the keeper: what was read or sized is marked.
LEMMA CreditKeeps ==
  ASSUME IndInv, NEW p \in Pools, NEW amount \in Steps, LiquidationCredits(p, amount)
  PROVE  IndInv'
  <1>1. TypeOK /\ PoolInv /\ ReadInv /\ SoundInv /\ SafeUnlessStale /\ shares \in [Pools -> Nat] /\ amount \in Nat
    BY DEF IndInv, TypeOK
  <1>2. shares' \in [Pools -> Nat] /\ \A q \in Pools : shares'[q] = IF q = p THEN shares[p] + amount ELSE shares[q]
    BY <1>1 DEF LiquidationCredits
  <1>3. UNCHANGED <<pools, price, phase, at, todo, strayed, faults>>
    BY DEF LiquidationCredits
  <1>4. \A q \in Pools : q # p => pools'[q] = pools[q] /\ shares'[q] = shares[q]
    BY <1>2, <1>3
  <1>5. deposits' \in [Pools -> [held : Nat, stale : BOOLEAN]] /\ ReadInv'
    BY <1>3, <1>4, ReadMarked DEF LiquidationCredits
  <1>6. /\ built' \in Seq(SoundOn(pools', shares')) /\ built' \in Seq(Withdrawal)
        /\ actions' \in Seq(SoundOn(pools', shares')) /\ actions' \in Seq(Withdrawal) /\ Len(actions') = Len(actions)
    <2>1. built' = OutOfDate(built, p) /\ actions' = OutOfDate(actions, p)
      BY DEF LiquidationCredits
    <2>2. built \in Seq(SoundOn(pools, shares)) /\ actions \in Seq(SoundOn(pools, shares))
      BY <1>1 DEF SoundInv
    <2> QED
      BY <1>4, <2>1, <2>2, UnderWayMarked
  <1>7. events' \in Seq([market : Markets, kind : Kinds]) /\ Len(events') <= EventCapacity
    <2>1. Emit(MarketOf[p], "liquidate") /\ MarketOf[p] \in Markets /\ "liquidate" \in Kinds
      BY DEF LiquidationCredits, Kinds, Increasing
    <2> QED
      BY <1>1, <2>1, EmitType
  <1>8. changes' \in 0..MaxChanges
    <2>1. changes \in 0..MaxChanges /\ changes < MaxChanges /\ changes' = changes + 1
      BY <1>1 DEF LiquidationCredits, TypeOK
    <2> QED
      BY <2>1
  <1>9. \A q \in Pools : shares'[q] <= pools'[q].j /\ pools'[q].borrowed <= pools'[q].supply
    BY <1>1, <1>2, <1>3 DEF TypeOK, LiquidationCredits
  <1>10. TypeOK'
    BY <1>1, <1>2, <1>3, <1>5, <1>6, <1>7, <1>8, <1>9 DEF TypeOK
  <1> QED
    BY <1>1, <1>3, <1>5, <1>6, <1>10 DEF IndInv, PoolInv, SoundInv, SafeUnlessStale

\* An oracle's price changes.
LEMMA PriceKeeps ==
  ASSUME IndInv, NEW p \in Pools, NEW x \in Prices, SetPrice(p, x)
  PROVE  IndInv'
  <1>1. TypeOK /\ PoolInv /\ ReadInv /\ SoundInv /\ SafeUnlessStale
    BY DEF IndInv
  <1>2. /\ UNCHANGED <<pools, shares, events, phase, at, todo, deposits, built, actions, strayed, faults>>
        /\ price' = [price EXCEPT ![p] = x]
    BY DEF SetPrice, handler
  <1>3. changes' \in 0..MaxChanges
    <2>1. changes \in 0..MaxChanges /\ changes < MaxChanges /\ changes' = changes + 1
      BY <1>1 DEF SetPrice, TypeOK
    <2> QED
      BY <2>1
  <1>4. price' \in [Pools -> Prices]
    BY <1>1, <1>2 DEF TypeOK
  <1>5. TypeOK'
    BY <1>1, <1>2, <1>3, <1>4 DEF TypeOK
  <1> QED
    BY <1>1, <1>2, <1>5 DEF IndInv, PoolInv, ReadInv, SoundInv, SafeUnlessStale

-----------------------------------------------------------------------------
(* The strategy. *)

\* A ledger or an event starts a call, or is passed over.
LEMMA CallStarts ==
  ASSUME IndInv, SorobanEvent \/ \E q \in 0..(Interval - 1) : NewLedger(q)
  PROVE  IndInv'
  <1>1. TypeOK /\ PoolInv /\ ReadInv /\ SoundInv /\ SafeUnlessStale
    BY DEF IndInv
  <1>2. UNCHANGED <<pools, shares, price, deposits, built, actions, strayed, changes, faults>> /\ at = "idle"
    BY DEF SorobanEvent, NewLedger, chain
  <1>3. phase' \in 0..(Interval - 1)
    BY <1>1 DEF SorobanEvent, NewLedger, TypeOK
  <1>4. events' \in Seq([market : Markets, kind : Kinds]) /\ Len(events') <= EventCapacity
    <2> DEFINE E == [market : Markets, kind : Kinds]
    <2>1. events \in Seq(E) /\ Len(events) <= EventCapacity
      BY <1>1 DEF TypeOK
    <2>2. (events # <<>> /\ events' = Tail(events)) \/ events' = events
      BY DEF SorobanEvent, NewLedger
    <2> HIDE DEF E
    <2>3. events' \in Seq(E) /\ Len(events') <= EventCapacity
      <3>1. CASE events' = events
        BY <2>1, <3>1
      <3>2. CASE events # <<>> /\ events' = Tail(events)
        <4>1. Tail(events) \in Seq(E) /\ Len(Tail(events)) = Len(events) - 1 /\ Len(events) \in Nat
          BY <2>1, <3>2, HeadTailProperties, LenProperties
        <4> QED
          BY <2>1, <3>2, <4>1
      <3> QED
        BY <2>2, <3>1, <3>2
    <2> QED
      BY <2>3 DEF E
  <1>5. at' \in {"idle", "obligation"} /\ todo' \in Seq(Markets) /\ (at' = "idle" <=> todo' = <<>>)
    <2>1. CASE at' = at /\ todo' = todo
      BY <1>1, <1>2, <2>1 DEF TypeOK
    <2>2. CASE at' = "obligation" /\ todo' = SetToSeq(Markets)
      <3>1. SetToSeq(Markets) \in Seq(Markets) /\ Len(SetToSeq(Markets)) = Cardinality(Markets)
        BY SetToSeqType
      <3>2. Cardinality(Markets) # 0
        BY FS_EmptySet
      <3> QED
        BY <2>2, <3>1, <3>2
    <2>3. CASE SorobanEvent /\ at' = "obligation" /\ todo' = <<Head(events).market>>
      <3>1. Head(events) \in [market : Markets, kind : Kinds]
        <4> DEFINE E == [market : Markets, kind : Kinds]
        <4>1. events \in Seq(E) /\ events # <<>>
          BY <1>1, <2>3 DEF SorobanEvent, TypeOK
        <4> HIDE DEF E
        <4>2. Head(events) \in E
          BY <4>1, HeadTailProperties
        <4> QED
          BY <4>2 DEF E
      <3>2. Head(events).market \in Markets
        BY <3>1
      <3> QED
        BY <2>3, <3>2
    <2> QED
      BY <2>1, <2>2, <2>3 DEF SorobanEvent, NewLedger
  <1>6. TypeOK'
    BY <1>1, <1>2, <1>3, <1>4, <1>5 DEF TypeOK
  <1>7. ReadInv'
    BY <1>1, <1>2 DEF ReadInv
  <1> QED
    BY <1>1, <1>2, <1>6, <1>7 DEF IndInv, PoolInv, SoundInv, SafeUnlessStale

\* The keeper's obligation is read as it stands.
LEMMA ObligationRead ==
  ASSUME IndInv, ReadObligation
  PROVE  IndInv'
  <1>1. TypeOK /\ PoolInv /\ ReadInv /\ SoundInv /\ SafeUnlessStale
    BY DEF IndInv
  <1>2. UNCHANGED <<pools, shares, price, events, phase, todo, built, actions, strayed, changes, faults>>
        /\ at = "obligation" /\ at' = "market"
    BY DEF ReadObligation, chain
  <1>3. PICK g : g = [p \in Pools |-> IF MarketOf[p] = Head(todo) THEN shares[p] ELSE 0]
    OBVIOUS
  <1>4. g \in [Pools -> Nat] /\ \A p \in Pools : g[p] = 0 \/ g[p] = shares[p]
    BY <1>1, <1>3 DEF TypeOK
  <1>5. deposits' = [p \in Pools |-> [held |-> g[p], stale |-> FALSE]]
    BY <1>3 DEF ReadObligation
  <1>6. /\ deposits' \in [Pools -> [held : Nat, stale : BOOLEAN]]
        /\ \A p \in Pools : deposits'[p].held = g[p]
    BY <1>4, <1>5
  <1>7. TypeOK'
    BY <1>1, <1>2, <1>6 DEF TypeOK
  <1>8. ReadInv'
    BY <1>2, <1>4, <1>6 DEF ReadInv
  <1> QED
    BY <1>1, <1>2, <1>7, <1>8 DEF IndInv, PoolInv, SoundInv, SafeUnlessStale

\* On to the next market, or the end of the call.
LEMMA NextMarketKeeps ==
  ASSUME IndInv, at # "idle", NEW c \in Seq(SoundOn(pools, shares)), NextMarket(c),
         UNCHANGED <<chain, events, phase, strayed, changes>>, faults' \in 0..MaxFaults
  PROVE  IndInv'
  <1>1. TypeOK /\ PoolInv /\ ReadInv /\ SoundInv /\ SafeUnlessStale
    BY DEF IndInv
  <1>2. UNCHANGED <<pools, shares, price>>
    BY DEF chain
  <1>3. todo \in Seq(Markets) /\ todo # <<>>
    BY <1>1 DEF TypeOK
  <1>4. todo' = Tail(todo) /\ Tail(todo) \in Seq(Markets) /\ (Tail(todo) = <<>> <=> Len(todo) = 1)
    <2>1. Tail(todo) \in Seq(Markets) /\ Len(Tail(todo)) = Len(todo) - 1 /\ Len(todo) \in Nat
      BY <1>3, HeadTailProperties, LenProperties
    <2>2. Tail(todo) = <<>> <=> Len(Tail(todo)) = 0
      BY <2>1, EmptySeq
    <2> QED
      BY <2>1, <2>2 DEF NextMarket
  <1>5. at' \in {"idle", "obligation"} /\ (at' = "idle" <=> Len(todo) = 1)
    BY DEF NextMarket
  <1>6. deposits' = NothingRead
    BY DEF NextMarket, Return
  <1>7. /\ deposits' \in [Pools -> [held : Nat, stale : BOOLEAN]]
        /\ \A p \in Pools : deposits'[p].held = 0
    BY <1>6 DEF NothingRead
  <1>8. /\ built' \in Seq(SoundOn(pools, shares))
        /\ actions' \in Seq(SoundOn(pools, shares)) /\ Len(actions') <= ActionCapacity
    <2>1. PICK S : S = SoundOn(pools, shares)
      OBVIOUS
    <2>2. c \in Seq(S) /\ actions \in Seq(S) /\ Len(actions) <= ActionCapacity
      BY <1>1, <2>1 DEF SoundInv, TypeOK
    <2>3. CASE Len(todo) = 1
      <3>1. built' = <<>> /\ actions' = Newest(actions \o c, ActionCapacity)
        BY <2>3 DEF NextMarket, Return
      <3>2. actions \o c \in Seq(S)
        BY <2>2
      <3>3. actions' \in Seq(S) /\ Len(actions') <= ActionCapacity
        BY <3>1, <3>2, NewestType
      <3>4. <<>> \in Seq(S)
        OBVIOUS
      <3> QED
        BY <2>1, <3>1, <3>3, <3>4
    <2>4. CASE Len(todo) # 1
      BY <2>1, <2>2, <2>4 DEF NextMarket
    <2> QED
      BY <2>3, <2>4
  <1>9. built' \in Seq(Withdrawal) /\ actions' \in Seq(Withdrawal)
    BY <1>8 DEF SoundOn
  <1>10. TypeOK'
    BY <1>1, <1>2, <1>4, <1>5, <1>7, <1>8, <1>9 DEF TypeOK
  <1>11. ReadInv'
    BY <1>7 DEF ReadInv
  <1>12. SoundInv'
    BY <1>2, <1>8 DEF SoundInv
  <1> QED
    BY <1>1, <1>2, <1>10, <1>11, <1>12 DEF IndInv, PoolInv, SafeUnlessStale

\* A withdrawal that find_withdrawal_opportunities sizes is sound.
LEMMA SizedSound ==
  ASSUME IndInv, NEW p \in Pools,
         deposits[p].held > 0,
         compute_max_safe_withdrawal(pools[p], SafetyMargin) > 0,
         j_tokens_to_tokens_floor(pools[p], deposits[p].held) > 0
  PROVE  Sized(p) \in SoundOn(pools, shares)
  <1>1. PICK o, h, st, m, v : /\ o = pools[p] /\ h = deposits[p].held /\ st = deposits[p].stale
                              /\ m = compute_max_safe_withdrawal(o, SafetyMargin)
                              /\ v = j_tokens_to_tokens_floor(o, h)
    OBVIOUS
  <1>2. /\ o \in PoolType /\ o.limit <= BPS_FACTOR /\ o.supply <= Everything
        /\ h \in Nat /\ st \in BOOLEAN /\ m > 0 /\ h > 0 /\ v > 0
        /\ ~st => h = shares[p] /\ h <= o.j
    BY <1>1 DEF IndInv, TypeOK, PoolInv, ReadInv
  <1>3. /\ m \in Nat /\ m <= o.supply - o.borrowed
        /\ o.borrowed * BPS_FACTOR > (o.limit - SafetyMargin) * (o.supply - m - 1)
    BY <1>1, <1>2, SafeWithdrawal
  <1>4. v \in Nat /\ (h <= o.j => v <= o.supply)
    BY <1>1, <1>2, PositionType
  <1>5. PICK a \in Nat : a = SafeAmount(p) /\ a <= m /\ a <= v /\ a > 0 /\ (a # v => a = m)
    <2>1. PICK T : T = {v, m}
      OBVIOUS
    <2>2. Min(T) \in T /\ \A y \in T : Min(T) <= y
      BY <1>3, <1>4, <2>1, MinProperties
    <2>3. SafeAmount(p) = Min(T)
      BY <1>1, <2>1 DEF SafeAmount
    <2> QED
      BY <1>2, <1>3, <1>4, <2>1, <2>2, <2>3
  <1>6. PICK x : x = IF a = v THEN Everything ELSE a
    OBVIOUS
  <1>7. PICK w : w = [pool |-> p, amount |-> x, on |-> o, held |-> h, stale |-> st]
    OBVIOUS
  <1>8. Sized(p) = w
    BY <1>1, <1>5, <1>6, <1>7 DEF Sized
  <1>9. x \in Nat
    BY <1>6
  <1>10. w \in Withdrawal /\ w.pool = p /\ w.amount = x /\ w.on = o /\ w.held = h /\ w.stale = st
    BY <1>2, <1>7, <1>9 DEF Withdrawal
  <1>11. x # Everything => x = m
    BY <1>5, <1>6
  <1>12. ASSUME ~st
         PROVE  Pays(w, o, h) /\ Tokens(w, o, h) <= m
    <2>1. x = Everything => a = v
      <3> SUFFICES ASSUME x = Everything, a # v PROVE FALSE
        OBVIOUS
      <3>1. a = Everything /\ a < v /\ v <= o.supply /\ o.supply <= Everything /\ o.supply \in Nat /\ v \in Nat
        BY <1>2, <1>4, <1>5, <1>6, <1>12 DEF PoolType
      <3> QED
        BY <3>1
    <2>2. Tokens(w, o, h) = a
      BY <1>1, <1>5, <1>6, <1>10, <2>1 DEF Tokens
    <2>3. Shares(w, o, h) <= h
      <3>1. CASE x = Everything
        BY <1>2, <1>10, <3>1 DEF Shares
      <3>2. CASE x # Everything
        <4>1. x = a
          BY <1>6, <3>2
        <4>2. tokens_to_j_tokens_ceil(o, a) <= h
          BY <1>1, <1>2, <1>5, SharesCovered
        <4> QED
          BY <1>10, <3>2, <4>1, <4>2 DEF Shares
      <3> QED
        BY <3>1, <3>2
    <2>4. a <= o.supply - o.borrowed
      <3>1. o.supply \in Nat /\ o.borrowed \in Nat
        BY <1>2 DEF PoolType
      <3> QED
        BY <1>3, <1>5, <3>1
    <2> QED
      BY <1>5, <2>2, <2>3, <2>4 DEF Pays
  <1>13. Sound(w, pools, shares)
    BY <1>1, <1>2, <1>3, <1>10, <1>11, <1>12 DEF Sound
  <1> QED
    BY <1>8, <1>10, <1>13 DEF SoundOn

\* What a call has collected stays sound with the withdrawals of one more market.
LEMMA CollectedSound ==
  ASSUME IndInv, NEW O \in SUBSET Pools,
         \A p \in O : /\ deposits[p].held > 0
                      /\ compute_max_safe_withdrawal(pools[p], SafetyMargin) > 0
                      /\ j_tokens_to_tokens_floor(pools[p], deposits[p].held) > 0
  PROVE  built \o SetToSeq({Sized(p) : p \in O}) \in Seq(SoundOn(pools, shares))
  <1>1. PICK S : S = SoundOn(pools, shares)
    OBVIOUS
  <1>2. PICK f : f = [p \in O |-> Sized(p)]
    OBVIOUS
  <1>3. PICK T : T = {f[p] : p \in O}
    OBVIOUS
  <1>4. T = {Sized(p) : p \in O}
    BY <1>2, <1>3
  <1>5. IsFiniteSet(T)
    <2>1. IsFiniteSet(O)
      BY FS_Subset
    <2> QED
      BY <1>3, <2>1, ImageFinite
  <1>6. T \subseteq S
    BY <1>1, <1>4, SizedSound
  <1>7. SetToSeq(T) \in Seq(T)
    BY <1>5, SetToSeqType
  <1>8. SetToSeq(T) \in Seq(S)
    BY <1>6, <1>7
  <1>9. built \in Seq(S)
    BY <1>1 DEF IndInv, SoundInv
  <1>10. built \o SetToSeq(T) \in Seq(S)
    BY <1>8, <1>9
  <1> QED
    BY <1>1, <1>4, <1>10

\* The reads of a call: whatever is read or fails, what is collected is sound.
LEMMA ReadingKeeps ==
  ASSUME IndInv, Reading
  PROVE  IndInv'
  <1>1. ASSUME NEW seen \in SUBSET Pools, NEW O \in SUBSET Opportunities(seen)
        PROVE  built \o SetToSeq({Sized(p) : p \in O}) \in Seq(SoundOn(pools, shares))
    <2>1. O \in SUBSET Candidates(seen)
      BY <1>1 DEF Opportunities
    <2>2. O \in SUBSET Pools
      BY <1>1, <2>1 DEF Candidates
    <2>3. \A p \in O : /\ deposits[p].held > 0
                       /\ compute_max_safe_withdrawal(pools[p], SafetyMargin) > 0
                       /\ j_tokens_to_tokens_floor(pools[p], deposits[p].held) > 0
      BY <2>1 DEF Candidates
    <2> QED
      BY <2>2, <2>3, CollectedSound
  <1>2. built \in Seq(SoundOn(pools, shares))
    BY DEF IndInv, SoundInv
  <1>3. faults \in 0..MaxFaults /\ (faults < MaxFaults => faults + 1 \in 0..MaxFaults)
    BY DEF IndInv, TypeOK
  <1>4. CASE ReadObligation
    BY <1>4, ObligationRead
  <1>5. CASE NoObligation
    <2>1. at # "idle" /\ NextMarket(built) /\ faults' = faults
      BY <1>5 DEF NoObligation
    <2>2. UNCHANGED <<chain, events, phase, strayed, changes>>
      BY <1>5 DEF NoObligation
    <2> QED
      BY <1>2, <1>3, <2>1, <2>2, NextMarketKeeps
  <1>6. CASE ReadFails
    <2>1. at # "idle" /\ NextMarket(built) /\ faults < MaxFaults /\ faults' = faults + 1
      BY <1>6 DEF ReadFails
    <2>2. UNCHANGED <<chain, events, phase, strayed, changes>>
      BY <1>6 DEF ReadFails
    <2> QED
      BY <1>2, <1>3, <2>1, <2>2, NextMarketKeeps
  <1>7. CASE ReadMarketData
    <2>1. PICK c : c = built \o SetToSeq({Sized(p) : p \in Opportunities(Pools)})
      OBVIOUS
    <2>2. c \in Seq(SoundOn(pools, shares))
      BY <1>1, <2>1
    <2>3. at # "idle" /\ NextMarket(c) /\ faults' = faults
      BY <1>7, <2>1 DEF ReadMarketData
    <2>4. UNCHANGED <<chain, events, phase, strayed, changes>>
      BY <1>7 DEF ReadMarketData
    <2> QED
      BY <1>3, <2>2, <2>3, <2>4, NextMarketKeeps
  <1>8. ASSUME NEW q \in Pools, PoolMissing(q)
        PROVE  IndInv'
    <2>1. PICK c : c = built \o SetToSeq({Sized(p) : p \in Opportunities(Pools \ {q})})
      OBVIOUS
    <2>2. c \in Seq(SoundOn(pools, shares))
      BY <1>1, <2>1
    <2>3. at # "idle" /\ NextMarket(c) /\ faults < MaxFaults /\ faults' = faults + 1
      BY <1>8, <2>1 DEF PoolMissing
    <2>4. UNCHANGED <<chain, events, phase, strayed, changes>>
      BY <1>8 DEF PoolMissing
    <2> QED
      BY <1>3, <2>2, <2>3, <2>4, NextMarketKeeps
  <1>9. CASE BuildFails
    <2>1. PICK q \in Opportunities(Pools) :
            NextMarket(built \o SetToSeq({Sized(p) : p \in Opportunities(Pools) \ {q}}))
      BY <1>9 DEF BuildFails
    <2>2. PICK c : c = built \o SetToSeq({Sized(p) : p \in Opportunities(Pools) \ {q}})
      OBVIOUS
    <2>3. c \in Seq(SoundOn(pools, shares))
      BY <1>1, <2>2
    <2>4. at # "idle" /\ NextMarket(c) /\ faults < MaxFaults /\ faults' = faults + 1
      BY <1>9, <2>1, <2>2 DEF BuildFails
    <2>5. UNCHANGED <<chain, events, phase, strayed, changes>>
      BY <1>9 DEF BuildFails
    <2> QED
      BY <1>3, <2>3, <2>4, <2>5, NextMarketKeeps
  <1> QED
    BY <1>4, <1>5, <1>6, <1>7, <1>8, <1>9 DEF Reading

-----------------------------------------------------------------------------
(* The executor and the market. *)

\* A withdrawal whose reading stands leaves the pool in the band.
LEMMA LandsInBand ==
  ASSUME IndInv, NEW w \in SoundOn(pools, shares), ~w.stale, NEW u,
         u = Left(w, pools[w.pool], shares[w.pool])
  PROVE  ~(UtilizationCeil(u) > pools[w.pool].limit - SafetyMargin)
  <1>1. PICK o, h, m, a, sw : /\ o = pools[w.pool] /\ h = shares[w.pool]
                              /\ m = compute_max_safe_withdrawal(o, SafetyMargin)
                              /\ a = Tokens(w, o, h) /\ sw = Shares(w, o, h)
    OBVIOUS
  <1>2. w.pool \in Pools /\ w.on = o /\ w.held = h
    BY <1>1 DEF SoundOn, Sound, Withdrawal
  <1>3. o \in PoolType /\ o.limit <= BPS_FACTOR /\ o.borrowed <= o.supply
    BY <1>1, <1>2 DEF IndInv, TypeOK, PoolInv
  <1>4. a > 0 /\ a <= m /\ a <= o.supply - o.borrowed
    BY <1>1, <1>2 DEF SoundOn, Sound, Pays
  <1>5. a \in Nat
    <2>1. h \in Nat
      BY <1>1, <1>2 DEF IndInv, TypeOK
    <2>2. w.amount \in Nat
      BY DEF SoundOn, Withdrawal
    <2> QED
      BY <1>1, <1>3, <2>1, <2>2, PositionType DEF Tokens
  <1>6. m > 0
    <2>1. m \in Int
      <3>1. PICK s \in Nat, b \in Nat, l \in Nat : s = o.supply /\ b = o.borrowed /\ l = o.limit
        BY <1>3 DEF PoolType
      <3>2. CASE l - SafetyMargin <= 0
        BY <1>1, <3>1, <3>2 DEF compute_max_safe_withdrawal
      <3>3. CASE l - SafetyMargin > 0
        <4>1. b * BPS_FACTOR \in Nat /\ l - SafetyMargin \in Nat \ {0}
          BY <3>3
        <4>2. CeilDiv(b * BPS_FACTOR, l - SafetyMargin) \in Nat
          BY <4>1, CeilBounds
        <4> QED
          BY <1>1, <3>1, <4>2 DEF compute_max_safe_withdrawal, bps_fixed_div_ceil
      <3> QED
        BY <3>1, <3>2, <3>3
    <2> QED
      BY <1>4, <1>5, <2>1
  <1>7. /\ m \in Nat /\ o.limit - SafetyMargin > 0
        /\ o.borrowed * BPS_FACTOR <= (o.limit - SafetyMargin) * (o.supply - m)
        /\ m <= o.supply - o.borrowed
    BY <1>1, <1>3, <1>6, SafeWithdrawal
  <1>8. PICK s \in Nat, b \in Nat, e \in Nat \ {0} :
          s = o.supply /\ b = o.borrowed /\ e = o.limit - SafetyMargin
    BY <1>3, <1>7 DEF PoolType
  <1>9. u.supply = s - a /\ u.borrowed = b
    BY <1>1, <1>3, <1>8 DEF Left, PoolType
  <1>10. s - a \in Nat /\ s - m \in Nat /\ s - m <= s - a
    BY <1>4, <1>5, <1>7, <1>8
  <1>11. CASE s - a = 0
    BY <1>1, <1>8, <1>9, <1>11 DEF UtilizationCeil
  <1>12. CASE s - a # 0
    <2>1. PICK k \in Nat, z \in Nat : k = s - m /\ z = s - a
      BY <1>10
    <2>2. b * BPS_FACTOR <= e * k /\ k <= z /\ z # 0
      BY <1>7, <1>8, <1>10, <1>12, <2>1
    <2>3. CeilDiv(b * BPS_FACTOR, z) \in Nat /\ CeilDiv(b * BPS_FACTOR, z) <= e
      BY <2>2, StaysInBand
    <2>4. UtilizationCeil(u) = CeilDiv(b * BPS_FACTOR, z)
      BY <1>9, <1>12, <2>1 DEF UtilizationCeil
    <2> QED
      BY <1>1, <1>8, <2>3, <2>4
  <1> QED
    BY <1>11, <1>12

\* A withdrawal lands: the pool stays a pool, and what was read or sized on it is
\* marked, the withdrawal itself when its reply is lost.
LEMMA LandsKeeps ==
  ASSUME IndInv, NEW lost \in BOOLEAN, Lands(lost)
  PROVE  IndInv'
  <1>1. TypeOK /\ PoolInv /\ ReadInv /\ SoundInv /\ SafeUnlessStale
    BY DEF IndInv
  <1>2. actions # <<>>
    BY DEF Lands
  <1>3. PICK w, p, o, h, a, sw : /\ w = Head(actions) /\ p = w.pool /\ o = pools[p] /\ h = shares[p]
                                 /\ a = Tokens(w, o, h) /\ sw = Shares(w, o, h)
    OBVIOUS
  <1>4. w \in SoundOn(pools, shares) /\ Tail(actions) \in Seq(SoundOn(pools, shares))
        /\ Len(Tail(actions)) <= ActionCapacity
    <2>1. PICK S : S = SoundOn(pools, shares)
      OBVIOUS
    <2>2. actions \in Seq(S) /\ Len(actions) <= ActionCapacity
      BY <1>1, <2>1 DEF SoundInv, TypeOK
    <2>3. /\ Head(actions) \in S /\ Tail(actions) \in Seq(S) /\ Len(Tail(actions)) = Len(actions) - 1
          /\ Len(actions) \in Nat
      BY <1>2, <2>2, HeadTailProperties, LenProperties
    <2> QED
      BY <1>3, <2>1, <2>2, <2>3
  <1>5. w \in Withdrawal /\ p \in Pools /\ w.amount \in Nat
    BY <1>3, <1>4 DEF SoundOn, Withdrawal
  <1>6. /\ o \in PoolType /\ o.limit <= BPS_FACTOR /\ o.supply <= Everything /\ o.borrowed <= o.supply
        /\ h \in Nat /\ h <= o.j
    BY <1>1, <1>3, <1>5 DEF TypeOK, PoolInv
  <1>7. a > 0 /\ a <= o.supply - o.borrowed /\ sw <= h
    BY <1>3 DEF Lands, Pays
  <1>8. a \in Nat
    BY <1>3, <1>5, <1>6, PositionType DEF Tokens
  <1>9. sw \in Nat
    <2>1. tokens_to_j_tokens_ceil(o, w.amount) \in Nat
      <3>1. PICK j \in Nat, s \in Nat, n \in Nat : j = o.j /\ s = o.supply /\ n = w.amount
        BY <1>5, <1>6 DEF PoolType
      <3>2. n * j \in Nat
        OBVIOUS
      <3>3. s # 0 => CeilDiv(n * j, s) \in Nat
        BY <3>2, CeilBounds
      <3> QED
        BY <3>1, <3>3 DEF tokens_to_j_tokens_ceil
    <2> QED
      BY <1>3, <1>6, <2>1 DEF Shares
  <1>10. PICK u : u = Left(w, o, h)
    OBVIOUS
  <1>11. u \in PoolType /\ u.borrowed = o.borrowed /\ u.supply = o.supply - a /\ u.j = o.j - sw /\ u.limit = o.limit
    <2>1. PICK s \in Nat, j \in Nat : s = o.supply - a /\ j = o.j - sw
      <3>1. o.supply \in Nat /\ o.borrowed \in Nat /\ o.j \in Nat
        BY <1>6 DEF PoolType
      <3> QED
        BY <1>6, <1>7, <1>8, <1>9, <3>1
    <2>2. u = [o EXCEPT !.supply = s, !.j = j]
      BY <1>3, <1>10, <2>1 DEF Left
    <2> QED
      BY <1>6, <2>1, <2>2 DEF PoolType
  <1>12. /\ pools' \in [Pools -> PoolType]
         /\ \A q \in Pools : pools'[q] = IF q = p THEN u ELSE pools[q]
    <2>1. pools' = [pools EXCEPT ![p] = u] /\ pools \in [Pools -> PoolType]
      BY <1>1, <1>3, <1>10 DEF Lands, TypeOK
    <2> QED
      BY <1>5, <1>11, <2>1
  <1>13. /\ shares' \in [Pools -> Nat]
         /\ \A q \in Pools : shares'[q] = IF q = p THEN h - sw ELSE shares[q]
    <2>1. shares' = [shares EXCEPT ![p] = h - sw] /\ shares \in [Pools -> Nat]
      BY <1>1, <1>3 DEF Lands, TypeOK
    <2>2. h - sw \in Nat
      BY <1>6, <1>7, <1>9
    <2> QED
      BY <1>5, <2>1, <2>2
  <1>14. UNCHANGED <<price, phase, at, todo, changes>>
    BY DEF Lands
  <1>15. \A q \in Pools : q # p => pools'[q] = pools[q] /\ shares'[q] = shares[q]
    BY <1>12, <1>13
  <1>16. deposits' \in [Pools -> [held : Nat, stale : BOOLEAN]] /\ ReadInv'
    <2>1. deposits' = [deposits EXCEPT ![p].stale = at # "idle"]
      BY <1>3 DEF Lands
    <2> QED
      BY <1>5, <1>14, <1>15, <2>1, ReadMarked
  <1>17. /\ built' \in Seq(SoundOn(pools', shares')) /\ built' \in Seq(Withdrawal)
         /\ actions' \in Seq(SoundOn(pools', shares')) /\ actions' \in Seq(Withdrawal)
         /\ Len(actions') <= ActionCapacity
    <2>1. PICK xs : xs = IF lost THEN actions ELSE Tail(actions)
      OBVIOUS
    <2>2. built' = OutOfDate(built, p) /\ actions' = OutOfDate(xs, p)
      BY <1>3, <2>1 DEF Lands
    <2>3. built \in Seq(SoundOn(pools, shares)) /\ xs \in Seq(SoundOn(pools, shares)) /\ Len(xs) <= ActionCapacity
      BY <1>1, <1>4, <2>1 DEF SoundInv, TypeOK
    <2> QED
      BY <1>5, <1>15, <2>2, <2>3, UnderWayMarked
  <1>18. events' \in Seq([market : Markets, kind : Kinds]) /\ Len(events') <= EventCapacity
    <2>1. Emit(MarketOf[p], "other") /\ MarketOf[p] \in Markets /\ "other" \in Kinds
      BY <1>3, <1>5 DEF Lands, Kinds
    <2> QED
      BY <1>1, <2>1, EmitType
  <1>19. faults' \in 0..MaxFaults
    <2>1. /\ faults \in 0..MaxFaults /\ (lost => faults < MaxFaults)
          /\ faults' = IF lost THEN faults + 1 ELSE faults
      BY <1>1 DEF Lands, TypeOK
    <2> QED
      BY <2>1
  <1>20. strayed' \subseteq BOOLEAN /\ FALSE \notin strayed'
    <2>1. pools'[p] = u
      BY <1>5, <1>12
    <2>2. strayed' = IF UtilizationCeil(u) > o.limit - SafetyMargin THEN strayed \cup {w.stale} ELSE strayed
      BY <1>3, <2>1 DEF Lands
    <2>3. w.stale = FALSE => ~(UtilizationCeil(u) > o.limit - SafetyMargin)
      <3>1. u = Left(w, pools[w.pool], shares[w.pool]) /\ o = pools[w.pool]
        BY <1>3, <1>10
      <3> QED
        BY <1>4, <3>1, LandsInBand
    <2>4. w.stale \in BOOLEAN
      BY <1>5 DEF Withdrawal
    <2>5. strayed \subseteq BOOLEAN /\ FALSE \notin strayed
      BY <1>1 DEF TypeOK, SafeUnlessStale
    <2> QED
      BY <2>2, <2>3, <2>4, <2>5
  <1>21. \A q \in Pools : shares'[q] <= pools'[q].j /\ pools'[q].borrowed <= pools'[q].supply
    <2>1. h - sw <= u.j /\ u.borrowed <= u.supply
      <3>1. o.supply \in Nat /\ o.borrowed \in Nat /\ o.j \in Nat
        BY <1>6 DEF PoolType
      <3> QED
        BY <1>6, <1>7, <1>8, <1>9, <1>11, <3>1
    <2>2. \A q \in Pools : shares[q] <= pools[q].j /\ pools[q].borrowed <= pools[q].supply
      BY <1>1 DEF TypeOK
    <2> QED
      BY <1>12, <1>13, <2>1, <2>2
  <1>22. TypeOK'
    BY <1>1, <1>12, <1>13, <1>14, <1>16, <1>17, <1>18, <1>19, <1>20, <1>21 DEF TypeOK
  <1>23. PoolInv'
    <2>1. u.supply <= Everything /\ u.limit <= BPS_FACTOR
      <3>1. o.supply \in Nat
        BY <1>6 DEF PoolType
      <3> QED
        BY <1>6, <1>8, <1>11, <3>1
    <2> QED
      BY <1>1, <1>12, <2>1 DEF PoolInv
  <1> QED
    BY <1>16, <1>17, <1>20, <1>22, <1>23 DEF IndInv, SoundInv, SafeUnlessStale

\* The oldest withdrawal is given up.
LEMMA RejectedKeeps ==
  ASSUME IndInv, Rejected
  PROVE  IndInv'
  <1>1. TypeOK /\ PoolInv /\ ReadInv /\ SoundInv /\ SafeUnlessStale
    BY DEF IndInv
  <1>2. UNCHANGED <<pools, shares, price, events, phase, at, todo, deposits, built, strayed, changes>>
    BY DEF Rejected, chain, handler
  <1>3. faults' \in 0..MaxFaults
    <2>1. faults \in 0..MaxFaults /\ (faults' = faults \/ (faults < MaxFaults /\ faults' = faults + 1))
      BY <1>1 DEF Rejected, TypeOK
    <2> QED
      BY <2>1
  <1>4. /\ actions' \in Seq(SoundOn(pools, shares)) /\ actions' \in Seq(Withdrawal)
        /\ Len(actions') <= ActionCapacity
    <2>1. PICK S : S = SoundOn(pools, shares)
      OBVIOUS
    <2>2. actions \in Seq(S) /\ Len(actions) <= ActionCapacity /\ actions # <<>> /\ actions' = Tail(actions)
      BY <1>1, <2>1 DEF SoundInv, TypeOK, Rejected
    <2>3. Tail(actions) \in Seq(S) /\ Len(Tail(actions)) = Len(actions) - 1 /\ Len(actions) \in Nat
      BY <2>2, HeadTailProperties, LenProperties
    <2>4. Seq(S) \subseteq Seq(Withdrawal)
      BY <2>1 DEF SoundOn
    <2> QED
      BY <2>1, <2>2, <2>3, <2>4
  <1>5. TypeOK'
    BY <1>1, <1>2, <1>3, <1>4 DEF TypeOK
  <1> QED
    BY <1>1, <1>2, <1>4, <1>5 DEF IndInv, PoolInv, ReadInv, SoundInv, SafeUnlessStale

\* Every step keeps the invariant.
LEMMA NextKeeps == IndInv /\ [Next]_vars => IndInv'
  <1> SUFFICES ASSUME IndInv, [Next]_vars PROVE IndInv'
    OBVIOUS
  <1>1. CASE UNCHANGED vars
    BY <1>1 DEF vars, chain, handler, IndInv, TypeOK, PoolInv, ReadInv, SoundInv, SafeUnlessStale
  <1>2. CASE Others
    BY <1>2, UsersKeep, CreditKeeps, PriceKeeps DEF Others
  <1>3. CASE Reading
    BY <1>3, ReadingKeeps
  <1>4. CASE Executing
    BY <1>4, LandsKeeps, RejectedKeeps DEF Executing
  <1>5. CASE SorobanEvent \/ \E q \in 0..(Interval - 1) : NewLedger(q)
    BY <1>5, CallStarts
  <1> QED
    BY <1>1, <1>2, <1>3, <1>4, <1>5 DEF Next

-----------------------------------------------------------------------------
(* Theorems. *)

\* What holds of the pools, the readings and the withdrawals under way.
THEOREM WithdrawerInvariance == Spec => []IndInv
  <1> QED
    BY InitKeeps, NextKeeps, PTL DEF Spec

\* Every variable keeps its type: no position is larger than its pool, no channel
\* is past its capacity, and a call has a market at hand exactly while it runs.
THEOREM WithdrawerTypeCorrect == Spec => []TypeOK
  <1>1. IndInv => TypeOK
    BY DEF IndInv
  <1> QED
    BY <1>1, WithdrawerInvariance, PTL

\* What is under way is sound.
LEMMA UnderWaySound ==
  ASSUME IndInv, NEW w \in UnderWay
  PROVE  Sound(w, pools, shares)
  <1>1. PICK S : S = SoundOn(pools, shares)
    OBVIOUS
  <1>2. built \in Seq(S) /\ actions \in Seq(S)
    BY <1>1 DEF IndInv, SoundInv
  <1>3. Range(built) \subseteq S /\ Range(actions) \subseteq S
    BY <1>2 DEF Range
  <1> QED
    BY <1>1, <1>3 DEF UnderWay, SoundOn

\* The market pays every withdrawal on the reading it was sized on: the pool has the
\* tokens, and the shares burned, rounded up, are covered by the position, whose
\* value was rounded down (find_withdrawal_opportunities).
THEOREM ReadingsPay == Spec => []PaidOnReading
  <1>1. IndInv => PaidOnReading
    BY UnderWaySound DEF PaidOnReading, Sound
  <1> QED
    BY <1>1, WithdrawerInvariance, PTL

\* compute_max_safe_withdrawal leaves nothing on the table: a withdrawal of less than
\* the whole position is the largest that keeps the pool in its band.
THEOREM LargestSafe == Spec => []NoLargerFits
  <1>1. IndInv => NoLargerFits
    BY UnderWaySound DEF NoLargerFits, Sound
  <1> QED
    BY <1>1, WithdrawerInvariance, PTL

\* A landing leaves the safe band only when it was sized on what the chain had
\* overtaken: a withdrawal whose reading stands yields no scarcity fee, whatever
\* other users, lost replies and repeated readings do.
THEOREM LandingsAreSafe == Spec => []SafeUnlessStale
  <1>1. IndInv => SafeUnlessStale
    BY DEF IndInv
  <1> QED
    BY <1>1, WithdrawerInvariance, PTL
=============================================================================
