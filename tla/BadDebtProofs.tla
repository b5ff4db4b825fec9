---------------------------- MODULE BadDebtProofs ----------------------------
(***************************************************************************)
(* Proofs about BadDebt, for every set of obligations, every market and any *)
(* number of changes, faults and channel entries: what the initiator asks   *)
(* to cover is dust by any reading of its value, and what it leaves to the  *)
(* liquidator passes the liquidator's gate.                                 *)
(***************************************************************************)
EXTENDS BadDebt, NumberLemmas, SequenceTheorems

-----------------------------------------------------------------------------
(* The inductive invariant. *)

\* The requests that is_eligible accepts by the readings they carry.
Judged == {r \in Request : <<r.on, r.md>> \in eligible}

\* The verdicts are those of the configured rules, and every request that was
\* collected or sent had one.
JudgedInv ==
    /\ eligible = EligibleUnder(rules)
    /\ built \in Seq(Judged)
    /\ requests \in Seq(Judged)

IndInv == TypeOK /\ JudgedInv

-----------------------------------------------------------------------------
(* Arithmetic of values. *)

\* What rounding up returns.
LEMMA CeilBounds ==
  ASSUME NEW a \in Nat, NEW b \in Nat \ {0}
  PROVE  CeilDiv(a, b) \in Nat /\ a <= CeilDiv(a, b) * b /\ CeilDiv(a, b) * b < a + b
  BY UpBounds DEF CeilDiv

\* Rounding up returns zero for zero only.
LEMMA CeilPositive ==
  ASSUME NEW a \in Nat \ {0}, NEW b \in Nat \ {0}
  PROVE  CeilDiv(a, b) \in Nat \ {0}
  <1>1. PICK q \in Nat : q = CeilDiv(a, b) /\ a <= q * b
    BY CeilBounds
  <1>2. q # 0
    BY <1>1
  <1> QED
    BY <1>1, <1>2

\* Rounding down and rounding up part by less than one.
LEMMA FloorCeil ==
  ASSUME NEW a \in Nat, NEW b \in Nat \ {0}
  PROVE  /\ a \div b \in Nat /\ CeilDiv(a, b) \in Nat
         /\ a \div b <= CeilDiv(a, b) /\ CeilDiv(a, b) <= a \div b + 1
         /\ a % b = 0 => CeilDiv(a, b) = a \div b
  <1>1. PICK q \in Nat : q = a \div b /\ q * b <= a /\ a < q * b + b
    BY DivBounds
  <1>2. PICK c \in Nat : c = CeilDiv(a, b) /\ a <= c * b /\ c * b < a + b
    BY CeilBounds
  <1>3. q * b <= c * b /\ q * b \in Nat /\ c * b \in Nat
    BY <1>1, <1>2
  <1>4. q <= c
    <2> SUFFICES ASSUME c + 1 <= q PROVE FALSE
      OBVIOUS
    <2>1. (c + 1) * b <= q * b /\ (c + 1) * b = c * b + b
      BY TimesMono
    <2> QED
      BY <1>3, <2>1
  <1>5. c <= q + 1
    <2>1. a <= (q + 1) * b
      BY <1>1
    <2> QED
      BY <1>2, <2>1, UpLeast DEF CeilDiv
  <1>6. a % b = 0 => c <= q
    <2> SUFFICES ASSUME a % b = 0 PROVE c <= q
      OBVIOUS
    <2>1. a = b * q
      BY <1>1
    <2>2. a <= q * b
      BY <2>1
    <2> QED
      BY <1>2, <2>2, UpLeast DEF CeilDiv
  <1> QED
    BY <1>1, <1>2, <1>4, <1>5, <1>6

\* A value rounded down that is at most t is below t + 1 unrounded.
LEMMA ValueBelow ==
  ASSUME NEW n \in Nat, NEW price \in Nat, NEW factor \in Nat \ {0}, NEW t \in Nat,
         value_floor(n, price, factor) <= t
  PROVE  n * price < (t + 1) * factor
  <1>1. n * price \in Nat
    OBVIOUS
  <1>2. PICK q \in Nat : q = (n * price) \div factor /\ n * price < q * factor + factor
    BY <1>1, DivBounds
  <1>3. q <= t
    BY <1>2 DEF value_floor
  <1>4. q * factor <= t * factor /\ q * factor \in Nat /\ t * factor \in Nat
    BY <1>3, TimesMono
  <1>5. (t + 1) * factor = t * factor + factor
    OBVIOUS
  <1> QED
    BY <1>1, <1>2, <1>4, <1>5

\* The exact value of shares and tokens is no more than that of the shares rounded
\* up and the tokens.
LEMMA ExactBelow ==
  ASSUME NEW j \in Nat, NEW s \in Nat, NEW pj \in Nat \ {0}, NEW plain \in Nat, NEW price \in Nat,
         NEW above \in Nat, (CeilDiv(j * s, pj) + plain) * price < above
  PROVE  (j * s + plain * pj) * price < above * pj
  <1>1. j * s \in Nat
    OBVIOUS
  <1>2. PICK c \in Nat : c = CeilDiv(j * s, pj) /\ j * s <= c * pj
    BY <1>1, CeilBounds
  <1>3. PICK x \in Nat : x = j * s + plain * pj
    BY <1>1
  <1>4. PICK n \in Nat : n = c + plain
    OBVIOUS
  <1>5. x <= n * pj
    <2>1. n * pj = c * pj + plain * pj /\ c * pj \in Nat /\ plain * pj \in Nat
      BY <1>4
    <2> QED
      BY <1>1, <1>2, <1>3, <2>1
  <1>6. x * price <= (n * pj) * price
    <2>1. PICK y \in Nat : y = n * pj
      OBVIOUS
    <2> QED
      BY <1>5, <2>1, TimesMono
  <1>7. (n * pj) * price = (n * price) * pj
    OBVIOUS
  <1>8. (n * price) * pj < above * pj
    <2>1. PICK v \in Nat : v = n * price /\ v + 1 <= above
      BY <1>2, <1>4
    <2>2. (v + 1) * pj <= above * pj /\ (v + 1) * pj = v * pj + pj /\ v * pj \in Nat /\ above * pj \in Nat
      BY <2>1, TimesMono
    <2> QED
      BY <2>1, <2>2
  <1>9. x * price \in Nat /\ (n * price) * pj \in Nat /\ above * pj \in Nat
    OBVIOUS
  <1> QED
    BY <1>3, <1>6, <1>7, <1>8, <1>9

\* The tokens of shares by a rate rounded down are no more than the shares' own,
\* rounded up.
LEMMA RateBelow ==
  ASSUME NEW j \in Nat, NEW s \in Nat, NEW pj \in Nat \ {0}, NEW bps \in Nat \ {0}
  PROVE  /\ (j * ((s * bps) \div pj)) \div bps \in Nat
         /\ (j * ((s * bps) \div pj)) \div bps <= CeilDiv(j * s, pj)
  <1>1. s * bps \in Nat /\ j * s \in Nat
    OBVIOUS
  <1>2. PICK r \in Nat : r = (s * bps) \div pj /\ r * pj <= s * bps
    BY <1>1, DivBounds
  <1>3. j * r \in Nat
    OBVIOUS
  <1>4. PICK x \in Nat : x = (j * r) \div bps /\ x * bps <= j * r
    BY <1>3, DivBounds
  <1>5. PICK c \in Nat : c = CeilDiv(j * s, pj) /\ j * s <= c * pj
    BY <1>1, CeilBounds
  <1>6. j * r <= c * bps
    <2> SUFFICES ASSUME c * bps + 1 <= j * r PROVE FALSE
      OBVIOUS
    <2>1. (c * bps + 1) * pj <= (j * r) * pj
      <3>1. PICK u \in Nat, v \in Nat : u = c * bps + 1 /\ v = j * r
        OBVIOUS
      <3> QED
        BY <3>1, TimesMono
    <2>2. (j * r) * pj = j * (r * pj) /\ j * (s * bps) = (j * s) * bps /\ (c * pj) * bps = (c * bps) * pj
      OBVIOUS
    <2>3. j * (r * pj) <= j * (s * bps)
      <3>1. PICK u \in Nat, v \in Nat : u = r * pj /\ v = s * bps
        OBVIOUS
      <3> QED
        BY <1>2, <3>1, TimesMono
    <2>4. (j * s) * bps <= (c * pj) * bps
      <3>1. PICK u \in Nat, v \in Nat : u = j * s /\ v = c * pj
        OBVIOUS
      <3> QED
        BY <1>5, <3>1, TimesMono
    <2>5. (c * bps + 1) * pj = (c * bps) * pj + pj
      OBVIOUS
    <2>6. (c * bps) * pj \in Nat /\ (j * r) * pj \in Nat /\ (j * s) * bps \in Nat
      OBVIOUS
    <2> QED
      BY <2>1, <2>2, <2>3, <2>4, <2>5, <2>6
  <1>7. x <= c
    BY <1>3, <1>4, <1>6, FloorMost
  <1> QED
    BY <1>2, <1>4, <1>5, <1>7

-----------------------------------------------------------------------------
(* The liquidator's gate and the dust rule. *)

\* The market's dust floor is rounded down, the initiator's threshold up.
LEMMA DustFloor ==
  ASSUME NEW md, IsMarketData(md)
  PROVE  LET t == cents_to_oracle_value_ceil(md.min_cents, md.oracle_pow)
         IN  /\ dust_floor(md) \in Nat /\ t \in Nat /\ t <= dust_floor(md) + 1
             /\ (md.min_cents * md.oracle_pow) % 100 = 0 => t = dust_floor(md)
  <1>1. PICK n \in Nat : n = md.min_cents * md.oracle_pow
    <2>1. md.min_cents \in Nat /\ md.oracle_pow \in Nat
      BY DEF IsMarketData
    <2> QED
      BY <2>1
  <1>2. /\ n \div 100 \in Nat /\ CeilDiv(n, 100) \in Nat /\ CeilDiv(n, 100) <= n \div 100 + 1
        /\ n % 100 = 0 => CeilDiv(n, 100) = n \div 100
    <2>1. PICK h \in Nat \ {0} : h = 100
      OBVIOUS
    <2>2. /\ n \div h \in Nat /\ CeilDiv(n, h) \in Nat /\ CeilDiv(n, h) <= n \div h + 1
          /\ n % h = 0 => CeilDiv(n, h) = n \div h
      BY FloorCeil
    <2> QED
      BY <2>1, <2>2
  <1> QED
    BY <1>1, <1>2 DEF dust_floor, cents_to_oracle_value_ceil

\* By the reported rate a deposit is worth no more than the initiator finds.
LEMMA ReportedBelow ==
  ASSUME BPS_FACTOR \in Nat \ {0}, NEW md, IsMarketData(md), NEW d, d.pool \in DOMAIN md.pools,
         d.j \in Nat, d.plain \in Nat, d.j <= md.pools[d.pool].j
  PROVE  /\ collateral_position_value(d, md) \in Nat /\ deposit_value(d, md) \in Nat
         /\ collateral_position_value(d, md) <= deposit_value(d, md)
  <1>1. PICK pool : pool = md.pools[d.pool]
    OBVIOUS
  <1>2. pool \in PoolData
    BY <1>1 DEF IsMarketData
  <1>3. PICK s \in Nat, pj \in Nat, price \in Nat, factor \in Nat \ {0}, j \in Nat, plain \in Nat :
          /\ s = pool.supply /\ pj = pool.j /\ price = pool.price /\ factor = pool.factor
          /\ j = d.j /\ plain = d.plain /\ j <= pj
    BY <1>1, <1>2 DEF PoolData
  <1>4. PICK x \in Nat, y \in Nat :
          x = collateral_by_rate(d, pool) /\ y = j_tokens_to_tokens_ceil(pool, j) + plain /\ x <= y
    <2>1. CASE pj = 0
      <3>1. j = 0 /\ j * BPS_FACTOR = 0
        BY <1>3, <2>1
      <3>2. 0 \div BPS_FACTOR = 0
        OBVIOUS
      <3>3. collateral_by_rate(d, pool) = plain
        BY <1>3, <2>1, <3>1, <3>2 DEF collateral_by_rate, fixed_mul_floor, j_token_rate_floor_bps
      <3>4. j_tokens_to_tokens_ceil(pool, j) + plain = plain
        BY <1>3, <2>1 DEF j_tokens_to_tokens_ceil
      <3> QED
        BY <3>3, <3>4
    <2>2. CASE pj # 0
      <3>1. PICK u \in Nat : u = (j * ((s * BPS_FACTOR) \div pj)) \div BPS_FACTOR /\ u <= CeilDiv(j * s, pj)
        BY <2>2, RateBelow
      <3>2. CeilDiv(j * s, pj) \in Nat
        <4>1. j * s \in Nat
          OBVIOUS
        <4> QED
          BY <2>2, <4>1, CeilBounds
      <3>3. collateral_by_rate(d, pool) = u + plain
        BY <1>3, <2>2, <3>1 DEF collateral_by_rate, fixed_mul_floor, j_token_rate_floor_bps
      <3>4. j_tokens_to_tokens_ceil(pool, j) + plain = CeilDiv(j * s, pj) + plain
        BY <1>3, <2>2 DEF j_tokens_to_tokens_ceil
      <3> QED
        BY <3>1, <3>2, <3>3, <3>4
    <2> QED
      BY <2>1, <2>2
  <1>5. (x * price) \div factor \in Nat /\ (y * price) \div factor \in Nat
        /\ (x * price) \div factor <= (y * price) \div factor
    BY <1>4, ScaleMono
  <1> QED
    BY <1>1, <1>3, <1>4, <1>5 DEF collateral_position_value, deposit_value, value_floor

\* A dust deposit counts for no more than the floor that the gate subtracts for it.
LEMMA DustScaled ==
  ASSUME BPS_FACTOR \in Nat \ {0}, NEW md, IsMarketData(md), NEW d, d.pool \in DOMAIN md.pools,
         d.j \in Nat, d.plain \in Nat, d.j <= md.pools[d.pool].j,
         \/ (md.min_cents * md.oracle_pow) % 100 = 0
         \/ md.pools[d.pool].close_ltv_bps < BPS_FACTOR,
         deposit_value(d, md) <= cents_to_oracle_value_ceil(md.min_cents, md.oracle_pow)
  PROVE  LET scaled == fixed_mul_floor(collateral_position_value(d, md), md.pools[d.pool].close_ltv_bps)
         IN  scaled \in Nat /\ scaled <= dust_floor(md)
  <1>1. PICK l \in Nat : l = md.pools[d.pool].close_ltv_bps /\ l <= BPS_FACTOR
    <2>1. md.pools[d.pool] \in PoolData
      BY DEF IsMarketData
    <2> QED
      BY <2>1 DEF PoolData
  <1>2. PICK v \in Nat : v = collateral_position_value(d, md) /\ v <= deposit_value(d, md) /\ deposit_value(d, md) \in Nat
    BY ReportedBelow
  <1>3. PICK f \in Nat, t \in Nat :
          /\ f = dust_floor(md) /\ t = cents_to_oracle_value_ceil(md.min_cents, md.oracle_pow) /\ t <= f + 1
          /\ (md.min_cents * md.oracle_pow) % 100 = 0 => t = f
    BY DustFloor
  <1>4. v <= t
    BY <1>2, <1>3
  <1>5. v * l \in Nat
    OBVIOUS
  <1>6. v * l <= v * BPS_FACTOR
    BY <1>1, TimesMono
  <1>7. (v * l) \div BPS_FACTOR \in Nat
    BY <1>5, DivBounds
  <1>8. (v * l) \div BPS_FACTOR <= f
    <2>1. CASE v <= f
      <3>1. (v * l) \div BPS_FACTOR <= v
        BY <1>5, <1>6, FloorMost
      <3> QED
        BY <1>7, <2>1, <3>1
    <2>2. CASE v > f
      <3>1. v = f + 1 /\ l < BPS_FACTOR
        BY <1>1, <1>3, <1>4, <2>2
      <3>2. PICK q \in Nat : q = (v * l) \div BPS_FACTOR /\ q * BPS_FACTOR <= v * l
        BY <1>5, DivBounds
      <3>3. v * l < v * BPS_FACTOR
        BY <1>1, <3>1
      <3>4. q < v
        <4> SUFFICES ASSUME v <= q PROVE FALSE
          OBVIOUS
        <4>1. v * BPS_FACTOR <= q * BPS_FACTOR
          BY TimesMono
        <4>2. v * BPS_FACTOR \in Nat /\ q * BPS_FACTOR \in Nat
          OBVIOUS
        <4> QED
          BY <1>5, <3>2, <3>3, <4>1, <4>2
      <3> QED
        BY <3>1, <3>2, <3>4
    <2> QED
      BY <2>1, <2>2
  <1> QED
    BY <1>1, <1>2, <1>3, <1>7, <1>8 DEF fixed_mul_floor

\* A debt counts in the gate, and for something if any of it is owed.
LEMMA DebtCounts ==
  ASSUME BPS_FACTOR \in Nat \ {0}, NEW md, IsMarketData(md), NEW b, b.pool \in DOMAIN md.pools, b.d \in Nat
  PROVE  LET scaled == fixed_mul_ceil(debt_position_value(b, md), md.pools[b.pool].liability_bps)
         IN  /\ scaled \in Nat
             /\ d_tokens_to_tokens_ceil(md.pools[b.pool], b.d) > 0 => scaled > 0
  <1>1. PICK pool : pool = md.pools[b.pool]
    OBVIOUS
  <1>2. pool \in PoolData
    BY <1>1 DEF IsMarketData
  <1>3. PICK w \in Nat, pd \in Nat, price \in Nat \ {0}, factor \in Nat \ {0}, l \in Nat \ {0}, n \in Nat :
          /\ w = pool.borrowed /\ pd = pool.d /\ price = pool.price /\ factor = pool.factor
          /\ l = pool.liability_bps /\ n = b.d
    BY <1>1, <1>2 DEF PoolData
  <1>4. PICK r \in Nat : r = d_token_rate_ceil_bps(pool) /\ (pd # 0 /\ w # 0 => r # 0)
    <2>1. w * BPS_FACTOR \in Nat /\ (w # 0 => w * BPS_FACTOR \in Nat \ {0})
      OBVIOUS
    <2>2. pd # 0 => /\ CeilDiv(w * BPS_FACTOR, pd) \in Nat
                    /\ w # 0 => CeilDiv(w * BPS_FACTOR, pd) # 0
      BY <2>1, CeilBounds, CeilPositive
    <2> QED
      BY <1>3, <2>2 DEF d_token_rate_ceil_bps
  <1>5. PICK x \in Nat : x = debt_by_rate(b, pool) /\ (n # 0 /\ r # 0 => x # 0)
    <2>1. n * r \in Nat /\ (n # 0 /\ r # 0 => n * r \in Nat \ {0})
      OBVIOUS
    <2>2. CeilDiv(n * r, BPS_FACTOR) \in Nat /\ (n # 0 /\ r # 0 => CeilDiv(n * r, BPS_FACTOR) # 0)
      BY <2>1, CeilBounds, CeilPositive
    <2> QED
      BY <1>3, <1>4, <2>2 DEF debt_by_rate, fixed_mul_ceil
  <1>6. PICK v \in Nat : v = debt_position_value(b, md) /\ (x # 0 => v # 0)
    <2>1. x * price \in Nat /\ (x # 0 => x * price \in Nat \ {0})
      OBVIOUS
    <2>2. CeilDiv(x * price, factor) \in Nat /\ (x # 0 => CeilDiv(x * price, factor) # 0)
      BY <2>1, CeilBounds, CeilPositive
    <2> QED
      BY <1>1, <1>3, <1>5, <2>2 DEF debt_position_value, value_ceil
  <1>7. PICK z \in Nat : z = fixed_mul_ceil(v, l) /\ (v # 0 => z # 0)
    <2>1. v * l \in Nat /\ (v # 0 => v * l \in Nat \ {0})
      OBVIOUS
    <2>2. CeilDiv(v * l, BPS_FACTOR) \in Nat /\ (v # 0 => CeilDiv(v * l, BPS_FACTOR) # 0)
      BY <2>1, CeilBounds, CeilPositive
    <2> QED
      BY <2>2 DEF fixed_mul_ceil
  <1>8. ASSUME d_tokens_to_tokens_ceil(pool, n) > 0 PROVE pd # 0 /\ n # 0 /\ w # 0
    <2>1. pd # 0 /\ CeilDiv(n * w, pd) > 0
      BY <1>3, <1>8 DEF d_tokens_to_tokens_ceil
    <2>2. ASSUME n * w = 0 PROVE FALSE
      <3>1. (0 + pd - 1) \div pd = 0
        BY <2>1
      <3> QED
        BY <2>1, <2>2, <3>1 DEF CeilDiv
    <2>3. n = 0 \/ w = 0 => n * w = 0
      OBVIOUS
    <2> QED
      BY <2>1, <2>2, <2>3
  <1>9. d_tokens_to_tokens_ceil(pool, n) > 0 => z > 0
    BY <1>4, <1>5, <1>6, <1>7, <1>8
  <1> QED
    BY <1>1, <1>3, <1>6, <1>7, <1>9

\* The gate passes an obligation of dust deposits that has collateral and owes
\* anything: what it subtracts for the deposits is all they count for
\* (compute_is_liquidatable).
LEMMA DustPassesGate ==
  ASSUME BPS_FACTOR \in Nat \ {0}, NEW md, IsMarketData(md), NEW o, IsHolding(o),
         \/ (md.min_cents * md.oracle_pow) % 100 = 0
         \/ \A pool \in DOMAIN md.pools : md.pools[pool].close_ltv_bps < BPS_FACTOR,
         \A d \in o.deposits : d.pool \in DOMAIN md.pools => d.j <= md.pools[d.pool].j,
         unpriced_pools_touched(o, md) = {}, has_any_collateral(o, md), all_deposits_dust(o, md),
         NEW b \in o.borrows, d_tokens_to_tokens_ceil(md.pools[b.pool], b.d) > 0
  PROVE  compute_is_liquidatable(o, md, "no_dust")
  <1> DEFINE D == {x \in o.deposits : x.pool \in Priced(md)}
             B == {x \in o.borrows : x.pool \in Priced(md)}
             c == [d \in D |-> fixed_mul_floor(collateral_position_value(d, md), md.pools[d.pool].close_ltv_bps)]
             e == [x \in B |-> fixed_mul_ceil(debt_position_value(x, md), md.pools[x.pool].liability_bps)]
  <1>1. D = o.deposits /\ IsFiniteSet(D) /\ \A d \in D : d.pool \in DOMAIN md.pools /\ d.j \in Nat /\ d.plain \in Nat
    BY DEF all_deposits_dust, Priced, IsHolding
  <1>2. IsFiniteSet(B) /\ b \in B /\ \A x \in B : x.pool \in DOMAIN md.pools /\ x.d \in Nat
    <2>1. B \subseteq o.borrows /\ IsFiniteSet(o.borrows)
      BY DEF IsHolding
    <2>2. IsFiniteSet(B)
      BY <2>1, FS_Subset
    <2>3. b.pool \in Priced(md)
      BY DEF unpriced_pools_touched
    <2> QED
      BY <2>2, <2>3 DEF Priced, IsHolding
  <1>3. PICK f \in Nat : f = dust_floor(md)
    BY DustFloor
  <1>4. \A d \in D : c[d] \in Nat /\ c[d] <= f
    <2> SUFFICES ASSUME NEW d \in D PROVE c[d] \in Nat /\ c[d] <= f
      OBVIOUS
    <2>1. deposit_value(d, md) <= cents_to_oracle_value_ceil(md.min_cents, md.oracle_pow)
      BY <1>1 DEF all_deposits_dust
    <2>2. /\ d.pool \in DOMAIN md.pools /\ d.j \in Nat /\ d.plain \in Nat /\ d.j <= md.pools[d.pool].j
          /\ \/ (md.min_cents * md.oracle_pow) % 100 = 0
             \/ md.pools[d.pool].close_ltv_bps < BPS_FACTOR
      BY <1>1
    <2>3. PICK z : z = fixed_mul_floor(collateral_position_value(d, md), md.pools[d.pool].close_ltv_bps)
      OBVIOUS
    <2>4. z \in Nat /\ z <= dust_floor(md)
      BY <2>1, <2>2, <2>3, DustScaled
    <2> QED
      BY <1>3, <2>3, <2>4
  <1>5. /\ SumFunctionOnSet(c, D) \in Nat
        /\ SumFunctionOnSet(c, D) <= f * Cardinality(D)
    <2> HIDE DEF c, D
    <2> QED
      BY <1>1, <1>4, SumBound
  <1>6. \A x \in B : e[x] \in Nat
    BY <1>2, DebtCounts
  <1>7. e[b] > 0
    BY <1>2, DebtCounts
  <1>8. SumFunctionOnSet(e, B) \in Nat /\ SumFunctionOnSet(e, B) > 0
    <2> HIDE DEF e, B
    <2>1. SumFunctionOnSet(e, B) \in Nat /\ SumFunctionOnSet(e, B) = e[b] + SumFunctionOnSet(e, B \ {b})
      BY <1>2, <1>6, SumAdd
    <2>2. SumFunctionOnSet(e, B \ {b}) \in Nat
      <3>1. IsFiniteSet(B \ {b}) /\ \A x \in B \ {b} : e[x] \in Nat
        BY <1>2, <1>6, FS_RemoveElement
      <3> QED
        BY <3>1, SumAdd
    <2> QED
      BY <1>2, <1>6, <1>7, <2>1, <2>2
  <1>9. scaled_collateral_value(o, md) = SumFunctionOnSet(c, D)
    BY DEF scaled_collateral_value, SumFunction
  <1>10. scaled_debt_value(o, md) = SumFunctionOnSet(e, B)
    BY DEF scaled_debt_value, SumFunction
  <1>11. subtracted_value(o, md) = f * Cardinality(D) /\ f * Cardinality(D) \in Nat
    <2> HIDE DEF c, e, D, B
    <2>1. PICK n \in Nat : n = Cardinality(D)
      BY <1>1, FS_CardinalityType
    <2>2. subtracted_value(o, md) = f * n
      BY <1>1, <1>3, <2>1 DEF subtracted_value
    <2> QED
      BY <2>1, <2>2
  <1> HIDE DEF c, e, D, B
  <1> QED
    BY <1>5, <1>8, <1>9, <1>10, <1>11 DEF compute_is_liquidatable

-----------------------------------------------------------------------------
(* Readings, requests and channels. *)

\* What the constants are.
LEMMA Constants ==
  /\ InitialShapes \subseteq DOMAIN Shapes /\ LaterShapes \subseteq DOMAIN Shapes
  /\ Gone \notin Keys /\ Gone \notin DOMAIN Shapes /\ Gone \notin MarketName
  /\ MaxChanges \in Nat /\ MaxFaults \in Nat
  /\ EventCapacity \in Nat /\ RequestCapacity \in Nat
  BY BadDebtAssumption DEF MarketName

\* A reading is that of a key, and is not the mark of none.
LEMMA ReadingKey ==
  \A x \in Reading : x.key \in Keys /\ x.on \in MaybeGone /\ x # NoSubject
  <1> SUFFICES ASSUME NEW x \in Reading PROVE x.key \in Keys /\ x.on \in MaybeGone /\ x # NoSubject
    OBVIOUS
  <1>1. x.key \in Keys /\ x.on \in MaybeGone
    BY DEF Reading
  <1>2. NoSubject.key = Gone
    BY DEF NoSubject
  <1> QED
    BY <1>1, <1>2, Constants

\* Only an obligation that exists, under market data, is eligible.
LEMMA EligibleReading ==
  ASSUME TypeOK, NEW o, NEW md, Eligible(o, md)
  PROVE  o \in Obligation /\ md \in MarketName
  <1>1. <<o, md>> \in Readings
    BY DEF TypeOK, Eligible
  <1>2. PICK a \in Obligation, m \in MarketName : <<o, md>> = <<a, m>>
    BY <1>1 DEF Readings
  <1> QED
    BY <1>2

\* The request made of an eligible reading is a judged one.
LEMMA JudgedRequest ==
  ASSUME TypeOK, NEW k \in Keys, NEW o, NEW md, Eligible(o, md)
  PROVE  [key |-> k, on |-> o, md |-> md] \in Judged
  <1>1. o \in Obligation /\ md \in MarketName
    BY EligibleReading
  <1>2. PICK r : r = [key |-> k, on |-> o, md |-> md]
    OBVIOUS
  <1>3. r \in Request /\ r.on = o /\ r.md = md
    BY <1>1, <1>2 DEF Request
  <1>4. <<r.on, r.md>> \in eligible
    BY <1>3 DEF Eligible
  <1> QED
    BY <1>2, <1>3, <1>4 DEF Judged

\* A channel of n keeps n entries, and no others than it was sent.
LEMMA NewestType ==
  ASSUME NEW S, NEW s \in Seq(S), NEW n \in Nat
  PROVE  Newest(s, n) \in Seq(S) /\ Len(Newest(s, n)) <= n
  <1>1. CASE Len(s) <= n
    BY <1>1 DEF Newest
  <1>2. CASE ~(Len(s) <= n)
    <2>1. PICK l \in Nat : l = Len(s) /\ l > n
      BY <1>2
    <2>2. \A i \in (l - n + 1)..l : s[i] \in S
      BY <2>1, ElementOfSeq
    <2>3. SubSeq(s, l - n + 1, l) \in Seq(S) /\ Len(SubSeq(s, l - n + 1, l)) = IF l - n + 1 <= l THEN l - (l - n + 1) + 1 ELSE 0
      BY <2>1, <2>2, SubSeqProperties
    <2>4. Len(SubSeq(s, l - n + 1, l)) <= n
      BY <2>1, <2>3
    <2> QED
      BY <1>2, <2>1, <2>3, <2>4 DEF Newest
  <1> QED
    BY <1>1, <1>2

\* Judged requests are requests.
LEMMA JudgedSeq ==
  ASSUME NEW rs \in Seq(Judged)
  PROVE  rs \in Seq(Request)
  <1>1. Judged \subseteq Request
    BY DEF Judged
  <1> QED
    BY <1>1

\* What is sent is kept in the channel, judged and within its capacity.
LEMMA SendJudged ==
  ASSUME IndInv, NEW rs \in Seq(Judged), Send(rs)
  PROVE  requests' \in Seq(Judged) /\ Len(requests') <= RequestCapacity
  <1>1. PICK S : S = Judged
    OBVIOUS
  <1>2. requests \in Seq(S) /\ rs \in Seq(S)
    BY <1>1 DEF IndInv, JudgedInv
  <1>3. requests \o rs \in Seq(S)
    BY <1>2
  <1>4. requests' = Newest(requests \o rs, RequestCapacity) /\ RequestCapacity \in Nat
    BY Constants DEF Send
  <1> QED
    BY <1>1, <1>3, <1>4, NewestType

\* What is left of a channel whose oldest entry is taken.
LEMMA TailType ==
  ASSUME NEW S, NEW s \in Seq(S), s # <<>>, NEW n \in Nat, Len(s) <= n
  PROVE  Head(s) \in S /\ Tail(s) \in Seq(S) /\ Len(Tail(s)) <= n
  <1>1. Head(s) \in S /\ Tail(s) \in Seq(S) /\ Len(Tail(s)) = Len(s) - 1 /\ Len(s) \in Nat
    BY HeadTailProperties, LenProperties
  <1> QED
    BY <1>1

\* A step that leaves the configuration alone keeps the requests judged.
LEMMA JudgedKept ==
  ASSUME IndInv, UNCHANGED config, built' \in Seq(Judged), requests' \in Seq(Judged)
  PROVE  JudgedInv' /\ built' \in Seq(Request) /\ requests' \in Seq(Request)
  <1>1. eligible' = eligible /\ rules' = rules
    BY DEF config
  <1>2. Judged' = Judged
    BY <1>1 DEF Judged
  <1>3. EligibleUnder(rules') = EligibleUnder(rules)
    BY <1>1
  <1>4. eligible' = EligibleUnder(rules')
    BY <1>1, <1>3 DEF IndInv, JudgedInv
  <1> QED
    BY <1>2, <1>4, JudgedSeq DEF JudgedInv

\* An obligation with its open requests changed is an obligation.
LEMMA OpenType ==
  ASSUME NEW o \in Obligation, NEW n \in {0, 1}
  PROVE  [o EXCEPT !.open = n] \in Obligation
  BY DEF Obligation

-----------------------------------------------------------------------------
(* The start, the chain and the rows. *)

\* Nothing is read and nothing is asked for at the start.
LEMMA InitKeeps == Init => IndInv
  <1> SUFFICES ASSUME Init PROVE IndInv
    OBVIOUS
  <1>1. \A S : <<>> \in Seq(S) /\ Len(<<>>) = 0
    OBVIOUS
  <1>2. book \in [Keys -> MaybeGone] /\ rows = book
    BY Constants DEF Init, MaybeGone, Obligation
  <1>3. eligible \subseteq Readings /\ solvent \subseteq Readings
    BY DEF Init, EligibleUnder, SolventUnder
  <1>4. /\ events \in Seq(Reading) /\ Len(events) <= EventCapacity
        /\ built \in Seq(Request) /\ requests \in Seq(Request) /\ Len(requests) <= RequestCapacity
    BY <1>1, Constants DEF Init
  <1>5. TypeOK
    BY <1>2, <1>3, <1>4, Constants DEF Init, TypeOK
  <1>6. JudgedInv
    BY <1>1 DEF Init, JudgedInv
  <1> QED
    BY <1>5, <1>6 DEF IndInv

\* The obligations stay what they are when one comes to hold something else.
LEMMA BecomesType ==
  ASSUME TypeOK, NEW k \in Keys, NEW s \in LaterShapes \cup {Gone}, Becomes(k, s)
  PROVE  book' \in [Keys -> MaybeGone] /\ book'[k] \in MaybeGone /\ lag' \subseteq Keys
  <1>1. book \in [Keys -> MaybeGone] /\ lag \subseteq Keys
    BY DEF TypeOK
  <1>2. PICK o : o = IF s = Gone THEN Gone
                     ELSE [shape |-> s, open |-> IF book[k] = Gone THEN 0 ELSE book[k].open]
    OBVIOUS
  <1>3. o \in MaybeGone
    <2>1. CASE s = Gone
      BY <1>2, <2>1 DEF MaybeGone
    <2>2. CASE s # Gone
      <3>1. s \in DOMAIN Shapes
        BY <2>2, Constants
      <3>2. PICK n \in {0, 1} : n = IF book[k] = Gone THEN 0 ELSE book[k].open
        BY <1>1 DEF MaybeGone, Obligation
      <3>3. o = [shape |-> s, open |-> n]
        BY <1>2, <2>2, <3>2
      <3> QED
        BY <3>1, <3>3 DEF MaybeGone, Obligation
    <2> QED
      BY <2>1, <2>2
  <1>4. book' = [book EXCEPT ![k] = o] /\ lag' = lag \cup {k}
    BY <1>2 DEF Becomes
  <1> QED
    BY <1>1, <1>3, <1>4

\* The chain changes: nothing that was judged does.
LEMMA WorldKeeps ==
  ASSUME IndInv, World
  PROVE  IndInv'
  <1>1. TypeOK /\ JudgedInv
    BY DEF IndInv
  <1>2. UNCHANGED <<config, rows, handler, requests, faults>>
    BY DEF World, Changed, Liquidated, MarketMoves, Claimed
  <1>3. JudgedInv' /\ built' \in Seq(Request) /\ requests' \in Seq(Request)
    <2>1. built' \in Seq(Judged) /\ requests' \in Seq(Judged) /\ UNCHANGED config
      BY <1>1, <1>2 DEF JudgedInv, handler
    <2> QED
      BY <2>1, JudgedKept
  <1>4. changes' \in 0..MaxChanges
    <2>1. changes \in 0..MaxChanges /\ changes < MaxChanges /\ changes' = changes + 1
      BY <1>1 DEF World, Changed, Liquidated, MarketMoves, Claimed, Counted, TypeOK
    <2> QED
      BY <2>1, Constants
  <1>5. /\ book' \in [Keys -> MaybeGone] /\ lag' \subseteq Keys /\ market' \in MarketName
        /\ events' \in Seq(Reading) /\ Len(events') <= EventCapacity
    <2>1. ASSUME NEW k \in Keys, NEW s \in LaterShapes \cup {Gone}, Changed(k, s)
          PROVE  <1>5!:
      <3>1. Becomes(k, s) /\ UNCHANGED <<market, events>>
        BY <2>1 DEF Changed
      <3> QED
        BY <1>1, <3>1, BecomesType DEF TypeOK
    <2>2. ASSUME NEW k \in Keys, NEW s \in LaterShapes \cup {Gone}, Liquidated(k, s)
          PROVE  <1>5!:
      <3>1. Becomes(k, s) /\ UNCHANGED market
        BY <2>2 DEF Liquidated
      <3>2. book' \in [Keys -> MaybeGone] /\ book'[k] \in MaybeGone /\ lag' \subseteq Keys
        BY <1>1, <3>1, BecomesType
      <3>3. PICK e : e = [key |-> k, on |-> book'[k]]
        OBVIOUS
      <3>4. e \in Reading /\ events \in Seq(Reading)
        BY <1>1, <3>2, <3>3 DEF Reading, TypeOK
      <3>5. Append(events, e) \in Seq(Reading)
        BY <3>4
      <3>6. events' = Newest(Append(events, e), EventCapacity) /\ EventCapacity \in Nat
        BY <2>2, <3>3, Constants DEF Liquidated
      <3>7. events' \in Seq(Reading) /\ Len(events') <= EventCapacity
        BY <3>5, <3>6, NewestType
      <3> QED
        BY <1>1, <3>1, <3>2, <3>7 DEF TypeOK
    <2>3. ASSUME NEW md \in MarketName, MarketMoves(md)
          PROVE  <1>5!:
      BY <1>1, <2>3 DEF MarketMoves, TypeOK
    <2>4. ASSUME NEW k \in Keys, Claimed(k)
          PROVE  <1>5!:
      <3>1. book \in [Keys -> MaybeGone] /\ book[k] \in Obligation
        BY <1>1, <2>4 DEF Claimed, TypeOK, MaybeGone
      <3>2. [book[k] EXCEPT !.open = 0] \in MaybeGone
        BY <3>1, OpenType DEF MaybeGone
      <3>3. book' = [book EXCEPT ![k] = [book[k] EXCEPT !.open = 0]] /\ lag' = lag \cup {k} /\ UNCHANGED <<market, events>>
        BY <2>4, <3>1 DEF Claimed
      <3> QED
        BY <1>1, <3>1, <3>2, <3>3 DEF TypeOK
    <2> QED
      BY <2>1, <2>2, <2>3, <2>4 DEF World
  <1>6. TypeOK'
    BY <1>1, <1>2, <1>3, <1>4, <1>5 DEF TypeOK, config, handler
  <1> QED
    BY <1>3, <1>6 DEF IndInv

\* A row catches up with the chain, or misses a change.
LEMMA RowKeeps ==
  ASSUME IndInv, NEW k \in Keys, Follow(k)
  PROVE  IndInv'
  <1>1. TypeOK /\ JudgedInv
    BY DEF IndInv
  <1>2. UNCHANGED <<config, chain, events, handler, requests, changes, faults>>
    BY DEF Follow, RowCatchesUp, RowMisses
  <1>3. JudgedInv' /\ built' \in Seq(Request) /\ requests' \in Seq(Request)
    <2>1. built' \in Seq(Judged) /\ requests' \in Seq(Judged) /\ UNCHANGED config
      BY <1>1, <1>2 DEF JudgedInv, handler
    <2> QED
      BY <2>1, JudgedKept
  <1>4. rows' \in [Keys -> MaybeGone] /\ lag' \subseteq Keys
    BY <1>1 DEF Follow, RowCatchesUp, RowMisses, TypeOK
  <1>5. TypeOK'
    BY <1>1, <1>2, <1>3, <1>4 DEF TypeOK, config, chain, handler
  <1> QED
    BY <1>3, <1>5 DEF IndInv

-----------------------------------------------------------------------------
(* The strategy. *)

\* A fault is counted, or none happens.
LEMMA FaultsType ==
  ASSUME TypeOK, Fault \/ UNCHANGED faults
  PROVE  faults' \in 0..MaxFaults
  <1>1. faults \in 0..MaxFaults /\ (faults' = faults \/ (faults < MaxFaults /\ faults' = faults + 1))
    BY DEF TypeOK, Fault
  <1> QED
    BY <1>1, Constants

\* A step of the strategy leaves the chain and the configuration alone; what is left
\* to show is where its handler stands and what it has asked for.
LEMMA HandlerKeeps ==
  ASSUME IndInv, UNCHANGED <<config, chain, lag, changes>>, Fault \/ UNCHANGED faults,
         rows' \in [Keys -> MaybeGone],
         events' \in Seq(Reading), Len(events') <= EventCapacity,
         at' \in {"idle", "event", "market", "loop", "ask", "reply"},
         todo' \subseteq Reading,
         snapshot' \in MarketName \cup {Gone}, snapshot' # Gone <=> at' \in {"loop", "ask", "reply"},
         subject' \in Reading \cup {NoSubject}, subject' # NoSubject <=> at' \in {"event", "ask", "reply"},
         built' \in Seq(Judged), requests' \in Seq(Judged), Len(requests') <= RequestCapacity
  PROVE  IndInv'
  <1>1. TypeOK
    BY DEF IndInv
  <1>2. JudgedInv' /\ built' \in Seq(Request) /\ requests' \in Seq(Request)
    BY JudgedKept
  <1>3. faults' \in 0..MaxFaults
    BY <1>1, FaultsType
  <1>4. TypeOK'
    BY <1>1, <1>2, <1>3 DEF TypeOK, config, chain
  <1> QED
    BY <1>2, <1>4 DEF IndInv

\* What TypeOK and JudgedInv say of the handler, its rows and its channels.
LEMMA HandlerType ==
  ASSUME IndInv
  PROVE  /\ rows \in [Keys -> MaybeGone] /\ market \in MarketName
         /\ events \in Seq(Reading) /\ Len(events) <= EventCapacity
         /\ at \in {"idle", "event", "market", "loop", "ask", "reply"}
         /\ todo \subseteq Reading
         /\ snapshot \in MarketName \cup {Gone} /\ (snapshot # Gone <=> at \in {"loop", "ask", "reply"})
         /\ subject \in Reading \cup {NoSubject} /\ (subject # NoSubject <=> at \in {"event", "ask", "reply"})
         /\ built \in Seq(Judged) /\ requests \in Seq(Judged) /\ Len(requests) <= RequestCapacity
  BY DEF IndInv, TypeOK, JudgedInv

\* An event is taken from the channel, and judged or not.
LEMMA EventKeeps ==
  ASSUME IndInv, OnEvent
  PROVE  IndInv'
  <1> USE HandlerType
  <1>1. CASE LiquidationEvent
    <2>1. Head(events) \in Reading /\ events' \in Seq(Reading) /\ Len(events') <= EventCapacity
      BY <1>1, Constants, TailType DEF LiquidationEvent
    <2>2. UNCHANGED <<config, chain, rows, lag, todo, snapshot, built, requests, changes, faults>> /\ at = "idle"
      BY <1>1 DEF LiquidationEvent
    <2>3. (at' = "event" /\ subject' = Head(events)) \/ UNCHANGED <<at, subject>>
      BY <1>1 DEF LiquidationEvent
    <2>4. Head(events) # NoSubject
      BY <2>1, ReadingKey
    <2> QED
      BY <2>1, <2>2, <2>3, <2>4, HandlerKeeps
  <1>2. CASE EventUnreadable
    <2>1. events' \in Seq(Reading) /\ Len(events') <= EventCapacity
      BY <1>2, Constants, TailType DEF EventUnreadable
    <2>2. UNCHANGED <<config, chain, rows, lag, handler, requests, changes>> /\ Fault
      BY <1>2 DEF EventUnreadable
    <2> QED
      BY <2>1, <2>2, HandlerKeeps DEF handler
  <1>3. CASE JudgeEvent
    <2>1. PICK rs : /\ Send(rs)
                    /\ rs = IF Eligible(subject.on, market)
                            THEN <<[key |-> subject.key, on |-> subject.on, md |-> market]>> ELSE <<>>
      BY <1>3 DEF JudgeEvent
    <2>2. subject.key \in Keys /\ at = "event"
      BY <1>3, ReadingKey DEF JudgeEvent
    <2>3. rs \in Seq(Judged)
      <3>1. CASE Eligible(subject.on, market)
        <4>1. PICK r : r = [key |-> subject.key, on |-> subject.on, md |-> market]
          OBVIOUS
        <4>2. r \in Judged
          BY <2>2, <3>1, <4>1, JudgedRequest DEF IndInv
        <4> QED
          BY <2>1, <3>1, <4>1, <4>2
      <3>2. CASE ~Eligible(subject.on, market)
        BY <2>1, <3>2
      <3> QED
        BY <3>1, <3>2
    <2>4. requests' \in Seq(Judged) /\ Len(requests') <= RequestCapacity
      BY <2>1, <2>3, SendJudged
    <2>5. /\ UNCHANGED <<config, chain, rows, lag, events, todo, snapshot, built, changes, faults>>
          /\ at' = "idle" /\ subject' = NoSubject
      BY <1>3 DEF JudgeEvent
    <2> QED
      BY <2>2, <2>4, <2>5, HandlerKeeps
  <1>4. CASE JudgeEventFails
    <2>1. /\ UNCHANGED <<config, chain, rows, lag, events, todo, snapshot, built, requests, changes>>
          /\ at = "event" /\ at' = "idle" /\ subject' = NoSubject /\ Fault
      BY <1>4 DEF JudgeEventFails
    <2> QED
      BY <2>1, HandlerKeeps
  <1> QED
    BY <1>1, <1>2, <1>3, <1>4 DEF OnEvent

\* A ledger starts a sweep over the rows there are, or nothing.
LEMMA LedgerKeeps ==
  ASSUME IndInv, NEW q \in 0..(Interval - 1), NewLedger(q)
  PROVE  IndInv'
  <1> USE HandlerType
  <1>1. /\ UNCHANGED <<config, chain, rows, lag, events, snapshot, subject, built, requests, changes>>
        /\ at = "idle"
    BY DEF NewLedger
  <1>2. \/ /\ at' = "market" /\ UNCHANGED faults
           /\ todo' = {[key |-> k, on |-> rows[k]] : k \in {x \in Keys : rows[x] # Gone}}
        \/ (Fault \/ UNCHANGED faults) /\ UNCHANGED <<at, todo>>
    BY DEF NewLedger
  <1>3. {[key |-> k, on |-> rows[k]] : k \in {x \in Keys : rows[x] # Gone}} \subseteq Reading
    BY DEF Reading
  <1>4. todo' \subseteq Reading /\ at' \in {"idle", "market"} /\ (Fault \/ UNCHANGED faults)
    BY <1>1, <1>2, <1>3
  <1> QED
    BY <1>1, <1>4, HandlerKeeps

\* The sweep judges, re-reads, drops and collects.
LEMMA SweepKeeps ==
  ASSUME IndInv, OnSweep
  PROVE  IndInv'
  <1> USE HandlerType
  <1>1. CASE SweepReadsMarket
    <2>1. /\ UNCHANGED <<config, chain, rows, lag, events, todo, subject, built, requests, changes, faults>>
          /\ at = "market" /\ at' = "loop" /\ snapshot' = market
      BY <1>1 DEF SweepReadsMarket
    <2> QED
      BY <2>1, Constants, HandlerKeeps
  <1>2. CASE SweepMarketFails
    <2>1. /\ UNCHANGED <<config, chain, rows, lag, events, snapshot, subject, built, requests, changes>>
          /\ at = "market" /\ at' = "idle" /\ todo' = {} /\ Fault
      BY <1>2 DEF SweepMarketFails
    <2> QED
      BY <2>1, HandlerKeeps
  <1>3. ASSUME NEW x \in todo, JudgeRow(x)
        PROVE  IndInv'
    <2>1. /\ UNCHANGED <<config, chain, rows, lag, events, snapshot, built, requests, changes, faults>>
          /\ at = "loop" /\ todo' \subseteq Reading
          /\ (at' = "ask" /\ subject' = x) \/ UNCHANGED <<at, subject>>
      BY <1>3 DEF JudgeRow
    <2>2. x \in Reading /\ x # NoSubject
      BY ReadingKey
    <2> QED
      BY <2>1, <2>2, HandlerKeeps
  <1>4. CASE Reread
    <2>1. /\ UNCHANGED <<config, chain, rows, lag, events, todo, snapshot, built, requests, changes, faults>>
          /\ at = "ask" /\ at' = "reply" /\ subject' = [subject EXCEPT !.on = book[subject.key]]
      BY <1>4 DEF Reread
    <2>2. subject \in Reading /\ book \in [Keys -> MaybeGone] /\ subject.key \in Keys
      BY <2>1, ReadingKey DEF IndInv, TypeOK
    <2>3. subject' \in Reading
      BY <2>1, <2>2 DEF Reading
    <2>4. subject' # NoSubject
      BY <2>3, ReadingKey
    <2> QED
      BY <2>1, <2>3, <2>4, HandlerKeeps
  <1>5. CASE RereadFails
    <2>1. /\ UNCHANGED <<config, chain, rows, lag, events, todo, snapshot, built, requests, changes>>
          /\ at = "ask" /\ at' = "loop" /\ subject' = NoSubject /\ Fault
      BY <1>5 DEF RereadFails
    <2> QED
      BY <2>1, HandlerKeeps
  <1>6. CASE DropRow
    <2>1. /\ UNCHANGED <<config, chain, lag, events, todo, snapshot, built, requests, changes>>
          /\ at = "reply" /\ at' = "loop" /\ subject' = NoSubject /\ (Fault \/ UNCHANGED faults)
      BY <1>6 DEF DropRow
    <2>2. subject.key \in Keys
      BY <2>1, ReadingKey
    <2>3. rows' \in [Keys -> MaybeGone]
      <3>1. rows' = [rows EXCEPT ![subject.key] = Gone] \/ rows' = rows
        BY <1>6 DEF DropRow
      <3>2. Gone \in MaybeGone
        BY DEF MaybeGone
      <3> QED
        BY <3>1, <3>2
    <2> QED
      BY <2>1, <2>3, HandlerKeeps
  <1>7. CASE JudgeFresh
    <2>1. /\ UNCHANGED <<config, chain, rows, lag, events, todo, snapshot, requests, changes>>
          /\ at = "reply" /\ at' = "loop" /\ subject' = NoSubject /\ (Fault \/ UNCHANGED faults)
      BY <1>7 DEF JudgeFresh
    <2>2. subject.key \in Keys
      BY <2>1, ReadingKey
    <2>3. PICK r : r = [key |-> subject.key, on |-> subject.on, md |-> snapshot]
      OBVIOUS
    <2>4. built' = built \/ (Eligible(subject.on, snapshot) /\ built' = Append(built, r))
      BY <1>7, <2>3 DEF JudgeFresh
    <2>5. Eligible(subject.on, snapshot) => r \in Judged
      BY <2>2, <2>3, JudgedRequest DEF IndInv
    <2>6. built' \in Seq(Judged)
      <3>1. CASE built' = built
        BY <3>1
      <3>2. CASE r \in Judged /\ built' = Append(built, r)
        BY <3>2, AppendProperties
      <3> QED
        BY <2>4, <2>5, <3>1, <3>2
    <2> QED
      BY <2>1, <2>6, HandlerKeeps
  <1>8. CASE SweepEnds
    <2>1. /\ UNCHANGED <<config, chain, rows, lag, events, todo, subject, changes, faults>>
          /\ at = "loop" /\ at' = "idle" /\ snapshot' = Gone /\ built' = <<>> /\ Send(built)
      BY <1>8 DEF SweepEnds
    <2>2. requests' \in Seq(Judged) /\ Len(requests') <= RequestCapacity
      BY <2>1, SendJudged
    <2>3. built' \in Seq(Judged)
      BY <2>1
    <2> QED
      BY <2>1, <2>2, <2>3, HandlerKeeps
  <1> QED
    BY <1>1, <1>2, <1>3, <1>4, <1>5, <1>6, <1>7, <1>8 DEF OnSweep

-----------------------------------------------------------------------------
(* The executor and the market. *)

\* The oldest request is executed: one opens on the chain, or none does.
LEMMA ExecutingKeeps ==
  ASSUME IndInv, Executing
  PROVE  IndInv'
  <1>1. TypeOK /\ JudgedInv /\ RequestCapacity \in Nat
    BY Constants DEF IndInv
  <1>2. /\ UNCHANGED <<config, market, rows, events, handler, changes>>
        /\ requests # <<>> /\ requests' \in {requests, Tail(requests)} /\ (Fault \/ UNCHANGED faults)
    BY DEF Executing, RequestOpens, RequestFails, chain
  <1>3. Head(requests) \in Judged /\ requests' \in Seq(Judged) /\ Len(requests') <= RequestCapacity
    <2>1. requests \in Seq(Judged) /\ Len(requests) <= RequestCapacity
      BY <1>1 DEF TypeOK, JudgedInv
    <2>2. Head(requests) \in Judged /\ Tail(requests) \in Seq(Judged) /\ Len(Tail(requests)) <= RequestCapacity
      BY <1>1, <1>2, <2>1, TailType
    <2> QED
      BY <1>2, <2>1, <2>2
  <1>4. book' \in [Keys -> MaybeGone] /\ lag' \subseteq Keys
    <2>1. CASE UNCHANGED <<book, lag>>
      BY <1>1, <2>1 DEF TypeOK
    <2>2. ASSUME NEW lost \in BOOLEAN, RequestOpens(lost)
          PROVE  <1>4!:
      <3>1. PICK k : k = Head(requests).key
        OBVIOUS
      <3>2. k \in Keys
        BY <1>3, <3>1 DEF Judged, Request
      <3>3. book \in [Keys -> MaybeGone] /\ book[k] \in Obligation
        BY <1>1, <2>2, <3>1, <3>2 DEF RequestOpens, MarketCovers, TypeOK, MaybeGone
      <3>4. [book[k] EXCEPT !.open = 1] \in MaybeGone
        BY <3>3, OpenType DEF MaybeGone
      <3>5. book' = [book EXCEPT ![k] = [book[k] EXCEPT !.open = 1]] /\ lag' = lag \cup {k}
        BY <2>2, <3>1, <3>3 DEF RequestOpens
      <3> QED
        BY <1>1, <3>2, <3>3, <3>4, <3>5 DEF TypeOK
    <2> QED
      BY <2>1, <2>2 DEF Executing, RequestFails, chain
  <1>5. JudgedInv' /\ built' \in Seq(Request) /\ requests' \in Seq(Request)
    <2>1. built' \in Seq(Judged) /\ UNCHANGED config
      BY <1>1, <1>2 DEF JudgedInv, handler
    <2> QED
      BY <1>3, <2>1, JudgedKept
  <1>6. faults' \in 0..MaxFaults
    BY <1>1, <1>2, FaultsType
  <1>7. TypeOK'
    BY <1>1, <1>2, <1>3, <1>4, <1>5, <1>6 DEF TypeOK, config, handler
  <1> QED
    BY <1>5, <1>7 DEF IndInv

\* Every step keeps the invariant.
LEMMA NextKeeps == IndInv /\ [Next]_vars => IndInv'
  <1> SUFFICES ASSUME IndInv, [Next]_vars PROVE IndInv'
    OBVIOUS
  <1>1. CASE UNCHANGED vars
    BY <1>1 DEF vars, config, chain, handler, IndInv, TypeOK, JudgedInv, Judged
  <1>2. CASE World
    BY <1>2, WorldKeeps
  <1>3. CASE \E k \in Keys : Follow(k)
    BY <1>3, RowKeeps
  <1>4. CASE \E q \in 0..(Interval - 1) : NewLedger(q)
    BY <1>4, LedgerKeeps
  <1>5. CASE OnEvent
    BY <1>5, EventKeeps
  <1>6. CASE OnSweep
    BY <1>6, SweepKeeps
  <1>7. CASE Executing
    BY <1>7, ExecutingKeeps
  <1> QED
    BY <1>1, <1>2, <1>3, <1>4, <1>5, <1>6, <1>7 DEF Next

-----------------------------------------------------------------------------
(* Theorems. *)

\* The verdicts are those of the rules, and what is asked for was judged by them.
THEOREM BadDebtInvariance == Spec => []IndInv
  <1> QED
    BY InitKeeps, NextKeeps, PTL DEF Spec

\* Every variable keeps its type: no channel is past its capacity, the sweep has
\* market data exactly while it judges rows by it, and the handler has an obligation
\* at hand exactly while it judges or reads one.
THEOREM BadDebtTypeCorrect == Spec => []TypeOK
  <1>1. IndInv => TypeOK
    BY DEF IndInv
  <1> QED
    BY <1>1, BadDebtInvariance, PTL

\* An obligation holds positions, and a market is one, as the constants say.
LEMMA ReadingData ==
  ASSUME NEW o \in Obligation, NEW m \in MarketName
  PROVE  /\ IsHolding(Held(o)) /\ IsMarketData(MarketStates[m])
         /\ IsHolding(Contents(o))
         /\ \A d \in Contents(o).deposits : d.pool \in DOMAIN MarketStates[m].pools
                => d.j <= MarketStates[m].pools[d.pool].j
         /\ \/ (MarketStates[m].min_cents * MarketStates[m].oracle_pow) % 100 = 0
            \/ \A pool \in DOMAIN MarketStates[m].pools : MarketStates[m].pools[pool].close_ltv_bps < BPS_FACTOR
  <1>1. o.shape \in DOMAIN Shapes /\ m \in DOMAIN MarketStates
    BY DEF Obligation, MarketName
  <1>2. PICK h, md : h = Shapes[o.shape] /\ md = MarketStates[m]
    OBVIOUS
  <1>3. /\ IsHolding(h) /\ IsMarketData(md)
        /\ \A d \in h.deposits : d.pool \in DOMAIN md.pools => d.j <= md.pools[d.pool].j
        /\ \/ (md.min_cents * md.oracle_pow) % 100 = 0
           \/ \A pool \in DOMAIN md.pools : md.pools[pool].close_ltv_bps < BPS_FACTOR
    BY <1>1, <1>2, BadDebtAssumption
  <1>4. Held(o) = h /\ Contents(o).deposits = h.deposits /\ Contents(o).borrows = h.borrows
    BY <1>2 DEF Held, Contents
  <1>5. IsHolding(Contents(o))
    BY <1>3, <1>4 DEF IsHolding
  <1> QED
    BY <1>2, <1>3, <1>4, <1>5

\* A dust deposit, without any rounding, is less than one oracle unit above the
\* threshold (is_eligible_for_bad_debt_request_issuance).
LEMMA DustIsSmall ==
  ASSUME NEW md, IsMarketData(md), NEW d, d.pool \in DOMAIN md.pools, d.j \in Nat, d.plain \in Nat,
         deposit_value(d, md) <= cents_to_oracle_value_ceil(md.min_cents, md.oracle_pow)
  PROVE  LET pool == md.pools[d.pool]
             above == (cents_to_oracle_value_ceil(md.min_cents, md.oracle_pow) + 1) * pool.factor
         IN  IF pool.j = 0 THEN d.plain * pool.price < above
             ELSE (d.j * pool.supply + d.plain * pool.j) * pool.price < above * pool.j
  <1>1. PICK pool : pool = md.pools[d.pool] /\ pool \in PoolData
    BY DEF IsMarketData
  <1>2. PICK s \in Nat, pj \in Nat, price \in Nat, factor \in Nat \ {0}, j \in Nat, plain \in Nat :
          /\ s = pool.supply /\ pj = pool.j /\ price = pool.price /\ factor = pool.factor
          /\ j = d.j /\ plain = d.plain
    BY <1>1 DEF PoolData
  <1>3. PICK t \in Nat : t = cents_to_oracle_value_ceil(md.min_cents, md.oracle_pow)
    BY DustFloor
  <1>4. PICK above \in Nat : above = (t + 1) * factor
    OBVIOUS
  <1>5. CASE pj = 0
    <2>1. deposit_value(d, md) = value_floor(plain, price, factor)
      BY <1>1, <1>2, <1>5 DEF deposit_value, j_tokens_to_tokens_ceil
    <2>2. plain * price < above
      BY <1>3, <1>4, <2>1, ValueBelow
    <2> QED
      BY <1>1, <1>2, <1>3, <1>4, <1>5, <2>2
  <1>6. CASE pj # 0
    <2>1. PICK n \in Nat : n = CeilDiv(j * s, pj) + plain
      <3>1. j * s \in Nat
        OBVIOUS
      <3>2. CeilDiv(j * s, pj) \in Nat
        BY <1>6, <3>1, CeilBounds
      <3> QED
        BY <3>2
    <2>2. deposit_value(d, md) = value_floor(n, price, factor)
      BY <1>1, <1>2, <1>6, <2>1 DEF deposit_value, j_tokens_to_tokens_ceil
    <2>3. n * price < above
      BY <1>3, <1>4, <2>2, ValueBelow
    <2>4. (j * s + plain * pj) * price < above * pj
      BY <1>6, <2>1, <2>3, ExactBelow
    <2> QED
      BY <1>1, <1>2, <1>3, <1>4, <1>6, <2>4
  <1> QED
    BY <1>5, <1>6

\* What is_eligible accepts has no deposit that is not dust.
LEMMA EligibleIsDust ==
  ASSUME IndInv, NEW r \in Judged
  PROVE  all_deposits_dust(Contents(r.on), MarketStates[r.md])
  <1>1. <<r.on, r.md>> \in EligibleUnder(rules)
    BY DEF Judged, IndInv, JudgedInv
  <1>2. is_eligible(Contents(r.on), MarketStates[r.md], rules, MinProfitCents)
    <2>0. PICK x : x = <<r.on, r.md>>
      OBVIOUS
    <2>1. x = <<r.on, r.md>> /\ x[1] = r.on /\ x[2] = r.md
      BY <2>0
    <2>2. is_eligible(Contents(x[1]), MarketStates[x[2]], rules, MinProfitCents)
      BY <1>1, <2>1 DEF EligibleUnder
    <2> QED
      BY <2>1, <2>2
  <1> QED
    BY <1>2 DEF is_eligible, all_deposits_dust

\* However many roundings a verdict takes, no deposit of an obligation that the
\* initiator asks to cover is worth a whole oracle unit more than the threshold.
THEOREM CoversOnlyDust == Spec => []CoverJustified
  <1>1. ASSUME IndInv PROVE CoverJustified
    <2> SUFFICES ASSUME NEW r \in Range(built) \cup Range(requests), NEW d \in Held(r.on).deposits
                 PROVE  LET md == MarketStates[r.md]
                            pool == md.pools[d.pool]
                            above == (cents_to_oracle_value_ceil(md.min_cents, md.oracle_pow) + 1) * pool.factor
                        IN  IF pool.j = 0 THEN d.plain * pool.price < above
                            ELSE (d.j * pool.supply + d.plain * pool.j) * pool.price < above * pool.j
      BY DEF CoverJustified
    <2>1. r \in Judged
      <3>1. PICK S : S = Judged
        OBVIOUS
      <3>2. built \in Seq(S) /\ requests \in Seq(S)
        BY <1>1, <3>1 DEF IndInv, JudgedInv
      <3>3. Range(built) \subseteq S /\ Range(requests) \subseteq S
        BY <3>2 DEF Range
      <3> QED
        BY <3>1, <3>3
    <2>2. PICK o \in Obligation, m \in MarketName : o = r.on /\ m = r.md
      BY <2>1 DEF Judged, Request
    <2>3. PICK md : md = MarketStates[m]
      OBVIOUS
    <2>4. IsMarketData(md) /\ d.j \in Nat /\ d.plain \in Nat
      BY <2>2, <2>3, ReadingData DEF IsHolding
    <2>5. d.pool \in DOMAIN md.pools /\ deposit_value(d, md) <= cents_to_oracle_value_ceil(md.min_cents, md.oracle_pow)
      <3>1. d \in Contents(o).deposits
        BY <2>2 DEF Contents
      <3>2. all_deposits_dust(Contents(o), md)
        BY <1>1, <2>1, <2>2, <2>3, EligibleIsDust
      <3> QED
        BY <3>1, <3>2 DEF all_deposits_dust, Priced
    <2> QED
      BY <2>2, <2>3, <2>4, <2>5, DustIsSmall
  <1> QED
    BY <1>1, BadDebtInvariance, PTL

\* What the initiator leaves to the liquidator on a no-dust market, the liquidator's
\* gate passes: the two sides' rates and roundings never leave an obligation of dust
\* to neither (compute_is_liquidatable).
THEOREM DustIsNotLost == Spec => []LeftToLiquidation
  <1>1. ASSUME IndInv PROVE LeftToLiquidation
    <2> SUFFICES ASSUME NEW k \in {x \in Keys : book[x] # Gone}, NEW o, NEW md,
                        o = Contents(book[k]), md = MarketStates[market],
                        rules = "no_dust",
                        unpriced_pools_touched(o, md) = {},
                        has_any_collateral(o, md),
                        \E b \in o.borrows : d_tokens_to_tokens_ceil(md.pools[b.pool], b.d) > 0,
                        all_deposits_dust(o, md)
                 PROVE  compute_is_liquidatable(o, md, rules)
      BY DEF LeftToLiquidation
    <2>1. book[k] \in Obligation /\ market \in MarketName
      BY <1>1 DEF IndInv, TypeOK, MaybeGone
    <2>2. /\ IsHolding(o) /\ IsMarketData(md)
          /\ \A d \in o.deposits : d.pool \in DOMAIN md.pools => d.j <= md.pools[d.pool].j
          /\ \/ (md.min_cents * md.oracle_pow) % 100 = 0
             \/ \A pool \in DOMAIN md.pools : md.pools[pool].close_ltv_bps < BPS_FACTOR
      BY <2>1, ReadingData
    <2>3. BPS_FACTOR \in Nat \ {0}
      BY BadDebtAssumption
    <2>4. PICK b \in o.borrows : d_tokens_to_tokens_ceil(md.pools[b.pool], b.d) > 0
      OBVIOUS
    <2>5. compute_is_liquidatable(o, md, "no_dust")
      BY <2>2, <2>3, <2>4, DustPassesGate
    <2> QED
      BY <2>5
  <1> QED
    BY <1>1, BadDebtInvariance, PTL
=============================================================================
