-------------------------- MODULE PlanChoiceProofs --------------------------
(***************************************************************************)
(* Proofs about PlanChoice, for every pair, list of sources, balance and    *)
(* quote: that no candidate is lost but by a return, that a plan stays      *)
(* within its source, and what the roundings between the flash cap and the  *)
(* seizure can add up to.                                                   *)
(***************************************************************************)
EXTENDS PlanChoice, NumberLemmas, SequenceTheorems

-----------------------------------------------------------------------------
(* The inductive invariant. *)

\* What a plan that passed its checks holds.
PlanType ==
    [type : {"direct", "flash", "preswap"}, repay : Nat \ {0}, seized : Nat \ {0},
     withdraw : Nat, spent : Int, held : Int]

\* What the properties say of a plan, said of p.
FlashSells(p) == p.seized = Less(p.seized, pair.plain) + p.withdraw

FlashDraws(p) ==
    MarginValue >= 0 /\ p.seized < position_collateral =>
        (p.withdraw - pair.withdrawable) * pair.price * BPS_FACTOR < p.repay * (pair.debt_price + BPS_FACTOR)

Sound(p) ==
    /\ p \in PlanType
    /\ p.spent <= p.held
    /\ p.type = "flash" => FlashSells(p) /\ FlashDraws(p)

\* The pair is one of those planned, and the loop has not passed its end.
PlanningInv ==
    /\ pair \in Pairs
    /\ usable \in Int
    /\ at \in {"caps", "direct", "flash", "preswap", "choose", "done"}
    /\ asked \in 0..Len(Sources)

\* Every plan that passed its checks is sound.
SoundInv == \A p \in feasible : Sound(p)

\* Candidates, the best of the loop and the choice have passed their checks; there is
\* at most one candidate for each part of the planning that is over.
Room == IF at \in {"caps", "direct"} THEN 0 ELSE IF at = "flash" THEN 1 ELSE IF at = "preswap" THEN 2 ELSE 3

ChosenInv ==
    /\ found \subseteq feasible
    /\ IsFiniteSet(found) /\ Cardinality(found) <= Room
    /\ best \in {p \in feasible : p.type = "preswap"} \cup {NoPlan}
    /\ result \in feasible \cup {NoPlan}

\* No plan is lost but by a return: it is a candidate, or not above the best of the
\* loop, and the loop that has dropped its best is at its end.
KeptInv ==
    /\ \A p \in feasible : p.type # "preswap" => p \in found
    /\ \A p \in feasible : p.type = "preswap" =>
          /\ at \notin {"caps", "direct", "flash"}
          /\ best # NoPlan => best.repay >= p.repay
          /\ best = NoPlan => asked = Len(Sources)
    /\ at \in {"choose", "done"} => best = NoPlan \/ best \in found

\* The choice is the largest candidate.
LargestInv ==
    at = "done" /\ (pair.flash_enabled => flash_cap > 0) =>
        \A p \in found : result.repay >= p.repay

IndInv == PlanningInv /\ SoundInv /\ ChosenInv /\ KeptInv /\ LargestInv

-----------------------------------------------------------------------------
(* Arithmetic. *)

\* The numbers of the configuration.
LEMMA ConstantNumbers ==
  /\ XlmSafetyMargin \in Nat /\ MarginValue \in Int /\ FlashFeeBps \in Nat
  /\ SlippageBps \in Nat /\ SlippageBps <= BPS_FACTOR
  /\ TokenFactor \in Nat \ {0} /\ BPS_FACTOR = 10000 /\ SCALAR_9 \in Nat \ {0}
  BY PlanAssumption

\* A common factor is cancelled.
LEMMA CancelMono ==
  ASSUME NEW a \in Nat, NEW b \in Nat, NEW c \in Nat \ {0}, a * c <= b * c
  PROVE  a <= b
  <1> SUFFICES ASSUME a >= b + 1 PROVE FALSE
    OBVIOUS
  <1>1. (b + 1) * c <= a * c
    BY TimesMono
  <1>2. (b + 1) * c = b * c + c /\ b * c \in Nat /\ a * c \in Nat
    OBVIOUS
  <1> QED
    BY <1>1, <1>2

\* A finite set of numbers has a greatest.
LEMMA GreatestOfFinite ==
  ASSUME NEW T \in SUBSET Nat, T # {}, IsFiniteSet(T)
  PROVE  \E m \in T : \A y \in T : m >= y
  <1>1. PICK n \in Nat : \A x \in T : x <= n
    BY FiniteBounded
  <1> QED
    BY <1>1, MaxProperties

\* Products may be regrouped.
LEMMA Regroup ==
  ASSUME NEW a \in Nat, NEW b \in Nat, NEW c \in Nat
  PROVE  /\ (a * b) * c = a * (b * c) /\ (a * b) * c = (a * c) * b /\ (a * b) * c = (b * c) * a
         /\ a * b = b * a /\ a * b \in Nat /\ (a * b) * c \in Nat
  OBVIOUS

\* A chain of two scalings: with y at most x * m, and x * p at most z.
LEMMA ScaleChain ==
  ASSUME NEW x \in Nat, NEW y \in Nat, NEW z \in Nat, NEW m \in Nat, NEW p \in Nat, y <= x * m, x * p <= z
  PROVE  y * p <= z * m
  <1>1. y * p <= (x * m) * p
    BY TimesMono, Regroup
  <1>2. (x * m) * p = (x * p) * m
    BY Regroup
  <1>3. (x * p) * m <= z * m
    BY TimesMono, Regroup
  <1>4. y * p \in Nat /\ (x * p) * m \in Nat /\ z * m \in Nat
    BY Regroup
  <1> QED
    BY <1>1, <1>2, <1>3, <1>4

\* The value seized with the incentive: t tokens, bought as a tokens plus the
\* incentive, cost at most the repaid value v times the factor f.
LEMMA IncentiveBound ==
  ASSUME NEW t \in Nat, NEW a \in Nat, NEW f \in Nat, NEW b \in Nat, NEW k \in Nat, NEW v \in Nat,
         t * b <= a * f, a * k <= v
  PROVE  (t * k) * b <= v * f
  <1>1. PICK y \in Nat : y = t * b
    BY Regroup
  <1>2. y * k <= v * f
    BY <1>1, ScaleChain
  <1>3. (t * k) * b = (t * b) * k
    BY Regroup
  <1> QED
    BY <1>1, <1>2, <1>3

\* The same where the LTV limits the seizure: the multiplier C / D, scaled by s, cut
\* to 999 parts of 1000 and, as f, rounded down to basis points.
LEMMA LtvBound ==
  ASSUME NEW t \in Nat, NEW k \in Nat, NEW w \in Nat, NEW m \in Nat, NEW l \in Nat,
         NEW h \in Nat, NEW s \in Nat \ {0}, NEW C \in Nat, NEW D \in Nat \ {0}, NEW f \in Nat, NEW v \in Nat,
         NEW tf \in Nat,
         t * k <= w * tf, w * 1000 <= m * 999, m * s <= l * h, h * D <= C * s, C * 9990 <= (f + 1) * D, l * tf <= v
  PROVE  (t * k) * 10000 <= v * (f + 1)
  <1>1. m * D <= l * C
    <2>1. (m * s) * D <= (C * s) * l
      <3>1. PICK y \in Nat, z \in Nat : y = m * s /\ z = C * s
        BY Regroup
      <3>2. y <= h * l /\ h * D <= z
        BY <3>1, Regroup
      <3>3. y * D <= z * l
        BY <3>2, ScaleChain
      <3> QED
        BY <3>1, <3>3
    <2>2. (m * s) * D = (m * D) * s /\ (C * s) * l = (l * C) * s
      BY Regroup
    <2>3. m * D \in Nat /\ l * C \in Nat
      BY Regroup
    <2> QED
      BY <2>1, <2>2, <2>3, CancelMono
  <1>2. w * 10000 <= l * (f + 1)
    <2>1. PICK x \in Nat, y \in Nat, z \in Nat : x = w * 10000 /\ y = m * D /\ z = l * C
      BY Regroup
    <2>2. x <= m * 9990
      BY <2>1
    <2>3. x * D <= y * 9990
      <3>1. x * D <= (m * 9990) * D
        BY <2>2, TimesMono
      <3> QED
        BY <2>1, <3>1, Regroup
    <2>4. y * 9990 <= z * 9990
      BY <1>1, <2>1, TimesMono
    <2>5. z * 9990 <= (l * (f + 1)) * D
      <3>1. PICK c \in Nat, e \in Nat : c = C * 9990 /\ e = (f + 1) * D /\ c <= e
        BY Regroup
      <3>2. c * l <= e * l
        BY <3>1, TimesMono
      <3>3. c * l = z * 9990 /\ e * l = (l * (f + 1)) * D
        BY <2>1, <3>1, Regroup
      <3> QED
        BY <3>2, <3>3
    <2>6. PICK g \in Nat : g = l * (f + 1)
      BY Regroup
    <2>7. x * D <= g * D
      <3>1. x * D \in Nat /\ y * 9990 \in Nat /\ z * 9990 \in Nat /\ g * D \in Nat
        BY Regroup
      <3> QED
        BY <2>3, <2>4, <2>5, <2>6, <3>1
    <2> QED
      BY <2>1, <2>6, <2>7, CancelMono
  <1>3. PICK x \in Nat, y \in Nat, z \in Nat : x = t * k /\ y = w * 10000 /\ z = l * (f + 1)
    BY Regroup
  <1>4. x * 10000 <= y * tf
    <2>1. x <= tf * w /\ w * 10000 <= y
      BY <1>3, Regroup
    <2> QED
      BY <2>1, ScaleChain
  <1>5. y * tf <= v * (f + 1)
    <2>1. y <= l * (f + 1)
      BY <1>2, <1>3
    <2> QED
      BY <2>1, ScaleChain
  <1>6. x * 10000 \in Nat /\ y * tf \in Nat /\ v * (f + 1) \in Nat
    BY Regroup
  <1> QED
    BY <1>3, <1>4, <1>5, <1>6

\* What is seized for a repay r above what the cap was computed from is worth less than
\* a unit of price and a basis point of the debt's price on r.
LEMMA OverdrawBound ==
  ASSUME NEW t \in Nat, NEW i \in Nat, NEW k \in Nat, NEW r \in Nat \ {0}, NEW q \in Nat \ {0},
         NEW f \in Nat, NEW e \in Nat,
         (t * k) * 10000 <= (r * q) * (f + 1), r * e <= i * k, q * f < e * 10000 + 10000
  PROVE  (t - i) * k * 10000 < r * (q + 10000)
  <1>1. PICK x \in Nat, y \in Nat, z \in Nat, w \in Nat, u \in Nat :
          x = t * k /\ y = i * k /\ z = r * e /\ w = q * f /\ u = r * q
    BY Regroup
  <1>2. u * (f + 1) = r * w + u
    <2>1. u * (f + 1) = u * f + u
      OBVIOUS
    <2>2. u * f = r * w
      BY <1>1, Regroup
    <2> QED
      BY <2>1, <2>2
  <1>3. r * w < z * 10000 + r * 10000
    <2>1. w + 1 <= e * 10000 + 10000
      BY <1>1
    <2>2. (w + 1) * r <= (e * 10000 + 10000) * r
      BY <2>1, TimesMono
    <2>3. (w + 1) * r = r * w + r /\ r * w \in Nat
      OBVIOUS
    <2>4. (e * 10000 + 10000) * r = z * 10000 + r * 10000
      BY <1>1
    <2> QED
      BY <2>2, <2>3, <2>4
  <1>4. x * 10000 < y * 10000 + r * 10000 + u
    BY <1>1, <1>2, <1>3
  <1>5. (t - i) * k * 10000 = x * 10000 - y * 10000
    BY <1>1
  <1>6. r * (q + 10000) = u + r * 10000
    BY <1>1
  <1> QED
    BY <1>4, <1>5, <1>6

-----------------------------------------------------------------------------
(* The caps and the seizure. *)

USE ConstantNumbers

\* What a planned pair holds.
LEMMA PairNumbers ==
  ASSUME pair \in Pairs
  PROVE  /\ pair.feasible \in Int /\ pair.debt_price \in Nat \ {0} /\ pair.price \in Nat \ {0}
         /\ pair.plain \in Nat /\ pair.supplied \in Nat /\ pair.real_supply \in Nat
         /\ pair.withdrawable \in Nat /\ pair.lendable \in Nat
         /\ pair.flash_enabled \in BOOLEAN /\ pair.is_insolvent \in BOOLEAN /\ pair.incentive_bps \in Nat
         /\ pair.debt_value \in Nat \ {0} /\ pair.collateral_value \in Nat /\ pair.floor \in Nat
         /\ pair.real_supply <= pair.supplied
  BY PlanAssumption DEF PairType

\* A value is a number, rounded down.
LEMMA ValueBounds ==
  ASSUME NEW a \in Nat, NEW x \in Nat
  PROVE  value(a, x) \in Nat /\ value(a, x) * TokenFactor <= a * x
  <1>1. PICK n \in Nat : n = a * x
    BY Regroup
  <1> QED
    BY <1>1, DivBounds DEF value

\* The profit margin in the borrow token is a number with the sign of the margin.
LEMMA MarginType ==
  ASSUME pair \in Pairs
  PROVE  profit_margin_borrow \in Int /\ (MarginValue >= 0 => profit_margin_borrow >= 0)
  <1>0. PICK q \in Nat \ {0} : q = pair.debt_price
    BY PairNumbers
  <1>1. CASE MarginValue < 0
    <2>1. PICK n \in Nat : n = -MarginValue
      BY <1>1
    <2>2. PICK m \in Nat : m = n * TokenFactor
      BY Regroup
    <2>3. (m + q - 1) \div q \in Nat
      BY UpBounds
    <2> QED
      BY <1>0, <1>1, <2>1, <2>2, <2>3 DEF profit_margin_borrow, CeilDiv
  <1>2. CASE ~(MarginValue < 0)
    <2>1. PICK n \in Nat : n = MarginValue
      BY <1>2
    <2>2. PICK m \in Nat : m = n * TokenFactor
      BY Regroup
    <2>3. (m + q - 1) \div q \in Nat
      BY UpBounds
    <2> QED
      BY <1>0, <1>2, <2>1, <2>2, <2>3 DEF profit_margin_borrow, CeilDiv
  <1> QED
    BY <1>1, <1>2

\* The incentive the cap counts on: the pool's, or the LTV's rounded down.
LEMMA IncentiveType ==
  ASSUME pair \in Pairs
  PROVE  /\ effective_incentive_bps \in Int
         /\ \/ effective_incentive_bps = pair.incentive_bps
            \/ /\ ~pair.is_insolvent
               /\ effective_incentive_bps = (pair.collateral_value * 9990) \div pair.debt_value - 10000
  <1>1. PICK c \in Nat, d \in Nat \ {0}, n \in Nat :
          c = pair.collateral_value /\ d = pair.debt_value /\ n = pair.incentive_bps
    BY PairNumbers
  <1>2. (c * 9990) \div d \in Nat
    BY DivBounds, Regroup
  <1> QED
    BY <1>1, <1>2 DEF effective_incentive_bps, Less

\* A cap is a number, and no more than what the collateral's value repays at the debt's
\* price with the incentive, where the margin is not a loss budget.
LEMMA CapBounds ==
  ASSUME pair \in Pairs, NEW c \in Nat
  PROVE  /\ repay_cap(c) \in Nat
         /\ repay_cap(c) > 0 /\ MarginValue >= 0 =>
              /\ BPS_FACTOR + effective_incentive_bps \in Nat
              /\ (pair.debt_price * (BPS_FACTOR + effective_incentive_bps)) \div BPS_FACTOR \in Nat
              /\ repay_cap(c) * ((pair.debt_price * (BPS_FACTOR + effective_incentive_bps)) \div BPS_FACTOR)
                    <= value(c, pair.price) * TokenFactor
  <1>1. PICK f \in Int : f = BPS_FACTOR + effective_incentive_bps
    BY IncentiveType
  <1>2. PICK q \in Nat \ {0}, k \in Nat \ {0}, g \in Int, m \in Int :
          q = pair.debt_price /\ k = pair.price /\ g = profit_margin_borrow /\ m = pair.feasible
    BY PairNumbers, MarginType
  <1>3. CASE c <= 0 \/ f <= 0
    <2>1. repay_cap(c) = 0
      BY <1>1, <1>3 DEF repay_cap
    <2> QED
      BY <2>1
  <1>4. CASE ~(c <= 0 \/ f <= 0)
    <2>1. f \in Nat
      BY <1>4
    <2>2. (q * f) \div BPS_FACTOR \in Nat
      BY <2>1, DivBounds, Regroup
    <2>3. PICK e \in Nat : e = (q * f) \div BPS_FACTOR
      BY <2>2
    <2>4. CASE e = 0
      <3>1. repay_cap(c) = 0
        BY <1>1, <1>2, <2>3, <2>4 DEF repay_cap
      <3> QED
        BY <3>1
    <2>5. CASE e # 0
      <3>1. value(c, k) \in Nat
        BY ValueBounds
      <3>2. PICK n \in Nat : n = value(c, k) * TokenFactor
        BY <3>1, Regroup
      <3>3. PICK x \in Nat : x = n \div e /\ x * e <= n
        BY <2>5, DivBounds
      <3>4. PICK y \in Int : y = Less(m, x - g)
        BY DEF Less
      <3>5. repay_cap(c) = IF y < 0 THEN 0 ELSE y
        BY <1>1, <1>2, <1>4, <2>3, <2>5, <3>2, <3>3, <3>4 DEF repay_cap
      <3>6. ASSUME repay_cap(c) > 0, MarginValue >= 0 PROVE repay_cap(c) * e <= n
        <4>1. g >= 0
          BY <1>2, <3>6, MarginType
        <4>2. y \in Nat /\ y <= x /\ repay_cap(c) = y
          BY <3>4, <3>5, <3>6, <4>1 DEF Less
        <4>3. y * e <= x * e /\ y * e \in Nat /\ x * e \in Nat
          BY <4>2, TimesMono, Regroup
        <4> QED
          BY <3>3, <4>2, <4>3
      <3>7. repay_cap(c) \in Nat
        BY <3>5
      <3> QED
        BY <1>1, <1>2, <2>1, <2>3, <3>2, <3>6, <3>7
    <2> QED
      BY <2>4, <2>5
  <1> QED
    BY <1>3, <1>4

\* What is within a value is within what was valued.
LEMMA WithinValue ==
  ASSUME NEW c \in Nat, NEW k \in Nat, NEW x \in Nat, x <= value(c, k) * TokenFactor
  PROVE  x <= c * k
  <1>1. PICK v \in Nat, n \in Nat : v = value(c, k) /\ n = c * k /\ v * TokenFactor <= n
    BY ValueBounds, Regroup
  <1>2. v * TokenFactor \in Nat
    BY Regroup
  <1> QED
    BY <1>1, <1>2

\* A cap repays no more than its collateral is worth.
LEMMA CapWorth ==
  ASSUME pair \in Pairs, NEW c \in Nat, repay_cap(c) > 0, MarginValue >= 0,
         NEW f \in Nat, f = BPS_FACTOR + effective_incentive_bps
  PROVE  /\ (pair.debt_price * f) \div BPS_FACTOR \in Nat
         /\ repay_cap(c) * ((pair.debt_price * f) \div BPS_FACTOR) <= c * pair.price
  <1>1. PICK k \in Nat : k = pair.price
    BY PairNumbers
  <1>2. PICK e \in Nat, m \in Nat :
          e = (pair.debt_price * f) \div BPS_FACTOR /\ m = repay_cap(c) /\ m * e <= value(c, k) * TokenFactor
    BY <1>1, CapBounds
  <1>3. m * e \in Nat
    BY Regroup
  <1>4. m * e <= c * k
    BY <1>2, <1>3, WithinValue
  <1> QED
    BY <1>1, <1>2, <1>4

\* Collateral that a repay buys with the incentive.
WithIncentive(r) ==
    (((value(r, pair.debt_price) * TokenFactor) \div pair.price) * (BPS_FACTOR + pair.incentive_bps)) \div BPS_FACTOR

\* What is seized is within the position; short of the whole of it, it is within what
\* the incentive buys and, for a solvent obligation, what the LTV allows.
LEMMA SeizedBounds ==
  ASSUME pair \in Pairs, NEW r \in Int
  PROVE  /\ position_collateral \in Nat
         /\ seized(r) \in Nat /\ seized(r) <= position_collateral
         /\ seized(r) > 0 => r > 0
         /\ r > 0 /\ seized(r) < position_collateral =>
              /\ seized(r) <= WithIncentive(r)
              /\ ~pair.is_insolvent => seized(r) <= ltv_collateral(value(r, pair.debt_price))
  <1>1. PICK q \in Nat \ {0}, k \in Nat \ {0}, n \in Nat, c \in Nat, d \in Nat \ {0} :
          /\ q = pair.debt_price /\ k = pair.price /\ n = pair.incentive_bps
          /\ c = pair.collateral_value /\ d = pair.debt_value
    BY PairNumbers
  <1>2. PICK p \in Nat : p = position_collateral
    BY PairNumbers DEF position_collateral
  <1>3. CASE r <= 0
    BY <1>2, <1>3 DEF seized
  <1>4. CASE r > 0
    <2>1. PICK v \in Nat : v = value(r, q)
      BY <1>4, ValueBounds
    <2>2. (v * TokenFactor) \div k \in Nat
      BY DivBounds, Regroup
    <2>3. PICK a \in Nat : a = (v * TokenFactor) \div k
      BY <2>2
    <2>4. PICK m \in Nat : m = BPS_FACTOR + n
      OBVIOUS
    <2>5. (a * m) \div BPS_FACTOR \in Nat
      BY DivBounds, Regroup
    <2>6. PICK w \in Nat : w = (a * m) \div BPS_FACTOR
      BY <2>5
    <2>7. w = WithIncentive(r)
      BY <1>1, <2>1, <2>3, <2>4, <2>6 DEF WithIncentive
    <2>8. ltv_collateral(v) \in Nat
      <3>1. (c * SCALAR_9) \div d \in Nat
        BY DivBounds, Regroup
      <3>2. PICK h \in Nat : h = (c * SCALAR_9) \div d
        BY <3>1
      <3>3. (v * h) \div SCALAR_9 \in Nat
        BY DivBounds, Regroup
      <3>4. PICK x \in Nat : x = (v * h) \div SCALAR_9
        BY <3>3
      <3>5. (x * 999) \div 1000 \in Nat
        BY DivBounds, Regroup
      <3>6. PICK y \in Nat : y = (x * 999) \div 1000
        BY <3>5
      <3>7. (y * TokenFactor) \div k \in Nat
        BY DivBounds, Regroup
      <3> QED
        BY <1>1, <3>2, <3>4, <3>6, <3>7 DEF ltv_collateral
    <2>9. PICK l \in Nat : l = ltv_collateral(v)
      BY <2>8
    <2>10. PICK z \in Nat : z = IF pair.is_insolvent THEN Less(p, w) ELSE Less(Less(p, w), l)
      BY DEF Less
    <2>11. z <= p /\ z <= w /\ (~pair.is_insolvent => z <= l)
      BY <2>10 DEF Less
    <2>12. seized(r) \in {0, p, z}
      BY <1>1, <1>2, <2>1, <2>3, <2>4, <2>6, <2>9, <2>10 DEF seized
    <2> QED
      BY <1>1, <1>2, <1>4, <2>1, <2>7, <2>9, <2>11, <2>12
  <1> QED
    BY <1>3, <1>4

-----------------------------------------------------------------------------
(* The candidates. *)

\* A direct plan repays no more than the wallet holds.
LEMMA DirectSound ==
  ASSUME pair \in Pairs, usable \in Int, direct_plan # NoPlan
  PROVE  Sound(direct_plan) /\ direct_plan.type = "direct"
  <1>1. PICK c \in Nat : c = pair.supplied + pair.plain
    BY PairNumbers
  <1>2. PICK m \in Nat : m = max_profitable_repay
    BY <1>1, CapBounds DEF max_profitable_repay
  <1>3. PICK r \in Int : r = Less(m, usable) /\ r <= usable
    BY DEF Less
  <1>4. PICK z \in Nat : z = seized(r)
    BY SeizedBounds
  <1>5. r > 0 /\ z > 0 /\ direct_plan = Plan("direct", r, z, 0, r, usable)
    BY <1>2, <1>3, <1>4 DEF direct_plan
  <1> QED
    BY <1>3, <1>5 DEF Plan, Sound, PlanType

\* What a flash plan sells is what it seizes: its withdrawal is the rest of it.
LEMMA FlashSellsAll ==
  ASSUME pair \in Pairs, NEW t \in Nat, t <= position_collateral
  PROVE  /\ Less(pair.supplied, t - Less(t, pair.plain)) \in Nat
         /\ t = Less(t, pair.plain) + Less(pair.supplied, t - Less(t, pair.plain))
         /\ Less(pair.supplied, t - Less(t, pair.plain)) <= pair.supplied
         /\ t >= pair.plain => Less(pair.supplied, t - Less(t, pair.plain)) = t - pair.plain
         /\ t < pair.plain => Less(pair.supplied, t - Less(t, pair.plain)) = 0
  <1>1. PICK p \in Nat, s \in Nat, e \in Nat : p = pair.plain /\ s = pair.supplied /\ e = pair.real_supply /\ e <= s
    BY PairNumbers
  <1>2. t <= e + p
    BY <1>1 DEF position_collateral
  <1> QED
    BY <1>1, <1>2 DEF Less

\* The seizure, in value, is at most what the repay is worth with the incentive that
\* the cap counts on, rounded up by a basis point.
LEMMA SeizedForCap ==
  ASSUME pair \in Pairs, NEW r \in Nat \ {0}, seized(r) < position_collateral,
         NEW f \in Nat, f = BPS_FACTOR + effective_incentive_bps
  PROVE  (seized(r) * pair.price) * 10000 <= (r * pair.debt_price) * (f + 1)
  <1>0. /\ pair.debt_price \in Nat \ {0} /\ pair.price \in Nat \ {0} /\ pair.incentive_bps \in Nat
        /\ pair.collateral_value \in Nat /\ pair.debt_value \in Nat \ {0}
    BY PairNumbers
  <1>a. PICK q \in Nat \ {0}, k \in Nat \ {0} : q = pair.debt_price /\ k = pair.price
    BY <1>0
  <1>b. PICK n \in Nat, c \in Nat, d \in Nat \ {0} :
          n = pair.incentive_bps /\ c = pair.collateral_value /\ d = pair.debt_value
    BY <1>0
  <1>1. /\ q = pair.debt_price /\ k = pair.price /\ n = pair.incentive_bps
        /\ c = pair.collateral_value /\ d = pair.debt_value
    BY <1>a, <1>b
  <1>2. PICK v \in Nat, u \in Nat : v = value(r, q) /\ u = r * q /\ v * TokenFactor <= u
    BY ValueBounds, Regroup
  <1>3. PICK t \in Nat : /\ t = seized(r) /\ t <= WithIncentive(r)
                         /\ ~pair.is_insolvent => t <= ltv_collateral(v)
    BY <1>1, <1>2, SeizedBounds
  <1>4. PICK y \in Nat : y = v * TokenFactor
    BY Regroup
  <1>5. CASE effective_incentive_bps = n
    <2>1. PICK a \in Nat : a = y \div k /\ a * k <= y
      BY DivBounds
    <2>2. PICK x \in Nat : x = a * f
      BY Regroup
    <2>3. PICK w \in Nat : w = x \div 10000 /\ w * 10000 <= x
      BY DivBounds
    <2>4. w = WithIncentive(r)
      BY <1>1, <1>2, <1>4, <1>5, <2>1, <2>2, <2>3 DEF WithIncentive
    <2>5. t * 10000 <= a * f
      BY <1>3, <2>2, <2>3, <2>4
    <2>6. a * k <= u
      <3>1. a * k \in Nat
        BY Regroup
      <3> QED
        BY <1>2, <1>4, <2>1, <3>1
    <2>7. (t * k) * 10000 <= u * f
      BY <2>5, <2>6, IncentiveBound
    <2>8. u * f <= u * (f + 1) /\ u * f \in Nat /\ u * (f + 1) \in Nat /\ (t * k) * 10000 \in Nat
      BY TimesMono, Regroup
    <2>9. (t * k) * 10000 <= u * (f + 1)
      BY <2>7, <2>8
    <2> QED
      BY <1>1, <1>2, <1>3, <2>9
  <1>6. CASE effective_incentive_bps # n
    <2>1. PICK x \in Nat : x = c * 9990
      BY Regroup
    <2>2. PICK g \in Nat : g = x \div d /\ x < g * d + d
      BY DivBounds
    <2>3. ~pair.is_insolvent /\ g = f
      BY <1>1, <1>6, <2>1, <2>2, IncentiveType
    <2>4. c * 9990 <= (f + 1) * d
      <3>1. (g + 1) * d = g * d + d /\ g * d \in Nat
        OBVIOUS
      <3> QED
        BY <2>1, <2>2, <2>3, <3>1
    <2>5. PICK b \in Nat : b = c * SCALAR_9
      BY Regroup
    <2>6. PICK h \in Nat : h = b \div d /\ h * d <= b
      BY DivBounds
    <2>7. PICK o \in Nat : o = v * h
      BY Regroup
    <2>8. PICK m \in Nat : m = o \div SCALAR_9 /\ m * SCALAR_9 <= o
      BY DivBounds
    <2>9. PICK i \in Nat : i = m * 999
      BY Regroup
    <2>10. PICK w \in Nat : w = i \div 1000 /\ w * 1000 <= i
      BY DivBounds
    <2>11. PICK j \in Nat : j = w * TokenFactor
      BY Regroup
    <2>12. PICK l \in Nat : l = j \div k /\ l * k <= j
      BY DivBounds
    <2>13. l = ltv_collateral(v)
      BY <1>1, <2>5, <2>6, <2>7, <2>8, <2>9, <2>10, <2>11, <2>12 DEF ltv_collateral
    <2>14. t * k <= w * TokenFactor
      <3>1. t <= l
        BY <1>3, <2>3, <2>13
      <3>2. t * k <= l * k /\ t * k \in Nat /\ l * k \in Nat
        BY <3>1, TimesMono, Regroup
      <3> QED
        BY <2>11, <2>12, <3>2
    <2>15. (t * k) * 10000 <= u * (f + 1)
      <3>1. w * 1000 <= m * 999 /\ m * SCALAR_9 <= v * h /\ h * d <= c * SCALAR_9 /\ v * TokenFactor <= u
        BY <1>2, <2>5, <2>6, <2>7, <2>8, <2>9, <2>10
      <3> QED
        BY <2>4, <2>14, <3>1, LtvBound
    <2> QED
      BY <1>1, <1>2, <1>3, <2>15
  <1> QED
    BY <1>5, <1>6

\* A flash plan is within the borrow pool, sells what it seizes, and withdraws more than
\* comes free of the scarcity fee only by the cap's roundings.
LEMMA FlashSound ==
  ASSUME pair \in Pairs, NEW out \in Nat, flash_plan(out) # NoPlan
  PROVE  Sound(flash_plan(out)) /\ flash_plan(out).type = "flash"
  <1>0. /\ pair.plain \in Nat /\ pair.supplied \in Nat /\ pair.withdrawable \in Nat
        /\ pair.price \in Nat \ {0} /\ pair.debt_price \in Nat \ {0} /\ pair.lendable \in Nat
    BY PairNumbers
  <1>a. PICK p \in Nat, s \in Nat, b \in Nat : p = pair.plain /\ s = pair.supplied /\ b = pair.withdrawable
    BY <1>0
  <1>b. PICK k \in Nat \ {0}, q \in Nat \ {0}, a \in Nat : k = pair.price /\ q = pair.debt_price /\ a = pair.lendable
    BY <1>0
  <1>1. /\ p = pair.plain /\ s = pair.supplied /\ b = pair.withdrawable
        /\ k = pair.price /\ q = pair.debt_price /\ a = pair.lendable
    BY <1>a, <1>b
  <1>2. PICK i \in Nat : i = instantly_available
    BY <1>1 DEF instantly_available, Less
  <1>3. PICK m \in Nat : m = flash_cap
    BY <1>2, CapBounds DEF flash_cap
  <1>4. PICK r \in Nat : r = Less(m, a) /\ r <= a /\ r <= m
    BY DEF Less
  <1>5. PICK t \in Nat : t = seized(r) /\ t <= position_collateral
    BY SeizedBounds
  <1>6. PICK w \in Nat : w = Less(s, t - Less(t, p))
    BY <1>1, <1>5, FlashSellsAll
  <1>7. t = Less(t, p) + w /\ w <= s /\ (t >= p => w = t - p) /\ (t < p => w = 0)
    BY <1>1, <1>5, <1>6, FlashSellsAll
  <1>8. r > 0 /\ t > 0 /\ flash_plan(out) = Plan("flash", r, t, w, r, a)
    BY <1>1, <1>3, <1>4, <1>5, <1>6 DEF flash_plan
  <1>9. ASSUME MarginValue >= 0, t < position_collateral
        PROVE  (w - b) * k * BPS_FACTOR < r * (q + BPS_FACTOR)
    <2>0. r * (q + 10000) > 0 /\ r * (q + 10000) \in Nat
      BY <1>8
    <2>1. CASE w <= b
      <3>1. (w - b) * k <= 0
        <4>1. PICK x \in Nat : x = b - w
          BY <2>1
        <4>2. x * k \in Nat /\ (w - b) * k = -(x * k)
          BY <4>1
        <4> QED
          BY <4>2
      <3>2. PICK y \in Int : y = (w - b) * k
        OBVIOUS
      <3> QED
        BY <2>0, <3>1, <3>2
    <2>2. CASE ~(w <= b)
      <3>1. w = t - p /\ w - b = t - i
        <4>1. t >= p
          BY <1>7, <2>2
        <4>2. ~(s < b)
          BY <1>7, <2>2
        <4>3. i = p + b
          BY <1>1, <1>2, <4>2 DEF instantly_available, Less
        <4> QED
          BY <1>7, <4>1, <4>3
      <3>2. m > 0 /\ m = repay_cap(i)
        BY <1>2, <1>3, <1>4, <1>8 DEF flash_cap
      <3>3. PICK f \in Nat : f = BPS_FACTOR + effective_incentive_bps
        BY <1>9, <3>2, CapBounds
      <3>4. PICK e \in Nat : e = (q * f) \div BPS_FACTOR /\ m * e <= i * k
        BY <1>1, <1>9, <3>2, <3>3, CapWorth
      <3>5. r * e <= i * k
        <4>1. r * e <= m * e /\ r * e \in Nat /\ m * e \in Nat /\ i * k \in Nat
          BY <1>4, TimesMono, Regroup
        <4> QED
          BY <3>4, <4>1
      <3>6. q * f < e * 10000 + 10000
        <4>1. PICK x \in Nat : x = q * f
          BY Regroup
        <4>2. x < (x \div 10000) * 10000 + 10000
          BY DivBounds
        <4> QED
          BY <3>4, <4>1, <4>2
      <3>7. (t * k) * 10000 <= (r * q) * (f + 1)
        BY <1>1, <1>5, <1>8, <1>9, <3>3, SeizedForCap
      <3>8. (t - i) * k * 10000 < r * (q + 10000)
        BY <1>8, <3>5, <3>6, <3>7, OverdrawBound
      <3> QED
        BY <3>1, <3>8
    <2> QED
      BY <2>1, <2>2
  <1>10. PICK g : g = Plan("flash", r, t, w, r, a)
    OBVIOUS
  <1>11. g.type = "flash" /\ g.repay = r /\ g.seized = t /\ g.withdraw = w /\ g.spent = r /\ g.held = a /\ g \in PlanType
    BY <1>8, <1>10 DEF Plan, PlanType
  <1>12. FlashSells(g) /\ FlashDraws(g)
    BY <1>1, <1>7, <1>9, <1>11 DEF FlashSells, FlashDraws
  <1> QED
    BY <1>4, <1>8, <1>10, <1>11, <1>12 DEF Sound

\* A plan that swaps first spends what it was given and is sound.
LEMMA SwapSound ==
  ASSUME NEW p, p \in PlanType, p.type = "preswap", p.spent <= p.held
  PROVE  Sound(p) /\ p # NoPlan
  <1>1. NoPlan.type = "none"
    BY DEF NoPlan, Plan
  <1> QED
    BY <1>1 DEF Sound

-----------------------------------------------------------------------------
(* The choice. *)

\* Among finitely many candidates there is a largest, the last of equals.
LEMMA LargestExists ==
  ASSUME NEW S \in SUBSET PlanType, IsFiniteSet(S), S # {}
  PROVE  LargestRepay(S) \in S /\ \A q \in S : LargestRepay(S).repay >= q.repay
  <1> DEFINE h == [p \in S |-> p.repay]
             R == {h[p] : p \in S}
  <1>0. \A p \in S : p.repay \in Nat /\ h[p] = p.repay /\ p.type \in {"direct", "flash", "preswap"}
    BY DEF PlanType
  <1>1. R \in SUBSET Nat /\ R # {}
    BY <1>0
  <1>2. IsFiniteSet(R)
    <2> HIDE DEF h
    <2> QED
      BY ImageFinite
  <1>3. \A p \in S : p.repay \in R
    BY <1>0
  <1>4. \A m \in R : \E p \in S : p.repay = m
    BY <1>0
  <1> HIDE DEF R, h
  <1>6. PICK m \in R : \A y \in R : m >= y
    BY <1>1, <1>2, GreatestOfFinite
  <1>7. m \in Nat /\ \A q \in S : q.repay \in Nat /\ m >= q.repay
    BY <1>0, <1>1, <1>3, <1>6
  <1> DEFINE Top(p) == \A q \in S : p.repay > q.repay \/ (p.repay = q.repay /\ Later(p, q))
  <1>8. \E p \in S : Top(p)
    <2>1. CASE \E p \in S : p.repay = m /\ p.type = "preswap"
      <3>1. PICK p \in S : p.repay = m /\ p.type = "preswap"
        BY <2>1
      <3>2. Top(p)
        BY <1>7, <3>1 DEF Later
      <3> QED
        BY <3>2
    <2>2. CASE ~(\E p \in S : p.repay = m /\ p.type = "preswap") /\ \E p \in S : p.repay = m /\ p.type = "flash"
      <3>1. PICK p \in S : p.repay = m /\ p.type = "flash"
        BY <2>2
      <3>2. Top(p)
        BY <1>0, <1>7, <2>2, <3>1 DEF Later
      <3> QED
        BY <3>2
    <2>3. CASE /\ ~(\E p \in S : p.repay = m /\ p.type = "preswap")
               /\ ~(\E p \in S : p.repay = m /\ p.type = "flash")
      <3>1. PICK p \in S : p.repay = m
        BY <1>4, <1>6
      <3>2. Top(p)
        BY <1>0, <1>7, <2>3, <3>1 DEF Later
      <3> QED
        BY <3>2
    <2> QED
      BY <2>1, <2>2, <2>3
  <1>9. LargestRepay(S) \in S /\ Top(LargestRepay(S))
    <2>1. LargestRepay(S) = CHOOSE p \in S : Top(p)
      BY DEF LargestRepay
    <2> HIDE DEF Top
    <2> QED
      BY <1>8, <2>1
  <1>10. \A q \in S : LargestRepay(S).repay > q.repay \/ LargestRepay(S).repay = q.repay
    BY <1>9
  <1> QED
    BY <1>0, <1>9, <1>10

-----------------------------------------------------------------------------
(* The steps of the planning. *)

\* What was said of a plan stays true of it, the pair being the same.
LEMMA SoundKept ==
  ASSUME pair' = pair
  PROVE  /\ \A p : Sound(p) => Sound(p)'
         /\ flash_cap' = flash_cap
  <1>1. position_collateral' = position_collateral
    BY DEF position_collateral
  <1>2. \A p : Sound(p) => Sound(p)'
    BY <1>1 DEF Sound, FlashSells, FlashDraws
  <1>3. flash_cap' = flash_cap
    BY DEF flash_cap, repay_cap, instantly_available, effective_incentive_bps, profit_margin_borrow
  <1> QED
    BY <1>2, <1>3

\* NoPlan is no plan.
LEMMA NoPlanIsNone ==
  /\ NoPlan.type = "none" /\ NoPlan.repay = 0 /\ NoPlan.spent = 0 /\ NoPlan.held = 0
  /\ \A p : Sound(p) => p # NoPlan /\ p.repay \in Nat \ {0} /\ p.type \in {"direct", "flash", "preswap"}
  BY DEF NoPlan, Plan, Sound, PlanType

\* Before the pre-swap loop it has no best.
LEMMA NoBestYet ==
  ASSUME IndInv, at \in {"caps", "direct", "flash"}
  PROVE  best = NoPlan /\ \A p \in feasible : p.type # "preswap"
  BY DEF IndInv, ChosenInv, KeptInv

\* Planning starts within the invariant.
LEMMA InitKeeps ==
  Init => IndInv
  <1> SUFFICES ASSUME Init PROVE IndInv
    OBVIOUS
  <1>1. Len(Sources) \in Nat
    BY PlanAssumption, LenProperties
  <1>2. IsFiniteSet({}) /\ Cardinality({}) = 0
    BY FS_EmptySet
  <1>3. PlanningInv
    BY <1>1 DEF Init, PlanningInv
  <1>4. SoundInv /\ KeptInv /\ LargestInv
    BY DEF Init, SoundInv, KeptInv, LargestInv
  <1>5. ChosenInv
    BY <1>2 DEF Init, ChosenInv, Room
  <1> QED
    BY <1>3, <1>4, <1>5 DEF IndInv

\* The early returns before the loop keep what was found, and nothing is chosen.
LEMMA ReturnsKeep ==
  ASSUME IndInv, Refuse \/ FlashReturnsNone
  PROVE  IndInv'
  <1>1. /\ pair' = pair /\ usable' = usable /\ asked' = asked /\ best' = best /\ found' = found
        /\ result' = result /\ feasible' = feasible /\ at' = "done" /\ at \in {"caps", "flash"}
    BY DEF Refuse, FlashReturnsNone
  <1>2. best = NoPlan /\ \A p \in feasible : p.type # "preswap"
    BY <1>1, NoBestYet
  <1>3. PlanningInv'
    BY <1>1 DEF IndInv, PlanningInv
  <1>4. SoundInv'
    BY <1>1, SoundKept DEF IndInv, SoundInv
  <1>5. ChosenInv'
    <2>1. IsFiniteSet(found) /\ Cardinality(found) \in Nat /\ Cardinality(found) <= 1
      BY <1>1, FS_CardinalityType DEF IndInv, ChosenInv, Room
    <2> QED
      BY <1>1, <2>1 DEF IndInv, ChosenInv, Room
  <1>6. KeptInv'
    BY <1>1, <1>2 DEF IndInv, KeptInv
  <1>7. LargestInv'
    <2>1. CASE Refuse
      <3>1. IsFiniteSet(found) /\ Cardinality(found) \in Nat /\ Cardinality(found) <= 0
        BY <2>1, FS_CardinalityType DEF IndInv, ChosenInv, Room, Refuse
      <3>2. found = {}
        BY <3>1, FS_EmptySet
      <3> QED
        BY <1>1, <3>2 DEF LargestInv
    <2>2. CASE FlashReturnsNone
      <3>1. flash_cap' = 0 /\ pair'.flash_enabled
        BY <1>1, <2>2, SoundKept DEF FlashReturnsNone
      <3> QED
        BY <3>1 DEF LargestInv
    <2> QED
      BY <2>1, <2>2
  <1> QED
    BY <1>3, <1>4, <1>5, <1>6, <1>7 DEF IndInv

\* Reading the balance.
LEMMA ReadBalanceKeeps ==
  ASSUME IndInv, NEW raw \in Amounts, ReadBalance(raw)
  PROVE  IndInv'
  <1>1. /\ pair' = pair /\ asked' = asked /\ best' = best /\ found' = found
        /\ result' = result /\ feasible' = feasible /\ at' = "direct" /\ at = "caps"
        /\ usable' = Usable(pair.borrow_token, raw)
    BY DEF ReadBalance
  <1>2. raw \in Nat
    BY PlanAssumption
  <1>3. usable' \in Int
    BY <1>1, <1>2 DEF Usable
  <1>4. PlanningInv'
    BY <1>1, <1>3 DEF IndInv, PlanningInv
  <1>5. SoundInv'
    BY <1>1, SoundKept DEF IndInv, SoundInv
  <1>6. ChosenInv' /\ KeptInv' /\ LargestInv'
    BY <1>1 DEF IndInv, ChosenInv, Room, KeptInv, LargestInv
  <1> QED
    BY <1>4, <1>5, <1>6 DEF IndInv

\* A direct or a flash candidate that is sound is kept, in the room of its part.
LEMMA OfferedKeeps ==
  ASSUME IndInv, NEW p, p = NoPlan \/ (Sound(p) /\ p.type # "preswap"), Offered(p),
         \/ at = "direct" /\ at' = "flash"
         \/ at = "flash" /\ at' = "preswap",
         UNCHANGED <<pair, usable, asked, best, result>>
  PROVE  IndInv'
  <1>1. pair' = pair /\ usable' = usable /\ asked' = asked /\ best' = best /\ result' = result
    OBVIOUS
  <1>2. best = NoPlan /\ \A x \in feasible : x.type # "preswap"
    BY NoBestYet
  <1>3. PlanningInv'
    BY <1>1 DEF IndInv, PlanningInv
  <1>4. IsFiniteSet(found) /\ Cardinality(found) \in Nat /\ Cardinality(found) <= Room /\ Room' = Room + 1 /\ Room \in Nat
    BY FS_CardinalityType DEF IndInv, ChosenInv, Room
  <1>5. LargestInv'
    BY DEF LargestInv
  <1>6. CASE p = NoPlan
    <2>1. found' = found /\ feasible' = feasible
      BY <1>6 DEF Offered
    <2>2. SoundInv'
      BY <1>1, <2>1, SoundKept DEF IndInv, SoundInv
    <2>3. ChosenInv'
      BY <1>1, <1>4, <2>1 DEF IndInv, ChosenInv
    <2>4. KeptInv'
      BY <1>1, <1>2, <2>1 DEF IndInv, KeptInv
    <2> QED
      BY <1>3, <1>5, <2>2, <2>3, <2>4 DEF IndInv
  <1>7. CASE p # NoPlan
    <2>1. found' = found \cup {p} /\ feasible' = feasible \cup {p} /\ Sound(p) /\ p.type # "preswap"
      BY <1>7 DEF Offered
    <2>2. SoundInv'
      BY <1>1, <2>1, SoundKept DEF IndInv, SoundInv
    <2>3. ChosenInv'
      <3>1. IsFiniteSet(found') /\ Cardinality(found') \in Nat /\ Cardinality(found') <= Cardinality(found) + 1
        BY <1>4, <2>1, FS_AddElement
      <3>2. Cardinality(found') <= Room'
        BY <1>4, <3>1
      <3>3. found' \subseteq feasible' /\ best' = NoPlan /\ result' \in feasible' \cup {NoPlan}
        BY <1>1, <1>2, <2>1 DEF IndInv, ChosenInv
      <3> QED
        BY <3>1, <3>2, <3>3 DEF ChosenInv
    <2>4. KeptInv'
      BY <1>1, <1>2, <2>1 DEF IndInv, KeptInv
    <2> QED
      BY <1>3, <1>5, <2>2, <2>3, <2>4 DEF IndInv
  <1> QED
    BY <1>6, <1>7

\* The direct and the flash part.
LEMMA TryingKeeps ==
  ASSUME IndInv
  PROVE  /\ TryDirect => IndInv'
         /\ \A out \in Amounts : TryFlash(out) => IndInv'
  <1>0. pair \in Pairs /\ usable \in Int
    BY DEF IndInv, PlanningInv
  <1>1. ASSUME TryDirect PROVE IndInv'
    <2>1. direct_plan = NoPlan \/ (Sound(direct_plan) /\ direct_plan.type # "preswap")
      BY <1>0, DirectSound
    <2> QED
      BY <1>1, <2>1, OfferedKeeps DEF TryDirect
  <1>2. ASSUME NEW out \in Amounts, TryFlash(out) PROVE IndInv'
    <2>1. PICK p : p = IF pair.flash_enabled THEN flash_plan(out) ELSE NoPlan
      OBVIOUS
    <2>2. out \in Nat
      BY PlanAssumption
    <2>3. p = NoPlan \/ (Sound(p) /\ p.type # "preswap")
      BY <1>0, <2>1, <2>2, FlashSound
    <2> QED
      BY <1>2, <2>1, <2>3, OfferedKeeps DEF TryFlash
  <1> QED
    BY <1>1, <1>2

\* A source that is passed over.
LEMMA SkipSourceKeeps ==
  ASSUME IndInv, SkipSource
  PROVE  IndInv'
  <1>1. /\ pair' = pair /\ usable' = usable /\ asked' = asked + 1 /\ best' = best /\ found' = found
        /\ result' = result /\ feasible' = feasible /\ at' = at /\ at = "preswap" /\ asked < Len(Sources)
    BY DEF SkipSource
  <1>2. Len(Sources) \in Nat /\ asked \in 0..Len(Sources)
    BY PlanAssumption, LenProperties DEF IndInv, PlanningInv
  <1>3. asked + 1 \in 0..Len(Sources) /\ asked # Len(Sources)
    BY <1>1, <1>2
  <1>4. PlanningInv'
    BY <1>1, <1>3 DEF IndInv, PlanningInv
  <1>5. SoundInv'
    BY <1>1, SoundKept DEF IndInv, SoundInv
  <1>6. ChosenInv' /\ KeptInv' /\ LargestInv'
    BY <1>1, <1>3 DEF IndInv, ChosenInv, Room, KeptInv, LargestInv
  <1> QED
    BY <1>4, <1>5, <1>6 DEF IndInv

\* A source that is swapped: a better plan takes the place of the best, a worse one
\* does not, and a return drops the best and ends the loop.
LEMMA SwapFirstKeeps ==
  ASSUME IndInv, at = "preswap", asked < Len(Sources), NEW b \in Int, NEW x \in Int, NEW r \in Int, x <= b,
         SwapFirst(b, x, r)
  PROVE  IndInv'
  <1> DEFINE taken == seized(r)
             gain == value(taken, pair.price)
             cost == value(x, SourcePrice[Source])
             plan == Plan("preswap", r, taken, 0, x, b)
             returns == taken = 0 \/ (SourcePrice[Source] > 0 /\ profit_fails(gain, cost))
             good == SourcePrice[Source] > 0 /\ is_acceptable(gain, cost)
  <1>1. /\ pair' = pair /\ usable' = usable /\ at' = at /\ found' = found /\ result' = result
        /\ asked' = (IF returns THEN Len(Sources) ELSE asked + 1)
        /\ best' = (IF returns THEN NoPlan ELSE IF good /\ (best = NoPlan \/ best.repay < r) THEN plan ELSE best)
        /\ feasible' = (IF ~returns /\ good THEN feasible \cup {plan} ELSE feasible)
    BY DEF SwapFirst
  <1>2. Len(Sources) \in Nat /\ asked \in 0..Len(Sources) /\ pair \in Pairs
    BY PlanAssumption, LenProperties DEF IndInv, PlanningInv
  <1>3. asked' \in 0..Len(Sources) /\ asked # Len(Sources)
    BY <1>1, <1>2
  <1>4. PlanningInv'
    BY <1>1, <1>3 DEF IndInv, PlanningInv
  <1>5. LargestInv'
    BY <1>1 DEF LargestInv
  <1>6. /\ \A p \in feasible : Sound(p) /\ p # NoPlan /\ p.repay \in Nat /\ (p.type # "preswap" => p \in found)
        /\ \A p \in feasible : p.type = "preswap" => best # NoPlan /\ best.repay >= p.repay
        /\ found \subseteq feasible /\ IsFiniteSet(found) /\ Cardinality(found) <= Room /\ Room' = Room
        /\ result \in feasible \cup {NoPlan}
        /\ best \in {p \in feasible : p.type = "preswap"} \cup {NoPlan}
    BY <1>1, <1>3, NoPlanIsNone DEF IndInv, SoundInv, KeptInv, ChosenInv, Room
  <1>7. CASE returns
    <2>1. asked' = Len(Sources) /\ best' = NoPlan /\ feasible' = feasible
      BY <1>1, <1>7
    <2>2. SoundInv'
      BY <1>1, <1>6, <2>1, SoundKept DEF SoundInv
    <2>3. ChosenInv'
      BY <1>1, <1>6, <2>1 DEF ChosenInv
    <2>4. KeptInv'
      BY <1>1, <1>6, <2>1 DEF KeptInv
    <2> QED
      BY <1>4, <1>5, <2>2, <2>3, <2>4 DEF IndInv
  <1>8. CASE ~returns /\ ~good
    <2>1. best' = best /\ feasible' = feasible
      BY <1>1, <1>8
    <2>2. SoundInv'
      BY <1>1, <1>6, <2>1, SoundKept DEF SoundInv
    <2>3. ChosenInv'
      BY <1>1, <1>6, <2>1 DEF ChosenInv
    <2>4. KeptInv'
      BY <1>1, <1>6, <2>1 DEF KeptInv
    <2> QED
      BY <1>4, <1>5, <2>2, <2>3, <2>4 DEF IndInv
  <1>9. CASE ~returns /\ good
    <2>1. seized(r) \in Nat \ {0} /\ r > 0
      BY <1>2, <1>9, SeizedBounds
    <2>2. Sound(plan) /\ plan.type = "preswap" /\ plan.repay = r /\ plan # NoPlan
      <3>1. plan \in PlanType /\ plan.type = "preswap" /\ plan.repay = r /\ plan.spent = x /\ plan.held = b
        BY <2>1 DEF Plan, PlanType
      <3> HIDE DEF plan
      <3> QED
        BY <3>1, SwapSound
    <2> HIDE DEF plan, good, returns
    <2>3. /\ feasible' = feasible \cup {plan}
          /\ best' = IF best = NoPlan \/ best.repay < r THEN plan ELSE best
      BY <1>1, <1>9
    <2>4. SoundInv'
      BY <1>1, <1>6, <2>2, <2>3, SoundKept DEF SoundInv
    <2>5. ChosenInv'
      BY <1>1, <1>6, <2>2, <2>3 DEF ChosenInv
    <2>6. \A p \in feasible' : p.type = "preswap" => best' # NoPlan /\ best'.repay >= p.repay
      <3>1. CASE best = NoPlan
        BY <1>6, <2>2, <2>3, <3>1
      <3>2. CASE best # NoPlan
        <4>1. best \in feasible /\ best.repay \in Nat
          BY <1>6, <3>2
        <4>2. CASE best.repay < r
          <5>1. best' = plan
            BY <2>3, <4>2
          <5>2. \A p \in feasible : p.type = "preswap" => r >= p.repay
            BY <1>6, <4>1, <4>2
          <5> QED
            BY <2>2, <2>3, <5>1, <5>2
        <4>3. CASE ~(best.repay < r)
          <5>1. best' = best
            BY <2>3, <3>2, <4>3
          <5> QED
            BY <1>6, <2>2, <2>3, <3>2, <4>1, <4>3, <5>1
        <4> QED
          BY <4>2, <4>3
      <3> QED
        BY <3>1, <3>2
    <2>7. KeptInv'
      BY <1>1, <1>6, <2>2, <2>3, <2>6 DEF KeptInv
    <2> QED
      BY <1>4, <1>5, <2>4, <2>5, <2>7 DEF IndInv
  <1> QED
    BY <1>7, <1>8, <1>9

\* Swapping for the whole repay, or what the whole balance buys.
LEMMA SwappingKeeps ==
  ASSUME IndInv, NEW raw \in Amounts, NEW quote \in Amounts
  PROVE  /\ SwapForAll(raw, quote) => IndInv'
         /\ \A out \in Amounts : SwapForPart(raw, quote, out) => IndInv'
  <1>1. raw \in Nat /\ quote \in Nat
    BY PlanAssumption
  <1>a. Usable(Source, raw) \in Int
    BY <1>1 DEF Usable
  <1>2. PICK b \in Int : b = Usable(Source, raw)
    BY <1>a
  <1>3. pair \in Pairs
    BY DEF IndInv, PlanningInv
  <1>4. ASSUME SwapForAll(raw, quote) PROVE IndInv'
    <2>1. PICK m \in Nat : m = BPS_FACTOR + SlippageBps
      OBVIOUS
    <2>2. PICK n \in Nat : n = quote * m
      BY <1>1, Regroup
    <2>3. n \div BPS_FACTOR \in Nat
      BY DivBounds
    <2>4. PICK x \in Int : x = WithSlippage(quote) /\ x <= b
      BY <1>2, <1>4, <2>1, <2>2, <2>3 DEF WithSlippage, SwapForAll, Affords
    <2>5. PICK c \in Nat : c = pair.supplied + pair.plain
      BY <1>3, PairNumbers
    <2>6. PICK r \in Int : r = max_profitable_repay
      BY <1>3, <2>5, CapBounds DEF max_profitable_repay
    <2>7. SwapFirst(b, x, r) /\ at = "preswap" /\ asked < Len(Sources)
      BY <1>2, <1>4, <2>4, <2>6 DEF SwapForAll
    <2> QED
      BY <2>4, <2>7, SwapFirstKeeps
  <1>5. ASSUME NEW out \in Amounts, SwapForPart(raw, quote, out) PROVE IndInv'
    <2>1. PICK m \in Nat : m = BPS_FACTOR - SlippageBps
      OBVIOUS
    <2>2. out \in Nat
      BY PlanAssumption
    <2>3. PICK n \in Nat : n = out * m
      BY <2>2, Regroup
    <2>4. n \div BPS_FACTOR \in Nat
      BY DivBounds
    <2>5. PICK r \in Int : r = (out * (BPS_FACTOR - SlippageBps)) \div BPS_FACTOR
      BY <2>1, <2>3, <2>4
    <2>6. SwapFirst(b, b, r) /\ at = "preswap" /\ asked < Len(Sources)
      BY <1>2, <1>5, <2>5 DEF SwapForPart
    <2> QED
      BY <2>6, SwapFirstKeeps
  <1> QED
    BY <1>4, <1>5

\* The best of the loop becomes a candidate.
LEMMA PreSwapDoneKeeps ==
  ASSUME IndInv, PreSwapDone
  PROVE  IndInv'
  <1>1. /\ pair' = pair /\ usable' = usable /\ asked' = asked /\ best' = best
        /\ result' = result /\ feasible' = feasible /\ at' = "choose" /\ at = "preswap"
        /\ found' = IF best = NoPlan THEN found ELSE found \cup {best}
    BY DEF PreSwapDone
  <1>2. PlanningInv'
    BY <1>1 DEF IndInv, PlanningInv
  <1>3. SoundInv'
    BY <1>1, SoundKept DEF IndInv, SoundInv
  <1>4. IsFiniteSet(found) /\ Cardinality(found) \in Nat /\ Cardinality(found) <= 2 /\ found \subseteq feasible
    BY <1>1, FS_CardinalityType DEF IndInv, ChosenInv, Room
  <1>5. IsFiniteSet(found') /\ Cardinality(found') \in Nat /\ Cardinality(found') <= Cardinality(found) + 1
    BY <1>1, <1>4, FS_AddElement
  <1>6. found' \subseteq feasible'
    BY <1>1, <1>4 DEF IndInv, ChosenInv
  <1>7. Cardinality(found') <= 3
    BY <1>4, <1>5
  <1>8. ChosenInv'
    BY <1>1, <1>5, <1>6, <1>7 DEF IndInv, ChosenInv, Room
  <1>9. KeptInv' /\ LargestInv'
    BY <1>1 DEF IndInv, KeptInv, LargestInv
  <1> QED
    BY <1>2, <1>3, <1>8, <1>9 DEF IndInv

\* The choice is a largest candidate.
LEMMA ChooseKeeps ==
  ASSUME IndInv, Choose
  PROVE  IndInv'
  <1>1. /\ pair' = pair /\ usable' = usable /\ asked' = asked /\ best' = best /\ found' = found
        /\ feasible' = feasible /\ at' = "done" /\ at = "choose"
        /\ result' = IF found = {} THEN NoPlan ELSE LargestRepay(found)
    BY DEF Choose
  <1>2. PlanningInv'
    BY <1>1 DEF IndInv, PlanningInv
  <1>3. SoundInv'
    BY <1>1, SoundKept DEF IndInv, SoundInv
  <1>4. KeptInv'
    BY <1>1 DEF IndInv, KeptInv
  <1>5. found \in SUBSET PlanType /\ IsFiniteSet(found) /\ found \subseteq feasible
    BY DEF IndInv, SoundInv, Sound, ChosenInv
  <1>6. found # {} => LargestRepay(found) \in found /\ \A q \in found : LargestRepay(found).repay >= q.repay
    BY <1>5, LargestExists
  <1>7. ChosenInv'
    BY <1>1, <1>5, <1>6 DEF IndInv, ChosenInv, Room
  <1>8. LargestInv'
    BY <1>1, <1>6 DEF LargestInv
  <1> QED
    BY <1>2, <1>3, <1>4, <1>7, <1>8 DEF IndInv

\* Every step keeps the invariant.
LEMMA NextKeeps ==
  IndInv /\ [Next]_vars => IndInv'
  <1> SUFFICES ASSUME IndInv, [Next]_vars PROVE IndInv'
    OBVIOUS
  <1>1. CASE UNCHANGED vars
    <2>1. /\ pair' = pair /\ usable' = usable /\ asked' = asked /\ best' = best /\ found' = found
          /\ feasible' = feasible /\ at' = at /\ result' = result
      BY <1>1 DEF vars
    <2>2. SoundInv' /\ flash_cap' = flash_cap
      BY <2>1, SoundKept DEF IndInv, SoundInv
    <2>3. PlanningInv' /\ KeptInv' /\ ChosenInv'
      BY <2>1 DEF IndInv, PlanningInv, KeptInv, ChosenInv, Room
    <2>4. LargestInv'
      BY <2>1, <2>2 DEF IndInv, LargestInv
    <2> QED
      BY <2>2, <2>3, <2>4 DEF IndInv
  <1>2. CASE Next
    <2>1. CASE Refuse \/ FlashReturnsNone
      BY <2>1, ReturnsKeep
    <2>2. CASE TryDirect \/ SkipSource \/ PreSwapDone \/ Choose
      BY <2>2, TryingKeeps, SkipSourceKeeps, PreSwapDoneKeeps, ChooseKeeps
    <2>3. CASE \E a \in Amounts : ReadBalance(a) \/ TryFlash(a)
      BY <2>3, ReadBalanceKeeps, TryingKeeps
    <2>4. CASE \E raw, quote \in Amounts :
                  SwapForAll(raw, quote) \/ \E out \in Amounts : SwapForPart(raw, quote, out)
      BY <2>4, SwappingKeeps
    <2> QED
      BY <1>2, <2>1, <2>2, <2>3, <2>4 DEF Next
  <1> QED
    BY <1>1, <1>2

-----------------------------------------------------------------------------
(* Theorems. *)

\* The invariant holds throughout the planning of a pair.
THEOREM PlanInvariance == Spec => []IndInv
  <1>1. IndInv /\ [Next]_vars => IndInv'
    BY NextKeeps
  <1> QED
    BY <1>1, InitKeeps, PTL DEF Spec

\* The variables of the planning keep their types: candidates repay and seize
\* something, there are at most three, and the choice passed its checks.
THEOREM PlanTypeCorrect == Spec => []TypeOK
  <1>1. IndInv => TypeOK
    <2> SUFFICES ASSUME IndInv PROVE TypeOK
      OBVIOUS
    <2>1. pair \in PairType
      BY PlanAssumption DEF IndInv, PlanningInv
    <2>2. best.type \in {"none", "preswap"}
      BY NoPlanIsNone DEF IndInv, ChosenInv
    <2>3. \A p \in found : p.type \in {"direct", "flash", "preswap"} /\ p.repay > 0 /\ p.seized > 0
      BY DEF IndInv, ChosenInv, SoundInv, Sound, PlanType
    <2>4. Cardinality(found) <= 3
      <3>1. Cardinality(found) \in Nat /\ Room \in Nat /\ Room <= 3 /\ Cardinality(found) <= Room
        BY FS_CardinalityType DEF IndInv, ChosenInv, Room
      <3> QED
        BY <3>1
    <2> QED
      BY <2>1, <2>2, <2>3, <2>4 DEF IndInv, PlanningInv, ChosenInv, TypeOK
  <1> QED
    BY <1>1, PlanInvariance, PTL

\* The chosen plan draws no more than its source held when it was asked.
THEOREM PlansAreFunded == Spec => []WithinSource
  <1>1. IndInv => WithinSource
    BY NoPlanIsNone DEF IndInv, ChosenInv, SoundInv, Sound, WithinSource
  <1> QED
    BY <1>1, PlanInvariance, PTL

\* A chosen flash batch gets into the wallet exactly what it goes on to sell.
THEOREM FlashSellsHoldings == Spec => []FlashSellsWhatItHolds
  <1>1. IndInv => FlashSellsWhatItHolds
    BY NoPlanIsNone DEF IndInv, ChosenInv, SoundInv, Sound, FlashSells, FlashSellsWhatItHolds
  <1> QED
    BY <1>1, PlanInvariance, PTL

\* What a chosen flash batch withdraws beyond the fee-free amount is within the two
\* roundings of the cap, at any scale of prices and amounts.
THEOREM FlashOverdrawBounded == Spec => []FlashOverdrawIsRounding
  <1>1. IndInv => FlashOverdrawIsRounding
    BY NoPlanIsNone DEF IndInv, ChosenInv, SoundInv, Sound, FlashDraws, FlashOverdrawIsRounding
  <1> QED
    BY <1>1, PlanInvariance, PTL

\* The chosen plan repays at least as much as every plan that passed its checks, but
\* for the early returns.
THEOREM LargestIsChosen == Spec => []LargestUnlessReturned
  <1>1. IndInv => LargestUnlessReturned
    <2> SUFFICES ASSUME IndInv, at = "done", pair.flash_enabled => flash_cap > 0, NEW p \in feasible,
                        ~(p.type = "preswap" /\ best = NoPlan)
                 PROVE  result.repay >= p.repay
      BY DEF LargestUnlessReturned
    <2>1. \A q \in found : result.repay >= q.repay
      BY DEF IndInv, LargestInv
    <2>2. CASE p.type # "preswap"
      BY <2>1, <2>2 DEF IndInv, KeptInv
    <2>3. CASE p.type = "preswap"
      <3>1. best \in found /\ best.repay >= p.repay
        BY <2>3 DEF IndInv, KeptInv
      <3>2. result.repay >= best.repay
        BY <2>1, <3>1
      <3>3. p.repay \in Nat /\ best.repay \in Nat /\ result.repay \in Nat
        BY <3>1, NoPlanIsNone DEF IndInv, SoundInv, ChosenInv
      <3> QED
        BY <3>1, <3>2, <3>3
    <2> QED
      BY <2>2, <2>3
  <1> QED
    BY <1>1, PlanInvariance, PTL
=============================================================================
