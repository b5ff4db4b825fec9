--------------------------- MODULE FitRepayProofs ---------------------------
(***************************************************************************)
(* Proofs about FitRepay, for every pair, plan and offer: amounts, prices,  *)
(* rates and margins of any size. Everything rests on the collateral that a *)
(* repay buys growing with the repay through all the roundings.             *)
(***************************************************************************)
EXTENDS FitRepay, NumberLemmas

USE FitAssumption

-----------------------------------------------------------------------------
(* The inductive invariant. *)

\* The search for the grown position has the least repay that buys it between its
\* bounds.
GrownInv ==
    at = "grown" =>
        /\ 1 <= low /\ low <= high /\ high <= grown_debt(pair)
        /\ buys(pair, grown_debt(pair)) >= grown_collateral(pair)
        /\ buys(pair, high) >= grown_collateral(pair)
        /\ \A r \in 1..(low - 1) : buys(pair, r) < grown_collateral(pair)

\* The clearing offer is the one that clearing is for, and covers the grown debt or
\* buys the grown collateral.
OfferInv ==
    at \notin {"start", "grown"} =>
        /\ clear.offer = clearing_offer(pair)
        /\ clear.offer >= grown_debt(pair) \/ buys(pair, clear.offer) >= grown_collateral(pair)

\* The search at the snapshot has the least repay between its bounds.
SnapshotInv ==
    at = "snapshot" =>
        /\ 1 <= low /\ low <= high /\ high <= pair.debt
        /\ buys(pair, high) >= position_collateral(pair)
        /\ \A r \in 1..(low - 1) : buys(pair, r) < position_collateral(pair)

\* The market refuses the planned repay and the offer that clears a side.
Refused ==
    IF repay >= clear.at_snapshot THEN ~accepts(pair, padded)
    ELSE ~accepts(pair, repay) /\ (clear.offer > max_offer \/ ~accepts(pair, clear.offer))

\* The search for a partial repay is at one that keeps both sides, and has passed
\* over none.
PartialInv ==
    at = "partial" =>
        /\ 1 <= low /\ low <= high /\ high <= repay
        /\ keeps_both_sides(pair, low)
        /\ \A r \in (high + 1)..repay : ~keeps_both_sides(pair, r)
        /\ Refused

IndInv ==
    /\ TypeOK /\ GrownInv /\ OfferInv /\ SnapshotInv /\ PartialInv
    /\ FitSound /\ SearchesFindTheLeast /\ FitAsDefined

-----------------------------------------------------------------------------
(* Conversions and the collateral a repay buys. *)

\* The fields of a pair are numbers.
LEMMA PairNumbers ==
  ASSUME NEW p \in PairType
  PROVE  /\ p.debt \in Nat \ {0} /\ p.debt_price \in Nat \ {0} /\ p.debt_factor \in Nat \ {0}
         /\ p.supplied \in Nat /\ p.plain \in Nat /\ p.price \in Nat \ {0} /\ p.factor \in Nat \ {0}
         /\ p.obligation_debt_value \in Nat /\ p.obligation_collateral_value \in Nat
         /\ p.is_insolvent \in BOOLEAN /\ p.incentive_bps \in Nat /\ p.close_factor_bps \in Nat /\ p.floor \in Nat
         /\ p.debt_accrual_bps \in Nat /\ p.supply_accrual_bps \in Nat
         /\ p.refunded_bps \in Nat /\ p.unrefunded_bps \in Nat
  BY DEF PairType

\* What is grown is no smaller.
LEMMA GrownType ==
  ASSUME NEW a \in Nat, NEW b \in Nat
  PROVE  grown(a, b) \in Nat /\ grown(a, b) >= a
  <1>1. PICK n \in Nat : n = a * b
    OBVIOUS
  <1>2. (n + BPS_FACTOR - 1) \div BPS_FACTOR \in Nat
    BY UpBounds
  <1> QED
    BY <1>1, <1>2 DEF grown, fixed_mul_ceil, CeilDiv

\* More debt repaid is worth no less.
LEMMA ValueMono ==
  ASSUME NEW a \in Nat, NEW b \in Nat, a <= b, NEW x \in Nat, NEW y \in Nat \ {0}
  PROVE  value_floor(a, x, y) \in Nat /\ value_floor(b, x, y) \in Nat /\ value_floor(a, x, y) <= value_floor(b, x, y)
  BY ScaleMono DEF value_floor

\* More value is no fewer tokens.
LEMMA AmountMono ==
  ASSUME NEW a \in Nat, NEW b \in Nat, a <= b, NEW x \in Nat \ {0}, NEW y \in Nat
  PROVE  amount_floor(a, x, y) \in Nat /\ amount_floor(b, x, y) \in Nat /\ amount_floor(a, x, y) <= amount_floor(b, x, y)
  BY ScaleMono DEF amount_floor

\* More value repaid raises the value that leaves the LTV where it is.
LEMMA LtvMono ==
  ASSUME NEW p \in PairType, p.obligation_debt_value > 0, NEW a \in Nat, NEW b \in Nat, a <= b
  PROVE  /\ ltv_improving_value(p, a) \in Nat /\ ltv_improving_value(p, b) \in Nat
         /\ ltv_improving_value(p, a) <= ltv_improving_value(p, b)
  <1>1. PICK c \in Nat, d \in Nat \ {0} : c = p.obligation_collateral_value /\ d = p.obligation_debt_value
    BY PairNumbers
  <1>2. PICK x \in Nat, y \in Nat : x = (a * c) \div d /\ y = (b * c) \div d /\ x <= y
    BY ScaleMono, ZenonT(30)
  <1>3. (x * 999) \div 1000 \in Nat /\ (y * 999) \div 1000 \in Nat /\ (x * 999) \div 1000 <= (y * 999) \div 1000
    BY <1>2, ScaleMono
  <1> QED
    BY <1>1, <1>2, <1>3 DEF ltv_improving_value

\* buys is monotone through all its roundings, the incentive and the LTV cap.
LEMMA BuysMono ==
  ASSUME NEW p \in PairType, NEW r \in Nat, NEW s \in Nat, r <= s
  PROVE  buys(p, r) \in Nat /\ buys(p, s) \in Nat /\ buys(p, r) <= buys(p, s)
  <1>0. PICK dp \in Nat \ {0}, df \in Nat \ {0}, cp \in Nat \ {0}, cf \in Nat \ {0}, m \in Nat :
          dp = p.debt_price /\ df = p.debt_factor /\ cp = p.price /\ cf = p.factor /\ m = BPS_FACTOR + p.incentive_bps
    BY PairNumbers, SMTT(30)
  <1>1. /\ value_floor(r, dp, df) \in Nat /\ value_floor(s, dp, df) \in Nat
        /\ value_floor(r, dp, df) <= value_floor(s, dp, df)
    BY ValueMono
  <1>2. PICK v \in Nat, w \in Nat : v = value_floor(r, dp, df) /\ w = value_floor(s, dp, df) /\ v <= w
    BY <1>1
  <1>3. /\ amount_floor(v, cp, cf) \in Nat /\ amount_floor(w, cp, cf) \in Nat
        /\ amount_floor(v, cp, cf) <= amount_floor(w, cp, cf)
    BY <1>2, AmountMono
  <1>4. PICK a \in Nat, b \in Nat : a = amount_floor(v, cp, cf) /\ b = amount_floor(w, cp, cf) /\ a <= b
    BY <1>3
  <1>5. (a * m) \div BPS_FACTOR \in Nat /\ (b * m) \div BPS_FACTOR \in Nat
        /\ (a * m) \div BPS_FACTOR <= (b * m) \div BPS_FACTOR
    BY <1>4, ScaleMono
  <1>6. PICK i \in Nat, j \in Nat : i = (a * m) \div BPS_FACTOR /\ j = (b * m) \div BPS_FACTOR /\ i <= j
    BY <1>5
  <1>7. CASE lifts_close_factor(p)
    BY <1>0, <1>2, <1>4, <1>6, <1>7 DEF buys
  <1>8. CASE ~lifts_close_factor(p) /\ (p.obligation_debt_value <= 0 \/ p.obligation_collateral_value <= 0)
    BY <1>8 DEF buys
  <1>9. CASE ~lifts_close_factor(p) /\ ~(p.obligation_debt_value <= 0 \/ p.obligation_collateral_value <= 0)
    <2>1. p.obligation_debt_value > 0
      BY <1>9, PairNumbers
    <2>2. PICK x \in Nat, y \in Nat : x = ltv_improving_value(p, v) /\ y = ltv_improving_value(p, w) /\ x <= y
      BY <1>2, <2>1, LtvMono
    <2>3. /\ amount_floor(x, cp, cf) \in Nat /\ amount_floor(y, cp, cf) \in Nat
          /\ amount_floor(x, cp, cf) <= amount_floor(y, cp, cf)
      BY <2>2, AmountMono
    <2>4. PICK k \in Nat, l \in Nat : k = amount_floor(x, cp, cf) /\ l = amount_floor(y, cp, cf) /\ k <= l
      BY <2>3
    <2>5. buys(p, r) = IF k < i THEN k ELSE i
      BY <1>0, <1>2, <1>4, <1>6, <1>9, <2>2, <2>4 DEF buys
    <2>6. buys(p, s) = IF l < j THEN l ELSE j
      BY <1>0, <1>2, <1>4, <1>6, <1>9, <2>2, <2>4 DEF buys
    <2> QED
      BY <1>6, <2>4, <2>5, <2>6
  <1> QED
    BY <1>7, <1>8, <1>9

\* What is seized: no more than there is, and what the repay buys of it.
LEMMA SeizedType ==
  ASSUME NEW p \in PairType, NEW r \in Nat
  PROVE  /\ position_collateral(p) \in Nat
         /\ Seized(p, r) = IF position_collateral(p) <= buys(p, r) THEN position_collateral(p) ELSE buys(p, r)
         /\ Seized(p, r) \in Nat /\ Seized(p, r) <= position_collateral(p) /\ Seized(p, r) <= buys(p, r)
  <1>1. PICK c \in Nat : c = position_collateral(p)
    BY PairNumbers DEF position_collateral
  <1>2. PICK b \in Nat : b = buys(p, r)
    BY BuysMono
  <1>3. Min({c, b}) = IF c <= b THEN c ELSE b
    BY MinOfTwo
  <1> QED
    BY <1>1, <1>2, <1>3 DEF Seized

\* The grown position is no smaller than the position.
LEMMA GrownPosition ==
  ASSUME NEW p \in PairType
  PROVE  /\ grown_debt(p) \in Nat /\ grown_debt(p) >= p.debt
         /\ grown_collateral(p) \in Nat /\ grown_collateral(p) >= position_collateral(p)
         /\ position_collateral(p) \in Nat
  <1>1. grown(p.debt, p.debt_accrual_bps) \in Nat /\ grown(p.debt, p.debt_accrual_bps) >= p.debt
    BY PairNumbers, GrownType
  <1>2. grown(p.supplied, p.supply_accrual_bps) \in Nat /\ grown(p.supplied, p.supply_accrual_bps) >= p.supplied
    BY PairNumbers, GrownType
  <1> QED
    BY <1>1, <1>2, PairNumbers DEF grown_debt, grown_collateral, position_collateral

\* A smaller repay keeps both sides when a larger one does.
LEMMA KeepsDown ==
  ASSUME NEW p \in PairType, NEW r \in Nat, NEW s \in Nat, r <= s, keeps_both_sides(p, s)
  PROVE  keeps_both_sides(p, r)
  <1>0. PICK d \in Nat : d = p.debt
    BY PairNumbers
  <1>1. PICK x \in Nat, y \in Nat : x = Min({r, d}) /\ y = Min({s, d}) /\ x <= y /\ y <= d
    <2>1. Min({r, d}) = (IF r <= d THEN r ELSE d) /\ Min({s, d}) = (IF s <= d THEN s ELSE d)
      BY MinOfTwo
    <2> QED
      BY <2>1
  <1>2. PICK c \in Nat, u \in Nat, w \in Nat :
          c = position_collateral(p) /\ u = Seized(p, x) /\ w = Seized(p, y) /\ u <= w /\ w <= c
    <2>1. buys(p, x) \in Nat /\ buys(p, y) \in Nat /\ buys(p, x) <= buys(p, y)
      BY <1>1, BuysMono
    <2>2. /\ position_collateral(p) \in Nat
          /\ Seized(p, x) = IF position_collateral(p) <= buys(p, x) THEN position_collateral(p) ELSE buys(p, x)
          /\ Seized(p, y) = IF position_collateral(p) <= buys(p, y) THEN position_collateral(p) ELSE buys(p, y)
      BY SeizedType
    <2> QED
      BY <2>1, <2>2
  <1>3. /\ c - w > 0 /\ d - y > 0
        /\ value_floor(c - w, p.price, p.factor) >= p.floor
        /\ value_ceil(d - y, p.debt_price, p.debt_factor) >= p.floor
    BY <1>0, <1>1, <1>2 DEF keeps_both_sides
  <1>4. c - u > 0 /\ d - x > 0 /\ c - w \in Nat /\ c - u \in Nat /\ c - w <= c - u
        /\ d - y \in Nat /\ d - x \in Nat /\ d - y <= d - x
    BY <1>1, <1>2, <1>3
  <1>5. value_floor(c - u, p.price, p.factor) >= p.floor
    <2>1. PICK g \in Nat, h \in Nat : g = c - w /\ h = c - u /\ g <= h
      BY <1>4
    <2>2. value_floor(g, p.price, p.factor) \in Nat /\ value_floor(h, p.price, p.factor) \in Nat
          /\ value_floor(g, p.price, p.factor) <= value_floor(h, p.price, p.factor)
      BY <2>1, PairNumbers, ValueMono
    <2> QED
      BY <1>3, <2>1, <2>2, PairNumbers
  <1>6. value_ceil(d - x, p.debt_price, p.debt_factor) >= p.floor
    <2>1. PICK g \in Nat, h \in Nat, k \in Nat, f \in Nat \ {0} :
            g = d - y /\ h = d - x /\ g <= h /\ k = p.debt_price /\ f = p.debt_factor
      BY <1>4, PairNumbers
    <2>2. PICK m \in Nat, n \in Nat : m = g * k /\ n = h * k /\ m <= n
      BY <2>1, TimesMono
    <2>3. PICK z \in Nat : z = (n + f - 1) \div f /\ n <= z * f
      BY UpBounds
    <2>4. m <= z * f
      <3>1. z * f \in Nat
        OBVIOUS
      <3> QED
        BY <2>2, <2>3, <3>1
    <2>5. (m + f - 1) \div f \in Nat /\ (m + f - 1) \div f <= z
      BY <2>4, UpLeast, UpBounds
    <2>6. value_ceil(g, k, f) <= value_ceil(h, k, f) /\ value_ceil(g, k, f) \in Nat /\ value_ceil(h, k, f) \in Nat
      BY <2>2, <2>3, <2>5 DEF value_ceil, CeilDiv
    <2> QED
      BY <1>3, <2>1, <2>6, PairNumbers
  <1> QED
    BY <1>0, <1>1, <1>2, <1>4, <1>5, <1>6 DEF keeps_both_sides

\* A repay that buys the target, with none below it that does, is what repay_buying
\* is for.
LEMMA LeastFound ==
  ASSUME NEW p \in PairType, NEW t \in Nat, NEW d \in Nat, NEW h \in 1..d, buys(p, h) >= t,
         \A r \in 1..(h - 1) : buys(p, r) < t
  PROVE  LeastBuying(p, t, d) = h
  <1>1. PICK S : S = {d} \cup {r \in 1..d : buys(p, r) >= t}
    OBVIOUS
  <1>2. S \in SUBSET Nat /\ h \in S
    BY <1>1
  <1>3. Min(S) \in S /\ \A y \in S : Min(S) <= y
    BY <1>2, MinProperties
  <1>4. \A y \in S : h <= y
    <2> SUFFICES ASSUME NEW y \in S, y < h PROVE FALSE
      BY <1>2
    <2>1. y \in 1..(h - 1) /\ buys(p, y) >= t
      BY <1>1
    <2>2. buys(p, y) \in Nat
      BY <2>1, BuysMono
    <2> QED
      BY <2>1, <2>2
  <1>5. Min(S) = h
    <2>1. PICK m \in Nat : m = Min(S) /\ m <= h
      BY <1>2, <1>3
    <2>2. h <= m
      BY <1>3, <1>4, <2>1
    <2> QED
      BY <2>1, <2>2
  <1> QED
    BY <1>1, <1>5 DEF LeastBuying

\* Where the whole debt does not buy the target, it is the whole debt.
LEMMA LeastIsDebt ==
  ASSUME NEW p \in PairType, NEW t \in Nat, NEW d \in Nat, buys(p, d) < t
  PROVE  LeastBuying(p, t, d) = d
  <1>1. PICK S : S = {d} \cup {r \in 1..d : buys(p, r) >= t}
    OBVIOUS
  <1>2. S = {d}
    <2> SUFFICES ASSUME NEW r \in 1..d, buys(p, r) >= t PROVE FALSE
      BY <1>1
    <2>1. buys(p, r) \in Nat /\ buys(p, d) \in Nat /\ buys(p, r) <= buys(p, d)
      BY BuysMono
    <2> QED
      BY <2>1
  <1>3. Min({d}) \in {d}
    BY MinProperties
  <1> QED
    BY <1>1, <1>2, <1>3 DEF LeastBuying


-----------------------------------------------------------------------------
(* The steps of a call. *)

\* The numbers of a call.
LEMMA CallNumbers ==
  ASSUME TypeOK
  PROVE  /\ repay \in Nat /\ max_offer \in Nat /\ repay <= max_offer
         /\ pair.debt \in Nat \ {0}
         /\ grown_debt(pair) \in Nat \ {0} /\ grown_debt(pair) >= pair.debt
         /\ grown_collateral(pair) \in Nat /\ position_collateral(pair) \in Nat
         /\ clear.offer \in Nat /\ clear.at_snapshot \in Nat
  <1>1. pair \in PairType /\ repay \in 0..(pair.debt + MaxOverpay)
    BY DEF TypeOK, Planned
  <1>2. pair.debt + MaxOverpay \in Nat
    BY <1>1, PairNumbers
  <1>3. repay \in Nat /\ MaxOfferSlack \in Nat
    BY <1>1, <1>2
  <1>4. max_offer \in repay..(repay + MaxOfferSlack)
    BY DEF TypeOK
  <1>5. max_offer \in Nat /\ repay <= max_offer
    BY <1>3, <1>4
  <1>6. pair.debt \in Nat \ {0}
    BY <1>1, PairNumbers
  <1>7. clear.offer \in Nat /\ clear.at_snapshot \in Nat
    BY <1>6 DEF TypeOK
  <1>8. /\ grown_debt(pair) \in Nat /\ grown_debt(pair) >= pair.debt
        /\ grown_collateral(pair) \in Nat /\ position_collateral(pair) \in Nat
    BY <1>1, GrownPosition
  <1> QED
    BY <1>3, <1>5, <1>6, <1>7, <1>8

\* The middle of an interval, rounded down and rounded up.
LEMMA MiddleIn ==
  ASSUME NEW l \in Nat, NEW h \in Nat, l < h
  PROVE  /\ l + (h - l) \div 2 \in Nat /\ l <= l + (h - l) \div 2 /\ l + (h - l) \div 2 < h
         /\ l + (h - l + 1) \div 2 \in Nat /\ l < l + (h - l + 1) \div 2 /\ l + (h - l + 1) \div 2 <= h
  OBVIOUS

\* A call starts within the invariant.
LEMMA InitKeeps ==
  Init => IndInv
  <1> SUFFICES ASSUME Init PROVE IndInv
    OBVIOUS
  <1>1. pair \in PairType /\ pair.debt \in Nat
    BY PairNumbers DEF Init
  <1>2. TypeOK
    BY <1>1 DEF Init, TypeOK
  <1> QED
    BY <1>2 DEF Init, IndInv, GrownInv, OfferInv, SnapshotInv, PartialInv, FitSound, SearchesFindTheLeast,
         FitAsDefined

\* clearing keeps the invariant: the whole grown debt is offered, or buys the grown
\* position.
LEMMA SearchGrownKeeps ==
  ASSUME IndInv, SearchGrown
  PROVE  IndInv'
  <1> USE CallNumbers DEF IndInv
  <1>0. pair \in PairType /\ pair.refunded_bps \in Nat
    BY PairNumbers DEF TypeOK
  <1>1. PICK g \in Nat \ {0}, c \in Nat : g = grown_debt(pair) /\ c = grown_collateral(pair)
    OBVIOUS
  <1>2. buys(pair, g) \in Nat
    BY <1>0, <1>1, BuysMono
  <1>3. pair' = pair /\ repay' = repay /\ max_offer' = max_offer /\ result' = result
    BY DEF SearchGrown, call
  <1>4. CASE buys(pair, g) < c
    <2>1. PICK o \in Nat : o = grown(g, pair.refunded_bps) /\ o >= g
      BY <1>0, GrownType
    <2>2. clear' = [clear EXCEPT !.offer = o] /\ at' = "middle" /\ low' = low /\ high' = high
      BY <1>1, <1>4, <2>1 DEF SearchGrown
    <2>3. TypeOK' /\ clear'.offer = o
      BY <1>3, <2>2 DEF TypeOK
    <2>4. o = clearing_offer(pair)
      BY <1>1, <1>4, <2>1 DEF clearing_offer
    <2> QED
      BY <1>1, <1>3, <2>1, <2>2, <2>3, <2>4 DEF GrownInv, OfferInv, SnapshotInv, PartialInv, FitSound, SearchesFindTheLeast,
         FitAsDefined
  <1>5. CASE ~(buys(pair, g) < c)
    <2>1. low' = 1 /\ high' = g /\ at' = "grown" /\ clear' = clear
      BY <1>1, <1>5 DEF SearchGrown
    <2>2. TypeOK'
      BY <1>1, <1>3, <2>1 DEF TypeOK
    <2>3. buys(pair, g) >= c
      BY <1>1, <1>2, <1>5
    <2> QED
      BY <1>1, <1>3, <2>1, <2>2, <2>3 DEF GrownInv, OfferInv, SnapshotInv, PartialInv, FitSound, SearchesFindTheLeast,
         FitAsDefined
  <1> QED
    BY <1>4, <1>5

\* An iteration of repay_buying leaves a repay that buys the target at its top, and
\* below its bottom only repays that do not.
LEMMA HalveKeeps ==
  ASSUME NEW p \in PairType, p = pair, NEW t \in Nat, low \in Nat, high \in Nat,
         1 <= low, low < high, buys(p, high) >= t, Halve(t)
  PROVE  /\ low' \in Nat /\ high' \in Nat /\ low <= low' /\ low' <= high' /\ high' <= high
         /\ buys(p, high') >= t
         /\ (\A r \in 1..(low - 1) : buys(p, r) < t) => (\A r \in 1..(low' - 1) : buys(p, r) < t)
  <1>1. PICK m \in Nat : m = low + (high - low) \div 2 /\ low <= m /\ m < high
    BY MiddleIn
  <1>2. buys(p, m) \in Nat
    BY BuysMono
  <1>3. CASE buys(p, m) >= t
    <2>1. high' = m /\ low' = low
      BY <1>1, <1>3 DEF Halve
    <2> QED
      BY <1>1, <1>3, <2>1
  <1>4. CASE ~(buys(p, m) >= t)
    <2>1. low' = m + 1 /\ high' = high
      BY <1>1, <1>4 DEF Halve
    <2>2. ASSUME NEW r \in 1..m PROVE buys(p, r) < t
      <3>1. buys(p, r) \in Nat /\ buys(p, r) <= buys(p, m)
        BY BuysMono
      <3> QED
        BY <1>2, <1>4, <3>1
    <2>3. \A r \in 1..(low' - 1) : buys(p, r) < t
      BY <1>1, <2>1, <2>2
    <2> QED
      BY <1>1, <2>1, <2>3
  <1> QED
    BY <1>3, <1>4

\* Halving keeps a repay that buys the grown position at the top of the interval.
LEMMA HalveGrownKeeps ==
  ASSUME IndInv, HalveGrown
  PROVE  IndInv'
  <1> USE CallNumbers DEF IndInv
  <1>1. PICK p \in PairType, c \in Nat : p = pair /\ c = grown_collateral(pair)
    BY DEF TypeOK
  <1>2. /\ at = "grown" /\ low < high /\ Halve(c) /\ low \in Nat /\ high \in Nat
        /\ 1 <= low /\ high <= grown_debt(p) /\ buys(p, grown_debt(p)) >= c /\ buys(p, high) >= c
        /\ \A r \in 1..(low - 1) : buys(p, r) < c
    BY <1>1 DEF HalveGrown, GrownInv, TypeOK
  <1>3. /\ low' \in Nat /\ high' \in Nat /\ low <= low' /\ low' <= high' /\ high' <= high
        /\ buys(p, high') >= c
        /\ \A r \in 1..(low' - 1) : buys(p, r) < c
    BY <1>1, <1>2, HalveKeeps
  <1>4. pair' = pair /\ repay' = repay /\ max_offer' = max_offer /\ result' = result /\ at' = "grown" /\ clear' = clear
    BY DEF HalveGrown, call
  <1>5. TypeOK'
    BY <1>3, <1>4 DEF TypeOK
  <1>6. GrownInv'
    <2>1. high' <= grown_debt(p) /\ 1 <= low'
      BY <1>1, <1>2, <1>3
    <2> QED
      BY <1>1, <1>2, <1>3, <1>4, <2>1 DEF GrownInv
  <1> QED
    BY <1>2, <1>4, <1>5, <1>6 DEF OfferInv, SnapshotInv, PartialInv, FitSound, SearchesFindTheLeast,
         FitAsDefined

\* Padding the repay that was found keeps it one that buys the grown position.
LEMMA GrownFoundKeeps ==
  ASSUME IndInv, GrownFound
  PROVE  IndInv'
  <1> USE CallNumbers DEF IndInv
  <1>1. PICK p \in PairType, c \in Nat : p = pair /\ c = grown_collateral(pair)
    BY DEF TypeOK
  <1>2. PICK b \in Nat : b = IF is_small_position(pair) THEN pair.refunded_bps ELSE pair.unrefunded_bps
    BY <1>1, PairNumbers
  <1>3. PICK h \in Nat : h = high /\ h = low /\ 1 <= h /\ h <= grown_debt(pair)
    BY DEF TypeOK, GrownFound, GrownInv
  <1>4. PICK o \in Nat : o = grown(h, b) /\ o >= h
    BY GrownType
  <1>5. buys(p, h) \in Nat /\ buys(p, o) \in Nat /\ buys(p, h) <= buys(p, o)
    BY <1>4, BuysMono
  <1>6. buys(p, h) >= c
    BY <1>1, <1>3 DEF GrownFound, GrownInv
  <1>7. buys(p, o) >= c
    BY <1>5, <1>6
  <1>8. /\ pair' = pair /\ repay' = repay /\ max_offer' = max_offer /\ result' = result /\ at' = "middle"
        /\ low' = low /\ high' = high /\ clear' = [clear EXCEPT !.offer = o]
    BY <1>2, <1>3, <1>4 DEF GrownFound, call
  <1>9. TypeOK' /\ clear'.offer = o
    BY <1>8 DEF TypeOK
  <1>10. o = clearing_offer(p)
    <2>1. PICK g \in Nat : g = grown_debt(p) /\ h \in 1..g
      BY <1>1, <1>3
    <2>2. \A r \in 1..(h - 1) : buys(p, r) < c
      BY <1>1, <1>3 DEF GrownFound, GrownInv
    <2>3. LeastBuying(p, c, g) = h
      BY <1>6, <2>1, <2>2, LeastFound
    <2>4. buys(p, g) \in Nat /\ buys(p, g) >= c
      BY <1>1, <2>1, BuysMono DEF GrownFound, GrownInv
    <2>5. ~(buys(p, g) < c)
      BY <2>4
    <2> QED
      BY <1>1, <1>2, <1>4, <2>1, <2>3, <2>5 DEF clearing_offer
  <1> QED
    BY <1>1, <1>7, <1>8, <1>9, <1>10 DEF GrownInv, OfferInv, SnapshotInv, PartialInv, FitSound, SearchesFindTheLeast,
         FitAsDefined

\* At the snapshot the whole debt is the least repay, or it is searched for below it.
LEMMA SearchSnapshotKeeps ==
  ASSUME IndInv, SearchSnapshot
  PROVE  IndInv'
  <1> USE CallNumbers DEF IndInv
  <1>1. PICK p \in PairType, c \in Nat, d \in Nat \ {0} : p = pair /\ c = position_collateral(pair) /\ d = pair.debt
    BY DEF TypeOK
  <1>2. buys(p, d) \in Nat
    BY BuysMono
  <1>3. pair' = pair /\ repay' = repay /\ max_offer' = max_offer /\ result' = result /\ at = "middle"
    BY DEF SearchSnapshot, call
  <1>4. CASE buys(p, d) < c
    <2>1. clear' = [clear EXCEPT !.at_snapshot = d] /\ at' = "fit" /\ low' = low /\ high' = high
      BY <1>1, <1>4 DEF SearchSnapshot
    <2>2. LeastBuying(p, c, d) = d
      BY <1>4, LeastIsDebt
    <2>3. TypeOK' /\ clear'.at_snapshot = d /\ clear'.offer = clear.offer
      BY <1>1, <1>3, <2>1 DEF TypeOK
    <2> QED
      BY <1>1, <1>3, <2>1, <2>2, <2>3 DEF GrownInv, OfferInv, SnapshotInv, PartialInv, FitSound, SearchesFindTheLeast,
         FitAsDefined
  <1>5. CASE ~(buys(p, d) < c)
    <2>1. low' = 1 /\ high' = d /\ at' = "snapshot" /\ clear' = clear
      BY <1>1, <1>5 DEF SearchSnapshot
    <2>2. TypeOK'
      BY <1>1, <1>3, <2>1 DEF TypeOK
    <2>3. buys(p, d) >= c
      BY <1>1, <1>2, <1>5
    <2> QED
      BY <1>1, <1>3, <2>1, <2>2, <2>3 DEF GrownInv, OfferInv, SnapshotInv, PartialInv, FitSound, SearchesFindTheLeast,
         FitAsDefined
  <1> QED
    BY <1>4, <1>5

\* Halving keeps the least repay that buys the position within the interval.
LEMMA HalveSnapshotKeeps ==
  ASSUME IndInv, HalveSnapshot
  PROVE  IndInv'
  <1> USE CallNumbers DEF IndInv
  <1>1. PICK p \in PairType, c \in Nat : p = pair /\ c = position_collateral(pair)
    BY DEF TypeOK
  <1>2. /\ at = "snapshot" /\ low < high /\ Halve(c) /\ low \in Nat /\ high \in Nat
        /\ 1 <= low /\ high <= pair.debt /\ buys(p, high) >= c
        /\ \A r \in 1..(low - 1) : buys(p, r) < c
    BY <1>1 DEF HalveSnapshot, SnapshotInv, TypeOK
  <1>3. /\ low' \in Nat /\ high' \in Nat /\ low <= low' /\ low' <= high' /\ high' <= high
        /\ buys(p, high') >= c
        /\ \A r \in 1..(low' - 1) : buys(p, r) < c
    BY <1>1, <1>2, HalveKeeps
  <1>4. pair' = pair /\ repay' = repay /\ max_offer' = max_offer /\ result' = result /\ at' = "snapshot" /\ clear' = clear
    BY DEF HalveSnapshot, call
  <1>5. TypeOK'
    BY <1>3, <1>4 DEF TypeOK
  <1>6. high' <= pair.debt /\ 1 <= low'
    BY <1>2, <1>3
  <1>7. SnapshotInv'
    BY <1>1, <1>3, <1>4, <1>6 DEF SnapshotInv
  <1>8. at = "snapshot"
    BY DEF HalveSnapshot
  <1> QED
    BY <1>4, <1>5, <1>7, <1>8 DEF GrownInv, OfferInv, PartialInv, FitSound, SearchesFindTheLeast,
         FitAsDefined

\* What the search at the snapshot ends on is the least repay that buys the position.
LEMMA SnapshotFoundKeeps ==
  ASSUME IndInv, SnapshotFound
  PROVE  IndInv'
  <1> USE CallNumbers DEF IndInv
  <1>1. PICK p \in PairType, c \in Nat, d \in Nat : p = pair /\ c = position_collateral(pair) /\ d = pair.debt
    BY DEF TypeOK
  <1>2. PICK h \in Nat : h = high /\ h = low /\ 1 <= h /\ h <= d
    BY <1>1 DEF SnapshotFound, SnapshotInv, TypeOK
  <1>3. buys(p, h) >= c /\ \A r \in 1..(h - 1) : buys(p, r) < c
    BY <1>1, <1>2 DEF SnapshotFound, SnapshotInv
  <1>4. LeastBuying(p, c, d) = h
    BY <1>2, <1>3, LeastFound
  <1>5. /\ pair' = pair /\ repay' = repay /\ max_offer' = max_offer /\ result' = result /\ at = "snapshot" /\ at' = "fit"
        /\ low' = low /\ high' = high /\ clear' = [clear EXCEPT !.at_snapshot = h]
    BY <1>2 DEF SnapshotFound, call
  <1>6. TypeOK' /\ clear'.at_snapshot = h /\ clear'.offer = clear.offer
    <2>1. h \in 0..d /\ clear \in [at_snapshot : 0..d, offer : Nat]
      BY <1>1, <1>2 DEF TypeOK
    <2>2. clear' \in [at_snapshot : 0..d, offer : Nat] /\ clear'.at_snapshot = h /\ clear'.offer = clear.offer
      BY <1>5, <2>1
    <2> QED
      BY <1>1, <1>5, <2>2 DEF TypeOK
  <1> QED
    BY <1>1, <1>4, <1>5, <1>6 DEF GrownInv, OfferInv, SnapshotInv, PartialInv, FitSound, SearchesFindTheLeast,
         FitAsDefined

\* What fit_repay comes to, by the clearing offer and repay that were found.
LEMMA FitCases ==
  ASSUME IndInv, at \in {"fit", "partial"}
  PROVE  fit_repay(pair, repay, max_offer) =
            IF Refused THEN partial_offer(pair, repay)
            ELSE IF repay >= clear.at_snapshot THEN padded
            ELSE IF accepts(pair, repay) THEN repay
            ELSE clear.offer
  <1> USE CallNumbers DEF IndInv
  <1>1. clear.offer = clearing_offer(pair) /\ clear.at_snapshot = LeastBuying(pair, position_collateral(pair), pair.debt)
    BY DEF OfferInv, SearchesFindTheLeast
  <1>2. Min({repay, max_offer}) = repay
    BY MinOfTwo
  <1>3. clear.offer > max_offer <=> ~(clear.offer <= max_offer)
    OBVIOUS
  <1>4. CASE repay >= clear.at_snapshot
    BY <1>1, <1>2, <1>4 DEF fit_repay, Refused, padded
  <1>5. CASE ~(repay >= clear.at_snapshot)
    BY <1>1, <1>2, <1>3, <1>5 DEF fit_repay, Refused
  <1> QED
    BY <1>4, <1>5

\* A call that returns what fit_repay comes to, accepted and within the funds, keeps
\* the invariant.
LEMMA ReturnKeeps ==
  ASSUME IndInv, at \in {"fit", "partial"}, NEW o \in Nat \cup {NoOffer}, Return(o),
         o # NoOffer => o <= max_offer /\ accepts(pair, o),
         o = fit_repay(pair, repay, max_offer)
  PROVE  IndInv'
  <1>1. /\ pair' = pair /\ repay' = repay /\ max_offer' = max_offer /\ result' = o /\ at' = "done"
        /\ low' = low /\ high' = high /\ clear' = clear
    BY DEF Return, call
  <1>2. TypeOK'
    BY <1>1 DEF IndInv, TypeOK
  <1> QED
    BY <1>1, <1>2 DEF IndInv, GrownInv, OfferInv, SnapshotInv, PartialInv, FitSound, SearchesFindTheLeast,
         FitAsDefined

\* What ClearsAside returns is within the funds.
LEMMA PaddedFits ==
  ASSUME TypeOK
  PROVE  padded \in Nat /\ padded <= max_offer /\ (padded = max_offer \/ padded >= clear.offer)
  <1>1. PICK r \in Nat, o \in Nat, m \in Nat : r = repay /\ o = clear.offer /\ m = max_offer
    BY CallNumbers
  <1>2. PICK x \in Nat : x = Max({r, o}) /\ x >= o
    BY MaxOfTwo
  <1>3. Min({x, m}) = IF x <= m THEN x ELSE m
    BY MinOfTwo
  <1> QED
    BY <1>1, <1>2, <1>3 DEF padded

\* What the three early returns of fit_repay offer is accepted and within the funds.
LEMMA ReturningKeeps ==
  ASSUME IndInv, ClearsAside \/ StaysPartial \/ ClearsInstead
  PROVE  IndInv'
  <1>0. TypeOK
    BY DEF IndInv
  <1>1. CASE ClearsAside
    <2>1. padded \in Nat /\ padded <= max_offer
      BY <1>0, PaddedFits
    <2>2. padded = fit_repay(pair, repay, max_offer)
      BY <1>1, FitCases DEF ClearsAside, Refused
    <2> QED
      BY <1>1, <2>1, <2>2, ReturnKeeps DEF ClearsAside
  <1>2. CASE StaysPartial
    <2>1. repay \in Nat /\ repay <= max_offer /\ clear.at_snapshot \in Nat
      BY <1>0, CallNumbers
    <2>2. ~(repay >= clear.at_snapshot)
      BY <1>2, <2>1 DEF StaysPartial
    <2>3. repay = fit_repay(pair, repay, max_offer)
      BY <1>2, <2>2, FitCases DEF StaysPartial, Refused
    <2> QED
      BY <1>2, <2>1, <2>3, ReturnKeeps DEF StaysPartial
  <1>3. CASE ClearsInstead
    <2>1. /\ clear.offer \in Nat /\ clear.offer <= max_offer
          /\ repay \in Nat /\ max_offer \in Nat /\ clear.at_snapshot \in Nat
      BY <1>0, <1>3, CallNumbers DEF ClearsInstead
    <2>2. ~(repay >= clear.at_snapshot) /\ ~(clear.offer > max_offer)
      BY <1>3, <2>1 DEF ClearsInstead
    <2>3. clear.offer = fit_repay(pair, repay, max_offer)
      BY <1>3, <2>2, FitCases DEF ClearsInstead, Refused
    <2> QED
      BY <1>3, <2>1, <2>3, ReturnKeeps DEF ClearsInstead
  <1> QED
    BY <1>1, <1>2, <1>3

\* The search for a partial repay starts with every repay up to the plan.
LEMMA SearchPartialKeeps ==
  ASSUME IndInv, SearchPartial
  PROVE  IndInv'
  <1> USE CallNumbers DEF IndInv
  <1>1. PICK r \in Nat, m \in Nat : r = repay /\ m = max_offer /\ r <= m
    OBVIOUS
  <1>2. Min({repay, max_offer}) = r
    BY <1>1, MinOfTwo
  <1>3. at = "fit" /\ Refused
    BY DEF SearchPartial, Refused
  <1>4. CASE r < 1 \/ ~keeps_both_sides(pair, 1)
    <2>1. Return(NoOffer)
      BY <1>2, <1>4 DEF SearchPartial
    <2>2. partial_offer(pair, repay) = NoOffer
      BY <1>1, <1>4 DEF partial_offer
    <2>3. NoOffer = fit_repay(pair, repay, max_offer)
      BY <1>3, <2>2, FitCases
    <2> QED
      BY <1>3, <2>1, <2>3, ReturnKeeps
  <1>5. CASE ~(r < 1 \/ ~keeps_both_sides(pair, 1))
    <2>1. /\ at = "fit" /\ ~(r < 1) /\ keeps_both_sides(pair, 1)
          /\ low' = 1 /\ high' = r /\ at' = "partial" /\ clear' = clear /\ result' = result
          /\ pair' = pair /\ repay' = repay /\ max_offer' = max_offer
      BY <1>2, <1>5 DEF SearchPartial, call
    <2>2. TypeOK'
      BY <1>1, <2>1 DEF TypeOK
    <2>3. PartialInv'
      <3>1. Refused'
        BY <1>3, <2>1 DEF Refused, padded
      <3>2. \A x \in (r + 1)..r : FALSE
        BY <1>1
      <3> QED
        BY <1>1, <2>1, <3>1, <3>2 DEF PartialInv
    <2> QED
      BY <2>1, <2>2, <2>3 DEF GrownInv, OfferInv, SnapshotInv, FitSound, SearchesFindTheLeast,
         FitAsDefined
  <1> QED
    BY <1>4, <1>5

\* An iteration of largest_partial_repay drops only repays that keep no side.
LEMMA HalvePartialKeeps ==
  ASSUME IndInv, HalvePartial
  PROVE  IndInv'
  <1> USE CallNumbers DEF IndInv
  <1>1. PICK p \in PairType, l \in Nat, h \in Nat, n \in Nat : p = pair /\ l = low /\ h = high /\ n = repay
    BY DEF TypeOK
  <1>2. /\ at = "partial" /\ l < h /\ 1 <= l /\ h <= n /\ keeps_both_sides(p, l) /\ Refused
        /\ \A r \in (h + 1)..n : ~keeps_both_sides(p, r)
    BY <1>1 DEF HalvePartial, PartialInv
  <1>3. PICK m \in Nat : m = l + (h - l + 1) \div 2 /\ l < m /\ m <= h
    BY <1>2, MiddleIn
  <1>4. pair' = pair /\ repay' = repay /\ max_offer' = max_offer /\ result' = result /\ at' = "partial" /\ clear' = clear
    BY DEF HalvePartial, call
  <1>5. Refused'
    BY <1>2, <1>4 DEF Refused, padded
  <1>6. CASE keeps_both_sides(p, m)
    <2>1. low' = m /\ high' = h
      BY <1>1, <1>3, <1>6 DEF HalvePartial
    <2>2. TypeOK'
      BY <1>4, <2>1 DEF TypeOK
    <2>3. PartialInv'
      BY <1>1, <1>2, <1>3, <1>4, <1>5, <1>6, <2>1 DEF PartialInv
    <2> QED
      BY <1>2, <1>4, <2>1, <2>2, <2>3 DEF GrownInv, OfferInv, SnapshotInv, FitSound, SearchesFindTheLeast,
         FitAsDefined
  <1>7. CASE ~keeps_both_sides(p, m)
    <2>1. low' = l /\ high' = m - 1
      BY <1>1, <1>3, <1>7 DEF HalvePartial
    <2>2. TypeOK'
      BY <1>3, <1>4, <2>1 DEF TypeOK
    <2>3. ASSUME NEW r \in m..n PROVE ~keeps_both_sides(p, r)
      <3>1. r \in Nat /\ m <= r
        BY <1>3
      <3> QED
        BY <1>7, <3>1, KeepsDown
    <2>4. PartialInv'
      <3>1. 1 <= l /\ l <= m - 1 /\ m - 1 <= n /\ (m - 1) + 1 = m
        BY <1>2, <1>3
      <3> QED
        BY <1>1, <1>2, <1>4, <1>5, <2>1, <2>3, <3>1 DEF PartialInv
    <2> QED
      BY <1>2, <1>4, <2>1, <2>2, <2>4 DEF GrownInv, OfferInv, SnapshotInv, FitSound, SearchesFindTheLeast,
         FitAsDefined
  <1> QED
    BY <1>6, <1>7

\* What the search for a partial repay ends on is the largest that keeps both sides.
LEMMA LargestFound ==
  ASSUME NEW p \in PairType, NEW n \in Nat, NEW h \in 1..n, keeps_both_sides(p, h),
         \A r \in (h + 1)..n : ~keeps_both_sides(p, r)
  PROVE  partial_offer(p, n) = IF accepts(p, h) THEN h ELSE NoOffer
  <1>1. PICK S : S = {r \in 1..n : keeps_both_sides(p, r)}
    OBVIOUS
  <1>2. S \in SUBSET Nat /\ h \in S /\ \A x \in S : x <= n
    BY <1>1
  <1>3. Max(S) \in S /\ \A y \in S : Max(S) >= y
    BY <1>2, MaxProperties
  <1>4. \A y \in S : y <= h
    <2> SUFFICES ASSUME NEW y \in S, y > h PROVE FALSE
      BY <1>2
    <2>1. y \in (h + 1)..n /\ keeps_both_sides(p, y)
      BY <1>1
    <2> QED
      BY <2>1
  <1>5. Max(S) = h
    <2>1. PICK m \in Nat : m = Max(S) /\ m >= h /\ m <= h
      BY <1>2, <1>3, <1>4
    <2> QED
      BY <2>1
  <1>6. keeps_both_sides(p, 1) /\ n >= 1
    <2>1. 1 \in Nat /\ h \in Nat /\ 1 <= h
      OBVIOUS
    <2> QED
      BY <2>1, KeepsDown
  <1> QED
    BY <1>1, <1>5, <1>6 DEF partial_offer

\* What the search for a partial repay ends on is offered only if it is accepted.
LEMMA PartialFoundKeeps ==
  ASSUME IndInv, PartialFound
  PROVE  IndInv'
  <1>1. PICK o : o = IF accepts(pair, low) THEN low ELSE NoOffer
    OBVIOUS
  <1>2. low \in Nat /\ high \in Nat /\ low <= high /\ high <= repay /\ repay \in Nat /\ max_offer \in Nat /\ repay <= max_offer
    BY CallNumbers DEF IndInv, TypeOK, PartialInv, PartialFound
  <1>3. o \in Nat \cup {NoOffer} /\ (o # NoOffer => o <= max_offer /\ accepts(pair, o))
    BY <1>1, <1>2
  <1>4. at = "partial" /\ Refused /\ low = high
    BY <1>2 DEF PartialFound, IndInv, PartialInv
  <1>5. o = partial_offer(pair, repay)
    <2>1. PICK p \in PairType, n \in Nat, h \in Nat : p = pair /\ n = repay /\ h = low /\ h \in 1..n
      BY <1>2, <1>4 DEF IndInv, TypeOK, PartialInv
    <2>2. keeps_both_sides(p, h) /\ \A r \in (h + 1)..n : ~keeps_both_sides(p, r)
      BY <1>4, <2>1 DEF IndInv, PartialInv
    <2> QED
      BY <1>1, <2>1, <2>2, LargestFound
  <1>6. o = fit_repay(pair, repay, max_offer)
    BY <1>4, <1>5, FitCases
  <1> QED
    BY <1>1, <1>3, <1>4, <1>6, ReturnKeeps DEF PartialFound

-----------------------------------------------------------------------------
(* The value seized for a repay, and the position after interest. *)

\* Where the close factor binds, the value seized stands to the value repaid at most
\* as the obligation's collateral to its debt.
LEMMA SeizedValue ==
  ASSUME NEW p \in PairType, ~lifts_close_factor(p), NEW x \in Nat
  PROVE  value_floor(Seized(p, x), p.price, p.factor) * p.obligation_debt_value
            <= value_floor(x, p.debt_price, p.debt_factor) * p.obligation_collateral_value
  <1>1. PICK dp \in Nat \ {0}, df \in Nat \ {0}, cp \in Nat \ {0}, cf \in Nat \ {0}, D \in Nat, C \in Nat :
          /\ dp = p.debt_price /\ df = p.debt_factor /\ cp = p.price /\ cf = p.factor
          /\ D = p.obligation_debt_value /\ C = p.obligation_collateral_value
    BY PairNumbers
  <1>2. value_floor(x, dp, df) \in Nat
    BY ValueMono
  <1>3. PICK v \in Nat : v = value_floor(x, dp, df)
    BY <1>2
  <1>4. PICK z \in Nat : z = Seized(p, x) /\ z <= buys(p, x)
    BY SeizedType
  <1>5. CASE D <= 0 \/ C <= 0
    <2>1. buys(p, x) = 0
      BY <1>1, <1>5 DEF buys
    <2>2. z = 0
      BY <1>4, <2>1
    <2>3. value_floor(0, cp, cf) = 0
      <3>1. 0 * cp = 0 /\ 0 \div cf = 0
        OBVIOUS
      <3> QED
        BY <3>1 DEF value_floor
    <2>4. 0 * D <= v * C
      OBVIOUS
    <2> QED
      BY <1>1, <1>3, <1>4, <2>2, <2>3, <2>4
  <1>6. CASE D > 0 /\ C > 0
    <2>1. PICK k \in Nat : k = (v * C) \div D /\ k * D <= v * C
      <3>1. v * C \in Nat
        OBVIOUS
      <3> QED
        BY <1>6, <3>1, DivBounds
    <2>2. PICK l \in Nat : l = (k * 999) \div 1000 /\ l <= k
      <3>1. k * 999 \in Nat /\ k * 999 <= k * 1000
        OBVIOUS
      <3> QED
        BY <3>1, DivBounds, FloorMost
    <2>3. PICK q \in Nat : q = (l * cf) \div cp /\ q * cp <= l * cf
      <3>1. l * cf \in Nat
        OBVIOUS
      <3> QED
        BY <3>1, DivBounds
    <2>4. q = amount_floor(ltv_improving_value(p, v), cp, cf)
      BY <1>1, <2>1, <2>2, <2>3 DEF amount_floor, ltv_improving_value
    <2>5. buys(p, x) <= q
      <3>1. PICK w : w = (amount_floor(v, cp, cf) * (BPS_FACTOR + p.incentive_bps)) \div BPS_FACTOR
        OBVIOUS
      <3>2. buys(p, x) = IF q < w THEN q ELSE w
        BY <1>1, <1>3, <1>6, <2>4, <3>1 DEF buys
      <3>3. buys(p, x) \in Nat
        BY BuysMono
      <3> QED
        BY <3>2, <3>3
    <2>6. z <= q
      <3>1. buys(p, x) \in Nat
        BY BuysMono
      <3> QED
        BY <1>4, <2>5, <3>1
    <2>7. PICK y \in Nat : y = z * cp /\ y <= l * cf
      <3>1. z * cp \in Nat /\ z * cp <= q * cp /\ q * cp \in Nat /\ l * cf \in Nat
        BY <2>6, TimesMono
      <3> QED
        BY <2>3, <3>1
    <2>8. PICK u \in Nat : u = y \div cf /\ u <= l
      BY <2>7, DivBounds, FloorMost
    <2>9. u * D <= k * D
      <3>1. u <= k
        BY <2>2, <2>8
      <3> QED
        BY <3>1, TimesMono
    <2>10. u * D <= v * C
      <3>1. u * D \in Nat /\ k * D \in Nat /\ v * C \in Nat
        OBVIOUS
      <3> QED
        BY <2>1, <2>9, <3>1
    <2> QED
      BY <1>1, <1>3, <1>4, <2>7, <2>8, <2>10 DEF value_floor
  <1> QED
    BY <1>5, <1>6

\* Interest changes what a repay buys only where it changes the rules.
LEMMA AccruedBuys ==
  ASSUME pair \in PairType, NEW d \in Nat \ {0}, NEW s \in Nat,
         lifts_close_factor(Accrued(d, s)) = lifts_close_factor(pair), NEW x \in Nat
  PROVE  /\ Accrued(d, s) \in PairType
         /\ buys(Accrued(d, s), x) = buys(pair, x)
  <1>1. PICK p : p = Accrued(d, s)
    OBVIOUS
  <1>2. /\ p \in PairType
        /\ p.debt_price = pair.debt_price /\ p.debt_factor = pair.debt_factor /\ p.price = pair.price
        /\ p.factor = pair.factor /\ p.incentive_bps = pair.incentive_bps
        /\ p.obligation_debt_value = pair.obligation_debt_value
        /\ p.obligation_collateral_value = pair.obligation_collateral_value
    BY <1>1 DEF Accrued, PairType
  <1>3. ltv_improving_value(p, value_floor(x, p.debt_price, p.debt_factor))
           = ltv_improving_value(pair, value_floor(x, p.debt_price, p.debt_factor))
    BY <1>2 DEF ltv_improving_value
  <1>4. lifts_close_factor(p) = lifts_close_factor(pair)
    BY <1>1
  <1>5. buys(p, x) = buys(pair, x)
    BY <1>2, <1>3, <1>4 DEF buys
  <1> QED
    BY <1>1, <1>2, <1>5

\* An offer that takes the whole debt or the whole position leaves no dust.
LEMMA WholeSideLeavesNoDust ==
  ASSUME NEW p \in PairType, NEW o \in Nat, NEW x \in Nat, x = Min({o, p.debt}),
         x = p.debt \/ buys(p, x) >= position_collateral(p)
  PROVE  ~leaves_dust(p, position_collateral(p) - Seized(p, x), p.debt - Repaid(p, o))
  <1>1. PICK c \in Nat, z \in Nat, b \in Nat :
          c = position_collateral(p) /\ z = Seized(p, x) /\ b = buys(p, x) /\ z = IF c <= b THEN c ELSE b
    BY SeizedType, BuysMono
  <1>2. CASE z = c
    BY <1>1, <1>2 DEF leaves_dust
  <1>3. CASE z # c
    <2>1. ~(b >= c)
      BY <1>1, <1>3
    <2>2. x = p.debt
      BY <1>1, <2>1
    <2>3. Repaid(p, o) = x
      BY <1>1, <1>3 DEF Repaid
    <2>4. p.debt - Repaid(p, o) = 0
      BY <2>2, <2>3, PairNumbers
    <2> QED
      BY <2>4 DEF leaves_dust
  <1> QED
    BY <1>2, <1>3

\* An offer under the close factor stays under it while the debt grows.
LEMMA CloseFactorOutlasts ==
  ASSUME NEW b \in Nat, NEW d \in Nat \ {0}, NEW e \in Nat \ {0}, d <= e, NEW o \in Nat, NEW f \in Nat,
         NEW x \in Nat, NEW y \in Nat,
         x = (IF o <= d THEN o ELSE d), y = (IF o <= e THEN o ELSE e),
         CeilDiv(x * b, d) <= f
  PROVE  CeilDiv(y * b, e) <= f
  <1>1. PICK m \in Nat, n \in Nat : m = x * b /\ n = y * b
    OBVIOUS
  <1>2. PICK q \in Nat : q = (m + d - 1) \div d /\ m <= q * d
    BY UpBounds
  <1>3. q <= f
    BY <1>1, <1>2 DEF CeilDiv
  <1>4. n <= q * e
    <2>1. CASE o <= d
      <3>1. y = o /\ x = o
        BY <2>1
      <3>2. q * d <= q * e /\ q * d \in Nat /\ q * e \in Nat
        BY TimesMono
      <3> QED
        BY <1>1, <1>2, <3>1, <3>2
    <2>2. CASE o > d
      <3>1. x = d /\ y <= e
        BY <2>2
      <3>2. b <= q
        <4>1. ASSUME q < b PROVE FALSE
          <5>1. q * d + d <= b * d
            <6>1. (q + 1) * d <= b * d /\ (q + 1) * d = q * d + d
              BY <4>1, TimesMono
            <6> QED
              BY <6>1
          <5>2. b * d = m /\ q * d \in Nat
            BY <1>1, <3>1
          <5> QED
            BY <1>2, <5>1, <5>2
        <4> QED
          BY <4>1
      <3>3. y * b <= e * b /\ e * b <= e * q /\ e * q = q * e /\ y * b \in Nat /\ e * b \in Nat /\ e * q \in Nat
        BY <3>1, <3>2, TimesMono
      <3> QED
        BY <1>1, <3>3
    <2> QED
      BY <2>1, <2>2
  <1>5. (n + e - 1) \div e <= q /\ (n + e - 1) \div e \in Nat
    BY <1>4, UpLeast, UpBounds
  <1> QED
    BY <1>1, <1>3, <1>5 DEF CeilDiv

-----------------------------------------------------------------------------
(* Theorems. *)

\* Every step keeps the invariant.
LEMMA NextKeeps ==
  IndInv /\ [Next]_vars => IndInv'
  <1> SUFFICES ASSUME IndInv, [Next]_vars PROVE IndInv'
    OBVIOUS
  <1>1. CASE UNCHANGED vars
    BY <1>1 DEF vars, IndInv, TypeOK, GrownInv, OfferInv, SnapshotInv, PartialInv, FitSound, SearchesFindTheLeast,
         FitAsDefined, Refused, padded
  <1>2. CASE Next
    BY <1>2, SearchGrownKeeps, HalveGrownKeeps, GrownFoundKeeps, SearchSnapshotKeeps, HalveSnapshotKeeps,
       SnapshotFoundKeeps, ReturningKeeps, SearchPartialKeeps, HalvePartialKeeps, PartialFoundKeeps DEF Next
  <1> QED
    BY <1>1, <1>2

\* The invariant holds throughout every call of fit_repay.
THEOREM FitInvariance == Spec => []IndInv
  <1>1. IndInv /\ [Next]_vars => IndInv'
    BY NextKeeps
  <1> QED
    BY <1>1, InitKeeps, PTL DEF Spec

\* The variables of a call of fit_repay keep their types: the searches' bounds stay
\* numbers, and the snapshot's clearing repay stays within the debt.
THEOREM FitTypeCorrect == Spec => []TypeOK
  <1>1. IndInv => TypeOK
    BY DEF IndInv
  <1> QED
    BY <1>1, FitInvariance, PTL

\* What fit_repay returns is within the funds and accepted by the market.
THEOREM OffersFit == Spec => []FitSound
  <1>1. IndInv => FitSound
    BY DEF IndInv
  <1> QED
    BY <1>1, FitInvariance, PTL

\* The binary search of repay_buying finds the least repay that buys the position.
THEOREM LeastIsFound == Spec => []SearchesFindTheLeast
  <1>1. IndInv => SearchesFindTheLeast
    BY DEF IndInv
  <1> QED
    BY <1>1, FitInvariance, PTL

\* The call, two binary searches and three early returns, computes what fit_repay is
\* defined to be: the definition by which Eligibility, and so the bad-debt initiator,
\* asks whether the liquidator would still take an obligation.
THEOREM FitIsDefined == Spec => []FitAsDefined
  <1>1. IndInv => FitAsDefined
    BY DEF IndInv
  <1> QED
    BY <1>1, FitInvariance, PTL

\* Where the close factor binds, what fit_repay returns never raises the LTV of the
\* obligation, through every rounding of the quote.
THEOREM LtvKept == Spec => []LtvNotRaised
  <1>1. IndInv => LtvNotRaised
    <2> SUFFICES ASSUME IndInv, at = "done", result > 0, ~lifts_close_factor(pair)
                 PROVE  value_floor(Seized(pair, Min({result, pair.debt})), pair.price, pair.factor)
                              * pair.obligation_debt_value
                           <= value_floor(Repaid(pair, result), pair.debt_price, pair.debt_factor)
                              * pair.obligation_collateral_value
      BY DEF LtvNotRaised
    <2>1. PICK p \in PairType, o \in Nat, d \in Nat : p = pair /\ o = result /\ d = pair.debt
      BY CallNumbers DEF IndInv, TypeOK, NoOffer
    <2>2. PICK x \in Nat : x = Min({o, d})
      BY MinOfTwo
    <2>3. Repaid(p, o) = x
      BY <2>1, <2>2 DEF Repaid, lifts_close_factor
    <2> QED
      BY <2>1, <2>2, <2>3, SeizedValue
  <1> QED
    BY <1>1, FitInvariance, PTL

\* An offer that clears a side is still accepted after any accrual up to the estimate:
\* Clearing.offer "still does once interest has accrued".
THEOREM ClearingOutlasts == Spec => []OfferOutlastsInterest
  <1>1. IndInv => OfferOutlastsInterest
    <2> SUFFICES ASSUME IndInv, at = "done", result >= clear.offer, clear.offer > 0,
                        NEW e \in pair.debt..grown(pair.debt, pair.debt_accrual_bps),
                        NEW s \in pair.supplied..grown(pair.supplied, pair.supply_accrual_bps),
                        lifts_close_factor(Accrued(e, s)) = lifts_close_factor(pair)
                 PROVE  accepts(Accrued(e, s), result)
      BY DEF OfferOutlastsInterest
    <2> USE CallNumbers DEF IndInv
    <2>1. PICK p \in PairType, d \in Nat \ {0}, o \in Nat, k \in Nat :
            p = pair /\ d = pair.debt /\ k = clear.offer /\ o = result /\ o >= k /\ o > 0
      BY DEF TypeOK, NoOffer
    <2>2. PICK gd \in Nat, gc \in Nat : gd = grown_debt(p) /\ gc = grown_collateral(p)
      BY <2>1
    <2>3. e \in Nat \ {0} /\ d <= e /\ e <= gd
      BY <2>1, <2>2 DEF grown_debt
    <2>4. s \in Nat /\ p.plain \in Nat /\ p.plain + s <= gc
      <3>1. p.supplied \in Nat /\ p.plain \in Nat /\ p.supply_accrual_bps \in Nat
        BY PairNumbers
      <3>2. PICK g \in Nat : g = grown(p.supplied, p.supply_accrual_bps)
        BY <3>1, GrownType
      <3>3. gc = p.plain + g /\ s <= g /\ s \in Nat
        BY <2>1, <2>2, <3>1, <3>2 DEF grown_collateral
      <3> QED
        BY <3>1, <3>2, <3>3
    <2>5. PICK a \in PairType : a = Accrued(e, s)
      BY <2>1, <2>3, <2>4, AccruedBuys
    <2>6. /\ a.debt = e /\ a.close_factor_bps = p.close_factor_bps /\ position_collateral(a) = s + p.plain
          /\ lifts_close_factor(a) = lifts_close_factor(p)
      BY <2>1, <2>5 DEF Accrued, PairType, position_collateral
    <2>7. \A y \in Nat : buys(a, y) = buys(p, y)
      BY <2>1, <2>3, <2>4, <2>5, AccruedBuys
    <2>8. Min({o, d}) = (IF o <= d THEN o ELSE d) /\ Min({o, e}) = (IF o <= e THEN o ELSE e)
      BY <2>3, MinOfTwo
    <2>9. PICK x \in Nat, y \in Nat : x = Min({o, d}) /\ y = Min({o, e})
      BY <2>3, <2>8
    <2>10. ~over_close_factor(a, y)
      <3> SUFFICES ASSUME ~lifts_close_factor(a) PROVE CeilDiv(y * BPS_FACTOR, a.debt) <= a.close_factor_bps
        <4>1. CeilDiv(y * BPS_FACTOR, e) \in Nat
          <5>1. y * BPS_FACTOR \in Nat
            OBVIOUS
          <5> QED
            BY <2>3, <5>1, UpBounds DEF CeilDiv
        <4> QED
          BY <2>6, <4>1, PairNumbers DEF over_close_factor
      <3>1. PICK f \in Nat : f = p.close_factor_bps
        BY PairNumbers
      <3>2. accepts(pair, result) /\ ~(result <= 0)
        BY <2>1 DEF FitSound, NoOffer
      <3>3. ~over_close_factor(p, x)
        BY <2>1, <2>9, <3>2 DEF accepts
      <3>4. CeilDiv(x * BPS_FACTOR, d) <= f
        <4>1. CeilDiv(x * BPS_FACTOR, d) \in Nat
          <5>1. x * BPS_FACTOR \in Nat
            OBVIOUS
          <5> QED
            BY <5>1, UpBounds DEF CeilDiv
        <4> QED
          BY <2>1, <2>6, <3>1, <3>3, <4>1 DEF over_close_factor
      <3> QED
        BY <2>3, <2>6, <2>8, <2>9, <3>1, <3>4, CloseFactorOutlasts
    <2>11. y = a.debt \/ buys(a, y) >= position_collateral(a)
      <3>1. CASE o >= e
        BY <2>3, <2>6, <2>8, <2>9, <3>1
      <3>2. CASE o < e
        <4>1. y = o
          BY <2>3, <2>8, <2>9, <3>2
        <4>2. ~(k >= gd)
          BY <2>1, <2>3, <3>2
        <4>3. buys(p, k) >= gc
          BY <2>1, <2>2, <4>2 DEF OfferInv
        <4>4. buys(p, k) \in Nat /\ buys(p, o) \in Nat /\ buys(p, k) <= buys(p, o)
          BY <2>1, BuysMono
        <4>5. buys(p, o) >= s + p.plain
          BY <2>4, <4>3, <4>4
        <4> QED
          BY <2>6, <2>7, <4>1, <4>5
      <3> QED
        BY <2>3, <3>1, <3>2
    <2>12. ~leaves_dust(a, position_collateral(a) - Seized(a, y), a.debt - Repaid(a, o))
      BY <2>6, <2>9, <2>11, WholeSideLeavesNoDust
    <2> QED
      BY <2>1, <2>5, <2>6, <2>9, <2>10, <2>12 DEF accepts
  <1> QED
    BY <1>1, FitInvariance, PTL
=============================================================================
