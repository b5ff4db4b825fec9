------------------------------ MODULE PoolMath ------------------------------
(***************************************************************************)
(* The fixed-point arithmetic of a lending pool: engine/src/lending_model/  *)
(* pool.rs and amount.rs. A pool is a record with its totals `supply`,      *)
(* `j`, `borrowed` and `d` (underlying supplied and its shares, underlying  *)
(* borrowed and its shares) and its utilisation limit `limit`. Pure; i128   *)
(* overflow, which the code returns as an error, is out of range here.      *)
(***************************************************************************)
EXTENDS Integers

CONSTANT BPS_FACTOR     \* basis points of one

CeilDiv(a, b) == (a + b - 1) \div b

bps_fixed_div_floor(a, b) == (a * BPS_FACTOR) \div b

\* Mutant of bps_fixed_div_ceil: the quotient is rounded down.
bps_fixed_div_truncated(a, b) == (a * BPS_FACTOR) \div b

bps_fixed_div_ceil(a, b) == CeilDiv(a * BPS_FACTOR, b)

\* Shares to tokens: a pool without shares holds nothing for anyone.
j_tokens_to_tokens_floor(p, j) == IF p.j = 0 THEN 0 ELSE (j * p.supply) \div p.j
d_tokens_to_tokens_ceil(p, d) == IF p.d = 0 THEN 0 ELSE CeilDiv(d * p.borrowed, p.d)

\* Tokens to shares: one to one in a pool without deposits.
tokens_to_j_tokens_floor(p, tokens) ==
    IF p.supply = 0 THEN tokens ELSE (tokens * p.j) \div p.supply
tokens_to_j_tokens_ceil(p, tokens) ==
    IF p.supply = 0 THEN tokens ELSE CeilDiv(tokens * p.j, p.supply)

utilization_ratio_bps(p) ==
    IF p.supply = 0 THEN 0 ELSE bps_fixed_div_floor(p.borrowed, p.supply)

available_for_borrow(p) ==
    LET used == utilization_ratio_bps(p)
    IN  IF used >= p.limit THEN 0 ELSE (p.supply * (p.limit - used)) \div BPS_FACTOR

\* Mutant of compute_max_safe_withdrawal: the supply is kept one above the floor.
compute_max_above_floor(p, margin_bps) ==
    LET safe == p.limit - margin_bps
        min_supply == bps_fixed_div_ceil(p.borrowed, safe) + 1
    IN  IF safe <= 0 \/ utilization_ratio_bps(p) >= safe \/ min_supply >= p.supply
        THEN 0 ELSE p.supply - min_supply

\* The most that can be withdrawn with utilisation staying within the limit less
\* a margin; nothing when the band is empty or already left.
compute_max_safe_withdrawal(p, margin_bps) ==
    LET safe == p.limit - margin_bps
        min_supply == bps_fixed_div_ceil(p.borrowed, safe)
    IN  IF safe <= 0 \/ utilization_ratio_bps(p) >= safe \/ min_supply >= p.supply
        THEN 0 ELSE p.supply - min_supply
=============================================================================
