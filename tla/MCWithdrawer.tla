---------------------------- MODULE MCWithdrawer ----------------------------
(* An instance of Withdrawer for TLC: two pools of one market, and a market in  *)
(* which the keeper has no obligation.                                         *)
EXTENDS Withdrawer, TLC

CONSTANTS p1, p2, m1, m2

MCMarketOf == (p1 :> m1) @@ (p2 :> m1)

\* Share prices that are not whole numbers; the first pool's limit binds the
\* keeper's position, the second's does not.
MCInitialPools ==
    (p1 :> [supply |-> 20, j |-> 15, borrowed |-> 9, d |-> 9, limit |-> 90])
    @@ (p2 :> [supply |-> 7, j |-> 4, borrowed |-> 1, d |-> 1, limit |-> 90])

MCInitialShares == (p1 :> 9) @@ (p2 :> 1)
=============================================================================
