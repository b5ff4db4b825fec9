---------------------------- MODULE MCMarketScan ----------------------------
(* Instances of MarketScan for TLC. *)
EXTENDS MarketScan

\* Two markets with pools of their own prices; the keeper's own obligation and one
\* that touches both pools in the first, one that touches a single pool in the second.
MCMarketList == <<"main", "side">>
MCObligations == {"own", "both", "single"}
MCPoolsOf == [m \in {"main", "side"} |-> IF m = "main" THEN {"usdc", "gold"} ELSE {"xlm"}]
MCMarketOf == [o \in MCObligations |-> IF o = "single" THEN "side" ELSE "main"]
MCTouches == [o \in MCObligations |-> CASE o = "own" -> {"usdc"}
                                    [] o = "both" -> {"usdc", "gold"}
                                    [] o = "single" -> {"xlm"}]
=============================================================================
