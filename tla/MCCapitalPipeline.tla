------------------------- MODULE MCCapitalPipeline -------------------------
(* Instances of CapitalPipeline for TLC. *)
EXTENDS CapitalRefinement, TLC

CONSTANTS WalletAmount   \* what the wallet holds of every token at the start

MCInitialWallet == [t \in Tokens |-> WalletAmount]

\* Operations are interchangeable; only for runs without temporal properties.
Symmetry == Permutations(Ops)
=============================================================================
