---------------------------- MODULE MCEventCache ----------------------------
(* Instances of EventCache for TLC. *)
EXTENDS EventCache, TLC

\* Obligations are interchangeable; only for runs without temporal properties.
Symmetry == Permutations(Keys)
=============================================================================
