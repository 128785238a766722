-------------------------- MODULE MCPremiumPeriods --------------------------
(* Small instances of PremiumPeriods for TLC. *)
EXTENDS PremiumPeriods, TLC

Interchangeable == Permutations(Payments) \cup Permutations(Runs)
=============================================================================
