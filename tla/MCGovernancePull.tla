-------------------------- MODULE MCGovernancePull --------------------------
(* Model-checking instance of GovernancePull: two approved bundles, one that *)
(* is valid and never approved, one that is invalid.                       *)
EXTENDS GovernancePull, TLC
CONSTANTS a1, b1, b2, raw, bad

SomeApproved == {<<a1, b1>>, <<a1, b2>>}
Symmetric == Permutations(Procs) \cup Permutations({b1, b2})
=============================================================================
