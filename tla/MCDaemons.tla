------------------------------ MODULE MCDaemons ------------------------------
(* Model-checking instance of DaemonLifecycle; daemons are interchangeable. *)
EXTENDS DaemonLifecycle, TLC

Symmetric == Permutations(Daemons)
=============================================================================
