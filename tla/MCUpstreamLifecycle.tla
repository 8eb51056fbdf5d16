------------------------ MODULE MCUpstreamLifecycle ------------------------
(* Model-checking instances of UpstreamLifecycle. *)
EXTENDS UpstreamLifecycle, TLC

\* Threads, sessions and slots are interchangeable; safety runs may identify
\* them.  Runs that single out a process group (Forking, Stubborn) keep the
\* groups apart.
SlotSymmetry ==
  Permutations(Threads) \cup Permutations(Clients) \cup Permutations(Sessions)
Symmetric == SlotSymmetry \cup Permutations(Procs)
=============================================================================
