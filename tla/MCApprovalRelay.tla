-------------------------- MODULE MCApprovalRelay --------------------------
(* Model-checking instance of ApprovalRelay: one host with the elicitation *)
(* capability and one without; calls that share a per_session client or    *)
(* have a per_call client each.                                            *)
EXTENDS ApprovalRelay, TLC
Symmetric == Permutations(Calls) \cup Permutations(Clients) \cup Permutations(Questions)
=============================================================================
