------------------------------ MODULE Approvals ------------------------------
(***************************************************************************)
(* What the approval relay promises of each approval question an upstream  *)
(* asks (docs/auth-recipes.md, "Approval requests"): the upstream hears a  *)
(* decision only if the host was shown this very question and decided it,  *)
(* and hears at most one reply.  A question ends unanswered when its       *)
(* process is gone.                                                        *)
(***************************************************************************)
CONSTANT Questions

VARIABLE stage

Open == {"asked", "shown", "decided"}
Stages == {"new", "delivered", "refused", "dropped"} \cup Open

TypeOK == stage \in [Questions -> Stages]

Init == stage = [q \in Questions |-> "new"]

Move(q, from, to) ==
  /\ stage[q] \in from
  /\ stage' = [stage EXCEPT ![q] = to]

Ask(q) == Move(q, {"new"}, "asked")
Show(q) == Move(q, {"asked"}, "shown")
Decide(q) == Move(q, {"shown"}, "decided")
Deliver(q) == Move(q, {"decided"}, "delivered")

\* The relay answers with an error: the host has no such capability, or its
\* input is closed.
Refuse(q) == Move(q, {"asked", "shown"}, "refused")

\* A process and its open questions go.
Drop ==
  \E gone \in SUBSET {q \in Questions : stage[q] \in Open} :
    stage' = [q \in Questions |-> IF q \in gone THEN "dropped" ELSE stage[q]]

Next ==
  \/ \E q \in Questions : Ask(q) \/ Show(q) \/ Decide(q) \/ Deliver(q) \/ Refuse(q)
  \/ Drop

Spec == Init /\ [][Next]_stage
=============================================================================
