--------------------------- MODULE SharedRouting ---------------------------
(***************************************************************************)
(* Where a routed tool call runs: on the local edge or in the shared       *)
(* worker, under quota (hybrid_router.py, quota_policy.py,                 *)
(* session_affinity.py, shared_runtime_policy.py, shared_worker.py).       *)
(***************************************************************************)
EXTENDS Naturals, SequencesExt

CONSTANTS
  WorkerTools,    \* tools the shared worker has, among "known" and "unknown"
  MaxAbnormal     \* bound: quota scopes of a snapshot that are not in order

ASSUME SharingAssumption == WorkerTools \subseteq {"known", "unknown"} /\ MaxAbnormal \in Nat

VARIABLES
  call,     \* the call: its upstream, its context, its quota snapshot
  outcome   \* where it ran, the reason, whether the answer carries an audit event

sharingVars == <<call, outcome>>

\* QUOTA_SCOPES, in the order they are looked at.
Scopes == <<"global", "team", "user", "upstream", "tool">>

\* Of one scope in a snapshot: its kill switch is set or not a list, its limit is
\* reached or not there, or all is in order.
ScopeStates == {"in_order", "killed", "switch_missing", "exceeded", "limit_missing"}

Snapshots == {q \in [1 .. Len(Scopes) -> ScopeStates] :
                Cardinality({i \in DOMAIN q : q[i] # "in_order"}) <= MaxAbnormal}

\* Of an identifier: absent, well formed, or blank or holding a path separator.
Identifiers == {"absent", "safe", "unsafe"}

Resting == [ran |-> "nowhere", reason |-> "none", audited |-> FALSE]

SharingInit ==
  /\ call \in [stateless : BOOLEAN, shared_worker : BOOLEAN, shared_mode : BOOLEAN,
               mutating : BOOLEAN, local_state : BOOLEAN, tenant : Identifiers,
               team : {"absent", "safe", "unsafe"}, has_snapshot : BOOLEAN,
               tool : {"known", "unknown"}, name : {"dotted", "undotted", "unsafe"}, quota : {<<>>}]
  /\ outcome = Resting

Ends(ran, reason, audited) ==
  outcome' = [ran |-> ran, reason |-> reason, audited |-> audited]

------------------------------------------------------------------------------
(* decide_quota                                                            *)

FirstScope(q, states) ==
  LET hit == SelectInSeq(q, LAMBDA s : s \in states) IN
  IF hit = 0 THEN "none" ELSE Scopes[hit]

\* Every kill switch is looked at before any limit; what is missing denies.
KillSwitchDenial(q) == FirstScope(q, {"killed", "switch_missing"})

LimitDenialIgnoresMissing(q) == FirstScope(q, {"exceeded"})

LimitDenial(q) == FirstScope(q, {"exceeded", "limit_missing"})

QuotaAllows(q) == KillSwitchDenial(q) = "none" /\ LimitDenial(q) = "none"

\* Tenant, team, upstream and tool must be well formed, or the decision raises.
QuotaValid == call.tenant = "safe" /\ call.team = "safe" /\ call.name # "unsafe"

------------------------------------------------------------------------------
(* decide_session_affinity and SharedWorkerRuntime.call_tool               *)

\* Any class but "stateless" stays local; so does what is not allowlisted or keeps
\* local state.
Placement(class, allowlisted, local) ==
  IF class = "stateless" /\ allowlisted /\ ~local THEN "shared_worker" ELSE "local_edge"

WorkerCall(class, allowlisted, local, quotaAllows) ==
  IF call.tenant # "safe" \/ call.name # "dotted" \/ class = "private_inventory"
  THEN Ends("nowhere", "shared_worker_error", FALSE)
  ELSE IF Placement(class, allowlisted, local) # "shared_worker"
  THEN Ends("nowhere", "shared_worker_placement_denied", TRUE)
  ELSE IF ~quotaAllows THEN Ends("nowhere", "quota_denied", TRUE)
  ELSE IF call.tool \notin WorkerTools THEN Ends("nowhere", "unsupported_tool", TRUE)
  ELSE Ends("worker", "worker_call_allowed", FALSE)

------------------------------------------------------------------------------
(* HybridToolRouter.call_tool                                              *)

Eligible ==
  /\ call.stateless /\ call.shared_worker /\ call.shared_mode
  /\ ~call.mutating /\ ~call.local_state

HasContext == call.tenant # "absent" /\ call.team # "absent" /\ call.has_snapshot

\* A caller without the full shared context is served by the local edge.
RouteToEdge ==
  /\ outcome = Resting /\ ~(HasContext /\ Eligible)
  /\ Ends("edge", "local", FALSE)
  /\ UNCHANGED call

\* A denial is the answer; nothing goes back to the edge.
RouteToWorker ==
  /\ outcome = Resting /\ HasContext /\ Eligible
  /\ \E q \in Snapshots :
       /\ call' = [call EXCEPT !.quota = q]
       /\ IF ~QuotaValid THEN Ends("nowhere", "shared_routing_quota_invalid", FALSE)
          ELSE WorkerCall("stateless", TRUE, FALSE, QuotaAllows(q))

\* The worker called by something other than the router, which says of the upstream
\* what it likes: its class, whether it is allowlisted, whether it keeps local state.
CallWorker ==
  /\ outcome = Resting /\ call.tenant # "absent"
  /\ \E class \in {"stateless", "stateful", "unknown", "private_inventory"},
        q \in Snapshots :
       /\ call' = [call EXCEPT !.quota = q, !.stateless = (class = "stateless")]
       /\ WorkerCall(class, call.shared_worker, call.local_state, QuotaAllows(q))

SharingNext == RouteToEdge \/ RouteToWorker \/ CallWorker

SharingSpec == SharingInit /\ [][SharingNext]_sharingVars

------------------------------------------------------------------------------
(* Properties.                                                             *)

\* Quota fails closed: what ran in the worker had every scope of its snapshot in
\* order, and a well-formed tenant, stateless upstream and no local state; a call
\* that is eligible and has its context never reaches the edge, whatever goes wrong.
QuotaFailsClosed ==
  /\ outcome.ran = "worker" =>
       /\ \A i \in DOMAIN call.quota : call.quota[i] = "in_order"
       /\ call.tenant = "safe" /\ call.stateless /\ ~call.local_state
  /\ outcome.ran = "edge" => ~(Eligible /\ HasContext)

\* A decision to deny comes with its audit event; only malformed input ends without.
DenialsAudited ==
  outcome # Resting /\ outcome.ran = "nowhere" /\ ~outcome.audited =>
    outcome.reason \in {"shared_worker_error", "shared_routing_quota_invalid"}

\* What the hybrid route promises.
SharingSafe == QuotaFailsClosed /\ DenialsAudited
=============================================================================
