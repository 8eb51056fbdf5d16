----------------------------- MODULE AuthRepair -----------------------------
(***************************************************************************)
(* Tool calls that repair the authentication of their upstream             *)
(* (broker.py, daemon_upstreams.py, daemon.py): the lock of serialised     *)
(* calls, the repair tool and the retry, the counters that no lock guards, *)
(* and the health a status request derives from them (daemon_helpers.py).  *)
(***************************************************************************)
EXTENDS Naturals, FiniteSets

CONSTANTS
  RepairThreads,    \* connection threads of the daemon
  Nobody,
  MaxRepairedCalls  \* bound: calls per thread

ASSUME RepairAssumption == Nobody \notin RepairThreads /\ MaxRepairedCalls \in Nat

VARIABLES
  options,     \* of the upstream: serialize_calls, auth_repair.retry_original
  callLock,    \* holder of call_locks[upstream]
  request,     \* per thread: the call it is in
  stats,       \* _auth_repair_stats[upstream]
  ran,         \* per thread: how often its call ran the original and the repair tool
  overlapping, \* two threads have been inside a counter update at once
  repairEnd    \* how the last repair to end ended

repairVars == <<options, callLock, request, stats, ran, overlapping, repairEnd>>

NoRequest == [at |-> "idle", counter |-> "none", read |-> 0, then |-> "none", made |-> 0]

RepairInit ==
  /\ options \in [serialize : BOOLEAN, retry : BOOLEAN]
  /\ callLock = Nobody
  /\ request = [t \in RepairThreads |-> NoRequest]
  /\ stats = [attempts |-> 0, successes |-> 0, failures |-> 0, auth_state |-> "unknown"]
  /\ ran = [t \in RepairThreads |-> [original |-> 0, repair |-> 0]]
  /\ overlapping = FALSE
  /\ repairEnd = "none"

Goes(t, at) == request' = [request EXCEPT ![t].at = at]

\* The call returns or raises; a serialised one releases its lock.
Release(t) == callLock' = IF callLock = t THEN Nobody ELSE callLock

Returns(t) == Goes(t, "idle") /\ Release(t)

\* call_tool: a serialised upstream's calls wait for its lock.
Begin(t) ==
  /\ request[t].at = "idle" /\ request[t].made < MaxRepairedCalls
  /\ IF options.serialize THEN callLock = Nobody /\ callLock' = t ELSE UNCHANGED callLock
  /\ request' = [request EXCEPT ![t] = [NoRequest EXCEPT !.at = "first", !.made = request[t].made + 1]]
  /\ ran' = [ran EXCEPT ![t] = [original |-> 0, repair |-> 0]]
  /\ UNCHANGED <<options, stats, overlapping, repairEnd>>

\* Start counting: stats[counter] is read before it is written, and another
\* thread may come in between.
Counts(t, counter, next) ==
  request' = [request EXCEPT ![t].at = "count", ![t].counter = counter, ![t].then = next]

Ran(t, tool) == ran' = [ran EXCEPT ![t][tool] = @ + 1]

\* The first call: it raises, returns a result, or one that asks for a repair.
FirstCall(t) ==
  /\ request[t].at = "first"
  /\ Ran(t, "original")
  /\ \/ Returns(t)
     \/ Counts(t, "attempts", "repair") /\ UNCHANGED callLock
  /\ UNCHANGED <<options, stats, overlapping, repairEnd>>

ReadCounter(t) ==
  /\ request[t].at = "count"
  /\ request' = [request EXCEPT ![t].at = "store", ![t].read = stats[request[t].counter]]
  /\ overlapping' = (overlapping \/ \E o \in RepairThreads \ {t} : request[o].at = "store")
  /\ UNCHANGED <<options, callLock, stats, ran, repairEnd>>

AuthStateAfter(counter) == IF counter = "successes" THEN "authenticated" ELSE "unauthenticated"

WriteCounter(t) ==
  LET r == request[t] IN
  /\ r.at = "store"
  /\ stats' = [stats EXCEPT ![r.counter] = r.read + 1, !.auth_state = AuthStateAfter(r.counter)]
  /\ repairEnd' = IF r.counter = "attempts" THEN repairEnd ELSE r.counter
  /\ IF r.then = "idle" THEN Returns(t) ELSE Goes(t, r.then) /\ UNCHANGED callLock
  /\ UNCHANGED <<options, ran, overlapping>>

RepairUncounted(t) ==
  /\ request[t].at = "repair"
  /\ Ran(t, "repair")
  /\ \/ Returns(t)
     \/ /\ UNCHANGED callLock
        /\ IF options.retry THEN Goes(t, "retry")
           ELSE \E c \in {"successes", "failures"} : Counts(t, c, "idle")
  /\ UNCHANGED <<options, stats, overlapping, repairEnd>>

\* The repair tool: an exception counts as a failure; without retry_original its
\* own result decides and is returned.
Repair(t) ==
  /\ request[t].at = "repair"
  /\ Ran(t, "repair")
  /\ \/ Counts(t, "failures", "idle")
     \/ options.retry /\ Goes(t, "retry")
     \/ ~options.retry /\ Counts(t, "successes", "idle")
  /\ UNCHANGED <<options, callLock, stats, overlapping, repairEnd>>

RetryOriginal(t) ==
  /\ request[t].at = "retry"
  /\ Ran(t, "original")
  /\ \E c \in {"successes", "failures"} : Counts(t, c, "idle")
  /\ UNCHANGED <<options, callLock, stats, overlapping, repairEnd>>

RepairNext ==
  \E t \in RepairThreads :
    Begin(t) \/ FirstCall(t) \/ ReadCounter(t) \/ WriteCounter(t) \/ Repair(t) \/ RetryOriginal(t)

RepairSpec == RepairInit /\ [][RepairNext]_repairVars

------------------------------------------------------------------------------
(* The health of the upstream in a status.                                 *)

RepairSnapshots == [state : {"configured", "running", "reachable", "exited", "failed", "backoff"},
                    last_error : {"none", "error"}]
TokenFiles == {"missing", "invalid", "field_missing", "expiry_invalid", "expired", "valid"}

\* passive_auth_probe with an auth_probe configured.
Probe(token) ==
  CASE token = "valid" -> [auth_probe |-> "credentials_present", auth_state |-> "none", last_error |-> "none"]
    [] token = "expired" -> [auth_probe |-> "oauth_refresh_expired", auth_state |-> "unauthenticated", last_error |-> "error"]
    [] OTHER -> [auth_probe |-> "credentials_missing", auth_state |-> "unauthenticated", last_error |-> "error"]

\* The probe fills in what the snapshot leaves open; the repair counters, once
\* there are any, replace the probe's auth_state.
Health(snapshot, token) ==
  LET probe == Probe(token) IN
  [state |-> snapshot.state,
   last_error |-> IF snapshot.last_error = "none" THEN probe.last_error ELSE snapshot.last_error,
   auth_state |-> IF stats.auth_state = "unknown" THEN probe.auth_state ELSE stats.auth_state]

HealthStatus(health) ==
  IF health.state \in {"exited", "failed", "backoff"} \/ health.last_error # "none"
  THEN "degraded" ELSE "ok"

------------------------------------------------------------------------------
(* Properties.                                                             *)

AtRest == \A t \in RepairThreads : request[t].at = "idle"

\* Threads whose repair has been counted as an attempt and not yet as ended.
Repairing ==
  {t \in RepairThreads : \/ request[t].at \in {"repair", "retry"}
                         \/ request[t].at \in {"count", "store"} /\ request[t].counter # "attempts"}

\* Every counted repair attempt is counted once more when it ends, as a success
\* or as a failure, however it ends.  Two unserialised calls whose updates overlap
\* may lose counts; calls of a serialised upstream never overlap.
CountersAddUp ==
  /\ options.serialize => ~overlapping
  /\ ~overlapping => stats.attempts = stats.successes + stats.failures + Cardinality(Repairing)

\* Nothing else reaches a serialised upstream between a call, its repair and its
\* retry, so that at rest auth_state tells how the last repair ended.
SerializedRepair ==
  options.serialize =>
    /\ Cardinality({t \in RepairThreads : request[t].at # "idle"}) <= 1
    /\ AtRest /\ repairEnd # "none" => stats.auth_state = AuthStateAfter(repairEnd)

\* A request ran the repair tool at most once and its own tool at most twice, the
\* second time only after a repair.
RepairedOnce ==
  \A t \in RepairThreads :
    /\ ran[t].repair <= 1
    /\ ran[t].original <= 1 + ran[t].repair

\* Credentials the probe finds missing or expired degrade the status, however the
\* last repair ended and whatever the client's own snapshot says.
BadCredentialsDegrade ==
  repairEnd # "none" =>
    \A s \in RepairSnapshots, token \in TokenFiles \ {"valid"} :
      HealthStatus(Health(s, token)) = "degraded"

\* What the repairs of one upstream promise.
RepairsSafe == CountersAddUp /\ SerializedRepair /\ RepairedOnce /\ BadCredentialsDegrade
=============================================================================
