---------------------------- MODULE GovernancePull ----------------------------
(***************************************************************************)
(* governance_pull.py on top of the deployment store: pull fetches the     *)
(* bundle of an assignment into the local cache, apply hands a cached      *)
(* bundle to the store once a local approval exists, rollback is the       *)
(* store's.                                                                *)
(*                                                                         *)
(* pull opens the fetched file three times: to validate it, to compare its *)
(* digest with the assignment's, and to copy it.  A file:// source is read *)
(* in place; a localhost source is downloaded to one temporary path that   *)
(* all pulls share.                                                        *)
(***************************************************************************)
EXTENDS Deployments

CONSTANTS
  Assignments,   \* assignment ids
  Approved,      \* the (assignment, target) pairs of the approval files
  Invalid,       \* bundles validate_bundle_file rejects
  SourceStable,  \* TRUE: a file:// source does not change once it was validated
  PullsOverlap   \* TRUE: pulls of different processes may overlap

ASSUME PullAssumption ==
  /\ Approved \subseteq Assignments \X Bundles
  /\ None \notin Assignments
  /\ Invalid \subseteq Bundles
  /\ SourceStable \in BOOLEAN /\ PullsOverlap \in BOOLEAN

VARIABLES
  tempFile,  \* governance-pull/tmp/fetched-bundle.json.tmp
  cache,     \* cache/<target>/bundle.json; a target is named by its digest
  pullRec,   \* cache/<target>/pull-record.json: the assignment it names
  pull,      \* where each process is in a pull
  source,    \* the file:// source of the pull, or None for the shared one
  target,    \* the target of a pull, or of the approval of an apply
  assigned   \* the assignment a pull was started with

pullVars == <<tempFile, cache, pullRec, pull, source, target, assigned>>
allVars == <<vars, pullVars>>

PullSteps == {"idle", "fetched", "valid", "matched", "copied"}

PullTypeOK ==
  /\ TypeOK
  /\ tempFile \in Bundles \cup {None}
  /\ cache \in [Bundles -> Bundles \cup {None}]
  /\ pullRec \in [Bundles -> Assignments \cup {None}]
  /\ pull \in [Procs -> PullSteps]
  /\ source \in [Procs -> Bundles \cup {None}]
  /\ target \in [Procs -> Bundles \cup {None}]
  /\ assigned \in [Procs -> Assignments \cup {None}]

PullInit ==
  /\ Init
  /\ tempFile = None
  /\ cache = [b \in Bundles |-> None] /\ pullRec = [b \in Bundles |-> None]
  /\ pull = [p \in Procs |-> "idle"]
  /\ source = [p \in Procs |-> None] /\ target = [p \in Procs |-> None]
  /\ assigned = [p \in Procs |-> None]

MayPull(p) ==
  /\ command[p] = None /\ pull[p] = "idle"
  /\ PullsOverlap \/ \A q \in Procs : pull[q] = "idle"

Step(p, label) == pull' = [pull EXCEPT ![p] = label]

\* The fetched file as pull sees it now.
Fetched(p) == IF source[p] # None THEN source[p] ELSE tempFile

\* _fetch_source_to_temp: the source serves some bundle.
Fetch(p, a, t, content) ==
  /\ MayPull(p)
  /\ \/ /\ source' = [source EXCEPT ![p] = content]
        /\ UNCHANGED tempFile
     \/ /\ tempFile' = content
        /\ UNCHANGED source
  /\ target' = [target EXCEPT ![p] = t]
  /\ assigned' = [assigned EXCEPT ![p] = a]
  /\ Step(p, "fetched")
  /\ UNCHANGED <<vars, cache, pullRec>>

\* The publisher replaces the file behind a file:// source.
Republish(p, content) ==
  /\ source[p] # None /\ (SourceStable => pull[p] = "fetched")
  /\ source' = [source EXCEPT ![p] = content]
  /\ UNCHANGED <<vars, tempFile, cache, pullRec, pull, target, assigned>>

\* pull raises or returns.
PullEnds(p) ==
  /\ Step(p, "idle")
  /\ source' = [source EXCEPT ![p] = None]
  /\ target' = [target EXCEPT ![p] = None]
  /\ assigned' = [assigned EXCEPT ![p] = None]

AnyTarget(p) == TRUE
MatchesTarget(p) == Fetched(p) = target[p]
\* validate_bundle_file: JSON, schema, schema version, checksum, compatibility
IsValid(b) == b \notin Invalid

\* What the next step of the pull asks of the fetched file; another pull may
\* have removed it.
Acceptable(p) ==
  /\ Fetched(p) # None
  /\ pull[p] = "fetched" => IsValid(Fetched(p))
  /\ pull[p] = "valid" => MatchesTarget(p)

\* The temporary file is removed after a failed validation, not after a
\* mismatch.
PullRaises(p) ==
  /\ pull[p] \in {"fetched", "valid", "matched"} /\ ~Acceptable(p)
  /\ tempFile' = IF pull[p] = "fetched" /\ source[p] = None THEN None ELSE tempFile
  /\ PullEnds(p)
  /\ UNCHANGED <<vars, cache, pullRec>>

\* validate_bundle_file, then _validate_target_matches_bundle.
Check(p) ==
  /\ pull[p] \in {"fetched", "valid"} /\ Acceptable(p)
  /\ Step(p, IF pull[p] = "fetched" THEN "valid" ELSE "matched")
  /\ UNCHANGED <<vars, tempFile, cache, pullRec, source, target, assigned>>

\* _copy_or_replace, then _unlink_if_temp.
Copy(p) ==
  /\ pull[p] = "matched" /\ Acceptable(p)
  /\ cache' = [cache EXCEPT ![target[p]] = Fetched(p)]
  /\ tempFile' = IF source[p] = None THEN None ELSE tempFile
  /\ Step(p, "copied")
  /\ UNCHANGED <<vars, pullRec, source, target, assigned>>

WritePullRecord(p) ==
  /\ pull[p] = "copied"
  /\ pullRec' = [pullRec EXCEPT ![target[p]] = assigned[p]]
  /\ PullEnds(p)
  /\ UNCHANGED <<vars, tempFile, cache>>

PullDies(p) ==
  /\ pull[p] # "idle"
  /\ PullEnds(p)
  /\ UNCHANGED <<vars, tempFile, cache, pullRec>>

-----------------------------------------------------------------------------
\* apply_cached_bundle: the approval must name the pull record's assignment
\* and target; record_deployment validates the cached file again, but nothing
\* compares it with the target.
ApprovalIgnored(a, t) == pullRec[t] # None
ApprovalMatches(a, t) == <<a, t>> \in Approved /\ pullRec[t] = a

Apply(p, a, t) ==
  /\ pull[p] = "idle"
  /\ ApprovalMatches(a, t)
  /\ cache[t] # None /\ IsValid(cache[t])
  /\ Stage(p, cache[t])
  /\ target' = [target EXCEPT ![p] = t]
  /\ UNCHANGED <<tempFile, cache, pullRec, pull, source, assigned>>

StoreCommand(p) ==
  /\ pull[p] = "idle"
  /\ Rollback(p) \/ Recover(p) \/ RecoverRaises(p)
  /\ UNCHANGED pullVars

StoreStep(p) ==
  /\ Proceed(p)
  /\ target' = IF command'[p] = None THEN [target EXCEPT ![p] = None] ELSE target
  /\ UNCHANGED <<tempFile, cache, pullRec, pull, source, assigned>>

PullStep(p) == Check(p) \/ PullRaises(p) \/ Copy(p) \/ WritePullRecord(p) \/ PullDies(p)

PullNext ==
  \/ \E p \in Procs :
       \/ \E a \in Assignments, t, content \in Bundles : Fetch(p, a, t, content)
       \/ \E content \in Bundles : Republish(p, content)
       \/ \E a \in Assignments, t \in Bundles : Apply(p, a, t)
       \/ PullStep(p) \/ StoreCommand(p) \/ StoreStep(p)
  \/ LoseFile /\ UNCHANGED pullVars

PullSpec == PullInit /\ [][PullNext]_allVars

-----------------------------------------------------------------------------
(* Properties.                                                             *)

\* apply records the very bundle that was approved, although it does not look
\* at the cached file's digest: the cache holds nothing else under that name.
AppliedIsApproved ==
  \A p \in Procs :
    command[p] = "stage" =>
      /\ result[p] = target[p]
      /\ \E a \in Assignments : <<a, target[p]>> \in Approved

\* Whatever the commands do, also by rollback and recover, only a bundle that
\* was approved and is valid ever becomes the active deployment.
OnlyApprovedActive ==
  active # None => IsValid(active) /\ \E a \in Assignments : <<a, active>> \in Approved
=============================================================================
