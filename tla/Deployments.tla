----------------------------- MODULE Deployments -----------------------------
(***************************************************************************)
(* The desired-state deployment store of deployments.py: one record file   *)
(* per deployment, the active and the previous pointer, and the commands   *)
(* stage, rollback and recover of its CLI.                                 *)
(*                                                                         *)
(* A command reads the pointers, decides, and then performs its writes one *)
(* by one; nothing excludes a second command, and a command may die        *)
(* between two writes.  A write (_write_json_atomic) is one step here;     *)
(* the .tmp file a crash leaves behind is all that is kept of its inside   *)
(* (DistributedState models the same writer in two steps).  The rollback   *)
(* journal is appended to and never read, and is left out.                 *)
(***************************************************************************)
EXTENDS Naturals, Sequences

CONSTANTS
  Bundles,     \* bundle contents; a deployment id names one
  Procs,       \* the command-line processes
  None,
  MaxFaults    \* bound on commands that die and files that are lost

Commands == {"stage", "rollback", "recover"}

ASSUME DeploymentsAssumption ==
  /\ None \notin Bundles \cup Commands
  /\ MaxFaults \in Nat

VARIABLES
  records,   \* the deployments with a records/<id>.json
  later,     \* pairs of records, the first one with the later mtime
  active,    \* active.json
  previous,  \* previous.json
  partial,   \* a .tmp file lies around
  command,   \* what each process is doing
  plan,      \* the writes its command still has to do
  result,    \* the deployment it will report as active
  faults,
  lost,      \* history: deployments whose record was lost
  solo,      \* history: the running command has run alone since it started
  reported,  \* history: what the last stage or rollback reported, if it ran alone
  attempted, \* history: what commands that died since were activating
  untidy,    \* history: a command died since the last recover() returned
  replaced   \* history: some active deployment has been replaced by another

store == <<records, later, active, previous, partial>>
runVars == <<command, plan, result>>
history == <<lost, solo, reported, attempted, untidy, replaced>>
vars == <<store, runVars, faults, history>>

Files == {"record", "active", "previous"}
Writes == [file : Files, to : Bundles]

TypeOK ==
  /\ records \subseteq Bundles /\ later \subseteq records \X records
  /\ active \in Bundles \cup {None} /\ previous \in Bundles \cup {None}
  /\ partial \in BOOLEAN
  /\ command \in [Procs -> Commands \cup {None}]
  /\ plan \in [Procs -> Seq(Writes)]
  /\ result \in [Procs -> Bundles \cup {None}]
  /\ faults \in 0..MaxFaults
  /\ lost \subseteq Bundles /\ solo \in BOOLEAN
  /\ reported \in Bundles \cup {None} /\ attempted \subseteq Bundles
  /\ untidy \in BOOLEAN /\ replaced \in BOOLEAN

Init ==
  /\ records = {} /\ later = {} /\ active = None /\ previous = None /\ partial = FALSE
  /\ command = [p \in Procs |-> None]
  /\ plan = [p \in Procs |-> <<>>] /\ result = [p \in Procs |-> None]
  /\ faults = 0
  /\ lost = {} /\ solo = TRUE /\ reported = None /\ attempted = {}
  /\ untidy = FALSE /\ replaced = FALSE

Quiet == \A p \in Procs : command[p] = None
Write(file, b) == [file |-> file, to |-> b]

\* The command c of process p has read what it needs: it will do these writes
\* and report b.
Begin(p, c, writes, b) ==
  /\ command[p] = None
  /\ command' = [command EXCEPT ![p] = c]
  /\ plan' = [plan EXCEPT ![p] = writes]
  /\ result' = [result EXCEPT ![p] = b]
  /\ solo' = Quiet
  /\ reported' = IF Quiet THEN reported ELSE None
  /\ UNCHANGED <<records, later, active, previous, faults, lost, attempted, untidy, replaced>>

\* record_deployment: the record before the pointer that names it, then the
\* pointer that was active when the command started.
PointerFirst(b, current) ==
  IF current = None THEN <<Write("active", b), Write("record", b)>>
  ELSE <<Write("active", b), Write("record", b), Write("previous", current)>>
DeployWrites(b, current) ==
  IF current = None THEN <<Write("record", b), Write("active", b)>>
  ELSE <<Write("record", b), Write("active", b), Write("previous", current)>>

Stage(p, b) == Begin(p, "stage", DeployWrites(b, active), b) /\ UNCHANGED partial

\* rollback swaps the pointers; without both of them, or without the record
\* of the previous one, it raises and nothing happens.
Rollback(p) ==
  /\ active # None /\ previous # None /\ previous \in records
  /\ Begin(p, "rollback", <<Write("active", previous), Write("previous", active)>>, previous)
  /\ UNCHANGED partial

\* recover: drop partial files, then replace an active pointer that is missing
\* or names no record by the record with the latest mtime.
NeedsAlways == TRUE
NeedsOnlyPointer == active = None
NeedsRecovery == active \notin records

\* _latest_record_pointer
IsLatest(b) == \A x \in records \ {b} : <<b, x>> \in later

Recover(p) ==
  /\ partial' = FALSE
  /\ \/ /\ NeedsRecovery
        /\ \E b \in records : IsLatest(b) /\ Begin(p, "recover", <<Write("active", b)>>, b)
     \/ /\ ~NeedsRecovery \/ (active = None /\ records = {})
        /\ Begin(p, "recover", <<>>, active)

\* An active pointer but no record at all: recover raises after it removed the
\* partial files.
RecoverRaises(p) ==
  /\ command[p] = None /\ active # None /\ records = {} /\ partial
  /\ partial' = FALSE
  /\ UNCHANGED <<records, later, active, previous, runVars, faults, history>>

-----------------------------------------------------------------------------
\* One _write_json_atomic.  Writing a record again renews its mtime.
DoWrite(p) ==
  /\ command[p] # None /\ plan[p] # <<>>
  /\ LET w == Head(plan[p]) IN
     /\ records' = IF w.file = "record" THEN records \cup {w.to} ELSE records
     /\ later' = IF w.file = "record"
                 THEN {pair \in later : w.to \notin {pair[1], pair[2]}} \cup
                      {<<w.to, x>> : x \in records \ {w.to}}
                 ELSE later
     /\ lost' = IF w.file = "record" THEN lost \ {w.to} ELSE lost
     /\ active' = IF w.file = "active" THEN w.to ELSE active
     /\ replaced' = (replaced \/ (w.file = "active" /\ active \notin {None, w.to}))
     /\ previous' = IF w.file = "previous" THEN w.to ELSE previous
  /\ plan' = [plan EXCEPT ![p] = Tail(@)]
  /\ UNCHANGED <<partial, command, result, faults, solo, reported, attempted, untidy>>

End(p) ==
  /\ command' = [command EXCEPT ![p] = None]
  /\ plan' = [plan EXCEPT ![p] = <<>>]
  /\ result' = [result EXCEPT ![p] = None]

Return(p) ==
  /\ command[p] # None /\ plan[p] = <<>>
  /\ End(p)
  /\ \/ /\ command[p] = "recover"
        /\ untidy' = FALSE
        /\ UNCHANGED <<reported, attempted>>
     \/ /\ command[p] # "recover"
        /\ reported' = IF solo THEN result[p] ELSE None
        /\ attempted' = {}
        /\ UNCHANGED untidy
  /\ UNCHANGED <<store, faults, lost, solo, replaced>>

\* The process dies, perhaps inside a write.
Crash(p) ==
  /\ command[p] # None /\ plan[p] # <<>> /\ faults < MaxFaults
  /\ faults' = faults + 1
  /\ partial' \in {partial, TRUE}
  /\ attempted' = attempted \cup ({result[p]} \ {None})
  /\ untidy' = TRUE
  /\ End(p)
  /\ UNCHANGED <<records, later, active, previous, lost, solo, reported, replaced>>

\* A file is lost or removed by hand while no command runs.  What was reported
\* is then no longer promised.
LoseFile ==
  /\ Quiet /\ faults < MaxFaults
  /\ faults' = faults + 1
  /\ \/ /\ active # None /\ active' = None
        /\ UNCHANGED <<records, later, lost>>
     \/ \E b \in records :
          /\ records' = records \ {b}
          /\ later' = {pair \in later : b \notin {pair[1], pair[2]}}
          /\ lost' = lost \cup {b}
          /\ UNCHANGED active
  /\ reported' = None /\ untidy' = TRUE
  /\ UNCHANGED <<previous, partial, runVars, solo, attempted, replaced>>

Proceed(p) == DoWrite(p) \/ Return(p) \/ Crash(p)

Next ==
  \/ \E p \in Procs :
       \/ \E b \in Bundles : Stage(p, b)
       \/ Rollback(p) \/ Recover(p) \/ RecoverRaises(p) \/ Proceed(p)
  \/ LoseFile

Spec == Init /\ [][Next]_vars

-----------------------------------------------------------------------------
(* Properties.                                                             *)

\* Whatever commands run at once and wherever they die, a pointer names a
\* deployment whose record is on disk, unless that record was lost.
PointersResolve ==
  \A b \in {active, previous} \ {None} : b \in records \cup lost

\* What a stage or rollback that ran alone reported as active stays active,
\* whatever later commands died half-way and however recover() tidied up after
\* them, but for what those commands were activating.
ReportedSurvives ==
  Quiet /\ reported # None => active \in {reported} \cup attempted

\* When a recover() that ran alone returns, the active pointer resolves.
RecoveredResolves ==
  [][\A p \in Procs :
       command[p] = "recover" /\ solo /\ command'[p] = None /\ ~untidy' =>
         active \in records \cup {None}]_vars

\* Once a deployment replaced another one, and recover() has tidied up after
\* commands that died, there is a previous deployment to roll back to.
RollbackTarget ==
  Quiet /\ ~untidy /\ active # None /\ replaced => previous # None
=============================================================================
