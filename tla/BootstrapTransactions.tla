----------------------- MODULE BootstrapTransactions -----------------------
(***************************************************************************)
(* Installing, rolling back and removing the broker's own runtime          *)
(* (bootstrap_transactions.py, runtime_install.py), one command at a time, *)
(* with every file it writes and removes in the order of the code, so that *)
(* a command may die between any two of them; and the launcher that reads  *)
(* the same files at any moment (runtime_launcher.py).                     *)
(*                                                                         *)
(* A plan is what a metadata file describes: its transaction id hashes all *)
(* of it, its runtime id only the version and the digest, so several plans *)
(* may share a runtime, one manifest and one pointer value.                *)
(***************************************************************************)
EXTENDS Naturals

CONSTANTS
  Plans,      \* verified metadata files, that is, transaction ids of apply
  Runtimes,   \* runtime ids
  NoRuntime,
  RuntimeOf   \* the runtime id of a plan

ASSUME BootstrapAssumption ==
  NoRuntime \notin Runtimes \cup Plans /\ RuntimeOf \in [Plans -> Runtimes]

VARIABLES
  unpacked,        \* extracted-runtimes/<transaction_id> holds a runtime
  manifest,        \* the plan whose directory a runtime's manifest names
  activeRuntime,   \* active-runtime.json
  previousRuntime, \* previous-runtime.json
  records,         \* the transaction records
  latest,          \* latest.json
  command,         \* the running command: its next step and what it has read
  launch,          \* the runtime id the launcher has read, if it is under way
  torn,            \* plans whose directory a promotion has removed and not replaced
  unrecorded       \* a command died after it had changed the active pointer

bootstrapFiles == <<unpacked, manifest, activeRuntime, previousRuntime, records, latest>>
bootstrapVars  == <<bootstrapFiles, command, launch, torn, unrecorded>>

Pointers == Runtimes \cup {NoRuntime}
NoPlan   == [op |-> "none", of |-> NoRuntime]
Id(op, x) == [op |-> op, of |-> x]
Ids == [op : {"apply"}, of : Plans] \cup [op : {"rollback", "uninstall"}, of : Pointers]
Outcome(status, now) == [status |-> status, active |-> now]

Waiting == [at |-> "idle", id |-> NoPlan, before |-> NoRuntime, to |-> NoRuntime, status |-> "none"]

BootstrapTypeOK ==
  /\ unpacked \subseteq Plans /\ torn \subseteq Plans
  /\ manifest \in [Runtimes -> Plans \cup {NoRuntime}]
  /\ activeRuntime \in Pointers /\ previousRuntime \in Pointers /\ launch \in Pointers
  /\ DOMAIN records \subseteq Ids /\ latest \in Ids \cup {NoPlan}
  /\ \A i \in DOMAIN records :
       records[i] \in [status : {"applied", "failed", "rolled_back", "uninstalled"},
                       active : Pointers]
  /\ command.at \in {"idle", "extract", "smoke", "clear", "move", "manifest", "keep", "point",
                     "swap", "store", "unlink", "record", "latest", "journal"}
  /\ command.before \in Pointers /\ command.to \in Pointers
  /\ unrecorded \in BOOLEAN

BootstrapInit ==
  /\ unpacked = {} /\ torn = {}
  /\ manifest = [r \in Runtimes |-> NoRuntime]
  /\ activeRuntime = NoRuntime /\ previousRuntime = NoRuntime /\ launch = NoRuntime
  /\ records = [i \in {} |-> Outcome("none", NoRuntime)] /\ latest = NoPlan
  /\ command = Waiting /\ unrecorded = FALSE

\* What _validate_runtime_pointer and the launcher require of a runtime id.
Runnable(r) == manifest[r] # NoRuntime /\ manifest[r] \in unpacked

\* The steps of apply() and the other commands follow one another.
Go(step) == command' = [command EXCEPT !.at = step]

------------------------------------------------------------------------------
(* apply()                                                                 *)

\* Approval given and the metadata verified; the active pointer is read first.
Apply(p) ==
  /\ command.at = "idle"
  /\ command' = [at |-> "extract", id |-> Id("apply", p), before |-> activeRuntime,
                 to |-> RuntimeOf[p], status |-> "none"]
  /\ UNCHANGED <<bootstrapFiles, launch, torn, unrecorded>>

\* Unpack into a fresh candidate directory, which nobody else ever reads; an
\* archive that cannot be unpacked or has no entry point raises.
Extract ==
  /\ command.at = "extract"
  /\ Go("smoke") \/ command' = Waiting
  /\ UNCHANGED <<bootstrapFiles, launch, torn, unrecorded>>

SmokeFailsAnyway ==
  command' = [command EXCEPT !.at = "record", !.status = "failed"]

SmokeFails ==
  command' = [command EXCEPT !.at = "record", !.to = command.before, !.status = "failed"]

SmokeSkipsPromotion ==
  /\ command.at = "smoke" /\ Go("manifest")
  /\ UNCHANGED <<bootstrapFiles, launch, torn, unrecorded>>

\* The candidate's --help runs; if it fails the candidate is removed and the
\* failure recorded, the pointers stay.
Smoke ==
  /\ command.at = "smoke"
  /\ \/ Go("clear")
     \/ SmokeFails
  /\ UNCHANGED <<bootstrapFiles, launch, torn, unrecorded>>

\* _promote_verified_runtime: empty the destination, then move the candidate.
ClearDestination ==
  /\ command.at = "clear"
  /\ unpacked' = unpacked \ {command.id.of}
  /\ torn' = torn \cup (unpacked \cap {command.id.of})
  /\ Go("move")
  /\ UNCHANGED <<manifest, activeRuntime, previousRuntime, records, latest, launch, unrecorded>>

MoveCandidate ==
  /\ command.at = "move"
  /\ unpacked' = unpacked \cup {command.id.of}
  /\ torn' = torn \ {command.id.of}
  /\ Go("manifest")
  /\ UNCHANGED <<manifest, activeRuntime, previousRuntime, records, latest, launch, unrecorded>>

\* record_installed_runtime: manifest, previous pointer, active pointer.
WriteManifest ==
  /\ command.at = "manifest"
  /\ manifest' = [manifest EXCEPT ![command.to] = command.id.of]
  /\ command' = [command EXCEPT !.at = "keep", !.status = "applied"]
  /\ UNCHANGED <<unpacked, activeRuntime, previousRuntime, records, latest, launch, torn, unrecorded>>

KeepPreviousOnce ==
  /\ command.at = "keep"
  /\ previousRuntime' = IF previousRuntime = NoRuntime THEN activeRuntime ELSE previousRuntime
  /\ Go("point")
  /\ UNCHANGED <<unpacked, manifest, activeRuntime, records, latest, launch, torn, unrecorded>>

KeepPrevious ==
  /\ command.at = "keep"
  /\ previousRuntime' = IF activeRuntime = NoRuntime THEN previousRuntime ELSE activeRuntime
  /\ Go("point")
  /\ UNCHANGED <<unpacked, manifest, activeRuntime, records, latest, launch, torn, unrecorded>>

PointToRuntime ==
  /\ command.at = "point"
  /\ activeRuntime' = command.to
  /\ Go("record")
  /\ UNCHANGED <<unpacked, manifest, previousRuntime, records, latest, launch, torn, unrecorded>>

------------------------------------------------------------------------------
(* rollback(), uninstall() and _record_transaction()                       *)

RollbackRuntime ==
  /\ command.at = "idle"
  /\ activeRuntime # NoRuntime /\ previousRuntime # NoRuntime /\ Runnable(previousRuntime)
  /\ command' = [at |-> "swap", id |-> Id("rollback", previousRuntime), before |-> activeRuntime,
                 to |-> previousRuntime, status |-> "rolled_back"]
  /\ UNCHANGED <<bootstrapFiles, launch, torn, unrecorded>>

SwapActive ==
  /\ command.at = "swap"
  /\ activeRuntime' = command.to
  /\ Go("store")
  /\ UNCHANGED <<unpacked, manifest, previousRuntime, records, latest, launch, torn, unrecorded>>

Uninstall ==
  /\ command.at = "idle"
  /\ command' = [at |-> IF activeRuntime = NoRuntime THEN "record" ELSE "unlink",
                 id |-> Id("uninstall", activeRuntime), before |-> activeRuntime,
                 to |-> NoRuntime, status |-> "uninstalled"]
  /\ UNCHANGED <<bootstrapFiles, launch, torn, unrecorded>>

UnlinkActive ==
  /\ command.at = "unlink"
  /\ activeRuntime' = NoRuntime
  /\ Go("store")
  /\ UNCHANGED <<unpacked, manifest, previousRuntime, records, latest, launch, torn, unrecorded>>

StorePrevious ==
  /\ command.at = "store"
  /\ previousRuntime' = command.before
  /\ Go("record")
  /\ UNCHANGED <<unpacked, manifest, activeRuntime, records, latest, launch, torn, unrecorded>>

\* Bound: of the older records only the one latest.json names is kept here, no
\* other is ever read again.
WriteRecord ==
  /\ command.at = "record"
  /\ records' = [i \in (DOMAIN records \cap {latest}) \cup {command.id} |->
                   IF i = command.id THEN Outcome(command.status, command.to) ELSE records[i]]
  /\ Go("latest")
  /\ UNCHANGED <<unpacked, manifest, activeRuntime, previousRuntime, latest, launch, torn,
                 unrecorded>>

WriteLatest ==
  /\ command.at = "latest"
  /\ latest' = command.id
  /\ unrecorded' = FALSE
  /\ Go("journal")
  /\ UNCHANGED <<unpacked, manifest, activeRuntime, previousRuntime, records, launch, torn>>

JournalTransaction ==
  /\ command.at = "journal"
  /\ command' = Waiting
  /\ UNCHANGED <<bootstrapFiles, launch, torn, unrecorded>>

\* The command is killed, or a write fails.
CommandDies ==
  /\ command.at # "idle"
  /\ unrecorded' = (\/ unrecorded
                     \/ /\ command.at \in {"store", "record", "latest"}
                        /\ command.to # command.before)
  /\ command' = Waiting
  /\ UNCHANGED <<bootstrapFiles, launch, torn>>

------------------------------------------------------------------------------
(* ActiveRuntimeLauncher.launch_plan(), in a process of its own.           *)

ReadActivePointer ==
  /\ launch = NoRuntime /\ activeRuntime # NoRuntime
  /\ launch' = activeRuntime
  /\ UNCHANGED <<bootstrapFiles, command, torn, unrecorded>>

\* It starts the runtime or ends with an error.
LaunchOrFail ==
  /\ launch # NoRuntime
  /\ launch' = NoRuntime
  /\ UNCHANGED <<bootstrapFiles, command, torn, unrecorded>>

BootstrapNext ==
  \/ \E p \in Plans : Apply(p)
  \/ Extract \/ Smoke \/ ClearDestination \/ MoveCandidate
  \/ WriteManifest \/ KeepPrevious \/ PointToRuntime
  \/ RollbackRuntime \/ SwapActive \/ Uninstall \/ UnlinkActive \/ StorePrevious
  \/ WriteRecord \/ WriteLatest \/ JournalTransaction \/ CommandDies
  \/ ReadActivePointer \/ LaunchOrFail

BootstrapSpec == BootstrapInit /\ [][BootstrapNext]_bootstrapVars

------------------------------------------------------------------------------
(* Properties.                                                             *)

\* What the active pointer names, and what a launcher has read from it, can be
\* started, unless a later promotion of the very plan in its manifest is between
\* emptying the directory and moving the candidate there, or died between them.
ActiveLaunches ==
  \A r \in {activeRuntime, launch} \ {NoRuntime} :
    /\ manifest[r] # NoRuntime
    /\ Runnable(r) \/ manifest[r] \in torn

\* A runtime that ceases to be active is the previous one at that moment, or the
\* command that replaced it still holds it: only its death loses the way back.
WayBackIsKept ==
  [][activeRuntime # NoRuntime /\ activeRuntime' # activeRuntime =>
       \/ previousRuntime' = activeRuntime
       \/ command'.at = "store" /\ command'.before = activeRuntime]_bootstrapVars

\* `status` can read the transaction it names, and between commands that
\* transaction tells what the active pointer is, unless a command has died
\* between the pointers and latest.json.
StatusTellsActive ==
  /\ latest # NoPlan => latest \in DOMAIN records
  /\ latest # NoPlan /\ command.at = "idle" /\ ~unrecorded =>
       records[latest].active = activeRuntime
=============================================================================
