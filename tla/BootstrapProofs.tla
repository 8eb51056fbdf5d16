-------------------------- MODULE BootstrapProofs --------------------------
(* For any plans and runtimes and whichever step a command dies in: what    *)
(* the active pointer names can be started (or is in the gap of a           *)
(* promotion), the way back is kept, and `status` tells the truth.          *)
EXTENDS BootstrapTransactions, TLAPS

Commands ==
  [at : {"idle", "extract", "smoke", "clear", "move", "manifest", "keep", "point",
         "swap", "store", "unlink", "record", "latest", "journal"},
   id : [op : {"none", "apply", "rollback", "uninstall"}, of : Plans \cup Pointers],
   before : Pointers, to : Pointers,
   status : {"none", "applied", "failed", "rolled_back", "uninstalled"}]

\* Shapes; every manifest names a directory that exists or was cleared by a
\* promotion; every pointer in use, and every one about to be, has a manifest.
LaunchInv ==
  /\ command \in Commands
  /\ manifest \in [Runtimes -> Plans \cup {NoRuntime}]
  /\ activeRuntime \in Pointers /\ previousRuntime \in Pointers /\ launch \in Pointers
  /\ \A r \in Runtimes : manifest[r] # NoRuntime => manifest[r] \in unpacked \cup torn
  /\ activeRuntime # NoRuntime => manifest[activeRuntime] # NoRuntime
  /\ launch # NoRuntime => manifest[launch] # NoRuntime
  /\ command.at \in {"extract", "smoke", "clear", "move", "manifest"} =>
       command.id.of \in Plans /\ command.to \in Runtimes
  /\ command.at = "manifest" => command.id.of \in unpacked \cup torn
  /\ command.at \in {"keep", "point", "swap"} =>
       command.to \in Runtimes /\ manifest[command.to] # NoRuntime

LEMMA LaunchInvInit == BootstrapInit => LaunchInv
  BY BootstrapAssumption DEF BootstrapInit, LaunchInv, Commands, Waiting, NoPlan, Pointers

LEMMA LaunchInvStep == LaunchInv /\ [BootstrapNext]_bootstrapVars => LaunchInv'
<1> SUFFICES ASSUME LaunchInv, [BootstrapNext]_bootstrapVars PROVE LaunchInv'
  OBVIOUS
<1> USE BootstrapAssumption
<1>1. ASSUME NEW p \in Plans, Apply(p) PROVE LaunchInv'
  <2>1. /\ command' = [at |-> "extract", id |-> [op |-> "apply", of |-> p], before |-> activeRuntime,
                       to |-> RuntimeOf[p], status |-> "none"]
        /\ RuntimeOf[p] \in Runtimes
        /\ UNCHANGED <<manifest, activeRuntime, previousRuntime, launch, unpacked, torn>>
    BY <1>1 DEF Apply, Id, bootstrapFiles
  <2>2. command' \in Commands
    BY <2>1 DEF LaunchInv, Commands, Pointers
  <2> QED
    BY <2>1, <2>2 DEF LaunchInv
<1>2. CASE Extract \/ Smoke
  <2>1. /\ command' \in Commands
        /\ \/ command'.at = "clear" /\ command.at = "smoke"
           \/ command'.at = "smoke" /\ command.at = "extract"
           \/ command'.at = "record" \/ command'.at = "idle"
        /\ command'.at \in {"clear", "smoke"} => command'.id = command.id /\ command'.to = command.to
    <3>1. CASE Extract
      BY <3>1 DEF Extract, Go, LaunchInv, Commands, Waiting, NoPlan, Pointers
    <3>2. CASE Smoke
      BY <3>2 DEF Smoke, SmokeFails, Go, LaunchInv, Commands
    <3> QED
      BY <1>2, <3>1, <3>2
  <2>2. UNCHANGED <<manifest, activeRuntime, previousRuntime, launch, unpacked, torn>>
    BY <1>2 DEF Extract, Smoke, bootstrapFiles
  <2> QED
    BY <2>1, <2>2 DEF LaunchInv
<1>3. CASE ClearDestination
  <2>1. /\ command' \in Commands /\ command'.at = "move"
        /\ command'.id = command.id /\ command'.to = command.to /\ command.at = "clear"
    BY <1>3 DEF ClearDestination, Go, LaunchInv, Commands
  <2>2. (unpacked \cup torn)' = unpacked \cup torn
    BY <1>3 DEF ClearDestination
  <2> QED
    BY <1>3, <2>1, <2>2 DEF ClearDestination, LaunchInv
<1>4. CASE MoveCandidate
  <2>1. /\ command' \in Commands /\ command'.at = "manifest"
        /\ command'.id = command.id /\ command'.to = command.to /\ command.at = "move"
    BY <1>4 DEF MoveCandidate, Go, LaunchInv, Commands
  <2>2. (unpacked \cup torn)' = unpacked \cup torn \cup {command.id.of}
    BY <1>4 DEF MoveCandidate
  <2> QED
    BY <1>4, <2>1, <2>2 DEF MoveCandidate, LaunchInv
<1>5. CASE WriteManifest
  <2>1. /\ command' \in Commands /\ command'.at = "keep" /\ command'.to = command.to
        /\ command.to \in Runtimes /\ command.id.of \in Plans
        /\ command.id.of \in unpacked \cup torn
    BY <1>5 DEF WriteManifest, LaunchInv, Commands
  <2>2. /\ manifest' \in [Runtimes -> Plans \cup {NoRuntime}]
        /\ \A r \in Runtimes : manifest'[r] = IF r = command.to THEN command.id.of ELSE manifest[r]
    BY <1>5, <2>1 DEF WriteManifest, LaunchInv
  <2>3. UNCHANGED <<activeRuntime, previousRuntime, launch, unpacked, torn>>
    BY <1>5 DEF WriteManifest
  <2> QED
    BY <2>1, <2>2, <2>3 DEF LaunchInv, Pointers
<1>6. CASE KeepPrevious
  <2>1. /\ command' \in Commands /\ command'.at = "point" /\ command'.to = command.to
        /\ command.at = "keep"
    BY <1>6 DEF KeepPrevious, Go, LaunchInv, Commands
  <2> QED
    BY <1>6, <2>1 DEF KeepPrevious, LaunchInv
<1>7. CASE PointToRuntime \/ SwapActive
  <2>1. /\ command' \in Commands /\ command'.at \in {"record", "store"}
        /\ command.at \in {"point", "swap"}
        /\ activeRuntime' = command.to
        /\ UNCHANGED <<manifest, previousRuntime, launch, unpacked, torn>>
    BY <1>7 DEF PointToRuntime, SwapActive, Go, LaunchInv, Commands
  <2> QED
    BY <2>1 DEF LaunchInv, Pointers
<1>8. CASE RollbackRuntime
  <2>1. /\ command' \in Commands /\ command'.at = "swap" /\ command'.to = previousRuntime
        /\ previousRuntime # NoRuntime /\ manifest[previousRuntime] # NoRuntime
        /\ UNCHANGED <<manifest, activeRuntime, previousRuntime, launch, unpacked, torn>>
    BY <1>8 DEF RollbackRuntime, Runnable, Id, LaunchInv, Commands, Pointers, bootstrapFiles
  <2> QED
    BY <2>1 DEF LaunchInv, Pointers
<1>9. CASE Uninstall \/ UnlinkActive \/ StorePrevious \/ WriteRecord \/ WriteLatest
           \/ JournalTransaction \/ CommandDies
  <2>1. /\ command' \in Commands
        /\ command'.at \in {"record", "unlink", "store", "latest", "journal", "idle"}
    <3>1. CASE Uninstall
      BY <3>1 DEF Uninstall, LaunchInv, Commands, Pointers, Id
    <3>2. CASE UnlinkActive \/ StorePrevious \/ WriteRecord \/ WriteLatest
      BY <3>2 DEF UnlinkActive, StorePrevious, WriteRecord, WriteLatest, Go, LaunchInv, Commands
    <3>3. CASE JournalTransaction \/ CommandDies
      <4>1. Waiting \in Commands /\ Waiting.at = "idle"
        BY DEF Commands, Waiting, NoPlan, Pointers
      <4>2. command' = Waiting
        BY <3>3 DEF JournalTransaction, CommandDies
      <4> QED
        BY <4>1, <4>2
    <3> QED
      BY <1>9, <3>1, <3>2, <3>3
  <2>2. /\ activeRuntime' \in {activeRuntime, NoRuntime}
        /\ previousRuntime' \in {previousRuntime, command.before}
        /\ UNCHANGED <<manifest, launch, unpacked, torn>>
    BY <1>9 DEF Uninstall, UnlinkActive, StorePrevious, WriteRecord, WriteLatest, JournalTransaction,
                CommandDies, bootstrapFiles
  <2>3. command.before \in Pointers
    BY DEF LaunchInv, Commands
  <2> QED
    BY <2>1, <2>2, <2>3 DEF LaunchInv, Pointers
<1>10. CASE ReadActivePointer \/ LaunchOrFail
  <2>1. /\ launch' \in {activeRuntime, NoRuntime}
        /\ UNCHANGED <<command, manifest, activeRuntime, previousRuntime, unpacked, torn>>
    BY <1>10 DEF ReadActivePointer, LaunchOrFail, bootstrapFiles
  <2> QED
    BY <2>1 DEF LaunchInv, Pointers
<1>11. CASE UNCHANGED bootstrapVars
  BY <1>11 DEF LaunchInv, bootstrapVars, bootstrapFiles
<1> QED
  BY <1>1, <1>2, <1>3, <1>4, <1>5, <1>6, <1>7, <1>8, <1>9, <1>10, <1>11 DEF BootstrapNext

\* Whatever the active pointer names, and whatever a launcher has read from it,
\* has a manifest and a runtime directory, or a promotion of that plan emptied
\* the directory and has not filled it again (record_installed_runtime,
\* _promote_verified_runtime, rollback, ActiveRuntimeLauncher).
THEOREM PointersLaunch == BootstrapSpec => []ActiveLaunches
<1>1. LaunchInv => ActiveLaunches
  BY DEF LaunchInv, ActiveLaunches, Pointers, Runnable
<1> QED
  BY <1>1, LaunchInvInit, LaunchInvStep, PTL DEF BootstrapSpec

------------------------------------------------------------------------------
(* What a command knows of the pointers and of the records.                *)

BeforePointer == {"extract", "smoke", "clear", "move", "manifest", "keep", "point", "swap", "unlink"}
AfterPointer == {"store", "record", "latest"}

\* What a record says, if there is a transaction to tell of.
Says(i, r) == i # NoPlan => records[i].active = r

\* Before a command changes the active pointer it knows what that is, and keeps
\* it in the previous one or for it; afterwards it knows both, and the records
\* lag behind until it has written its own.
RecordInv ==
  /\ command.at \in BeforePointer => command.before = activeRuntime
  /\ command.at = "point" /\ activeRuntime # NoRuntime => previousRuntime = activeRuntime
  /\ command.at = "unlink" => command.to = NoRuntime
  /\ command.at \in AfterPointer => command.to = activeRuntime
  /\ latest # NoPlan => latest \in DOMAIN records
  /\ command.at = "latest" =>
       command.id \in DOMAIN records /\ records[command.id].active = command.to
  /\ ~unrecorded =>
       /\ command.at \notin AfterPointer => Says(latest, activeRuntime)
       /\ command.at \in AfterPointer /\ ~(command.at = "latest" /\ latest = command.id) =>
            Says(latest, command.before)

LEMMA RecordInvInit == BootstrapInit => RecordInv
  BY DEF BootstrapInit, RecordInv, Waiting, BeforePointer, AfterPointer, Says

LEMMA RecordInvStep == LaunchInv /\ RecordInv /\ [BootstrapNext]_bootstrapVars => RecordInv'
<1> SUFFICES ASSUME LaunchInv, RecordInv, [BootstrapNext]_bootstrapVars PROVE RecordInv'
  OBVIOUS
<1> USE DEF BeforePointer, AfterPointer, Says
<1>0. command \in Commands
  BY DEF LaunchInv
\* A step of a command that keeps the files but for the runtimes, before it
\* changes the active pointer.
<1>1. ASSUME UNCHANGED <<activeRuntime, records, latest, unrecorded>>,
             command.at \notin AfterPointer,
             \/ command'.at = "idle" \/ command'.at = "journal"
             \/ /\ command'.at \in BeforePointer /\ command'.before = activeRuntime
                /\ command'.at = "point" /\ activeRuntime # NoRuntime =>
                     previousRuntime' = activeRuntime
                /\ command'.at = "unlink" => command'.to = NoRuntime
             \/ /\ command'.at = "record" /\ command'.before = activeRuntime
                /\ command'.to = activeRuntime
      PROVE  RecordInv'
  BY <1>1 DEF RecordInv
<1>2. CASE \E p \in Plans : Apply(p)
  BY <1>1, <1>2 DEF Apply, bootstrapFiles
<1>3. CASE Extract \/ Smoke
  <2>1. UNCHANGED <<activeRuntime, records, latest, unrecorded>> /\ command.at \in {"extract", "smoke"}
    BY <1>3 DEF Extract, Smoke, bootstrapFiles
  <2>2. command.before = activeRuntime
    BY <2>1 DEF RecordInv
  <2>3. \/ command'.at = "idle"
        \/ command'.at \in {"smoke", "clear"} /\ command'.before = command.before
        \/ command'.at = "record" /\ command'.before = command.before /\ command'.to = command.before
    <3>1. CASE Extract
      BY <1>0, <3>1 DEF Extract, Go, Waiting, Commands
    <3>2. CASE Smoke
      BY <1>0, <3>2 DEF Smoke, SmokeFails, Go, Commands
    <3> QED BY <1>3, <3>1, <3>2
  <2> QED BY <1>1, <2>1, <2>2, <2>3
<1>4. CASE ClearDestination \/ MoveCandidate \/ WriteManifest
  <2>1. UNCHANGED <<activeRuntime, records, latest, unrecorded>>
        /\ command.at \in {"clear", "move", "manifest"}
    BY <1>4 DEF ClearDestination, MoveCandidate, WriteManifest
  <2>2. command'.at \in {"move", "manifest", "keep"} /\ command'.before = command.before
    BY <1>0, <1>4 DEF ClearDestination, MoveCandidate, WriteManifest, Go, Commands
  <2> QED BY <1>1, <2>1, <2>2 DEF RecordInv
<1>5. CASE KeepPrevious
  <2>1. UNCHANGED <<activeRuntime, records, latest, unrecorded>> /\ command.at = "keep"
        /\ (activeRuntime # NoRuntime => previousRuntime' = activeRuntime)
    BY <1>5 DEF KeepPrevious
  <2>2. command'.at = "point" /\ command'.before = command.before
    BY <1>0, <1>5 DEF KeepPrevious, Go, Commands
  <2> QED BY <1>1, <2>1, <2>2 DEF RecordInv
<1>6. CASE PointToRuntime \/ SwapActive \/ UnlinkActive
  <2>1. /\ command.at \in {"point", "swap", "unlink"}
        /\ command'.at \in {"record", "store"} /\ command'.before = command.before
        /\ command'.to = command.to /\ command'.id = command.id
        /\ UNCHANGED <<records, latest, unrecorded>>
    BY <1>0, <1>6 DEF PointToRuntime, SwapActive, UnlinkActive, Go, Commands
  <2>2. activeRuntime' = command.to
    BY <1>6 DEF PointToRuntime, SwapActive, UnlinkActive, RecordInv, LaunchInv
  <2> QED BY <2>1, <2>2 DEF RecordInv
<1>7. CASE RollbackRuntime \/ Uninstall
  BY <1>1, <1>7 DEF RollbackRuntime, Uninstall, bootstrapFiles
<1>8. CASE StorePrevious
  <2>1. /\ command.at = "store" /\ command'.at = "record"
        /\ command'.before = command.before /\ command'.to = command.to /\ command'.id = command.id
        /\ UNCHANGED <<activeRuntime, records, latest, unrecorded>>
    BY <1>0, <1>8 DEF StorePrevious, Go, Commands
  <2> QED BY <2>1 DEF RecordInv
<1>9. CASE WriteRecord
  <2>1. /\ command.at = "record" /\ command'.at = "latest"
        /\ command'.before = command.before /\ command'.to = command.to /\ command'.id = command.id
        /\ UNCHANGED <<activeRuntime, latest, unrecorded>>
    BY <1>0, <1>9 DEF WriteRecord, Go, Commands
  <2>2. /\ DOMAIN records' = (DOMAIN records \cap {latest}) \cup {command.id}
        /\ records'[command.id].active = command.to
        /\ latest \in DOMAIN records /\ latest # command.id => records'[latest] = records[latest]
    BY <1>9 DEF WriteRecord, Outcome
  <2> QED BY <2>1, <2>2 DEF RecordInv
<1>10. CASE WriteLatest
  <2>1. /\ command.at = "latest" /\ command'.at = "journal" /\ latest' = command.id
        /\ UNCHANGED <<activeRuntime, records>>
    BY <1>0, <1>10 DEF WriteLatest, Go, Commands
  <2> QED BY <2>1 DEF RecordInv
<1>11. CASE JournalTransaction
  BY <1>1, <1>11 DEF JournalTransaction, bootstrapFiles, Waiting
<1>12. CASE CommandDies
  <2>1. command'.at = "idle" /\ UNCHANGED <<activeRuntime, records, latest>>
    BY <1>12 DEF CommandDies, bootstrapFiles, Waiting
  <2>2. ~unrecorded' => ~unrecorded /\ (command.at \in AfterPointer => command.to = command.before)
    BY <1>12 DEF CommandDies
  <2>3. ~unrecorded' => Says(latest, activeRuntime)
    BY <2>2 DEF RecordInv
  <2> QED BY <2>1, <2>3 DEF RecordInv
<1>13. CASE ReadActivePointer \/ LaunchOrFail \/ UNCHANGED bootstrapVars
  BY <1>13 DEF ReadActivePointer, LaunchOrFail, bootstrapVars, bootstrapFiles, RecordInv
<1> QED BY <1>2, <1>3, <1>4, <1>5, <1>6, <1>7, <1>8, <1>9, <1>10, <1>11, <1>12, <1>13
        DEF BootstrapNext

\* `status` finds the record latest.json names, and between commands that
\* record tells the active pointer, unless a command died after it had changed
\* the pointer and before latest.json (_record_transaction).
THEOREM StatusIsRight == BootstrapSpec => []StatusTellsActive
<1>1. RecordInv => StatusTellsActive
  BY DEF RecordInv, StatusTellsActive, AfterPointer, Says
<1> QED
  BY <1>1, LaunchInvInit, LaunchInvStep, RecordInvInit, RecordInvStep, PTL DEF BootstrapSpec

\* A runtime ceases to be active when it is the previous one already, or while
\* the command that replaces it is about to make it so (record_installed_runtime,
\* rollback, uninstall).
THEOREM WayBack == BootstrapSpec => WayBackIsKept
<1>1. LaunchInv /\ RecordInv /\ [BootstrapNext]_bootstrapVars =>
        [activeRuntime # NoRuntime /\ activeRuntime' # activeRuntime =>
           \/ previousRuntime' = activeRuntime
           \/ command'.at = "store" /\ command'.before = activeRuntime]_bootstrapVars
  <2> SUFFICES ASSUME LaunchInv, RecordInv, BootstrapNext,
                      activeRuntime # NoRuntime, activeRuntime' # activeRuntime
               PROVE  \/ previousRuntime' = activeRuntime
                      \/ command'.at = "store" /\ command'.before = activeRuntime
    OBVIOUS
  <2>1. PointToRuntime \/ SwapActive \/ UnlinkActive
    BY DEF BootstrapNext, Apply, Extract, Smoke, ClearDestination, MoveCandidate, WriteManifest,
           KeepPrevious, RollbackRuntime, Uninstall, StorePrevious, WriteRecord, WriteLatest,
           JournalTransaction, CommandDies, ReadActivePointer, LaunchOrFail, bootstrapFiles
  <2>2. CASE PointToRuntime
    BY <2>2 DEF PointToRuntime, RecordInv
  <2>3. CASE SwapActive \/ UnlinkActive
    <3>1. command'.at = "store" /\ command'.before = command.before
      BY <2>3 DEF SwapActive, UnlinkActive, Go, LaunchInv, Commands
    <3>2. command.before = activeRuntime
      BY <2>3 DEF SwapActive, UnlinkActive, RecordInv, BeforePointer
    <3> QED BY <3>1, <3>2
  <2> QED BY <2>1, <2>2, <2>3
<1> QED
  BY <1>1, LaunchInvInit, LaunchInvStep, RecordInvInit, RecordInvStep, PTL
  DEF BootstrapSpec, WayBackIsKept
=============================================================================
