---------------------------- MODULE ClientConfigs ----------------------------
\* config_render.py and codex_app_policy.py: commands that rewrite the configuration of
\* a client (Codex, Claude, ...) and the client's caches of app connectors.  A command is
\* a sequence of jobs, one for each file: read it, back it up, write it.  The client and
\* its user rewrite the same files at any time, and a command may die between two steps.
EXTENDS Naturals, FiniteSets, Sequences, SequencesExt

CONSTANTS MainFile,       \* the client's config_path
          Targets,        \* it and the files --target-path may name
          BackupPaths,    \* the client's further files to back up
          Caches,         \* what the policy's globs match
          BaseName,       \* [file -> the name its backups have after the label]
          UserSettings, Connectors,
          Disabled,       \* the connectors the policy disables
          Labels,         \* labels given with --label, as numbers in the order of names
          LastClientSecond, MaxClientEvents,
          Absent, Empty, Unreadable   \* file contents; Unreadable: half written

ASSUME ClientAssumption ==
    /\ MainFile \in Targets
    /\ BackupPaths \in Seq(Range(BackupPaths)) /\ Caches \in Seq(Range(Caches))
    /\ Labels \subseteq Nat

ClientFiles == Targets \cup Range(BackupPaths) \cup Range(Caches)

VARIABLES clientFiles,    \* [file -> content]
          strict,         \* the configuration is JSON and has to parse, not TOML
          clientSecond,   \* the clock that labels backups; 0 is no label
          clientEvents,   \* how many commands and edits there were
          clientBackups,  \* [<<folder, label, base name>> -> content]
          client,         \* the command that runs: its jobs, with the state of the first
          replaced,       \* history: <<base name, content>> that commands replaced
          relabelled,     \* history: a backup took the name of another, different one
          lastBackup      \* history: what the main file held when last backed up; Absent
                          \* while no backup, or one out of order, is the latest by name

clientVars == <<clientFiles, strict, clientSecond, clientEvents, clientBackups, client,
                replaced, relabelled, lastBackup>>

\* A configuration with its settings and its servers; a cache with its connectors
Holding(keeps, servers) == [keeps |-> keeps, servers |-> servers]
IsText(content) == content \notin {Absent, Empty, Unreadable}

NoClient == [jobs |-> <<>>, phase |-> "none", text |-> Absent, label |-> 0,
             edited |-> FALSE]

ClientInit ==
    /\ clientFiles = [f \in ClientFiles |->
            IF f \in Range(Caches) THEN Holding(Connectors, "none")
            ELSE Holding({CHOOSE s \in UserSettings : TRUE}, "own")]
    /\ strict \in BOOLEAN
    /\ clientSecond = 1
    /\ clientEvents = 0
    /\ clientBackups = [k \in {} |-> Absent]
    /\ client = NoClient
    /\ replaced = {}
    /\ relabelled = FALSE
    /\ lastBackup = Absent

-----------------------------------------------------------------------------
\* Commands

Jobs(files, does) == [i \in DOMAIN files |-> [file |-> files[i], does |-> does]]

\* A policy whose globs match no file changes nothing.
BeginCommand(jobs, label) ==
    /\ client.phase = "none"
    /\ jobs # <<>>
    /\ clientEvents < MaxClientEvents
    /\ clientEvents' = clientEvents + 1
    /\ client' = [NoClient EXCEPT !.jobs = jobs, !.phase = "read", !.label = label]
    /\ UNCHANGED <<clientFiles, strict, clientSecond, clientBackups, replaced, relabelled,
                   lastBackup>>

\* Without --apply a command writes nothing a client reads, and is no step here.
RenderClient(target) == BeginCommand(Jobs(<<target>>, "render") \o Jobs(Caches, "police"), 0)
BackUpClient(label) == BeginCommand(Jobs(<<MainFile>> \o BackupPaths, "save"), label)
ApplyPolicy(label) ==
    BeginCommand(Jobs(Caches, "police"), IF label = 0 THEN clientSecond ELSE label)

\* _latest_backup: by the name, whatever file of that base name it is of
MainBackups == {k \in DOMAIN clientBackups : k[1] = "client" /\ k[3] = BaseName[MainFile]}
EarliestBackup ==
    clientBackups[CHOOSE k \in MainBackups : \A j \in MainBackups : k[2] <= j[2]]
LatestBackup ==
    clientBackups[CHOOSE k \in MainBackups : \A j \in MainBackups : j[2] <= k[2]]

RollBackClient == MainBackups # {} /\ BeginCommand(Jobs(<<MainFile>>, "restore"), 0)

-----------------------------------------------------------------------------
\* Jobs

Job == Head(client.jobs)
Content == clientFiles[Job.file]

\* The broker's entry takes the place of all servers, the other settings stay.
Rendered(content) == Holding(IF IsText(content) THEN content.keeps ELSE {}, "broker")

\* _disable_connectors, _remove_connector_tools
Policed(content) == [content EXCEPT !.keeps = @ \ Disabled]

\* The first job is over.  The policy's label is taken when its first file is.
Over(jobs) ==
    IF jobs = <<>> THEN NoClient
    ELSE [NoClient EXCEPT !.jobs = jobs, !.phase = "read",
             !.label = IF Job.does = "render" THEN clientSecond ELSE client.label]

ReadFile(does, next) ==
    /\ client.phase = "read"
    /\ Job.does = does
    /\ client' = next
    /\ UNCHANGED <<clientFiles, strict, clientSecond, clientEvents, clientBackups, replaced,
                   relabelled, lastBackup>>

ReadToSave == ReadFile("save", [client EXCEPT !.phase = "save"])

ReadBackup == ReadFile("restore", [client EXCEPT !.phase = "write", !.text = LatestBackup])

\* A strict configuration, or a cache, that does not parse raises: what follows is not
\* done.  A cache without a disabled connector is left alone.
ReadToRender ==
    ReadFile("render", IF strict /\ Content = Unreadable THEN NoClient
                       ELSE [client EXCEPT !.phase = "save", !.text = Rendered(Content)])

ReadToPolice ==
    ReadFile("police", IF ~IsText(Content) THEN NoClient
                       ELSE IF Policed(Content) = Content THEN Over(Tail(client.jobs))
                       ELSE [client EXCEPT !.phase = "save", !.text = Policed(Content)])

BackupName ==
    <<IF Job.does = "police" THEN "apps" ELSE "client",
      IF client.label = 0 THEN clientSecond ELSE client.label, BaseName[Job.file]>>

\* A backup is made, whole or, by a command that dies, half written.
SaveAs(content) ==
    /\ clientBackups' = [k \in DOMAIN clientBackups \cup {BackupName} |->
                           IF k = BackupName THEN content ELSE clientBackups[k]]
    /\ relabelled' = (relabelled \/ (BackupName \in DOMAIN clientBackups
                                      /\ clientBackups[BackupName] # content))
    /\ lastBackup' = IF BackupName[1] = "apps" \/ BackupName[3] # BaseName[MainFile]
                     THEN lastBackup
                     ELSE IF Job.file # MainFile \/ content = Unreadable
                             \/ \E k \in MainBackups : k[2] > BackupName[2]
                     THEN Absent ELSE content

\* _backup_path and _backup: a file that is not there has an empty backup.
ToSaveMain == IF clientFiles[MainFile] = Absent THEN Empty ELSE clientFiles[MainFile]
ToSave == IF Content = Absent THEN Empty ELSE Content

SaveFile ==
    /\ client.phase = "save"
    /\ SaveAs(ToSave)
    /\ client' = IF Job.does = "save" THEN Over(Tail(client.jobs))
                 ELSE [client EXCEPT !.phase = "write"]
    /\ UNCHANGED <<clientFiles, strict, clientSecond, clientEvents, replaced>>

\* The text is the one made from what was read.  A rollback is asked to replace what
\* is there, and an edit made after the backup is in none.
Replaced(content) ==
    /\ clientFiles' = [clientFiles EXCEPT ![Job.file] = content]
    /\ replaced' = IF IsText(Content) /\ Content # content /\ Job.does # "restore"
                      /\ ~client.edited
                   THEN replaced \cup {<<BaseName[Job.file], Content>>} ELSE replaced

WriteFile ==
    /\ client.phase = "write"
    /\ Replaced(client.text)
    /\ client' = Over(Tail(client.jobs))
    /\ UNCHANGED <<strict, clientSecond, clientEvents, clientBackups, relabelled,
                   lastBackup>>

-----------------------------------------------------------------------------
\* Environment

ClientCommandDies ==
    /\ client.phase # "none"
    /\ client' = NoClient
    /\ \/ UNCHANGED <<clientFiles, replaced, clientBackups, relabelled, lastBackup>>
       \/ /\ client.phase = "save"
          /\ SaveAs(Unreadable)
          /\ UNCHANGED <<clientFiles, replaced>>
       \/ /\ client.phase = "write"
          /\ Replaced(Unreadable)
          /\ UNCHANGED <<clientBackups, relabelled, lastBackup>>
    /\ UNCHANGED <<strict, clientSecond, clientEvents>>

\* The user edits a configuration or deletes it, the client renews a cache.
UserWrites(f, content) ==
    /\ clientEvents < MaxClientEvents
    /\ clientEvents' = clientEvents + 1
    /\ clientFiles' = [clientFiles EXCEPT ![f] = content]
    /\ client' = IF client.phase = "write" /\ Job.file = f
                 THEN [client EXCEPT !.edited = TRUE] ELSE client
    /\ UNCHANGED <<strict, clientSecond, clientBackups, replaced, relabelled, lastBackup>>

ClientSecondPasses ==
    /\ clientSecond < LastClientSecond
    /\ clientSecond' = clientSecond + 1
    /\ UNCHANGED <<clientFiles, strict, clientEvents, clientBackups, client, replaced,
                   relabelled, lastBackup>>

ClientNext ==
    \/ \E target \in Targets : RenderClient(target)
    \/ \E label \in Labels \cup {0} : BackUpClient(label) \/ ApplyPolicy(label)
    \/ RollBackClient
    \/ ReadToSave \/ ReadBackup \/ ReadToRender \/ ReadToPolice
    \/ SaveFile \/ WriteFile
    \/ ClientCommandDies \/ ClientSecondPasses
    \/ \E f \in Targets :
          \/ UserWrites(f, Absent)
          \/ \E s \in UserSettings : UserWrites(f, Holding({s}, "own"))
    \/ \E f \in Range(Caches) : UserWrites(f, Holding(Connectors, "none"))

ClientSpec == ClientInit /\ [][ClientNext]_clientVars

-----------------------------------------------------------------------------
\* Properties

\* Whatever a command replaced in a client's file is in a backup of that file, also when
\* the command died on the way, unless one backup took the name of another.  An edit made
\* after the backup, and what a rollback is asked to replace, are not in one.
NothingVanishes ==
    relabelled \/ \A r \in replaced :
        \E k \in DOMAIN clientBackups : k[3] = r[1] /\ clientBackups[k] = r[2]

\* A rollback restores what the configuration held when it was last backed up, unless a
\* label is out of order, another file has the same base name, or a backup was cut off.
RollbackRestores == IsText(lastBackup) => LatestBackup = lastBackup

\* Both, of the files of a client.
ClientFilesKept == NothingVanishes /\ RollbackRestores
=============================================================================
