---------------------------- MODULE ProjectImport ----------------------------
\* project_mcp.py: MCP servers that projects declare for themselves are moved into the
\* broker's configuration.  A command scans the project files, appends the servers the
\* broker lacks to its configuration, and empties every entry whose servers are all
\* covered, after a backup of its file.  A .mcp.json file is one entry; the Claude
\* configuration is one file with an entry for each project.
EXTENDS Naturals, FiniteSets, Sequences, SequencesExt

CONSTANTS ProjectEntries, \* in the order of the scan
          PathOf,         \* [entry -> the file it is in]
          ClaudePath,     \* the file with several entries
          Servers,        \* names of servers
          Convertible,    \* pairs <<entry, server>> that have an upstream form
          Profiled,       \* servers whose upstream section the configuration accepts
          MaxProjectEdits, LastImportSecond

ASSUME ImportAssumption == ProjectEntries \in Seq(Range(ProjectEntries))

EntryNames == Range(ProjectEntries)
EntriesOf(path) == {e \in EntryNames : PathOf[e] = path}
NoProject == {"no project"}
Declared(servers) == IF servers = NoProject THEN {} ELSE servers

VARIABLES declares,       \* [entry -> names of its servers; NoProject: it has gone]
          torn,           \* files a command left half written
          brokerConfig,   \* the names its upstreams cover, whether it loads, and its
                          \* key "upstreams:": alone on a line, commented or twice
          projectEdits,   \* how often a project's servers were changed
          importSecond,   \* the clock that names backups
          importBackups,  \* [<<second, file>> -> what each entry of the file declared]
          import,         \* the command that runs
          emptied,        \* history: the <<entry, server>> that commands emptied
          halfWritten,    \* history: those in files left half written
          backupReplaced  \* history: one backup took the name of another

clockVars == <<projectEdits, importSecond>>
backupVars == <<importBackups, backupReplaced>>
historyVars == <<emptied, halfWritten>>
importVars == <<declares, torn, brokerConfig, import, clockVars, backupVars, historyVars>>

NoImport == [phase |-> "none", scanned |-> [e \in EntryNames |-> {}], missing |-> {},
             original |-> {}, todo |-> {}, saved |-> {}, edited |-> {}]

ImportInit ==
    /\ declares \in [EntryNames -> SUBSET Servers]
    /\ brokerConfig \in [covers : {{}, Profiled}, loads : {TRUE}, key : {"alone"}]
                        \cup [covers : {Profiled}, loads : {TRUE}, key : {"commented"}]
    /\ torn = {}
    /\ projectEdits = 0
    /\ importSecond = 0
    /\ importBackups = [k \in {} |-> {}]
    /\ import = NoImport
    /\ emptied = {}
    /\ halfWritten = {}
    /\ backupReplaced = FALSE

-----------------------------------------------------------------------------
\* A server has an upstream form when it has a command with a list of arguments or a URL,
\* and every value of its environment and headers is the name of a variable.
Importable(e, s) == <<e, s>> \in Convertible

\* The servers a scan finds uncovered and convertible in some entry: the definition of
\* the first such entry is the one imported.
MissingImports(scanned) ==
    {s \in Servers \ brokerConfig.covers :
        \E e \in EntryNames : s \in scanned[e] /\ Importable(e, s)}

\* An entry with an uncovered server is blocked, one without servers passed over.
MayEmptyUncovered(servers, covered) == servers # {}
MayEmpty(servers, covered) == servers # {} /\ servers \subseteq covered

ToEmpty(scanned, covered) ==
    {e \in EntryNames : MayEmpty(scanned[e], covered)}

\* The entries to empty are taken in the order of the scan.
NextEntry ==
    ProjectEntries[Min({i \in DOMAIN ProjectEntries : ProjectEntries[i] \in import.todo})]

\* An applied command loads the configuration and reads all files; one that does not
\* parse raises before anything is written.  A command that is not applied writes
\* nothing and is no step here.
Scan(importMissing) ==
    /\ import.phase = "none"
    /\ brokerConfig.loads
    /\ torn = {}
    /\ LET scanned == [e \in EntryNames |-> Declared(declares[e])]
           missing == IF importMissing THEN MissingImports(scanned) ELSE {}
       IN import' = [NoImport EXCEPT
             !.phase = IF missing # {} THEN "append" ELSE "next",
             !.scanned = scanned, !.missing = missing, !.original = brokerConfig,
             !.todo = ToEmpty(scanned, brokerConfig.covers)]
    /\ UNCHANGED <<declares, torn, brokerConfig, clockVars, backupVars, historyVars>>

\* _insert_under_upstreams: without a line that is just "upstreams:" a second such key
\* is appended, which takes the place of the first.
Inserted(missing) ==
    [brokerConfig EXCEPT
        !.covers = missing \cup IF brokerConfig.key = "commented" THEN {} ELSE @,
        !.loads = missing \subseteq Profiled,
        !.key = IF @ = "commented" THEN "twice" ELSE @]

\* The configuration is written before it is loaded.
AppendMissing ==
    /\ import.phase = "append"
    /\ brokerConfig' = Inserted(import.missing)
    /\ import' = [import EXCEPT !.phase = "validate"]
    /\ UNCHANGED <<declares, torn, clockVars, backupVars, historyVars>>

\* One that loads stays; any other is put back as it was, and the command raises.
Validate ==
    /\ import.phase = "validate"
    /\ IF brokerConfig.loads
       THEN /\ import' = [import EXCEPT !.phase = "next",
                 !.todo = ToEmpty(import.scanned,
                                  import.original.covers \cup import.missing)]
            /\ UNCHANGED brokerConfig
       ELSE /\ import' = NoImport
            /\ brokerConfig' = import.original
    /\ UNCHANGED <<declares, torn, clockVars, backupVars, historyVars>>

-----------------------------------------------------------------------------
\* Files

\* What the scan found in these entries, but for those edited since
Found(entries) ==
    UNION {{e} \X import.scanned[e] : e \in entries \ import.edited}

Contents(path) == [e \in EntriesOf(path) |-> Declared(declares[e])]

\* _backup_file: once for each file and command, under a name of the second
BackUp ==
    /\ import.phase = "next" /\ import.todo # {}
    /\ LET path == PathOf[NextEntry]
           name == <<importSecond, path>>
           saved == path \in import.saved
       IN /\ importBackups' = IF saved THEN importBackups
                              ELSE [k \in DOMAIN importBackups \cup {name} |->
                                      IF k = name THEN Contents(path) ELSE importBackups[k]]
          /\ backupReplaced' = (backupReplaced \/ (~saved /\ name \in DOMAIN importBackups))
          /\ import' = [import EXCEPT !.phase = "empty", !.saved = @ \cup {path}]
    /\ UNCHANGED <<declares, torn, brokerConfig, clockVars, historyVars>>

\* _write_empty_mcp_servers: a .mcp.json file is written as it was scanned, with no
\* servers; the Claude file is read again for the other projects, and a project that
\* has gone raises.
EmptyEntry ==
    /\ import.phase = "empty"
    /\ LET e == NextEntry
       IN IF declares[e] = NoProject
          THEN /\ import' = NoImport
               /\ UNCHANGED <<declares, emptied>>
          ELSE /\ declares' = [declares EXCEPT ![e] = {}]
               /\ emptied' = emptied \cup Found({e})
               /\ import' = [import EXCEPT !.phase = "next", !.todo = @ \ {e}]
    /\ UNCHANGED <<torn, brokerConfig, halfWritten, clockVars, backupVars>>

Finish ==
    /\ import.phase = "next" /\ import.todo = {}
    /\ import' = NoImport
    /\ UNCHANGED <<declares, torn, brokerConfig, clockVars, backupVars, historyVars>>

-----------------------------------------------------------------------------
\* Environment

\* The command dies; the file it was writing may be left half written.  Nothing reads a
\* backup: a half-written one is none, and takes the place of one of the same name.
ImportDies ==
    /\ import.phase # "none"
    /\ import' = NoImport
    /\ \/ UNCHANGED <<torn, brokerConfig, halfWritten, backupVars>>
       \/ /\ import.phase = "append"
          /\ brokerConfig' = [brokerConfig EXCEPT !.loads = FALSE]
          /\ UNCHANGED <<torn, halfWritten, backupVars>>
       \/ /\ import.phase = "next" /\ import.todo # {}
          /\ LET name == <<importSecond, PathOf[NextEntry]>>
             IN /\ name \in DOMAIN importBackups
                /\ importBackups' = Restrict(importBackups, DOMAIN importBackups \ {name})
          /\ backupReplaced' = TRUE
          /\ UNCHANGED <<torn, brokerConfig, halfWritten>>
       \/ /\ import.phase = "empty"
          /\ torn' = {PathOf[NextEntry]}
          /\ halfWritten' = Found(EntriesOf(PathOf[NextEntry]))
          /\ UNCHANGED <<brokerConfig, backupVars>>
    /\ UNCHANGED <<declares, emptied, clockVars>>

\* A project's servers are changed by hand or by its client, at any time.
EditProject(e, servers) ==
    /\ projectEdits < MaxProjectEdits
    /\ PathOf[e] \notin torn
    /\ servers = NoProject => PathOf[e] = ClaudePath
    /\ projectEdits' = projectEdits + 1
    /\ declares' = [declares EXCEPT ![e] = servers]
    /\ import' = IF import.phase = "none" THEN import
                 ELSE [import EXCEPT !.edited = @ \cup {e}]
    /\ UNCHANGED <<torn, brokerConfig, importSecond, backupVars, historyVars>>

SecondPasses ==
    /\ importSecond < LastImportSecond
    /\ importSecond' = importSecond + 1
    /\ UNCHANGED <<declares, torn, brokerConfig, projectEdits, import, backupVars,
                   historyVars>>

ImportNext ==
    \/ \E importMissing \in BOOLEAN : Scan(importMissing)
    \/ AppendMissing \/ Validate \/ BackUp \/ EmptyEntry \/ Finish
    \/ ImportDies \/ SecondPasses
    \/ \E e \in EntryNames, servers \in SUBSET Servers \cup {NoProject} :
          EditProject(e, servers)

ImportSpec == ImportInit /\ [][ImportNext]_importVars

-----------------------------------------------------------------------------
\* Properties

\* A server a command took out of a project's file is one the broker covers, as long
\* as its configuration loads and no import gave it the key "upstreams:" twice.
EmptiedIsCovered ==
    brokerConfig.loads /\ brokerConfig.key # "twice" =>
        \A taken \in emptied : taken[2] \in brokerConfig.covers

\* It is also in a backup, and so is all the scan found in a file the command left half
\* written, unless one backup took the name of another.
TakenIsBackedUp ==
    backupReplaced \/
    \A taken \in emptied \cup halfWritten :
        \E name \in DOMAIN importBackups :
            /\ name[2] = PathOf[taken[1]]
            /\ taken[2] \in importBackups[name][taken[1]]

\* Both, of the servers moved out of projects.
ImportAccounted == EmptiedIsCovered /\ TakenIsBackedUp
=============================================================================
