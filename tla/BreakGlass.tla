------------------------------ MODULE BreakGlass ------------------------------
\* Break-glass records: an operator bypasses policy paths for a limited time.
\* Creating one writes the record, then the active pointer, then the audit line;
\* the process may stop in between.  Commands run one at a time.
EXTENDS Naturals, FiniteSets

CONSTANTS BypassReasons,   \* what tells two records of the same times apart
          LastInstant      \* bound on the clock

Instants == 0..LastInstant

\* record_id is a digest of the whole seed, so a record is its own name.
BypassRecords == [reason : BypassReasons, created : Instants, expires : Instants]

NoBypass == [reason |-> "none", created |-> 0, expires |-> 0]

VARIABLES bypassRecords,   \* break-glass/records/*.json
          activeBypass,    \* break-glass/active.json
          bypassAudit,     \* break-glass/audit.jsonl
          creating,        \* the create command in progress
          instant,         \* _utc_now
          abandoned        \* records whose create command was cut off

bypassVars == <<bypassRecords, activeBypass, bypassAudit, creating, instant, abandoned>>

NotCreating == [step |-> "idle", record |-> NoBypass]

BypassInit ==
    /\ bypassRecords = {}
    /\ activeBypass = NoBypass
    /\ bypassAudit = {}
    /\ creating = NotCreating
    /\ instant = 0
    /\ abandoned = {}

IsExpired(record) == record.expires <= instant

\* create: an expiry that is not in the future is refused before anything is written.
CreateRecordAnyway(reason, expires) ==
    /\ creating.step = "idle"
    /\ LET record == [reason |-> reason, created |-> instant, expires |-> expires]
       IN /\ bypassRecords' = bypassRecords \cup {record}
          /\ creating' = [step |-> "point", record |-> record]
    /\ UNCHANGED <<activeBypass, bypassAudit, instant, abandoned>>
CreateRecord(reason, expires) ==
    /\ creating.step = "idle"
    /\ expires > instant
    /\ LET record == [reason |-> reason, created |-> instant, expires |-> expires]
       IN /\ bypassRecords' = bypassRecords \cup {record}
          /\ creating' = [step |-> "point", record |-> record]
    /\ UNCHANGED <<activeBypass, bypassAudit, instant, abandoned>>

\* The active pointer is replaced whatever it pointed at.
PointAtRecord ==
    /\ creating.step = "point"
    /\ activeBypass' = creating.record
    /\ creating' = [creating EXCEPT !.step = "audit"]
    /\ UNCHANGED <<bypassRecords, bypassAudit, instant, abandoned>>

AuditRecord ==
    /\ creating.step = "audit"
    /\ bypassAudit' = bypassAudit \cup {creating.record}
    /\ creating' = NotCreating
    /\ UNCHANGED <<bypassRecords, activeBypass, instant, abandoned>>

CreateCutOff ==
    /\ creating.step # "idle"
    /\ abandoned' = abandoned \cup {creating.record}
    /\ creating' = NotCreating
    /\ UNCHANGED <<bypassRecords, activeBypass, bypassAudit, instant>>

InstantPasses ==
    /\ instant < LastInstant
    /\ instant' = instant + 1
    /\ UNCHANGED <<bypassRecords, activeBypass, bypassAudit, creating, abandoned>>

BypassNext ==
    \/ \E reason \in BypassReasons, expires \in Instants : CreateRecord(reason, expires)
    \/ PointAtRecord \/ AuditRecord \/ CreateCutOff \/ InstantPasses

BypassSpec == BypassInit /\ [][BypassNext]_bypassVars

-----------------------------------------------------------------------------
\* What the readers say.  Both follow the pointer to a record file that must exist
\* and be the one the pointer names.

\* status()["status"] = "active", and require_active_record returning
BypassInForce == activeBypass # NoBypass /\ ~IsExpired(activeBypass)

-----------------------------------------------------------------------------
\* Properties

\* The pointer never leads to a missing record, a bypass in force began before now
\* and ends later, and it is in the audit log, unless the command that created it is
\* still at work or was cut off before its last write.
BypassAccounted ==
    /\ activeBypass # NoBypass => activeBypass \in bypassRecords
    /\ bypassAudit \subseteq bypassRecords
    /\ BypassInForce => /\ activeBypass.created <= instant
                        /\ \/ activeBypass \in bypassAudit
                           \/ activeBypass \in abandoned
                           \/ activeBypass = creating.record
    /\ \A r \in bypassRecords : r.created < r.expires
=============================================================================
