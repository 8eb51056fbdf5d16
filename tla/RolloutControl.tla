---------------------------- MODULE RolloutControl ----------------------------
\* The local governance control plane: publishing a bundle, choosing the bundle
\* of a broker, simulating the rollout over the fleet's statuses, recording the
\* decided actions, and approving them.  The reference flow runs all of it in
\* one command; "rollout-control" and "approve" run a part of it on its own.
\* Commands run one at a time and may be cut off between any two writes.
EXTENDS Naturals, FiniteSets, Sequences, SequencesExt

CONSTANTS Brokers,     \* broker identities of the fleet
          Bundles,     \* published bundle targets (bundle_id, version, channel)
          NoBundle,
          MaxRuns      \* bound on the commands of one state directory

ASSUME RolloutAssumption == MaxRuns \in Nat

StageNames == {"canary", "ring1", "broad"}

\* What one fleet status says: the broker, whether its health triggers a rollback,
\* and whether the bundle's compatibility and targeting cover it.
Statuses == [broker : Brokers, degraded : BOOLEAN, covered : BOOLEAN]

\* One rule of an assignment source; its match lists the brokers it covers.
Rules == [brokers : SUBSET Brokers, priority : 0..1, target : Bundles]

VARIABLES manifests,    \* published/*.publish.json
          actions,      \* governance-rollout/actions/*.json
          ledger,       \* governance-rollout/action-log.jsonl
          approvals,    \* governance-approvals/records/*.json
          approvalLog,  \* governance-approvals/audit.jsonl
          report,       \* reports/reference-report.json
          command,      \* the command in progress
          runs,         \* commands started: each one's created_at
          cutOff,       \* runs that crashed or raised half way
          fleet         \* what each deciding run was told of the fleet

rolloutVars == <<manifests, actions, ledger, approvals, approvalLog, report,
                 command, runs, cutOff, fleet>>

NoRollout == [step |-> "idle", whole |-> FALSE, bundle |-> NoBundle,
              broker |-> "none", todo |-> {}, done |-> {}]

RolloutInit ==
    /\ manifests = {}
    /\ actions = {}
    /\ ledger = {}
    /\ approvals = {}
    /\ approvalLog = {}
    /\ report = [run |-> 0, type |-> "none", ids |-> {}]
    /\ command = NoRollout
    /\ runs = 0
    /\ cutOff = {}
    /\ fleet = [r \in 1..MaxRuns |-> {}]

-----------------------------------------------------------------------------
\* Assignment

\* evaluate_assignment: every target must be published, and exactly one matching
\* rule must have the best priority.  The answer is the set of admissible targets.
AssignedTargets(rules, published, broker) ==
    LET matching == {r \in rules : broker \in r.brokers}
        best == {r \in matching : \A other \in matching : other.priority <= r.priority}
    IN IF (\A r \in rules : r.target \in published) /\ Cardinality(best) = 1
       THEN {r.target : r \in best}
       ELSE {}

-----------------------------------------------------------------------------
\* Simulation

\* The place of a decision is where the list of all of them has it.
Decision(place, broker, stage, state) ==
    [place |-> place, broker |-> broker, stage |-> stage, state |-> state]

\* _stage_name_for_broker: the first stage that lists the broker
StageOf(stages, broker) ==
    LET listing == {i \in 1..Len(stages) : broker \in stages[i].brokers}
    IN IF listing = {} THEN "unassigned"
       ELSE stages[CHOOSE i \in listing : \A j \in listing : i <= j].name

\* _state_for_stage
StateForStage(name) == CASE name = "canary" -> "canary"
                         [] name = "broad" -> "broad_rollout"
                         [] OTHER -> "staged_rollout"

RollbackDecisions(stages, statuses) ==
    LET degraded == {i \in 1..Len(statuses) : statuses[i].degraded}
    IN {Decision(Cardinality({j \in degraded : j <= i}), statuses[i].broker,
                 StageOf(stages, statuses[i].broker), "rollback") : i \in degraded}

\* A stage lists its brokers in some order, which this one stands for.
Rank(broker) == CHOOSE n \in 1..Cardinality(Brokers) : SetToSeq(Brokers)[n] = broker

\* Stage by stage, the brokers it lists that have a status.
RolloutDecisions(stages, statuses) ==
    LET known == {statuses[i].broker : i \in 1..Len(statuses)}
        listed == UNION {{k} \X (stages[k].brokers \cap known) : k \in 1..Len(stages)}
        UpTo(p) == {q \in listed : q[1] < p[1] \/ (q[1] = p[1] /\ Rank(q[2]) <= Rank(p[2]))}
    IN {Decision(Cardinality(UpTo(p)), p[2], stages[p[1]].name,
                 StateForStage(stages[p[1]].name)) : p \in listed}

\* simulate_rollout
Simulated(stages, statuses, approvalRequired, approvalGranted) ==
    IF \E i \in 1..Len(statuses) : ~statuses[i].covered
    THEN [state |-> "compatibility_rejection", decisions |-> {}]
    ELSE IF \E i \in 1..Len(statuses) : statuses[i].degraded
    THEN [state |-> "rollback", decisions |-> RollbackDecisions(stages, statuses)]
    ELSE IF approvalRequired /\ ~approvalGranted
    THEN [state |-> "approval_required", decisions |-> {}]
    ELSE [state |-> "ready", decisions |-> RolloutDecisions(stages, statuses)]

-----------------------------------------------------------------------------
\* The controller

ActionFor(state) == CASE state = "canary" -> "canary"
                      [] state = "staged_rollout" -> "staged"
                      [] state = "broad_rollout" -> "broad"
                      [] state = "rollback" -> "rollback"

\* _record: the id says the place, the broker and the action, and nothing of the
\* bundle or of the run.
ActionRecord(place, broker, action) ==
    [id |-> <<place, broker, action>>, run |-> runs, bundle |-> command.bundle]

RecordsOf(simulation) ==
    IF simulation.state \in {"approval_required", "compatibility_rejection"}
    THEN {ActionRecord(1, "fleet", "hold")}
    ELSE {ActionRecord(d.place, d.broker, ActionFor(d.state)) : d \in simulation.decisions}

-----------------------------------------------------------------------------
\* Steps of a command

At(step) == command.step = step

Leaves(step) == command' = [command EXCEPT !.step = step]

GivesUp == /\ command' = NoRollout
           /\ cutOff' = cutOff \cup {runs}

Begins(step, whole, bundle, broker) ==
    /\ At("idle")
    /\ runs < MaxRuns
    /\ runs' = runs + 1
    /\ command' = [NoRollout EXCEPT !.step = step, !.whole = whole,
                                    !.bundle = bundle, !.broker = broker]

\* run_reference_control_plane starts by publishing the bundle as a candidate; an
\* earlier manifest of the same bundle is overwritten.
PublishBundle ==
    \E bundle \in Bundles, broker \in Brokers :
        /\ Begins("assign", TRUE, bundle, broker)
        /\ manifests' = manifests \cup {bundle}
        /\ UNCHANGED <<actions, ledger, approvals, approvalLog, report, cutOff, fleet>>

\* Only the manifest just published is given to evaluate_assignment.
EvaluateAssignment ==
    /\ At("assign")
    /\ \E rules \in SUBSET Rules :
         /\ Cardinality(rules) <= 2
         /\ \/ /\ AssignedTargets(rules, {command.bundle}, command.broker) # {}
               /\ Leaves("decide")
               /\ UNCHANGED cutOff
            \/ /\ AssignedTargets(rules, {command.bundle}, command.broker) = {}
               /\ GivesUp
    /\ UNCHANGED <<manifests, actions, ledger, approvals, approvalLog, report, runs, fleet>>

\* control_rollout on its own, with a simulation made from the bundle's own stages.
StartRolloutControl ==
    /\ \E bundle \in Bundles : Begins("decide", FALSE, bundle, "none")
    /\ UNCHANGED <<manifests, actions, ledger, approvals, approvalLog, report, cutOff, fleet>>

\* The records of the simulated decisions; none at all is an error.
Decide(stages, statuses, required, granted) ==
    LET records == RecordsOf(Simulated(stages, statuses, required, granted))
    IN /\ fleet' = [fleet EXCEPT ![runs] = ToSet(statuses)]
       /\ IF records = {}
          THEN GivesUp
          ELSE /\ command' = [command EXCEPT !.step = "record", !.todo = records]
               /\ UNCHANGED cutOff
       /\ UNCHANGED <<manifests, actions, ledger, approvals, approvalLog, report, runs>>

FleetStatuses == UNION {[1..n -> Statuses] : n \in 1..2}

\* The reference flow replaces the bundle's rollout policy by one stage holding the
\* broker of the context, and always says that approval was granted.  The first
\* status must also make a safe collection envelope, or the flow is refused.
DecideReference ==
    /\ At("decide") /\ command.whole
    /\ \E statuses \in FleetStatuses, ring \in StageNames, required \in BOOLEAN :
         Decide(<<[name |-> ring, brokers |-> {command.broker}]>>, statuses, required, TRUE)

DecideControl ==
    /\ At("decide") /\ ~command.whole
    /\ \E statuses \in FleetStatuses, first \in SUBSET Brokers,
          required, granted \in BOOLEAN :
         Decide(<<[name |-> "canary", brokers |-> first],
                  [name |-> "broad", brokers |-> Brokers \ first]>>,
                statuses, required, granted)

\* No broker status, an unsafe collection target or payload, an invalid simulation.
DecisionRefused ==
    /\ At("decide")
    /\ GivesUp
    /\ UNCHANGED <<manifests, actions, ledger, approvals, approvalLog, report, runs, fleet>>

\* The next record in the order of the decisions
NextRecord(record) ==
    record \in command.todo /\ \A other \in command.todo : record.id[1] <= other.id[1]

Written(record) ==
    command' = [command EXCEPT !.todo = @ \ {record}, !.done = @ \cup {record}]

\* _write_json_new: a record whose id was ever used in this directory is refused, and
\* the records written before it stay, without an entry in the ledger.
WriteActionAnyway ==
    /\ At("record")
    /\ \E record \in command.todo :
         /\ NextRecord(record) /\ Written(record)
         /\ actions' = {a \in actions : a.id # record.id} \cup {record}
    /\ UNCHANGED <<manifests, ledger, approvals, approvalLog, report, runs, cutOff, fleet>>
WriteAction ==
    /\ At("record")
    /\ \E record \in command.todo :
         /\ NextRecord(record)
         /\ \/ /\ record.id \notin {a.id : a \in actions}
               /\ actions' = actions \cup {record}
               /\ Written(record)
               /\ UNCHANGED cutOff
            \/ /\ record.id \in {a.id : a \in actions}
               /\ GivesUp
               /\ UNCHANGED actions
    /\ UNCHANGED <<manifests, ledger, approvals, approvalLog, report, runs, fleet>>

\* _append_jsonl, after the last record was written
AppendLedger ==
    /\ At("record") /\ command.todo = {}
    /\ ledger' = ledger \cup command.done
    /\ command' = IF command.whole THEN [command EXCEPT !.step = "approve"] ELSE NoRollout
    /\ UNCHANGED <<manifests, actions, approvals, approvalLog, report, runs, cutOff, fleet>>

-----------------------------------------------------------------------------
\* Approvals

Ids(records) == {r.id : r \in records}

\* _create_rollout_or_rollback_approval
RequestType(records) ==
    IF \E r \in records : r.id[3] = "rollback" THEN "rollback" ELSE "rollout"

WriteApproval(type, ids) ==
    /\ approvals' = approvals \cup {[run |-> runs', type |-> type, ids |-> ids]}
    /\ UNCHANGED <<manifests, actions, ledger, approvalLog, report, fleet>>

ApproveDecided ==
    /\ At("approve")
    /\ runs' = runs
    /\ WriteApproval(RequestType(command.done), Ids(command.done))
    /\ Leaves("auditApproval")
    /\ UNCHANGED cutOff

\* create_approval refuses an expiry that is not in the future.
ApprovalRefused ==
    /\ At("approve")
    /\ GivesUp
    /\ UNCHANGED <<manifests, actions, ledger, approvals, approvalLog, report, runs, fleet>>

\* The approve command takes any well-formed action id: it looks at no action file.
ApproveCommand ==
    \E broker \in Brokers, type \in {"rollout", "rollback"} :
        /\ Begins("auditApproval", FALSE, NoBundle, broker)
        /\ WriteApproval(type, {<<1, broker, "canary">>})
        /\ UNCHANGED cutOff

AuditApproval ==
    /\ At("auditApproval")
    /\ approvalLog' = approvalLog \cup {a \in approvals : a.run = runs}
    /\ command' = IF command.whole THEN [command EXCEPT !.step = "report"] ELSE NoRollout
    /\ UNCHANGED <<manifests, actions, ledger, approvals, report, runs, cutOff, fleet>>

WriteReport ==
    /\ At("report")
    /\ report' = [run |-> runs, type |-> RequestType(command.done), ids |-> Ids(command.done)]
    /\ command' = NoRollout
    /\ UNCHANGED <<manifests, actions, ledger, approvals, approvalLog, runs, cutOff, fleet>>

Interrupted ==
    /\ ~At("idle")
    /\ GivesUp
    /\ UNCHANGED <<manifests, actions, ledger, approvals, approvalLog, report, runs, fleet>>

RolloutNext ==
    \/ PublishBundle \/ EvaluateAssignment \/ StartRolloutControl
    \/ DecideReference \/ DecideControl \/ DecisionRefused
    \/ WriteAction \/ AppendLedger
    \/ ApproveDecided \/ ApprovalRefused \/ ApproveCommand \/ AuditApproval
    \/ WriteReport \/ Interrupted

RolloutSpec == RolloutInit /\ [][RolloutNext]_rolloutVars

-----------------------------------------------------------------------------
\* Properties

\* The ledger and the action files tell the same story: every audited action has
\* its own file, which no later run replaced, and a file that is in no ledger was
\* left by a run that was cut off or refused half way.
LedgerMatchesFiles ==
    /\ ledger \subseteq actions
    /\ \A a \in actions \ ledger : a.run \in cutOff \/ a \in command.done

\* An audited rollback names a broker its own run saw degraded; an audited rollout
\* action comes from a run in which nobody was degraded; neither comes from a run
\* that saw a broker the bundle does not cover.
DecisionsJustified ==
    \A a \in ledger :
        LET seen == fleet[a.run]
        IN /\ a.id[3] # "hold" => \A s \in seen : s.covered
           /\ a.id[3] = "rollback" => \E s \in seen : s.degraded /\ s.broker = a.id[2]
           /\ a.id[3] \in {"canary", "staged", "broad"} => \A s \in seen : ~s.degraded

\* What the report says was approved was audited, action by action and as an
\* approval, and a rollback is never reported as a rollout or with one.
ReportIsBacked ==
    report.run # 0 =>
        /\ report.ids # {}
        /\ report.ids = {a.id : a \in {l \in ledger : l.run = report.run}}
        /\ [run |-> report.run, type |-> report.type, ids |-> report.ids] \in approvalLog
        /\ (report.type = "rollback") = (\E id \in report.ids : id[3] = "rollback")
        /\ report.type = "rollback" => \A id \in report.ids : id[3] = "rollback"

\* The three facts above, of rollout control and the reference flow.
RolloutSafe == LedgerMatchesFiles /\ DecisionsJustified /\ ReportIsBacked
=============================================================================
