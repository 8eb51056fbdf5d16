------------------------ MODULE GovernancePullProofs ------------------------
(***************************************************************************)
(* Proofs about the deployment store and the pull/apply protocol on top of *)
(* it, for any number of processes, bundles, crashes and losses.           *)
(***************************************************************************)
EXTENDS GovernancePull, SequenceTheorems, TLAPS

-----------------------------------------------------------------------------
(* The deployment store: pointers resolve.                                 *)

\* A pointer a command is going to write is covered: its record is there, was
\* lost, or is written first.
Covered(p, i) ==
  \/ plan[p][i].to \in records \cup lost
  \/ \E j \in 1..i : plan[p][j] = Write("record", plan[p][i].to)

PlansCovered == \A p \in Procs : \A i \in 1..Len(plan[p]) : Covered(p, i)

StoreInv == TypeOK /\ PointersResolve /\ PlansCovered

LEMMA NoneNew == None \notin Bundles /\ "record" \in Files /\ "active" \in Files /\ "previous" \in Files
  BY DeploymentsAssumption DEF DeploymentsAssumption, Files

\* The plans the commands start with are well formed and covered.
LEMMA DeployPlan ==
  ASSUME NEW b \in Bundles, NEW c \in Bundles \cup {None}
  PROVE  /\ DeployWrites(b, c) \in Seq(Writes)
         /\ Len(DeployWrites(b, c)) \in {2, 3}
         /\ DeployWrites(b, c)[1] = Write("record", b)
         /\ DeployWrites(b, c)[2] = Write("active", b)
         /\ Len(DeployWrites(b, c)) = 3 => c # None /\ DeployWrites(b, c)[3] = Write("previous", c)
<1>1. CASE c = None
  BY <1>1, SMT DEF DeployWrites, Write, Writes, Files
<1>2. CASE c # None
  BY <1>2, SMT DEF DeployWrites, Write, Writes, Files
<1> QED BY <1>1, <1>2

LEMMA InitStore == Init => StoreInv
<1> SUFFICES ASSUME Init PROVE StoreInv
  OBVIOUS
<1>1. TypeOK
  <2>1. plan \in [Procs -> Seq(Writes)]
    BY DEF Init
  <2>2. command \in [Procs -> Commands \cup {None}] /\ result \in [Procs -> Bundles \cup {None}]
    BY DEF Init
  <2>3. faults \in 0..MaxFaults
    BY DeploymentsAssumption DEF DeploymentsAssumption, Init
  <2> QED BY <2>1, <2>2, <2>3 DEF Init, TypeOK
<1>2. PointersResolve
  BY DEF Init, PointersResolve
<1>3. PlansCovered
  BY SMT DEF Init, PlansCovered
<1> QED BY <1>1, <1>2, <1>3 DEF StoreInv

\* Starting a command with a covered plan keeps the invariant: nothing on disk
\* changes but partial files.
LEMMA BeginKeeps ==
  ASSUME StoreInv, NEW p \in Procs, NEW c \in Commands,
         NEW writes \in Seq(Writes), NEW b \in Bundles \cup {None},
         \A i \in 1..Len(writes) :
           \/ writes[i].to \in records \cup lost
           \/ \E j \in 1..i : writes[j] = Write("record", writes[i].to),
         Begin(p, c, writes, b), partial' \in BOOLEAN
  PROVE  StoreInv'
<1> USE DEF StoreInv
<1>1. TypeOK'
  BY DEF TypeOK, Begin, Quiet
<1>2. PointersResolve'
  BY DEF PointersResolve, Begin
<1>3. PlansCovered'
  <2> SUFFICES ASSUME NEW q \in Procs, NEW i \in 1..Len(plan'[q])
               PROVE  Covered(q, i)'
    BY DEF PlansCovered
  <2>1. CASE q = p
    BY <2>1, SMT DEF Begin, Covered, TypeOK
  <2>2. CASE q # p
    BY <2>2, SMT DEF Begin, Covered, TypeOK, PlansCovered
  <2> QED BY <2>1, <2>2
<1> QED BY <1>1, <1>2, <1>3

LEMMA StageKeeps ==
  ASSUME StoreInv, NEW p \in Procs, NEW b \in Bundles, Stage(p, b)
  PROVE  StoreInv'
<1> DEFINE writes == DeployWrites(b, active)
<1>1. active \in Bundles \cup {None} /\ partial \in BOOLEAN /\ PointersResolve
  BY DEF StoreInv, TypeOK
<1>2. writes \in Seq(Writes)
  BY <1>1, DeployPlan
<1>3. ASSUME NEW i \in 1..Len(writes)
      PROVE  \/ writes[i].to \in records \cup lost
             \/ \E j \in 1..i : writes[j] = Write("record", writes[i].to)
  <2>1. /\ Len(writes) \in {2, 3}
        /\ writes[1] = Write("record", b) /\ writes[2] = Write("active", b)
        /\ Len(writes) = 3 => active # None /\ writes[3] = Write("previous", active)
    BY <1>1, DeployPlan
  <2>2. i \in {1, 2, 3} /\ 1 \in 1..i
    BY <2>1, SMT
  <2>3. CASE i \in {1, 2}
    BY <2>1, <2>2, <2>3 DEF Write
  <2>4. CASE i = 3
    BY <1>1, <2>1, <2>4, SMT DEF Write, PointersResolve
  <2> QED BY <2>2, <2>3, <2>4
<1>4. Begin(p, "stage", writes, b) /\ partial' \in BOOLEAN
  BY <1>1 DEF Stage
<1> HIDE DEF writes
<1> QED BY <1>2, <1>3, <1>4, BeginKeeps DEF Commands

LEMMA RollbackKeeps ==
  ASSUME StoreInv, NEW p \in Procs, Rollback(p)
  PROVE  StoreInv'
<1> DEFINE writes == <<Write("active", previous), Write("previous", active)>>
<1>1. /\ active \in Bundles /\ previous \in Bundles
      /\ {active, previous} \subseteq records \cup lost /\ partial' \in BOOLEAN
  BY DEF StoreInv, TypeOK, PointersResolve, Rollback
<1>2. writes \in Seq(Writes) /\ Len(writes) = 2
  BY <1>1, SMT DEF Write, Writes, Files
<1>3. \A i \in 1..Len(writes) : writes[i].to \in records \cup lost
  BY <1>1, SMT DEF Write
<1>4. Begin(p, "rollback", writes, previous)
  BY DEF Rollback
<1> HIDE DEF writes
<1> QED BY <1>1, <1>2, <1>3, <1>4, BeginKeeps DEF Commands

LEMMA RecoverKeeps ==
  ASSUME StoreInv, NEW p \in Procs, Recover(p)
  PROVE  StoreInv'
<1>1. records \subseteq Bundles /\ active \in Bundles \cup {None} /\ partial' \in BOOLEAN
  BY DEF StoreInv, TypeOK, Recover
<1>2. ASSUME NEW b \in records, Begin(p, "recover", <<Write("active", b)>>, b)
      PROVE  StoreInv'
  <2> DEFINE writes == <<Write("active", b)>>
  <2>1. writes \in Seq(Writes) /\ b \in Bundles
    BY <1>1, SMT DEF Write, Writes, Files
  <2>2. \A i \in 1..Len(writes) : writes[i].to \in records \cup lost
    BY SMT DEF Write
  <2>3. Begin(p, "recover", writes, b)
    BY <1>2
  <2> HIDE DEF writes
  <2> QED BY <1>1, <2>1, <2>2, <2>3, BeginKeeps DEF Commands
<1>3. ASSUME Begin(p, "recover", <<>>, active)
      PROVE  StoreInv'
  <2> DEFINE writes == <<>>
  <2>1. writes \in Seq(Writes) /\ \A i \in 1..Len(writes) : FALSE
    BY SMT
  <2>2. Begin(p, "recover", writes, active)
    BY <1>3
  <2> HIDE DEF writes
  <2> QED BY <1>1, <2>1, <2>2, BeginKeeps DEF Commands
<1> QED BY <1>2, <1>3 DEF Recover

\* A write may only add to the records that are there or were lost.
LEMMA DoWriteKeeps ==
  ASSUME StoreInv, NEW p \in Procs, DoWrite(p)
  PROVE  StoreInv'
<1> DEFINE w == Head(plan[p])
<1>1. plan[p] \in Seq(Writes) /\ Len(plan[p]) > 0 /\ w = plan[p][1] /\ w \in Writes
  BY SMT DEF StoreInv, TypeOK, DoWrite
<1>2. /\ plan'[p] = Tail(plan[p]) /\ plan'[p] \in Seq(Writes)
      /\ Len(plan'[p]) = Len(plan[p]) - 1
      /\ \A i \in 1..Len(plan'[p]) : plan'[p][i] = plan[p][i + 1]
  BY <1>1, SMT DEF StoreInv, TypeOK, DoWrite
<1>3. records' \cup lost' = records \cup lost \cup (IF w.file = "record" THEN {w.to} ELSE {})
  BY <1>1 DEF DoWrite
<1>4. TypeOK'
  <2>1. plan' \in [Procs -> Seq(Writes)]
    BY <1>2 DEF StoreInv, TypeOK, DoWrite
  <2>2. records' \subseteq Bundles /\ lost' \subseteq Bundles
    BY <1>1 DEF StoreInv, TypeOK, DoWrite, Writes, Write
  <2>3. later' \subseteq records' \X records'
    <3> SUFFICES ASSUME NEW e \in later'
                 PROVE  e \in records' \X records'
      OBVIOUS
    <3>1. records \subseteq records' /\ later \subseteq records \X records
      BY DEF StoreInv, TypeOK, DoWrite
    <3>2. CASE e \in later
      BY <3>1, <3>2
    <3>3. CASE e \notin later
      <4>1. w.file = "record" /\ e \in {<<w.to, x>> : x \in records \ {w.to}}
        BY <3>3 DEF DoWrite
      <4>2. w.to \in records'
        BY <4>1 DEF DoWrite
      <4> QED BY <3>1, <4>1, <4>2
    <3> QED BY <3>2, <3>3
  <2>4. active' \in Bundles \cup {None} /\ previous' \in Bundles \cup {None}
    BY <1>1 DEF StoreInv, TypeOK, DoWrite, Writes, Write
  <2>5. replaced' \in BOOLEAN
    BY <1>1 DEF StoreInv, TypeOK, DoWrite, Writes, Write
  <2> QED BY <2>1, <2>2, <2>3, <2>4, <2>5 DEF StoreInv, TypeOK, DoWrite
<1>5. w.file # "record" => w.to \in records \cup lost
  <2>1. Covered(p, 1)
    BY <1>1, SMT DEF StoreInv, PlansCovered
  <2> QED BY <1>1, <2>1, SMT DEF Covered, Write
<1>6. PointersResolve'
  BY <1>1, <1>3, <1>5 DEF StoreInv, PointersResolve, DoWrite
<1>7. PlansCovered'
  <2> SUFFICES ASSUME NEW q \in Procs, NEW i \in 1..Len(plan'[q])
               PROVE  Covered(q, i)'
    BY DEF PlansCovered
  <2>1. CASE q = p
    <3> DEFINE m == Len(plan[p])  n == Len(plan'[p])
    <3>0. m \in Nat /\ n \in Nat /\ n = m - 1 /\ i \in 1..n
      <4>1. m \in Nat /\ n \in Nat
        BY <1>1, <1>2, LenProperties
      <4>2. i \in 1..n /\ n = m - 1
        BY <1>2, <2>1
      <4> QED BY <4>1, <4>2
    <3> HIDE DEF m, n
    <3>a. i + 1 \in 1..m
      BY <3>0, SMT
    <3> USE DEF m, n
    <3>1. i + 1 \in 1..Len(plan[p]) /\ plan'[p][i] = plan[p][i + 1]
      BY <1>2, <3>0, <3>a
    <3> HIDE DEF m, n
    <3>2. Covered(p, i + 1)
      BY <3>1 DEF StoreInv, PlansCovered
    <3>3. CASE plan[p][i + 1].to \in records \cup lost
      BY <1>3, <2>1, <3>1, <3>3 DEF Covered
    <3>4. ASSUME NEW j \in 1..(i + 1), plan[p][j] = Write("record", plan[p][i + 1].to)
          PROVE  Covered(q, i)'
      <4>1. CASE j = 1
        <5>1. w.file = "record" /\ w.to = plan'[p][i].to
          BY <1>1, <3>1, <3>4, <4>1 DEF Write
        <5> QED BY <1>3, <2>1, <5>1 DEF Covered
      <4>2. CASE j # 1
        <5>0. j - 1 \in 1..i /\ j - 1 \in 1..n /\ (j - 1) + 1 = j
          BY <3>0, <3>4, <4>2, SMT
        <5>1. j - 1 \in 1..i /\ plan'[p][j - 1] = plan[p][j]
          BY <1>2, <5>0 DEF n
        <5>2. plan'[p][j - 1] = Write("record", plan'[p][i].to)
          BY <3>1, <3>4, <5>1
        <5> QED BY <2>1, <5>1, <5>2 DEF Covered
      <4> QED BY <4>1, <4>2
    <3> QED BY <3>2, <3>3, <3>4 DEF Covered
  <2>2. CASE q # p
    <3>1. plan'[q] = plan[q] /\ Covered(q, i)
      BY <2>2 DEF StoreInv, TypeOK, PlansCovered, DoWrite
    <3> QED BY <1>3, <3>1 DEF Covered
  <2> QED BY <2>1, <2>2
<1> QED BY <1>4, <1>6, <1>7 DEF StoreInv

\* A command that ends leaves no writes behind.
LEMMA EndKeeps ==
  ASSUME StoreInv, NEW p \in Procs, End(p), UNCHANGED <<records, later, active, previous, lost>>,
         partial' \in BOOLEAN, faults' \in 0..MaxFaults,
         solo' = solo, replaced' = replaced, reported' \in Bundles \cup {None},
         attempted' \subseteq Bundles, untidy' \in BOOLEAN
  PROVE  StoreInv'
<1>1. plan' = [plan EXCEPT ![p] = <<>>] /\ <<>> \in Seq(Writes)
  BY DEF End
<1>2. TypeOK'
  BY <1>1 DEF StoreInv, TypeOK, End
<1>3. PointersResolve'
  BY DEF StoreInv, PointersResolve
<1>4. PlansCovered'
  BY <1>1, SMT DEF StoreInv, TypeOK, PlansCovered, Covered
<1> QED BY <1>2, <1>3, <1>4 DEF StoreInv

LEMMA StoreStepKeeps == StoreInv /\ [Next]_vars => StoreInv'
<1> SUFFICES ASSUME StoreInv, [Next]_vars PROVE StoreInv'
  OBVIOUS
<1>1. ASSUME NEW p \in Procs, NEW b \in Bundles, Stage(p, b) PROVE StoreInv'
  BY <1>1, StageKeeps
<1>2. ASSUME NEW p \in Procs, Rollback(p) PROVE StoreInv'
  BY <1>2, RollbackKeeps
<1>3. ASSUME NEW p \in Procs, Recover(p) PROVE StoreInv'
  BY <1>3, RecoverKeeps
<1>4. ASSUME NEW p \in Procs, RecoverRaises(p) PROVE StoreInv'
  BY <1>4
  DEF RecoverRaises, StoreInv, TypeOK, PointersResolve, PlansCovered, Covered,
      runVars, history
<1>5. ASSUME NEW p \in Procs, DoWrite(p) PROVE StoreInv'
  BY <1>5, DoWriteKeeps
<1>6. ASSUME NEW p \in Procs, Return(p) PROVE StoreInv'
  <2>1. End(p) /\ UNCHANGED <<store, faults, lost, solo, replaced>>
    BY <1>6 DEF Return
  <2>2. reported' \in Bundles \cup {None} /\ attempted' \subseteq Bundles /\ untidy' \in BOOLEAN
    BY <1>6 DEF Return, StoreInv, TypeOK
  <2> QED BY <2>1, <2>2, EndKeeps DEF StoreInv, TypeOK, store
<1>7. ASSUME NEW p \in Procs, Crash(p) PROVE StoreInv'
  <2>1. faults' \in 0..MaxFaults
    BY <1>7, DeploymentsAssumption, SMT DEF Crash, StoreInv, TypeOK, DeploymentsAssumption
  <2>2. attempted' \subseteq Bundles
    BY <1>7 DEF Crash, StoreInv, TypeOK
  <2> QED BY <1>7, <2>1, <2>2, EndKeeps DEF Crash, StoreInv, TypeOK
<1>8. CASE LoseFile
  <2>1. records \cup lost = records' \cup lost'
    BY <1>8 DEF LoseFile
  <2>2. TypeOK'
    <3>1. faults' \in 0..MaxFaults
      BY <1>8, DeploymentsAssumption, SMT DEF LoseFile, StoreInv, TypeOK, DeploymentsAssumption
    <3>2. records' \subseteq Bundles /\ lost' \subseteq Bundles /\ active' \in Bundles \cup {None}
      BY <1>8 DEF LoseFile, StoreInv, TypeOK
    <3>3. later' \subseteq records' \X records'
      BY <1>8 DEF LoseFile, StoreInv, TypeOK
    <3> QED BY <1>8, <3>1, <3>2, <3>3 DEF LoseFile, StoreInv, TypeOK, runVars
  <2>3. PointersResolve'
    BY <1>8, <2>1 DEF LoseFile, StoreInv, PointersResolve
  <2>4. PlansCovered'
    BY <1>8, <2>1 DEF LoseFile, StoreInv, PlansCovered, Covered, runVars
  <2> QED BY <2>2, <2>3, <2>4 DEF StoreInv
<1>9. CASE UNCHANGED vars
  BY <1>9
  DEF StoreInv, TypeOK, PointersResolve, PlansCovered, Covered, vars, store, runVars,
      history
<1> QED
  BY <1>1, <1>2, <1>3, <1>4, <1>5, <1>6, <1>7, <1>8, <1>9 DEF Next, Proceed

\* The inductive invariant of the deployment store: a pointer, and a pointer a
\* command is about to write, names a record already on disk (deployment.py).
THEOREM StoreInvariance == Spec => []StoreInv
  BY InitStore, StoreStepKeeps, PTL DEF Spec

\* However many commands overlap and wherever they die, the active and the
\* previous pointer name deployments whose record was written.
THEOREM PointersAlwaysResolve == Spec => []PointersResolve
<1>1. StoreInv => PointersResolve
  BY DEF StoreInv
<1> QED BY <1>1, StoreInvariance, PTL

-----------------------------------------------------------------------------
(* The deployment store: what was reported stays, and recover() recovers.  *)

Runs(p) == command[p] # None
Deploying(p) == command[p] \in {"stage", "rollback"}
ActiveLeft(p) == \E i \in 1..Len(plan[p]) : plan[p][i].file = "active"

\* A command that has run alone since it started is the only one there is.
Alone ==
  /\ solo => \A p, q \in Procs : Runs(p) /\ Runs(q) => p = q
  /\ reported # None => Quiet \/ solo

\* A command activates what it will report, once its record is on disk.
Names(p) ==
  \A i \in 1..Len(plan[p]) : plan[p][i].file = "active" =>
    /\ plan[p][i].to = result[p]
    /\ result[p] \in records \/ \E j \in 1..i - 1 : plan[p][j] = Write("record", result[p])

PlanMeans(p) ==
  /\ ~Runs(p) => plan[p] = <<>> /\ result[p] = None
  /\ Names(p)
  /\ ~ActiveLeft(p) => result[p] \in records \cup {None}
  /\ solo /\ Runs(p) /\ ~ActiveLeft(p) => active = result[p]

Deployed == {result[p] : p \in {q \in Procs : Deploying(q)}}

\* What was reported is active, or what a command since was to activate; a
\* recover() finds nothing to do.
Kept ==
  reported # None =>
    /\ active \in records /\ active \in {reported} \cup attempted \cup Deployed
    /\ \A p \in Procs : command[p] = "recover" => plan[p] = <<>>

ReportInv == Alone /\ (\A p \in Procs : PlanMeans(p)) /\ Kept

LEMMA ReportInvInit == Init => ReportInv
<1> SUFFICES ASSUME Init PROVE ReportInv
  OBVIOUS
<1>1. \A p \in Procs : PlanMeans(p)
  BY SMT DEF Init, PlanMeans, Runs, Names
<1>2. Alone /\ Kept
  BY DEF Init, Alone, Kept, Runs
<1> QED BY <1>1, <1>2 DEF ReportInv

\* A command starts: what it will do is known, and nothing else has changed.
LEMMA BeginReports ==
  ASSUME StoreInv, ReportInv, NEW p \in Procs, NEW c \in Commands,
         NEW writes \in Seq(Writes), NEW b \in Bundles \cup {None},
         Begin(p, c, writes, b), PlanMeans(p)',
         c = "recover" /\ active \in records => writes = <<>>
  PROVE  ReportInv'
<1> USE DEF StoreInv, ReportInv
<1>0. /\ None \notin Commands
      /\ \A q \in Procs \ {p} : command'[q] = command[q] /\ plan'[q] = plan[q] /\ result'[q] = result[q]
      /\ command[p] = None /\ command'[p] = c /\ plan'[p] = writes
      /\ UNCHANGED <<records, active, attempted>>
      /\ solo' = Quiet /\ reported' = (IF Quiet THEN reported ELSE None)
  BY DeploymentsAssumption DEF DeploymentsAssumption, Begin, TypeOK
<1>1. Alone'
  BY <1>0 DEF Alone, Quiet, Runs
<1>2. ASSUME NEW q \in Procs PROVE PlanMeans(q)'
  <2>1. CASE q = p
    BY <2>1
  <2>2. CASE q # p
    <3>1. Names(q)'
      <4>1. Names(q) /\ UNCHANGED <<plan[q], result[q], records>>
        BY <1>0, <2>2 DEF PlanMeans
      <4> HIDE DEF StoreInv, ReportInv
      <4> QED BY <4>1 DEF Names
    <3>2. solo' => ~Runs(q)
      BY <1>0 DEF Quiet, Runs
    <3> QED BY <1>0, <2>2, <3>1, <3>2 DEF PlanMeans, Runs, ActiveLeft
  <2> QED BY <2>1, <2>2
<1>3. Kept'
  <2> SUFFICES ASSUME reported' # None PROVE Kept'
    BY DEF Kept
  <2>1. reported' = reported /\ Quiet /\ active \in records
        /\ active \in {reported} \cup attempted \cup Deployed
    BY <1>0 DEF Kept
  <2>2. Deployed = {}
    BY <2>1, DeploymentsAssumption DEF DeploymentsAssumption, Deployed, Deploying, Quiet, Commands
  <2>3. \A q \in Procs : command'[q] = "recover" => plan'[q] = <<>>
    BY <1>0, <2>1, DeploymentsAssumption DEF DeploymentsAssumption, Quiet, Commands
  <2> QED BY <1>0, <2>1, <2>2, <2>3 DEF Kept
<1> QED BY <1>1, <1>2, <1>3

LEMMA StageReports ==
  ASSUME StoreInv, ReportInv, NEW p \in Procs, NEW b \in Bundles, Stage(p, b)
  PROVE  ReportInv'
<1> DEFINE writes == DeployWrites(b, active)
<1>1. active \in Bundles \cup {None}
  BY DEF StoreInv, TypeOK
<1>2. /\ writes \in Seq(Writes) /\ Len(writes) \in {2, 3}
      /\ writes[1] = Write("record", b) /\ writes[2] = Write("active", b)
      /\ Len(writes) = 3 => writes[3] = Write("previous", active)
  BY <1>1, DeployPlan
<1>3. Begin(p, "stage", writes, b)
  BY DEF Stage
<1> HIDE DEF writes
<1>4. plan'[p] = writes /\ result'[p] = b /\ command'[p] = "stage"
  BY <1>3 DEF Begin, StoreInv, TypeOK
<1>5. ActiveLeft(p)'
  BY <1>2, <1>4 DEF ActiveLeft, Write
<1>6. Names(p)'
  <2> SUFFICES ASSUME NEW i \in 1..Len(writes), writes[i].file = "active"
               PROVE  writes[i].to = b /\ \E j \in 1..i - 1 : writes[j] = Write("record", b)
    BY <1>4 DEF Names
  <2>1. i \in {1, 2, 3} /\ (i = 3 => Len(writes) = 3)
    BY <1>2
  <2>2. i = 2
    BY <1>2, <2>1 DEF Write
  <2>3. 1 \in 1..i - 1
    BY <2>2
  <2> QED BY <1>2, <2>2, <2>3 DEF Write
<1>7. PlanMeans(p)'
  BY <1>4, <1>5, <1>6, DeploymentsAssumption
     DEF DeploymentsAssumption, PlanMeans, Runs, Commands
<1> QED BY <1>2, <1>3, <1>7, BeginReports DEF Commands

LEMMA RollbackReports ==
  ASSUME StoreInv, ReportInv, NEW p \in Procs, Rollback(p)
  PROVE  ReportInv'
<1> DEFINE writes == <<Write("active", previous), Write("previous", active)>>
<1>1. active \in Bundles /\ previous \in Bundles /\ previous \in records
  BY DEF StoreInv, TypeOK, Rollback
<1>2. /\ writes \in Seq(Writes) /\ Len(writes) = 2
      /\ writes[1] = Write("active", previous) /\ writes[2] = Write("previous", active)
  BY <1>1, SMT DEF Write, Writes, Files
<1>3. Begin(p, "rollback", writes, previous)
  BY DEF Rollback
<1> HIDE DEF writes
<1>4. plan'[p] = writes /\ result'[p] = previous /\ command'[p] = "rollback" /\ records' = records
  BY <1>3 DEF Begin, StoreInv, TypeOK
<1>5. ActiveLeft(p)'
  <2>1. 1 \in 1..Len(writes) /\ writes[1].file = "active"
    BY <1>2 DEF Write
  <2> QED BY <1>4, <2>1 DEF ActiveLeft
<1>6. Names(p)'
  <2> SUFFICES ASSUME NEW i \in 1..Len(writes), writes[i].file = "active"
               PROVE  writes[i].to = previous
    BY <1>1, <1>4 DEF Names
  <2>1. i \in {1, 2}
    BY <1>2
  <2> QED BY <1>2, <2>1 DEF Write
<1>7. PlanMeans(p)'
  BY <1>4, <1>5, <1>6, DeploymentsAssumption
     DEF DeploymentsAssumption, PlanMeans, Runs, Commands
<1> QED BY <1>1, <1>2, <1>3, <1>7, BeginReports DEF Commands

LEMMA RecoverReports ==
  ASSUME StoreInv, ReportInv, NEW p \in Procs, Recover(p)
  PROVE  ReportInv'
<1>1. records \subseteq Bundles /\ active \in Bundles \cup {None}
  BY DEF StoreInv, TypeOK
<1>2. ASSUME NEW b \in records, NeedsRecovery, Begin(p, "recover", <<Write("active", b)>>, b)
      PROVE  ReportInv'
  <2> DEFINE writes == <<Write("active", b)>>
  <2>1. /\ writes \in Seq(Writes) /\ b \in Bundles
        /\ Len(writes) = 1 /\ writes[1] = Write("active", b)
    BY <1>1, SMT DEF Write, Writes, Files
  <2>2. Begin(p, "recover", writes, b)
    BY <1>2
  <2> HIDE DEF writes
  <2>3. plan'[p] = writes /\ result'[p] = b /\ command'[p] = "recover" /\ records' = records
    BY <2>2 DEF Begin, StoreInv, TypeOK
  <2>4. ActiveLeft(p)' /\ Names(p)'
    <3>1. 1 \in 1..Len(writes) /\ \A i \in 1..Len(writes) : writes[i] = Write("active", b)
      BY <2>1
    <3> QED BY <2>3, <3>1 DEF ActiveLeft, Names, Write
  <2>5. PlanMeans(p)'
    BY <2>3, <2>4, DeploymentsAssumption DEF DeploymentsAssumption, PlanMeans, Runs, Commands
  <2> QED BY <1>2, <2>1, <2>2, <2>5, BeginReports DEF Commands, NeedsRecovery
<1>3. ASSUME Begin(p, "recover", <<>>, active), active \in records \cup {None}
      PROVE  ReportInv'
  <2> DEFINE writes == <<>>
  <2>1. writes \in Seq(Writes) /\ Len(writes) = 0
    BY SMT
  <2>2. Begin(p, "recover", writes, active) /\ writes = <<>>
    BY <1>3
  <2> HIDE DEF writes
  <2>3. plan'[p] = writes /\ result'[p] = active /\ command'[p] = "recover"
        /\ records' = records /\ active' = active
    BY <2>2 DEF Begin, StoreInv, TypeOK
  <2>4. Names(p)'
    BY <2>1, <2>3 DEF Names
  <2>5. PlanMeans(p)'
    BY <1>3, <2>3, <2>4, DeploymentsAssumption
       DEF DeploymentsAssumption, PlanMeans, Runs, Commands
  <2> QED BY <1>1, <2>1, <2>2, <2>5, BeginReports DEF Commands
<1> QED BY <1>2, <1>3 DEF Recover, NeedsRecovery

\* The next write of a plan and what the plan still means after it.
LEMMA WriteReports ==
  ASSUME StoreInv, ReportInv, NEW p \in Procs, DoWrite(p)
  PROVE  ReportInv'
<1> USE DEF StoreInv, ReportInv
<1> DEFINE w == Head(plan[p])
           s == plan[p]
           n == Len(s)
<1>0. /\ s \in Seq(Writes) /\ Runs(p) /\ w = s[1] /\ w \in Writes
      /\ n \in Nat /\ n >= 1 /\ plan'[p] = Tail(s)
      /\ Len(Tail(s)) = n - 1 /\ \A i \in 1..n - 1 : Tail(s)[i] = s[i + 1]
      /\ UNCHANGED <<command, result, solo, reported, attempted, untidy>>
      /\ \A q \in Procs \ {p} : plan'[q] = plan[q]
  BY SMT DEF TypeOK, DoWrite, Runs
<1>1. /\ w.file = "active" => w.to = result[p] /\ result[p] \in records
      /\ records \subseteq records'
      /\ w.file = "record" => w.to \in records'
      /\ active' = (IF w.file = "active" THEN w.to ELSE active)
  <2>1. 1 \in 1..n /\ ~ \E j \in 1..1 - 1 : TRUE
    BY <1>0
  <2>2. Names(p)
    BY DEF PlanMeans
  <2>3. w.file = "active" => w.to = result[p] /\ result[p] \in records
    BY <1>0, <2>1, <2>2 DEF Names
  <2>4. records' = (IF w.file = "record" THEN records \cup {w.to} ELSE records)
        /\ active' = (IF w.file = "active" THEN w.to ELSE active)
    BY DEF DoWrite
  <2> QED BY <2>3, <2>4
<1>2. Alone'
  BY <1>0 DEF Alone, Quiet, Runs
<1>3. ASSUME NEW q \in Procs, q # p PROVE PlanMeans(q)'
  <2>1. Names(q)'
    <3>1. Names(q) /\ UNCHANGED <<plan[q], result[q]>> /\ records \subseteq records'
      BY <1>0, <1>1, <1>3 DEF PlanMeans
    <3> HIDE DEF StoreInv, ReportInv
    <3> QED BY <3>1 DEF Names
  <2>2. solo => ~Runs(q)
    BY <1>0, <1>3 DEF Alone
  <2> QED BY <1>0, <1>1, <1>3, <2>1, <2>2 DEF PlanMeans, Runs, ActiveLeft
<1>n. ASSUME NEW i \in 1..n - 1 PROVE i + 1 \in 1..n /\ Tail(s)[i] = s[i + 1]
  BY <1>0, <1>n
<1>4. Names(p)'
  <2> SUFFICES ASSUME NEW i \in 1..n - 1, Tail(s)[i].file = "active"
               PROVE  /\ Tail(s)[i].to = result[p]
                      /\ \/ result[p] \in records'
                         \/ \E j \in 1..i - 1 : Tail(s)[j] = Write("record", result[p])
    BY <1>0 DEF Names
  <2>1. Tail(s)[i].to = result[p]
        /\ (result[p] \in records \/ \E j \in 1..(i + 1) - 1 : s[j] = Write("record", result[p]))
    BY <1>n DEF PlanMeans, Names
  <2>2. ASSUME NEW j \in 1..(i + 1) - 1, s[j] = Write("record", result[p])
        PROVE  \/ result[p] \in records'
               \/ \E k \in 1..i - 1 : Tail(s)[k] = Write("record", result[p])
    <3>1. CASE j = 1
      BY <1>0, <1>1, <2>2, <3>1 DEF Write
    <3>2. CASE j # 1
      <4>1. j - 1 \in 1..i - 1 /\ j - 1 \in 1..n - 1 /\ (j - 1) + 1 = j
        BY <1>0, <2>2, <3>2
      <4>2. Tail(s)[j - 1] = s[j]
        BY <1>0, <4>1
      <4> QED BY <2>2, <4>1, <4>2
    <3> QED BY <3>1, <3>2
  <2> QED BY <1>1, <2>1, <2>2
<1>5. w.file # "active" /\ ActiveLeft(p) => ActiveLeft(p)'
  <2> SUFFICES ASSUME w.file # "active", NEW i \in 1..n, s[i].file = "active"
               PROVE  \E k \in 1..n - 1 : Tail(s)[k].file = "active"
    BY <1>0 DEF ActiveLeft
  <2>1. i # 1
    BY <1>0
  <2>2. i - 1 \in 1..n - 1 /\ (i - 1) + 1 = i
    BY <1>0, <2>1
  <2>3. Tail(s)[i - 1] = s[i]
    BY <1>0, <2>2
  <2> QED BY <2>2, <2>3
<1>6. PlanMeans(p)'
  <2>1. ~ActiveLeft(p)' => result[p] \in records' \cup {None}
    BY <1>1, <1>5 DEF PlanMeans
  <2>2. solo /\ ~ActiveLeft(p)' => active' = result[p]
    BY <1>0, <1>1, <1>5 DEF PlanMeans
  <2> QED BY <1>0, <1>4, <2>1, <2>2 DEF PlanMeans, Runs
<1>7. Kept'
  <2> SUFFICES ASSUME reported # None PROVE Kept'
    BY <1>0 DEF Kept
  <2>1. active \in records /\ active \in {reported} \cup attempted \cup Deployed
        /\ \A q \in Procs : command[q] = "recover" => plan[q] = <<>>
    BY DEF Kept
  <2>2. Deploying(p)
    BY <1>0, <2>1 DEF TypeOK, Commands, Runs, Deploying, DoWrite
  <2>3. Deployed' = Deployed /\ result[p] \in Deployed
    BY <1>0, <2>2 DEF Deployed, Deploying
  <2>4. \A q \in Procs : command'[q] = "recover" => plan'[q] = <<>>
    BY <1>0, <2>1, <2>2 DEF Deploying
  <2>5. active' \in records' /\ active' \in {reported} \cup attempted \cup Deployed
    BY <1>1, <2>1, <2>3
  <2> QED BY <1>0, <2>3, <2>4, <2>5 DEF Kept
<1> QED BY <1>2, <1>3, <1>6, <1>7

\* A command ends, having done all it was to do or died.
LEMMA EndReports ==
  ASSUME StoreInv, ReportInv, NEW p \in Procs, Runs(p), End(p),
         UNCHANGED <<records, active, solo>>, reported' # None => solo, Kept'
  PROVE  ReportInv'
<1> USE DEF StoreInv, ReportInv
<1>0. /\ command'[p] = None /\ plan'[p] = <<>> /\ result'[p] = None
      /\ \A q \in Procs \ {p} : command'[q] = command[q] /\ plan'[q] = plan[q] /\ result'[q] = result[q]
  BY DEF End, TypeOK
<1>1. ASSUME NEW q \in Procs PROVE PlanMeans(q)'
  <2>1. CASE q = p
    <3>1. Names(p)'
      BY <1>0, SMT DEF Names
    <3> QED BY <1>0, <2>1, <3>1 DEF PlanMeans, Runs
  <2>2. CASE q # p
    <3>1. Names(q)'
      BY <1>0, <2>2 DEF PlanMeans, Names
    <3> QED BY <1>0, <2>2, <3>1 DEF PlanMeans, Runs, ActiveLeft
  <2> QED BY <2>1, <2>2
<1>2. solo' => \A q, r \in Procs : Runs(q)' /\ Runs(r)' => q = r
  BY <1>0 DEF Alone, Runs
<1> QED BY <1>1, <1>2, <1>0 DEF Alone

LEMMA ReturnReports ==
  ASSUME StoreInv, ReportInv, NEW p \in Procs, Return(p)
  PROVE  /\ ReportInv'
         /\ command[p] = "recover" /\ solo => active \in records \cup {None}
<1> USE DEF StoreInv, ReportInv
<1>0. Runs(p) /\ plan[p] = <<>> /\ End(p) /\ UNCHANGED <<records, active, solo>>
  BY DEF Return, Runs, store
<1>1. ~ActiveLeft(p)
  BY <1>0, SMT DEF ActiveLeft
<1>2. result[p] \in records \cup {None} /\ (solo => active = result[p])
  BY <1>0, <1>1 DEF PlanMeans
<1>3. reported' # None => solo
  BY <1>0 DEF Return, Alone, Quiet, Runs
<1>4. ASSUME solo PROVE \A q \in Procs : command'[q] = None /\ (q # p => ~Deploying(q))
  BY <1>0, <1>4, DeploymentsAssumption
     DEF DeploymentsAssumption, Commands, Alone, Runs, End, TypeOK, Deploying
<1>5. Kept'
  <2> SUFFICES ASSUME reported' # None PROVE Kept'
    BY DEF Kept
  <2>1. \A q \in Procs : command'[q] # "recover"
    BY <1>3, <1>4, DeploymentsAssumption DEF DeploymentsAssumption, Commands
  <2>2. CASE command[p] = "recover"
    <3>1. reported' = reported /\ attempted' = attempted
      BY <2>2 DEF Return
    <3>2. Deployed = {}
      BY <1>3, <1>4, <2>2 DEF Deployed, Deploying
    <3> QED BY <1>0, <2>1, <3>1, <3>2 DEF Kept
  <2>3. CASE command[p] # "recover"
    <3>1. reported' = result[p]
      BY <2>3 DEF Return
    <3> QED BY <1>0, <1>2, <1>3, <2>1, <3>1 DEF Kept
  <2> QED BY <2>2, <2>3
<1> QED BY <1>0, <1>2, <1>3, <1>5, EndReports

LEMMA CrashReports ==
  ASSUME StoreInv, ReportInv, NEW p \in Procs, Crash(p)
  PROVE  ReportInv'
<1> USE DEF StoreInv, ReportInv
<1>0. Runs(p) /\ End(p) /\ UNCHANGED <<records, active, solo, reported>>
      /\ attempted' = attempted \cup ({result[p]} \ {None})
  BY DEF Crash, Runs
<1>1. reported' # None => solo
  BY <1>0 DEF Alone, Quiet, Runs
<1>2. Kept'
  <2> SUFFICES ASSUME reported # None PROVE Kept'
    BY <1>0 DEF Kept
  <2>1. active \in records /\ active \in {reported} \cup attempted \cup Deployed
    BY DEF Kept
  <2>2. \A q \in Procs : command'[q] = None /\ (q # p => ~Deploying(q))
    BY <1>0, <1>1, DeploymentsAssumption
       DEF DeploymentsAssumption, Commands, Alone, Runs, End, TypeOK, Deploying
  <2>3. Deployed \subseteq {result[p]}
    BY <2>2 DEF Deployed
  <2>4. active # None
    BY <2>1, DeploymentsAssumption DEF DeploymentsAssumption, TypeOK
  <2>5. active' \in {reported'} \cup attempted'
    BY <1>0, <2>1, <2>3, <2>4
  <2>6. \A q \in Procs : command'[q] # "recover"
    BY <2>2, DeploymentsAssumption DEF DeploymentsAssumption, Commands
  <2> QED BY <1>0, <2>1, <2>5, <2>6 DEF Kept
<1> QED BY <1>0, <1>1, <1>2, EndReports

LEMMA LossReports ==
  ASSUME StoreInv, ReportInv, LoseFile
  PROVE  ReportInv'
<1> USE DEF StoreInv, ReportInv
<1>0. Quiet /\ UNCHANGED <<command, plan, result, solo>> /\ reported' = None
  BY DEF LoseFile, runVars
<1>1. ASSUME NEW p \in Procs PROVE PlanMeans(p)'
  <2>1. ~Runs(p) /\ plan[p] = <<>> /\ result[p] = None
    BY <1>0 DEF Quiet, PlanMeans, Runs
  <2>2. Names(p)'
    BY <1>0, <2>1, SMT DEF Names
  <2> QED BY <1>0, <2>1, <2>2 DEF PlanMeans, Runs
<1> QED BY <1>0, <1>1 DEF Alone, Kept, Runs

LEMMA ReportInvStep == StoreInv /\ ReportInv /\ [Next]_vars => ReportInv'
<1> SUFFICES ASSUME StoreInv, ReportInv, [Next]_vars PROVE ReportInv'
  OBVIOUS
<1>1. ASSUME NEW p \in Procs, RecoverRaises(p) PROVE ReportInv'
  BY <1>1 DEF RecoverRaises, ReportInv, Alone, Quiet, Runs, PlanMeans, Names, ActiveLeft, Kept,
              Deployed, Deploying, runVars, history
<1>2. CASE UNCHANGED vars
  BY <1>2 DEF vars, store, ReportInv, Alone, Quiet, Runs, PlanMeans, Names, ActiveLeft, Kept,
              Deployed, Deploying, runVars, history
<1> QED
  BY <1>1, <1>2, StageReports, RollbackReports, RecoverReports, WriteReports, ReturnReports,
     CrashReports, LossReports DEF Next, Proceed

\* What a stage or rollback that ran alone reported stays active, but for what
\* commands that died since were activating, whatever recover() did after them
\* (deployments.py).
THEOREM ReportedIsKept == Spec => []ReportedSurvives
<1>1. StoreInv /\ ReportInv => ReportedSurvives
  <2> SUFFICES ASSUME ReportInv, Quiet, reported # None
               PROVE  active \in {reported} \cup attempted
    BY DEF ReportedSurvives
  <2>1. Deployed = {}
    BY DeploymentsAssumption DEF DeploymentsAssumption, Commands, Quiet, Deployed, Deploying
  <2> QED BY <2>1 DEF ReportInv, Kept
<1> QED BY <1>1, InitStore, StoreStepKeeps, ReportInvInit, ReportInvStep, PTL DEF Spec

\* When a recover() that ran alone returns, there is no active pointer or it
\* names a record, whatever had been lost or half done (deployments.py).
THEOREM RecoverResolves == Spec => RecoveredResolves
<1>1. StoreInv /\ ReportInv /\ [Next]_vars =>
        [\A p \in Procs : command[p] = "recover" /\ solo /\ command'[p] = None /\ ~untidy' =>
           active \in records \cup {None}]_vars
  <2> SUFFICES ASSUME StoreInv, ReportInv, Next, NEW p \in Procs, command[p] = "recover", solo,
                      command'[p] = None, ~untidy'
               PROVE  active \in records \cup {None}
    OBVIOUS
  <2>0. command[p] # None /\ command \in [Procs -> Commands \cup {None}] /\ None \notin Commands
    BY DeploymentsAssumption DEF DeploymentsAssumption, Commands, StoreInv, TypeOK
  <2>1. \E q \in Procs : Return(q) \/ Crash(q)
    BY <2>0 DEF Next, Proceed, Stage, Rollback, Recover, RecoverRaises, Begin, DoWrite, LoseFile,
                runVars
  <2>2. ASSUME NEW q \in Procs, Return(q) \/ Crash(q) PROVE q = p
    BY <2>0, <2>2 DEF Return, Crash, End
  <2>3. Return(p)
    BY <2>1, <2>2 DEF Crash
  <2> QED BY <2>3, ReturnReports
<1> QED BY <1>1, InitStore, StoreStepKeeps, ReportInvInit, ReportInvStep, PTL
        DEF Spec, RecoveredResolves

-----------------------------------------------------------------------------
(* Pull and apply.                                                         *)

PullTypes ==
  /\ tempFile \in Bundles \cup {None}
  /\ cache \in [Bundles -> Bundles \cup {None}]
  /\ pullRec \in [Bundles -> Assignments \cup {None}]
  /\ pull \in [Procs -> PullSteps]
  /\ source \in [Procs -> Bundles \cup {None}]
  /\ target \in [Procs -> Bundles \cup {None}]
  /\ assigned \in [Procs -> Assignments \cup {None}]

\* A process that pulls runs no store command, and its target is set.
OneJob ==
  \A p \in Procs : pull[p] # "idle" =>
    command[p] = None /\ target[p] \in Bundles /\ assigned[p] \in Assignments

GoodBundles == {b \in Bundles : IsValid(b) /\ \E a \in Assignments : <<a, b>> \in Approved}

PullInv == StoreInv /\ PullTypes /\ OneJob

LEMMA PullInitInv == PullInit => PullInv
<1> SUFFICES ASSUME PullInit PROVE PullInv
  OBVIOUS
<1>1. StoreInv
  BY InitStore DEF PullInit
<1>2. PullTypes
  BY DEF PullInit, PullTypes, PullSteps
<1>3. OneJob
  BY DEF PullInit, OneJob
<1> QED BY <1>1, <1>2, <1>3 DEF PullInv

\* Every step of the protocol is a command of the store, a step of one, or
\* leaves the store alone: what is proved of the store holds here too.
LEMMA PullStepIsStoreStep == PullInv /\ [PullNext]_allVars => [Next]_vars
<1> SUFFICES ASSUME PullInv, PullNext PROVE Next \/ UNCHANGED vars
  BY DEF allVars
<1>1. ASSUME NEW p \in Procs, NEW a \in Assignments, NEW t \in Bundles, Apply(p, a, t)
      PROVE  Next
  <2>1. cache[t] \in Bundles
    BY <1>1 DEF Apply, PullInv, PullTypes
  <2> QED BY <1>1, <2>1 DEF Apply, Next
<1>2. ASSUME NEW p \in Procs, PullStep(p) PROVE UNCHANGED vars
  BY <1>2 DEF PullStep, Check, PullRaises, Copy, WritePullRecord, PullDies
<1>3. ASSUME NEW p \in Procs, StoreCommand(p) \/ StoreStep(p) PROVE Next
  BY <1>3 DEF StoreCommand, StoreStep, Next
<1>4. ASSUME NEW p \in Procs, NEW a \in Assignments, NEW t \in Bundles,
             NEW content \in Bundles, Fetch(p, a, t, content) \/ Republish(p, content)
      PROVE  UNCHANGED vars
  BY <1>4 DEF Fetch, Republish
<1>5. ASSUME NEW p \in Procs, NEW content \in Bundles, Republish(p, content)
      PROVE  UNCHANGED vars
  BY <1>5 DEF Republish
<1> QED BY <1>1, <1>2, <1>3, <1>4, <1>5 DEF PullNext, Next

LEMMA PullTypesKept == PullInv /\ [PullNext]_allVars => PullTypes'
<1> SUFFICES ASSUME PullInv, [PullNext]_allVars PROVE PullTypes'
  OBVIOUS
<1> USE DEF PullInv, PullTypes
<1>1. ASSUME NEW p \in Procs, NEW a \in Assignments, NEW t \in Bundles, Apply(p, a, t)
      PROVE  PullTypes'
  BY <1>1 DEF Apply
<1>2. ASSUME NEW p \in Procs, NEW a \in Assignments, NEW t \in Bundles,
             NEW content \in Bundles, Fetch(p, a, t, content)
      PROVE  PullTypes'
  BY <1>2 DEF Fetch, Step, PullSteps
<1>3. ASSUME NEW p \in Procs, NEW content \in Bundles, Republish(p, content)
      PROVE  PullTypes'
  BY <1>3 DEF Republish
<1>4. ASSUME NEW p \in Procs, PullStep(p) PROVE PullTypes'
  <2>1. CASE Check(p)
    BY <2>1 DEF Check, Step, PullSteps
  <2>2. CASE PullRaises(p)
    BY <2>2 DEF PullRaises, PullEnds, Step, PullSteps
  <2>3. CASE Copy(p)
    <3>1. Fetched(p) \in Bundles
      BY <2>3 DEF Copy, Acceptable, Fetched
    <3> QED BY <2>3, <3>1 DEF Copy, Step, PullSteps
  <2>4. CASE WritePullRecord(p)
    BY <2>4 DEF WritePullRecord, PullEnds, Step, PullSteps
  <2>5. CASE PullDies(p)
    BY <2>5 DEF PullDies, PullEnds, Step, PullSteps
  <2> QED BY <1>4, <2>1, <2>2, <2>3, <2>4, <2>5 DEF PullStep
<1>5. ASSUME NEW p \in Procs, StoreCommand(p) PROVE PullTypes'
  BY <1>5 DEF StoreCommand, pullVars
<1>6. ASSUME NEW p \in Procs, StoreStep(p) PROVE PullTypes'
  BY <1>6 DEF StoreStep
<1>7. CASE UNCHANGED pullVars
  BY <1>7 DEF pullVars
<1> QED BY <1>1, <1>2, <1>3, <1>4, <1>5, <1>6, <1>7 DEF PullNext, allVars

LEMMA OneJobKept == PullInv /\ [PullNext]_allVars => OneJob'
<1> SUFFICES ASSUME PullInv, [PullNext]_allVars, NEW q \in Procs, pull'[q] # "idle"
             PROVE  command'[q] = None /\ target'[q] \in Bundles /\ assigned'[q] \in Assignments
  BY DEF OneJob
<1> USE DEF PullInv, PullTypes, OneJob
<1>1. ASSUME NEW p \in Procs, NEW a \in Assignments, NEW t \in Bundles, Apply(p, a, t)
      PROVE  command'[q] = None /\ target'[q] \in Bundles /\ assigned'[q] \in Assignments
  BY <1>1 DEF Apply, Stage, Begin, StoreInv, TypeOK
<1>2. ASSUME NEW p \in Procs, NEW a \in Assignments, NEW t \in Bundles,
             NEW content \in Bundles, Fetch(p, a, t, content)
      PROVE  command'[q] = None /\ target'[q] \in Bundles /\ assigned'[q] \in Assignments
  BY <1>2 DEF Fetch, Step, MayPull, vars, runVars
<1>3. ASSUME NEW p \in Procs, NEW content \in Bundles, Republish(p, content)
      PROVE  command'[q] = None /\ target'[q] \in Bundles /\ assigned'[q] \in Assignments
  BY <1>3 DEF Republish, vars, runVars
<1>4. ASSUME NEW p \in Procs, PullStep(p)
      PROVE  command'[q] = None /\ target'[q] \in Bundles /\ assigned'[q] \in Assignments
  BY <1>4
  DEF PullStep, Check, PullRaises, Copy, WritePullRecord, PullDies, PullEnds, Step, vars, runVars
<1>5. ASSUME NEW p \in Procs, StoreCommand(p)
      PROVE  command'[q] = None /\ target'[q] \in Bundles /\ assigned'[q] \in Assignments
  BY <1>5
  DEF StoreCommand, pullVars, Rollback, Recover, RecoverRaises, Begin, runVars, StoreInv, TypeOK
<1>6. ASSUME NEW p \in Procs, StoreStep(p)
      PROVE  command'[q] = None /\ target'[q] \in Bundles /\ assigned'[q] \in Assignments
  <2>1. command[p] # None /\ p # q
    BY <1>6 DEF StoreStep, Proceed, DoWrite, Return, Crash
  <2>2. command'[q] = command[q]
    BY <1>6, <2>1 DEF StoreStep, Proceed, DoWrite, Return, Crash, End, StoreInv, TypeOK
  <2> QED BY <1>6, <2>1, <2>2 DEF StoreStep
<1>7. CASE LoseFile /\ UNCHANGED pullVars
  BY <1>7 DEF LoseFile, pullVars, runVars
<1>8. CASE UNCHANGED allVars
  BY <1>8 DEF allVars, pullVars, vars, runVars
<1> QED BY <1>1, <1>2, <1>3, <1>4, <1>5, <1>6, <1>7, <1>8 DEF PullNext

\* The inductive invariant of pull and apply: types, and a process runs at
\* most one command at a time (governance_pull.py).
THEOREM PullInvariance == PullSpec => []PullInv
<1>1. PullInv /\ [PullNext]_allVars => PullInv'
  <2> SUFFICES ASSUME PullInv, [PullNext]_allVars PROVE PullInv'
    OBVIOUS
  <2>1. StoreInv'
    BY PullStepIsStoreStep, StoreStepKeeps DEF PullInv
  <2> QED BY <2>1, PullTypesKept, OneJobKept DEF PullInv
<1> QED BY <1>1, PullInitInv, PTL DEF PullSpec

\* Every step of pull and apply (governance_pull.py) is a step of the deployment
\* store (deployment.py) or leaves it alone.
THEOREM PullUsesTheStore == PullSpec => Spec
<1>1. PullInit => Init
  BY DEF PullInit
<1> QED BY <1>1, PullStepIsStoreStep, PullInvariance, PTL DEF PullSpec, Spec

\* Type correctness of pull, apply and the store (governance_pull.py,
\* deployment.py).
THEOREM PullTypeCorrect == PullSpec => []PullTypeOK
<1>1. PullInv => PullTypeOK
  BY DEF PullInv, StoreInv, PullTypes, PullTypeOK
<1> QED BY <1>1, PullInvariance, PTL

-----------------------------------------------------------------------------
(* What is applied was approved: pulls that do not overlap, from sources   *)
(* that do not change between validation and copy.                         *)

\* At most one process pulls.
OnePull == \A p, q \in Procs : pull[p] # "idle" /\ pull[q] # "idle" => p = q

\* What is about to be copied is what was compared with the target.
CopiesTarget == \A p \in Procs : pull[p] = "matched" => Fetched(p) = target[p]

CacheNamed == \A t \in Bundles : cache[t] \in {t, None}

OnlyGood ==
  /\ records \cup {active, previous} \subseteq GoodBundles \cup {None}
  /\ \A p \in Procs : \A i \in 1..Len(plan[p]) : plan[p][i].to \in GoodBundles

SafeInv == PullInv /\ OnePull /\ CopiesTarget /\ CacheNamed /\ OnlyGood /\ AppliedIsApproved

LEMMA SafeInit == PullInit => SafeInv
<1> SUFFICES ASSUME PullInit PROVE SafeInv
  OBVIOUS
<1>1. OnePull /\ CopiesTarget
  BY DEF PullInit, OnePull, CopiesTarget
<1>2. CacheNamed
  BY DEF PullInit, CacheNamed
<1>3. OnlyGood
  BY SMT DEF PullInit, Init, OnlyGood
<1>4. AppliedIsApproved
  BY DeploymentsAssumption DEF DeploymentsAssumption, Commands, PullInit, Init, AppliedIsApproved
<1> QED BY <1>1, <1>2, <1>3, <1>4, PullInitInv DEF SafeInv

LEMMA OnePullKept ==
  ASSUME ~PullsOverlap, SafeInv, [PullNext]_allVars
  PROVE  OnePull'
<1> SUFFICES ASSUME NEW q \in Procs, NEW r \in Procs, pull'[q] # "idle", pull'[r] # "idle"
             PROVE  q = r
  BY DEF OnePull
<1> USE DEF SafeInv, PullInv, PullTypes, OnePull
<1>1. ASSUME NEW p \in Procs, NEW a \in Assignments, NEW t \in Bundles,
             NEW content \in Bundles, Fetch(p, a, t, content)
      PROVE  q = r
  BY <1>1 DEF Fetch, Step, MayPull
<1>2. ASSUME NEW p \in Procs, PullStep(p) PROVE q = r
  <2>1. pull[p] # "idle" /\ \A x \in Procs : x # p => pull'[x] = pull[x]
    BY <1>2
    DEF PullStep, Check, PullRaises, Copy, WritePullRecord, PullDies, PullEnds, Step
  <2> QED BY <2>1
<1>3. CASE UNCHANGED pull
  BY <1>3
<1> QED
  BY <1>1, <1>2, <1>3
  DEF PullNext, Apply, Republish, StoreCommand, StoreStep, pullVars, allVars

LEMMA CopiesTargetKept ==
  ASSUME SourceStable, ~PullsOverlap, SafeInv, [PullNext]_allVars
  PROVE  CopiesTarget'
<1> SUFFICES ASSUME NEW q \in Procs, pull'[q] = "matched"
             PROVE  Fetched(q)' = target'[q]
  BY DEF CopiesTarget
<1> USE DEF SafeInv, PullInv, PullTypes, OnePull, CopiesTarget, Fetched
<1>1. ASSUME NEW p \in Procs, NEW a \in Assignments, NEW t \in Bundles,
             NEW content \in Bundles, Fetch(p, a, t, content)
      PROVE  Fetched(q)' = target'[q]
  BY <1>1 DEF Fetch, Step, MayPull
<1>2. ASSUME NEW p \in Procs, NEW content \in Bundles, Republish(p, content)
      PROVE  Fetched(q)' = target'[q]
  BY <1>2 DEF Republish
<1>3. ASSUME NEW p \in Procs, PullStep(p) PROVE Fetched(q)' = target'[q]
  <2>1. CASE Check(p)
    BY <2>1 DEF Check, Step, Acceptable, MatchesTarget
  <2>2. CASE PullRaises(p)
    BY <2>2 DEF PullRaises, PullEnds, Step
  <2>3. CASE Copy(p)
    BY <2>3 DEF Copy, Step
  <2>4. CASE WritePullRecord(p)
    BY <2>4 DEF WritePullRecord, PullEnds, Step
  <2>5. CASE PullDies(p)
    BY <2>5 DEF PullDies, PullEnds, Step
  <2> QED BY <1>3, <2>1, <2>2, <2>3, <2>4, <2>5 DEF PullStep
<1>4. ASSUME NEW p \in Procs, NEW a \in Assignments, NEW t \in Bundles, Apply(p, a, t)
      PROVE  Fetched(q)' = target'[q]
  <2>1. p # q
    BY <1>4 DEF Apply
  <2> QED BY <1>4, <2>1 DEF Apply
<1>5. ASSUME NEW p \in Procs, StoreStep(p) PROVE Fetched(q)' = target'[q]
  <2>1. command[p] # None /\ p # q
    BY <1>5 DEF StoreStep, Proceed, DoWrite, Return, Crash, OneJob
  <2> QED BY <1>5, <2>1 DEF StoreStep
<1>6. CASE UNCHANGED pullVars
  BY <1>6 DEF pullVars
<1> QED
  BY <1>1, <1>2, <1>3, <1>4, <1>5, <1>6 DEF PullNext, StoreCommand, allVars

LEMMA CacheNamedKept ==
  ASSUME SafeInv, [PullNext]_allVars
  PROVE  CacheNamed'
<1> USE DEF SafeInv, PullInv, PullTypes, CacheNamed
<1>1. ASSUME NEW p \in Procs, Copy(p) PROVE CacheNamed'
  BY <1>1 DEF Copy, CopiesTarget
<1>2. CASE UNCHANGED cache
  BY <1>2
<1> QED
  BY <1>1, <1>2
  DEF PullNext, Fetch, Republish, Apply, PullStep, Check, PullRaises, WritePullRecord,
      PullDies, StoreCommand, StoreStep, pullVars, allVars

\* A command that starts with a plan of approved bundles keeps OnlyGood.
LEMMA GoodBegin ==
  ASSUME SafeInv, NEW p \in Procs, NEW c \in Commands, NEW writes, NEW b,
         \A i \in 1..Len(writes) : writes[i].to \in GoodBundles,
         Begin(p, c, writes, b)
  PROVE  OnlyGood'
<1>1. GoodBundles' = GoodBundles
  BY DEF GoodBundles
<1>2. ASSUME NEW q \in Procs PROVE plan'[q] = IF q = p THEN writes ELSE plan[q]
  BY DEF SafeInv, PullInv, StoreInv, TypeOK, Begin
<1> QED BY <1>1, <1>2 DEF SafeInv, OnlyGood, Begin

LEMMA OnlyGoodKept ==
  ASSUME SafeInv, [PullNext]_allVars
  PROVE  OnlyGood'
<1>0. GoodBundles' = GoodBundles /\ StoreInv /\ OnlyGood
  BY DEF GoodBundles, SafeInv, PullInv
<1>t. /\ records \subseteq GoodBundles
      /\ active \in GoodBundles \cup {None} /\ previous \in GoodBundles \cup {None}
      /\ GoodBundles \subseteq Bundles /\ None \notin Bundles
  BY <1>0, DeploymentsAssumption DEF StoreInv, TypeOK, OnlyGood, DeploymentsAssumption, GoodBundles
<1>1. ASSUME NEW p \in Procs, NEW a \in Assignments, NEW t \in Bundles, Apply(p, a, t)
      PROVE  OnlyGood'
  <2> DEFINE writes == DeployWrites(t, active)
  <2>1. cache[t] = t /\ t \in GoodBundles
    BY <1>1 DEF Apply, SafeInv, CacheNamed, ApprovalMatches, GoodBundles
  <2>2. /\ writes \in Seq(Writes) /\ Len(writes) \in {2, 3}
        /\ writes[1] = Write("record", t) /\ writes[2] = Write("active", t)
        /\ Len(writes) = 3 => active # None /\ writes[3] = Write("previous", active)
    BY <1>t, DeployPlan
  <2>3. ASSUME NEW i \in 1..Len(writes) PROVE writes[i].to \in GoodBundles
    <3> DEFINE n == Len(writes)
    <3>0. i \in 1..n /\ n \in {2, 3}
      BY <2>2
    <3>1. i \in {1, 2, 3} /\ (i = 3 => n = 3)
      <4> HIDE DEF n
      <4> QED BY <3>0, SMT
    <3> HIDE DEF writes
    <3> QED BY <1>t, <2>1, <2>2, <3>1 DEF Write
  <2>4. Begin(p, "stage", writes, t)
    BY <1>1, <2>1 DEF Apply, Stage
  <2> HIDE DEF writes
  <2> QED BY <2>3, <2>4, GoodBegin DEF Commands
<1>2. ASSUME NEW p \in Procs, Rollback(p) PROVE OnlyGood'
  <2> DEFINE writes == <<Write("active", previous), Write("previous", active)>>
  <2>1. active \in GoodBundles /\ previous \in GoodBundles
    BY <1>t, <1>2 DEF Rollback
  <2>2. \A i \in 1..Len(writes) : writes[i].to \in GoodBundles
    BY <2>1, SMT DEF Write
  <2>3. Begin(p, "rollback", writes, previous)
    BY <1>2 DEF Rollback
  <2> HIDE DEF writes
  <2> QED BY <2>2, <2>3, GoodBegin DEF Commands
<1>3. ASSUME NEW p \in Procs, Recover(p) PROVE OnlyGood'
  <2>1. ASSUME NEW b \in records, Begin(p, "recover", <<Write("active", b)>>, b)
        PROVE  OnlyGood'
    <3> DEFINE writes == <<Write("active", b)>>
    <3>1. \A i \in 1..Len(writes) : writes[i].to \in GoodBundles
      BY <1>t, SMT DEF Write
    <3>2. Begin(p, "recover", writes, b)
      BY <2>1
    <3> HIDE DEF writes
    <3> QED BY <3>1, <3>2, GoodBegin DEF Commands
  <2>2. ASSUME Begin(p, "recover", <<>>, active)
        PROVE  OnlyGood'
    <3> DEFINE writes == <<>>
    <3>1. \A i \in 1..Len(writes) : writes[i].to \in GoodBundles
      BY SMT
    <3>2. Begin(p, "recover", writes, active)
      BY <2>2
    <3> HIDE DEF writes
    <3> QED BY <3>1, <3>2, GoodBegin DEF Commands
  <2> QED BY <1>3, <2>1, <2>2 DEF Recover
<1>4. ASSUME NEW p \in Procs, RecoverRaises(p) PROVE OnlyGood'
  BY <1>0, <1>4 DEF RecoverRaises, OnlyGood, runVars
<1>5. ASSUME NEW p \in Procs, DoWrite(p) PROVE OnlyGood'
  <2> DEFINE w == Head(plan[p])
  <2>1. plan[p] \in Seq(Writes) /\ Len(plan[p]) > 0 /\ w = plan[p][1]
    BY <1>0, <1>5, SMT DEF StoreInv, TypeOK, DoWrite
  <2>2. w.to \in GoodBundles
    BY <1>0, <2>1, SMT DEF OnlyGood
  <2>3. ASSUME NEW q \in Procs, NEW i \in 1..Len(plan'[q]) PROVE plan'[q][i].to \in GoodBundles
    <3>1. CASE q = p
      <4>1. plan'[p] = Tail(plan[p])
        BY <1>0, <1>5 DEF StoreInv, TypeOK, DoWrite
      <4>2. i + 1 \in 1..Len(plan[p]) /\ plan'[p][i] = plan[p][i + 1]
        <5>1. i \in 1..Len(Tail(plan[p]))
          BY <3>1, <4>1
        <5> QED BY <2>1, <4>1, <5>1, SMT
      <4> QED BY <1>0, <3>1, <4>2 DEF OnlyGood
    <3>2. CASE q # p
      <4>1. plan'[q] = plan[q]
        BY <1>0, <1>5, <3>2 DEF StoreInv, TypeOK, DoWrite
      <4> QED BY <1>0, <4>1 DEF OnlyGood
    <3> QED BY <3>1, <3>2
  <2>4. records' \cup {active', previous'} \subseteq GoodBundles \cup {None}
    BY <1>t, <1>5, <2>2 DEF DoWrite
  <2> QED BY <1>0, <2>3, <2>4 DEF OnlyGood
<1>6. ASSUME NEW p \in Procs, End(p), UNCHANGED <<records, active, previous>>
      PROVE  OnlyGood'
  <2>1. ASSUME NEW q \in Procs PROVE plan'[q] = IF q = p THEN <<>> ELSE plan[q]
    BY <1>0, <1>6 DEF StoreInv, TypeOK, End
  <2> QED BY <1>0, <1>6, <2>1, SMT DEF OnlyGood
<1>7. CASE LoseFile
  BY <1>0, <1>7 DEF LoseFile, OnlyGood, runVars
<1>8. CASE UNCHANGED vars
  BY <1>0, <1>8 DEF OnlyGood, vars, store, runVars
<1>9. ASSUME NEW p \in Procs, StoreStep(p) PROVE OnlyGood'
  BY <1>5, <1>6, <1>9 DEF StoreStep, Proceed, Return, Crash, store
<1> QED
  BY <1>1, <1>2, <1>3, <1>4, <1>7, <1>8, <1>9
  DEF PullNext, Fetch, Republish, PullStep, Check, PullRaises, Copy, WritePullRecord,
      PullDies, StoreCommand, allVars

LEMMA AppliedKept ==
  ASSUME SafeInv, [PullNext]_allVars
  PROVE  AppliedIsApproved'
<1> DEFINE Ok(q) == command[q] = "stage" =>
             result[q] = target[q] /\ \E a \in Assignments : <<a, target[q]>> \in Approved
<1> SUFFICES ASSUME NEW q \in Procs PROVE Ok(q)'
  BY DEF AppliedIsApproved
<1> USE DEF SafeInv, PullInv, StoreInv, TypeOK, PullTypes
<1>0. Ok(q)
  BY DEF AppliedIsApproved
<1>n. None # "stage"
  BY DeploymentsAssumption DEF DeploymentsAssumption, Commands
<1>1. ASSUME NEW p \in Procs, NEW a \in Assignments, NEW t \in Bundles, Apply(p, a, t)
      PROVE  Ok(q)'
  <2>1. cache[t] = t /\ <<a, t>> \in Approved
    BY <1>1 DEF Apply, CacheNamed, ApprovalMatches
  <2>2. result' = [result EXCEPT ![p] = t] /\ command' = [command EXCEPT ![p] = "stage"]
    BY <1>1, <2>1 DEF Apply, Stage, Begin
  <2>3. target' = [target EXCEPT ![p] = t]
    BY <1>1 DEF Apply
  <2> QED BY <1>0, <2>1, <2>2, <2>3
<1>2. ASSUME NEW p \in Procs, StoreCommand(p) PROVE Ok(q)'
  <2>1. target' = target
    BY <1>2 DEF StoreCommand, pullVars
  <2>2. \/ command' = command /\ result' = result
        \/ /\ q # p => command'[q] = command[q] /\ result'[q] = result[q]
           /\ q = p => command'[q] \in {"rollback", "recover"}
    BY <1>2 DEF StoreCommand, Rollback, Recover, RecoverRaises, Begin, runVars
  <2> QED BY <1>0, <2>1, <2>2
<1>3. ASSUME NEW p \in Procs, StoreStep(p) PROVE Ok(q)'
  <2>1. CASE DoWrite(p)
    <3>1. command' = command /\ result' = result /\ target' = target
      BY <1>3, <2>1 DEF StoreStep, DoWrite
    <3> QED BY <1>0, <3>1
  <2>2. CASE End(p)
    <3>1. q # p => command'[q] = command[q] /\ result'[q] = result[q] /\ target'[q] = target[q]
      BY <1>3, <2>2 DEF StoreStep, End
    <3>2. q = p => command'[q] = None
      BY <2>2 DEF End
    <3> QED BY <1>0, <1>n, <3>1, <3>2
  <2> QED BY <1>3, <2>1, <2>2 DEF StoreStep, Proceed, Return, Crash
<1>4. ASSUME NEW p \in Procs, command[p] = None, command' = command, result' = result,
             \A x \in Procs : x # p => target'[x] = target[x]
      PROVE  Ok(q)'
  BY <1>0, <1>n, <1>4
<1>5. ASSUME NEW p \in Procs, NEW a \in Assignments, NEW t \in Bundles,
             NEW content \in Bundles, Fetch(p, a, t, content)
      PROVE  Ok(q)'
  BY <1>4, <1>5 DEF Fetch, MayPull, vars, runVars
<1>6. ASSUME NEW p \in Procs, PullStep(p) PROVE Ok(q)'
  <2>1. pull[p] # "idle"
    BY <1>6 DEF PullStep, Check, PullRaises, Copy, WritePullRecord, PullDies
  <2>2. command[p] = None /\ UNCHANGED vars
    BY <1>6, <2>1
    DEF OneJob, PullStep, Check, PullRaises, Copy, WritePullRecord, PullDies
  <2>3. \A x \in Procs : x # p => target'[x] = target[x]
    BY <1>6
    DEF PullStep, Check, PullRaises, Copy, WritePullRecord, PullDies, PullEnds
  <2> QED BY <1>4, <2>2, <2>3 DEF vars, runVars
<1>7. CASE UNCHANGED <<command, result, target>>
  BY <1>0, <1>7
<1> QED
  BY <1>1, <1>2, <1>3, <1>5, <1>6, <1>7
  DEF PullNext, Republish, LoseFile, allVars, pullVars, vars, runVars

LEMMA SafeStep ==
  ASSUME SourceStable, ~PullsOverlap
  PROVE  SafeInv /\ [PullNext]_allVars => SafeInv'
<1> SUFFICES ASSUME SafeInv, [PullNext]_allVars
             PROVE  SafeInv'
  OBVIOUS
<1>1. [Next]_vars
  BY PullStepIsStoreStep DEF SafeInv
<1>2. PullInv'
  BY <1>1, StoreStepKeeps, PullTypesKept, OneJobKept DEF SafeInv, PullInv
<1> QED
  BY <1>2, OnePullKept, CopiesTargetKept, CacheNamedKept, OnlyGoodKept, AppliedKept DEF SafeInv

\* If the fetched file stays what it was while a pull looks at it, the
\* invariant that carries the approval from pull to the active pointer holds
\* (governance_pull.py), provided pulls do not share their temporary file.
THEOREM SafeInvariance ==
  ASSUME SourceStable, ~PullsOverlap
  PROVE  PullSpec => []SafeInv
<1>1. PullInit => SafeInv
  BY SafeInit
<1>2. SafeInv /\ [PullNext]_allVars => SafeInv'
  BY SafeStep
<1> QED BY <1>1, <1>2, PTL DEF PullSpec

\* apply_cached_bundle (governance_pull.py) only ever hands the store the very
\* bundle its approval names, for any number of processes, bundles and crashes,
\* if pulls do not overlap and their source stays what it is meanwhile.
THEOREM AppliedWasApproved ==
  ASSUME SourceStable, ~PullsOverlap
  PROVE  PullSpec => []AppliedIsApproved
<1>1. SafeInv => AppliedIsApproved
  BY DEF SafeInv
<1> QED BY <1>1, SafeInvariance, PTL

\* Whatever pulls, applies, rollbacks, recoveries, crashes and losses do, the
\* active deployment is a valid, approved bundle, under the same two conditions
\* (governance_pull.py, deployment.py).
THEOREM OnlyApprovedIsActive ==
  ASSUME SourceStable, ~PullsOverlap
  PROVE  PullSpec => []OnlyApprovedActive
<1>1. SafeInv => OnlyApprovedActive
  BY DEF SafeInv, OnlyGood, OnlyApprovedActive, GoodBundles
<1> QED BY <1>1, SafeInvariance, PTL
=============================================================================
