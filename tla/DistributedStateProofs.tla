----------------------- MODULE DistributedStateProofs -----------------------
(***************************************************************************)
(* The state store for any workers, states and bounds.  distributed_state  *)
(* keeps no two methods apart, so each theorem names what must not overlap *)
(* for it to hold, and assumes no more than that.                          *)
(***************************************************************************)
EXTENDS DistributedState, SequenceTheorems, TLAPS

StoreTypes ==
  /\ now \in 0..MaxTime /\ counter \in 0..MaxToken
  /\ lock \in Leases \cup {None}
  /\ active \in Records \cup {None} /\ previous \in Records \cup {None}
  /\ journal \in Seq(Entries)
  /\ DOMAIN tmp = FileNames
  /\ tmp["counter"] \in 1..MaxToken \cup {None} /\ tmp["lock"] \in Leases \cup {None}
  /\ tmp["active"] \in Records \cup {None} /\ tmp["previous"] \in Records \cup {None}
  /\ crashes \in 0..MaxCrashes
  /\ reported \in Records \cup {None} /\ attempted \subseteq Records

LocalTypes ==
  /\ pc \in [Workers -> {"idle"} \cup Methods \cup {"write", "publish"}]
  /\ DOMAIN plan = Workers
  /\ taking \in [Workers -> Leases \cup {None}]
  /\ result \in [Workers -> Records \cup {None}]
  /\ mine \in [Workers -> Leases \cup {None}]
  /\ known \in [Workers -> Records \cup {None}]

\* What a method that reports r active may have to write.
RecordWrites(r) ==
  [file : {"previous"}, value : Records] \cup [file : {"active"}, value : {r}]
    \cup [file : {"journal"}, value : {e \in Entries : e.active = r}]

\* At most three writes, of the journal only as the last one.
JournalLast(writes) ==
  Len(writes) <= 3 /\ \A i \in 1..Len(writes) : writes[i].file = "journal" => i = Len(writes)

Performing(w) == pc[w] \in {"write", "publish"}

\* A lease is written after its token; of records the journal entry comes last.
LeasePlan(w) ==
  taking[w] # None =>
    /\ taking[w].owner = w /\ result[w] = None
    /\ pc[w] \in {"acquire", "write", "publish"}
    /\ Performing(w) =>
         /\ taking[w].token \in 1..MaxToken
         /\ \/ plan[w] = <<Write("counter", taking[w].token), Write("lock", taking[w])>>
            \/ plan[w] = <<Write("lock", taking[w])>>
            \/ plan[w] = <<>>

RecordPlan(w) ==
  taking[w] = None =>
    /\ pc[w] # "acquire"
    /\ Performing(w) =>
         /\ result[w] \in Records
         /\ plan[w] \in Seq(RecordWrites(result[w])) /\ JournalLast(plan[w])

PlanFits(w) ==
  /\ LeasePlan(w) /\ RecordPlan(w)
  /\ ~Performing(w) => plan[w] = <<>> /\ result[w] = None
  /\ pc[w] = "publish" => plan[w] # <<>> /\ Todo(w).file # "journal"

\* The journal names a highest revision, unless it is empty.
JournalHasLast ==
  \E m \in 0..MaxRevision : (m = 0 \/ m \in JournalRevs) /\ \A q \in JournalRevs : q <= m

StoreInv ==
  /\ StoreTypes /\ LocalTypes
  /\ \A w \in Workers : PlanFits(w)
  /\ JournalHasLast

USE DistributedAssumption, NoneAssumption DEF files, local, history, Goto, Write, Methods

LEMMA StoreInvInit == Init => StoreInv
<1> SUFFICES ASSUME Init PROVE StoreInv
  OBVIOUS
<1>1. StoreTypes
  BY DEF Init, StoreTypes, FileNames, Leases, Records
<1>2. LocalTypes
  BY DEF Init, LocalTypes
<1>3. \A w \in Workers : PlanFits(w)
  BY DEF Init, PlanFits, LeasePlan, RecordPlan, Performing
<1>4. JournalHasLast
  <2>1. JournalRevs = {}
    BY DEF Init, JournalRevs
  <2> QED BY <2>1 DEF JournalHasLast
<1> QED BY <1>1, <1>2, <1>3, <1>4 DEF StoreInv

\* A step of w leaves the plans of the others alone.
Others(w) ==
  \A v \in Workers \ {w} :
    /\ pc'[v] = pc[v] /\ plan'[v] = plan[v]
    /\ taking'[v] = taking[v] /\ result'[v] = result[v]

LEMMA OthersFit ==
  ASSUME StoreInv, NEW w \in Workers, Others(w), PlanFits(w)'
  PROVE  \A v \in Workers : PlanFits(v)'
<1>1. ASSUME NEW v \in Workers \ {w} PROVE PlanFits(v)'
  <2>1. /\ pc'[v] = pc[v] /\ plan'[v] = plan[v]
        /\ taking'[v] = taking[v] /\ result'[v] = result[v]
    BY DEF Others
  <2>2. PlanFits(v)
    BY DEF StoreInv
  <2>3. LeasePlan(v)'
    BY <2>1, <2>2 DEF PlanFits, LeasePlan, Performing
  <2>4. RecordPlan(v)'
    BY <2>1, <2>2 DEF PlanFits, RecordPlan, Performing, RecordWrites
  <2> QED BY <2>1, <2>2, <2>3, <2>4 DEF PlanFits, Performing, Todo
<1> QED BY <1>1

LEMMA JournalRevsType ==
  ASSUME StoreTypes
  PROVE  \A q \in JournalRevs : q \in 1..MaxRevision
<1>1. \A i \in DOMAIN journal : journal[i] \in Entries
  BY DEF StoreTypes
<1>2. \A i \in DOMAIN journal : journal[i].active.rev \in 1..MaxRevision
  BY <1>1 DEF Entries, Records
<1>3. \A i \in DOMAIN journal :
        journal[i].previous # None => journal[i].previous.rev \in 1..MaxRevision
  BY <1>1 DEF Entries, Records
<1> QED BY <1>2, <1>3 DEF JournalRevs

\* The revision of a new record is a revision.
LEMMA NextRevisionType ==
  ASSUME StoreInv, NextRevision <= MaxRevision
  PROVE  NextRevision \in 1..MaxRevision
<1>1. CASE active # None
  BY <1>1 DEF StoreInv, StoreTypes, NextRevision, Records
<1>2. CASE active = None
  <2>1. PICK m \in 0..MaxRevision : (m = 0 \/ m \in JournalRevs) /\ \A q \in JournalRevs : q <= m
    BY DEF StoreInv, JournalHasLast
  <2>2. \A q \in JournalRevs : q \in 1..MaxRevision
    BY JournalRevsType DEF StoreInv
  <2>3. /\ m + 1 \in 1..MaxRevision + 1
        /\ (m + 1 = 1 \/ m + 1 - 1 \in JournalRevs) /\ \A q \in JournalRevs : q < m + 1
    BY <2>1, <2>2
  <2>4. NextRevision \in 1..MaxRevision + 1
    BY <1>2, <2>3 DEF NextRevision
  <2> QED BY <2>4
<1> QED BY <1>1, <1>2

LEMMA JournalKept ==
  ASSUME JournalHasLast, UNCHANGED journal
  PROVE  JournalHasLast'
<1>1. JournalRevs' = JournalRevs
  BY DEF JournalRevs
<1> QED BY <1>1 DEF JournalHasLast

LEMMA ConcatOneTwo ==
  ASSUME NEW x, NEW a, NEW b
  PROVE  <<x>> \o <<a, b>> = <<x, a, b>>
<1> DEFINE S == {x, a, b}
<1>1. <<x>> \in Seq(S) /\ <<a, b>> \in Seq(S) /\ <<x, a, b>> \in Seq(S)
  OBVIOUS
<1>2. <<x>> \o <<a, b>> \in Seq(S) /\ Len(<<x>> \o <<a, b>>) = 3
  BY <1>1
<1>3. \A i \in 1..3 : (<<x>> \o <<a, b>>)[i] = <<x, a, b>>[i]
  BY <1>1
<1> QED BY <1>1, <1>2, <1>3, SeqEqual

LEMMA ConcatOneOne ==
  ASSUME NEW x, NEW a
  PROVE  <<x>> \o <<a>> = <<x, a>>
<1> DEFINE S == {x, a}
<1>1. <<x>> \in Seq(S) /\ <<a>> \in Seq(S) /\ <<x, a>> \in Seq(S)
  OBVIOUS
<1>2. <<x>> \o <<a>> \in Seq(S) /\ Len(<<x>> \o <<a>>) = 2
  BY <1>1
<1>3. \A i \in 1..2 : (<<x>> \o <<a>>)[i] = <<x, a>>[i]
  BY <1>1
<1> QED BY <1>1, <1>2, <1>3, SeqEqual

\* The plans the methods commit to.
LEMMA ApplyCommits ==
  ASSUME StoreInv, NEW w \in Workers, NEW s \in States, ApplyState(w, s), pc'[w] # "idle"
  PROVE  LET r == result'[w]  e == [action |-> "apply", active |-> r, previous |-> active] IN
         /\ r \in Records /\ e \in Entries
         /\ \/ /\ active # None
               /\ plan' = [plan EXCEPT ![w] = <<Write("previous", active), Write("active", r),
                                                Write("journal", e)>>]
            \/ plan' = [plan EXCEPT ![w] = <<Write("active", r), Write("journal", e)>>]
         /\ pc' = [pc EXCEPT ![w] = "write"] /\ taking' = taking
         /\ result' = [result EXCEPT ![w] = r]
<1> DEFINE r == [rev |-> NextRevision, state |-> s]
           e == [action |-> "apply", active |-> r, previous |-> active]
<1>1. pc \in [Workers -> {"idle"} \cup Methods \cup {"write", "publish"}] /\ DOMAIN result = Workers
  BY DEF StoreInv, LocalTypes
<1>2. /\ NextRevision <= MaxRevision
      /\ Commit(w, (IF active # None THEN <<Write("previous", active)>> ELSE <<>>)
                     \o <<Write("active", r), Write("journal", e)>>, r)
  BY <1>1 DEF ApplyState, Refuse
<1>3. r \in Records /\ e \in Entries
  BY <1>2, NextRevisionType DEF Records, Entries, StoreInv, StoreTypes
<1> HIDE DEF r, e
<1>4. CASE active # None
  <2>1. <<Write("previous", active)>> \o <<Write("active", r), Write("journal", e)>>
          = <<Write("previous", active), Write("active", r), Write("journal", e)>>
    BY ConcatOneTwo
  <2> QED BY <1>1, <1>2, <1>3, <1>4, <2>1 DEF Commit, e
<1>5. CASE active = None
  <2>1. <<>> \o <<Write("active", r), Write("journal", e)>>
          = <<Write("active", r), Write("journal", e)>>
    OBVIOUS
  <2> QED BY <1>1, <1>2, <1>3, <1>5, <2>1 DEF Commit, e
<1> QED BY <1>4, <1>5

LEMMA RollbackCommits ==
  ASSUME StoreInv, NEW w \in Workers, Rollback(w), pc'[w] # "idle"
  PROVE  LET r == result'[w]  e == [action |-> "rollback", active |-> r, previous |-> active] IN
         /\ r \in Records /\ e \in Entries /\ active \in Records
         /\ plan' = [plan EXCEPT ![w] = <<Write("active", r), Write("previous", active),
                                          Write("journal", e)>>]
         /\ pc' = [pc EXCEPT ![w] = "write"] /\ taking' = taking
         /\ result' = [result EXCEPT ![w] = r]
<1>1. /\ pc \in [Workers -> {"idle"} \cup Methods \cup {"write", "publish"}]
      /\ DOMAIN result = Workers
      /\ active \in Records \cup {None} /\ previous \in Records \cup {None}
  BY DEF StoreInv, LocalTypes, StoreTypes
<1>2. active # None /\ previous # None /\ pc' = [pc EXCEPT ![w] = "write"] /\ taking' = taking
      /\ result' = [result EXCEPT ![w] = previous]
      /\ plan' = [plan EXCEPT ![w] = <<Write("active", previous), Write("previous", active),
                    Write("journal", [action |-> "rollback", active |-> previous,
                                      previous |-> active])>>]
  BY <1>1 DEF Rollback, Commit, Refuse
<1>3. result'[w] = previous
  BY <1>1, <1>2
<1> QED BY <1>1, <1>2, <1>3 DEF Entries

LEMMA RecoverCommits ==
  ASSUME StoreInv, NEW w \in Workers, Recover(w), pc'[w] # "idle"
  PROVE  LET r == result'[w] IN
         /\ active = None /\ journal # <<>> /\ r = ReplayedActive /\ r \in Records
         /\ \/ plan' = [plan EXCEPT ![w] = <<Write("active", r)>>]
            \/ \E p \in Records :
                 plan' = [plan EXCEPT ![w] = <<Write("active", r), Write("previous", p)>>]
         /\ pc' = [pc EXCEPT ![w] = "write"] /\ taking' = taking
         /\ result' = [result EXCEPT ![w] = r]
<1>1. /\ pc \in [Workers -> {"idle"} \cup Methods \cup {"write", "publish"}]
      /\ DOMAIN result = Workers /\ journal \in Seq(Entries)
  BY DEF StoreInv, LocalTypes, StoreTypes
<1>2. /\ active = None /\ journal # <<>>
      /\ Commit(w, <<Write("active", ReplayedActive)>> \o
                     (IF ReplayedPrevious = None THEN <<>>
                      ELSE <<Write("previous", ReplayedPrevious)>>), ReplayedActive)
  BY <1>1 DEF Recover, Refuse
<1>n. Len(journal) \in Nat \ {0} /\ \A i \in 1..Len(journal) : journal[i] \in Entries
  BY <1>1, <1>2
<1>3. ReplayedActive \in Records
  <2>1. journal[Len(journal)] \in Entries
    BY <1>n
  <2> QED BY <1>2, <2>1 DEF ReplayedActive, Entries
<1>4. ReplayedPrevious \in Records \cup {None}
  <2>1. journal[Len(journal)] \in Entries
    BY <1>n
  <2>2. Len(journal) # 1 => journal[Len(journal) - 1] \in Entries
    <3> DEFINE n == Len(journal)
    <3>1. n \in Nat \ {0} /\ \A i \in 1..n : journal[i] \in Entries
      BY <1>n
    <3> HIDE DEF n
    <3>2. n # 1 => n - 1 \in 1..n
      BY <3>1
    <3>3. n # 1 => journal[n - 1] \in Entries
      BY <3>1, <3>2
    <3> QED BY <3>3 DEF n
  <2> QED BY <1>n, <2>1, <2>2 DEF ReplayedPrevious, Entries
<1>5. result'[w] = ReplayedActive
  BY <1>1, <1>2 DEF Commit
<1>6. CASE ReplayedPrevious = None
  <2>1. <<Write("active", ReplayedActive)>> \o <<>> = <<Write("active", ReplayedActive)>>
    OBVIOUS
  <2> QED BY <1>1, <1>2, <1>3, <1>5, <1>6, <2>1 DEF Commit
<1>7. CASE ReplayedPrevious # None
  <2>1. <<Write("active", ReplayedActive)>> \o <<Write("previous", ReplayedPrevious)>>
          = <<Write("active", ReplayedActive), Write("previous", ReplayedPrevious)>>
    BY ConcatOneOne
  <2> QED BY <1>1, <1>2, <1>3, <1>4, <1>5, <1>7, <2>1 DEF Commit
<1> QED BY <1>6, <1>7

------------------------------------------------------------------------------
(* The steps.                                                              *)

\* A step of w that leaves the files alone.
LEMMA FilesKept ==
  ASSUME StoreInv, NEW w \in Workers, UNCHANGED <<now, files, crashes>>,
         reported' \in Records \cup {None}, attempted' \subseteq Records,
         LocalTypes', Others(w), PlanFits(w)'
  PROVE  StoreInv'
<1>1. StoreTypes'
  BY DEF StoreInv, StoreTypes
<1>2. JournalHasLast'
  BY JournalKept DEF StoreInv
<1> QED BY <1>1, <1>2, OthersFit DEF StoreInv

LEMMA LeaseSteps ==
  ASSUME StoreInv, NEW w \in Workers, AcquireLock(w) \/ TakeToken(w) \/ ReturnLease(w)
  PROVE  StoreInv'
<1> USE DEF StoreInv, LocalTypes
<1>0. StoreTypes /\ PlanFits(w)
  OBVIOUS
<1>1. CASE AcquireLock(w)
  <2> DEFINE l == [owner |-> w, token |-> 0, expires |-> now + Ttl]
  <2>1. l \in Leases /\ l.owner = w
    BY <1>0 DEF Leases, StoreTypes
  <2>2. pc[w] = "idle" /\ pc'[w] = "acquire" /\ taking'[w] = l
        /\ taking' = [taking EXCEPT ![w] = l] /\ pc' = [pc EXCEPT ![w] = "acquire"]
        /\ UNCHANGED <<now, files, plan, result, mine, known, crashes, history>>
    BY <1>1 DEF AcquireLock, MayStart
  <2> HIDE DEF l
  <2>3. LocalTypes'
    BY <2>1, <2>2
  <2>4. Others(w)
    BY <2>2 DEF Others
  <2>5. PlanFits(w)'
    BY <1>0, <2>1, <2>2 DEF PlanFits, LeasePlan, RecordPlan, Performing
  <2> QED BY <1>0, <2>2, <2>3, <2>4, <2>5, FilesKept DEF StoreTypes
<1>2. CASE TakeToken(w)
  <2> DEFINE l == [taking[w] EXCEPT !.token = NextToken]
  <2>1. pc[w] = "acquire" /\ taking[w] \in Leases /\ taking[w].owner = w /\ result[w] = None
    BY <1>0, <1>2 DEF TakeToken, PlanFits, LeasePlan, RecordPlan
  <2>2. NextToken \in 1..MaxToken
    BY <1>0, <1>2 DEF TakeToken, NextToken, StoreTypes
  <2>3. l \in Leases /\ l.owner = w /\ l.token = NextToken /\ l # None
    <3>1. l \in Leases /\ l.owner = w /\ l.token = NextToken
      BY <2>1, <2>2 DEF Leases
    <3> QED BY <3>1
  <2>4. /\ taking' = [taking EXCEPT ![w] = l] /\ pc' = [pc EXCEPT ![w] = "write"]
        /\ plan' = [plan EXCEPT ![w] = <<Write("counter", NextToken), Write("lock", l)>>]
        /\ UNCHANGED <<now, files, result, mine, known, crashes, history>>
    BY <1>2 DEF TakeToken
  <2> HIDE DEF l
  <2>5. LocalTypes'
    BY <2>3, <2>4
  <2>6. Others(w)
    BY <2>4 DEF Others
  <2>7. PlanFits(w)'
    BY <2>1, <2>2, <2>3, <2>4 DEF PlanFits, LeasePlan, RecordPlan, Performing
  <2> QED BY <1>0, <2>4, <2>5, <2>6, <2>7, FilesKept DEF StoreTypes
<1>3. CASE ReturnLease(w)
  <2>1. LocalTypes'
    BY <1>3 DEF ReturnLease
  <2>2. Others(w)
    BY <1>3 DEF ReturnLease, Others
  <2>3. PlanFits(w)'
    BY <1>0, <1>3 DEF ReturnLease, PlanFits, LeasePlan, RecordPlan, Performing
  <2> QED BY <1>0, <1>3, <2>1, <2>2, <2>3, FilesKept DEF ReturnLease, StoreTypes
<1> QED BY <1>1, <1>2, <1>3

LEMMA RecordSteps ==
  ASSUME StoreInv, NEW w \in Workers, Mutate(w) \/ Recover(w) \/ ReturnRecord(w)
  PROVE  StoreInv'
<1> USE DEF StoreInv, LocalTypes
<1>0. StoreTypes /\ PlanFits(w)
  OBVIOUS
<1>1. ASSUME NEW m \in {"apply", "rollback"}, StartMutation(w, m) PROVE StoreInv'
  <2>1. LocalTypes'
    BY <1>1 DEF StartMutation
  <2>2. Others(w)
    BY <1>1 DEF StartMutation, Others
  <2>3. PlanFits(w)'
    BY <1>0, <1>1 DEF StartMutation, MayStart, PlanFits, LeasePlan, RecordPlan, Performing
  <2> QED BY <1>0, <1>1, <2>1, <2>2, <2>3, FilesKept DEF StartMutation, StoreTypes
\* The method raises and its worker rests.
<1>2. ASSUME pc[w] \in {"apply", "rollback", "check", "replay"}, pc' = [pc EXCEPT ![w] = "idle"],
             UNCHANGED <<now, files, plan, result, taking, mine, known, crashes, history>>
      PROVE  StoreInv'
  <2>1. LocalTypes'
    BY <1>2
  <2>2. Others(w)
    BY <1>2 DEF Others
  <2>3. PlanFits(w)'
    BY <1>0, <1>2 DEF PlanFits, LeasePlan, RecordPlan, Performing
  <2> QED BY <1>0, <1>2, <2>1, <2>2, <2>3, FilesKept DEF StoreTypes
\* The method commits to a plan.
<1>3. ASSUME result'[w] \in Records, plan'[w] \in Seq(RecordWrites(result'[w])),
             JournalLast(plan'[w]),
             pc[w] \in {"apply", "rollback", "check", "replay"},
             pc' = [pc EXCEPT ![w] = "write"], plan' = [plan EXCEPT ![w] = plan'[w]],
             result' = [result EXCEPT ![w] = result'[w]],
             UNCHANGED <<now, files, taking, mine, known, crashes, history>>
      PROVE  StoreInv'
  <2>1. LocalTypes'
    BY <1>3
  <2>2. Others(w)
    BY <1>3 DEF Others
  <2>3. PlanFits(w)'
    <3>1. taking[w] = None /\ taking'[w] = None
      BY <1>0, <1>3 DEF PlanFits, LeasePlan
    <3>2. pc'[w] = "write"
      BY <1>3
    <3> QED BY <1>3, <3>1, <3>2 DEF PlanFits, LeasePlan, RecordPlan, Performing, RecordWrites
  <2> QED BY <1>0, <1>3, <2>1, <2>2, <2>3, FilesKept DEF StoreTypes
<1>4. ASSUME NEW s \in States, ApplyState(w, s) PROVE StoreInv'
  <2>1. CASE pc'[w] = "idle"
    <3>1. Refuse(w)
      BY <1>4, <2>1 DEF ApplyState, Commit
    <3> QED BY <1>2, <1>4, <3>1 DEF ApplyState, Refuse
  <2>2. CASE pc'[w] # "idle"
    <3> DEFINE r == result'[w]
               e == [action |-> "apply", active |-> r, previous |-> active]
               p3 == <<Write("previous", active), Write("active", r), Write("journal", e)>>
               p2 == <<Write("active", r), Write("journal", e)>>
    <3>1. /\ r \in Records /\ e \in Entries
          /\ (active # None /\ plan' = [plan EXCEPT ![w] = p3]) \/ plan' = [plan EXCEPT ![w] = p2]
          /\ pc' = [pc EXCEPT ![w] = "write"] /\ taking' = taking
          /\ result' = [result EXCEPT ![w] = r]
      BY <1>4, <2>2, ApplyCommits
    <3>2. pc[w] = "apply" /\ UNCHANGED <<now, files, mine, known, crashes, history>>
      BY <1>4 DEF ApplyState
    <3>3. active # None => p3 \in Seq(RecordWrites(r))
      BY <1>0, <3>1 DEF RecordWrites, StoreTypes
    <3>4. p2 \in Seq(RecordWrites(r))
      BY <3>1 DEF RecordWrites
    <3>5. JournalLast(p3) /\ JournalLast(p2)
      BY DEF JournalLast
    <3> HIDE DEF r, p3, p2
    <3>6. /\ plan' = [plan EXCEPT ![w] = plan'[w]]
          /\ (active # None /\ plan'[w] = p3) \/ plan'[w] = p2
      BY <3>1
    <3>7. r \in Records /\ r = result'[w]
      BY <3>1 DEF r
    <3>8. plan'[w] \in Seq(RecordWrites(r))
      BY <3>3, <3>4, <3>6
    <3>9. JournalLast(plan'[w])
      BY <3>5, <3>6
    <3> QED BY <1>3, <3>1, <3>2, <3>6, <3>7, <3>8, <3>9
  <2> QED BY <2>1, <2>2
<1>5. CASE Rollback(w)
  <2>1. CASE pc'[w] = "idle"
    <3>1. Refuse(w)
      BY <1>5, <2>1 DEF Rollback, Commit
    <3> QED BY <1>2, <1>5, <3>1 DEF Rollback, Refuse
  <2>2. CASE pc'[w] # "idle"
    <3> DEFINE r == result'[w]
               e == [action |-> "rollback", active |-> r, previous |-> active]
               p == <<Write("active", r), Write("previous", active), Write("journal", e)>>
    <3>1. /\ r \in Records /\ e \in Entries /\ active \in Records
          /\ plan' = [plan EXCEPT ![w] = p]
          /\ pc' = [pc EXCEPT ![w] = "write"] /\ taking' = taking
          /\ result' = [result EXCEPT ![w] = r]
      BY <1>5, <2>2, RollbackCommits
    <3>2. pc[w] = "rollback" /\ UNCHANGED <<now, files, mine, known, crashes, history>>
      BY <1>5 DEF Rollback
    <3>3. p \in Seq(RecordWrites(r))
      BY <3>1 DEF RecordWrites
    <3>4. JournalLast(p)
      BY DEF JournalLast
    <3>5. r = result'[w]
      OBVIOUS
    <3> HIDE DEF r, p
    <3>6. plan' = [plan EXCEPT ![w] = plan'[w]] /\ plan'[w] = p
      BY <3>1
    <3>7. plan'[w] \in Seq(RecordWrites(r))
      BY <3>3, <3>6
    <3>8. JournalLast(plan'[w])
      BY <3>4, <3>6
    <3> QED BY <1>3, <3>1, <3>2, <3>5, <3>6, <3>7, <3>8
  <2> QED BY <2>1, <2>2
<1>6. CASE Recover(w)
  <2>1. CASE pc'[w] = "idle"
    <3>1. Refuse(w)
      BY <1>6, <2>1 DEF Recover, Commit
    <3> QED BY <1>2, <1>6, <3>1 DEF Recover, Refuse
  <2>2. CASE pc'[w] # "idle"
    <3> DEFINE r == result'[w]
               P(q) == <<Write("active", r), Write("previous", q)>>
               p1 == <<Write("active", r)>>
    <3>1. /\ r \in Records
          /\ plan' = [plan EXCEPT ![w] = p1] \/ \E q \in Records : plan' = [plan EXCEPT ![w] = P(q)]
          /\ pc' = [pc EXCEPT ![w] = "write"] /\ taking' = taking
          /\ result' = [result EXCEPT ![w] = r]
      BY <1>6, <2>2, RecoverCommits
    <3>2. pc[w] \in {"check", "replay"} /\ UNCHANGED <<now, files, mine, known, crashes, history>>
      BY <1>6 DEF Recover
    <3>3. p1 \in Seq(RecordWrites(r)) /\ \A q \in Records : P(q) \in Seq(RecordWrites(r))
      BY <3>1 DEF RecordWrites
    <3>4. JournalLast(p1) /\ \A q \in Records : JournalLast(P(q))
      BY DEF JournalLast
    <3> HIDE DEF r, p1, P
    <3>5. /\ plan' = [plan EXCEPT ![w] = plan'[w]]
          /\ plan'[w] = p1 \/ \E q \in Records : plan'[w] = P(q)
      BY <3>1
    <3>6. r = result'[w]
      BY DEF r
    <3>7. plan'[w] \in Seq(RecordWrites(r))
      BY <3>3, <3>5
    <3>8. JournalLast(plan'[w])
      BY <3>4, <3>5
    <3> QED BY <1>3, <3>1, <3>2, <3>5, <3>6, <3>7, <3>8
  <2> QED BY <2>1, <2>2
<1>7. CASE ReturnRecord(w)
  <2>1. result[w] \in Records
    BY <1>0, <1>7 DEF ReturnRecord, PlanFits, RecordPlan, Performing
  <2>2. LocalTypes'
    BY <1>7, <2>1 DEF ReturnRecord
  <2>3. Others(w)
    BY <1>7 DEF ReturnRecord, Others
  <2>4. PlanFits(w)'
    BY <1>0, <1>7 DEF ReturnRecord, PlanFits, LeasePlan, RecordPlan, Performing
  <2> QED BY <1>0, <1>7, <2>1, <2>2, <2>3, <2>4, FilesKept DEF ReturnRecord
<1> QED BY <1>1, <1>4, <1>5, <1>6, <1>7 DEF Mutate

\* The next write of a plan, and what remains after it.
LEMMA NextOfLease ==
  ASSUME StoreInv, NEW w \in Workers, Performing(w), plan[w] # <<>>, taking[w] # None
  PROVE  /\ taking[w] \in Leases /\ taking[w].token \in 1..MaxToken
         /\ \/ /\ plan[w] = <<Write("counter", taking[w].token), Write("lock", taking[w])>>
               /\ Todo(w) = Write("counter", taking[w].token)
               /\ Tail(plan[w]) = <<Write("lock", taking[w])>>
            \/ /\ plan[w] = <<Write("lock", taking[w])>>
               /\ Todo(w) = Write("lock", taking[w]) /\ Tail(plan[w]) = <<>>
<1> DEFINE c == Write("counter", taking[w].token)
           l == Write("lock", taking[w])
<1>1. /\ taking[w] \in Leases /\ taking[w].token \in 1..MaxToken
      /\ plan[w] = <<c, l>> \/ plan[w] = <<l>>
  BY DEF StoreInv, LocalTypes, PlanFits, LeasePlan
<1> HIDE DEF c, l
<1>2. plan[w] = <<c, l>> => Head(plan[w]) = c /\ Tail(plan[w]) = <<l>>
  OBVIOUS
<1>3. plan[w] = <<l>> => Head(plan[w]) = l /\ Tail(plan[w]) = <<>>
  OBVIOUS
<1> QED BY <1>1, <1>2, <1>3 DEF Todo, c, l

LEMMA NextOfRecord ==
  ASSUME StoreInv, NEW w \in Workers, Performing(w), plan[w] # <<>>, taking[w] = None
  PROVE  /\ result[w] \in Records
         /\ Todo(w) \in RecordWrites(result[w])
         /\ Tail(plan[w]) \in Seq(RecordWrites(result[w])) /\ JournalLast(Tail(plan[w]))
<1>1. /\ result[w] \in Records /\ plan[w] \in Seq(RecordWrites(result[w]))
      /\ JournalLast(plan[w])
  BY DEF StoreInv, PlanFits, RecordPlan
<1>2. /\ Todo(w) \in RecordWrites(result[w]) /\ Tail(plan[w]) \in Seq(RecordWrites(result[w]))
      /\ Len(Tail(plan[w])) = Len(plan[w]) - 1 /\ Len(plan[w]) \in Nat
      /\ \A i \in 1..Len(plan[w]) - 1 : Tail(plan[w])[i] = plan[w][i + 1]
  <2> DEFINE S == RecordWrites(result[w])
             s == plan[w]
  <2>1. s \in Seq(S) /\ s # <<>>
    BY <1>1
  <2> HIDE DEF S, s
  <2>2. /\ Head(s) \in S /\ Tail(s) \in Seq(S) /\ Len(Tail(s)) = Len(s) - 1 /\ Len(s) \in Nat
        /\ \A i \in 1..Len(s) - 1 : Tail(s)[i] = s[i + 1]
    BY <2>1
  <2> QED BY <2>2 DEF S, s, Todo
<1>3. JournalLast(Tail(plan[w]))
  <2>1. Len(plan[w]) <= 3
        /\ \A i \in 1..Len(plan[w]) : plan[w][i].file = "journal" => i = Len(plan[w])
    BY <1>1 DEF JournalLast
  <2>2. ASSUME NEW i \in 1..Len(Tail(plan[w])), Tail(plan[w])[i].file = "journal"
        PROVE  i = Len(Tail(plan[w]))
    <3>1. i \in 1..Len(plan[w]) - 1 /\ i + 1 \in 1..Len(plan[w])
      BY <1>2
    <3>2. plan[w][i + 1].file = "journal"
      BY <1>2, <2>2, <3>1
    <3> QED BY <1>2, <2>1, <3>1, <3>2
  <2> QED BY <1>2, <2>1, <2>2 DEF JournalLast
<1> QED BY <1>1, <1>2, <1>3

LEMMA FillSteps ==
  ASSUME StoreInv, NEW w \in Workers, FillTmp(w)
  PROVE  StoreInv'
<1>0. StoreTypes /\ LocalTypes /\ PlanFits(w) /\ Performing(w) /\ plan[w] # <<>>
      /\ Todo(w).file # "journal"
  BY DEF StoreInv, FillTmp, Performing
<1>1. /\ tmp' = [tmp EXCEPT ![Todo(w).file] = Todo(w).value]
      /\ pc' = [pc EXCEPT ![w] = "publish"]
      /\ UNCHANGED <<now, counter, lock, active, previous, journal, plan, taking,
                     result, mine, known, crashes, history>>
  BY DEF FillTmp
<1>2. StoreTypes'
  <2>1. CASE taking[w] # None
    <3>1. \/ Todo(w).file = "counter" /\ Todo(w).value \in 1..MaxToken
          \/ Todo(w).file = "lock" /\ Todo(w).value \in Leases
      <4>1. Todo(w) = Write("counter", taking[w].token) \/ Todo(w) = Write("lock", taking[w])
        BY <1>0, <2>1, NextOfLease
      <4>2. taking[w] \in Leases /\ taking[w].token \in 1..MaxToken
        BY <1>0, <2>1, NextOfLease
      <4> QED BY <4>1, <4>2
    <3> QED BY <1>0, <1>1, <3>1 DEF StoreTypes, FileNames
  <2>2. CASE taking[w] = None
    <3>1. \/ Todo(w).file = "previous" /\ Todo(w).value \in Records
          \/ Todo(w).file = "active" /\ Todo(w).value \in Records
      BY <1>0, <2>2, NextOfRecord DEF RecordWrites
    <3> QED BY <1>0, <1>1, <3>1 DEF StoreTypes, FileNames
  <2> QED BY <2>1, <2>2
<1>3. LocalTypes'
  BY <1>0, <1>1 DEF LocalTypes
<1>4. Others(w)
  BY <1>0, <1>1 DEF Others, LocalTypes
<1>5. PlanFits(w)'
  <2>1. Todo(w)' = Todo(w)
    BY <1>1 DEF Todo
  <2>2. pc'[w] = "publish"
    BY <1>0, <1>1 DEF LocalTypes
  <2>3. LeasePlan(w)'
    BY <1>0, <1>1, <2>2 DEF PlanFits, LeasePlan, Performing
  <2>4. RecordPlan(w)'
    BY <1>0, <1>1, <2>2 DEF PlanFits, RecordPlan, Performing, RecordWrites
  <2> QED BY <1>0, <1>1, <2>1, <2>2, <2>3, <2>4 DEF PlanFits, Performing
<1>6. JournalHasLast'
  BY <1>1, JournalKept DEF StoreInv
<1> QED BY <1>2, <1>3, <1>4, <1>5, <1>6, OthersFit DEF StoreInv

LEMMA PublishSteps ==
  ASSUME StoreInv, NEW w \in Workers, Publish(w)
  PROVE  StoreInv'
<1> DEFINE f == Todo(w).file
           v == tmp[f]
<1>0. StoreTypes /\ LocalTypes /\ PlanFits(w) /\ Performing(w) /\ plan[w] # <<>> /\ f # "journal"
  BY DEF StoreInv, Publish, Performing, PlanFits
<1>1. JournalHasLast'
  BY JournalKept DEF StoreInv, Publish
<1>2. CASE /\ v # None
           /\ counter' = IF f = "counter" THEN v ELSE counter
           /\ lock' = IF f = "lock" THEN v ELSE lock
           /\ active' = IF f = "active" THEN v ELSE active
           /\ previous' = IF f = "previous" THEN v ELSE previous
           /\ tmp' = [tmp EXCEPT ![f] = None]
           /\ plan' = [plan EXCEPT ![w] = Tail(@)]
           /\ pc' = [pc EXCEPT ![w] = "write"]
           /\ UNCHANGED <<taking, result, attempted, now, journal, mine, known, crashes, reported>>
  <2>1. StoreTypes'
    <3>1. f \in FileNames
      <4>1. CASE taking[w] # None
        <5>1. Todo(w) = Write("counter", taking[w].token) \/ Todo(w) = Write("lock", taking[w])
          BY <1>0, <4>1, NextOfLease
        <5> QED BY <5>1 DEF FileNames
      <4>2. CASE taking[w] = None
        BY <1>0, <4>2, NextOfRecord DEF FileNames, RecordWrites
      <4> QED BY <4>1, <4>2
    <3> HIDE DEF f
    <3> QED BY <1>0, <1>2, <3>1 DEF StoreTypes, FileNames
  <2>2. LocalTypes'
    BY <1>0, <1>2 DEF LocalTypes
  <2>3. Others(w)
    BY <1>0, <1>2 DEF Others, LocalTypes
  <2>4. plan'[w] = Tail(plan[w]) /\ pc'[w] = "write"
    BY <1>0, <1>2 DEF LocalTypes
  <2>5. PlanFits(w)'
    <3>1. CASE taking[w] # None
      BY <1>0, <1>2, <2>4, <3>1, NextOfLease DEF PlanFits, LeasePlan, RecordPlan, Performing
    <3>2. CASE taking[w] = None
      <4>1. /\ result[w] \in Records /\ Tail(plan[w]) \in Seq(RecordWrites(result[w]))
            /\ JournalLast(Tail(plan[w]))
        BY <1>0, <3>2, NextOfRecord
      <4> QED BY <1>0, <1>2, <2>4, <3>2, <4>1
              DEF PlanFits, LeasePlan, RecordPlan, Performing, RecordWrites
    <3> QED BY <3>1, <3>2
  <2> QED BY <1>1, <2>1, <2>2, <2>3, <2>5, OthersFit DEF StoreInv
<1>3. CASE /\ plan' = [plan EXCEPT ![w] = <<>>]
           /\ taking' = [taking EXCEPT ![w] = None]
           /\ result' = [result EXCEPT ![w] = None]
           /\ attempted' = attempted \cup ({result[w]} \ {None})
           /\ pc' = [pc EXCEPT ![w] = "idle"]
           /\ UNCHANGED <<counter, lock, active, previous, tmp, now, journal, mine, known,
                          crashes, reported>>
  <2>1. result[w] \in Records \cup {None}
    BY <1>0 DEF LocalTypes
  <2>2. StoreTypes'
    BY <1>0, <1>3, <2>1 DEF StoreTypes
  <2>3. LocalTypes'
    BY <1>0, <1>3 DEF LocalTypes
  <2>4. Others(w)
    BY <1>0, <1>3 DEF Others, LocalTypes
  <2>5. PlanFits(w)'
    BY <1>0, <1>3 DEF PlanFits, LeasePlan, RecordPlan, Performing, LocalTypes
  <2> QED BY <1>1, <2>2, <2>3, <2>4, <2>5, OthersFit DEF StoreInv
<1> QED BY <1>2, <1>3 DEF Publish

LEMMA JournalSteps ==
  ASSUME StoreInv, NEW w \in Workers, AppendJournal(w)
  PROVE  StoreInv'
<1> DEFINE e == Todo(w).value
<1>0. StoreTypes /\ LocalTypes /\ PlanFits(w) /\ Performing(w) /\ plan[w] # <<>>
      /\ Todo(w).file = "journal"
  BY DEF StoreInv, AppendJournal, Performing
<1>1. /\ journal' = Append(journal, e)
      /\ plan' = [plan EXCEPT ![w] = Tail(@)]
      /\ UNCHANGED <<now, counter, lock, active, previous, tmp, pc, taking, result,
                     mine, known, crashes, history>>
  BY DEF AppendJournal
<1>2. taking[w] = None
  <2>1. taking[w] # None =>
          Todo(w) = Write("counter", taking[w].token) \/ Todo(w) = Write("lock", taking[w])
    BY <1>0, NextOfLease
  <2> QED BY <1>0, <2>1
<1>3. e \in Entries /\ e.active = result[w] /\ result[w] \in Records
  BY <1>0, <1>2, NextOfRecord DEF RecordWrites
<1> HIDE DEF e
<1>4. StoreTypes'
  BY <1>0, <1>1, <1>3 DEF StoreTypes
<1>5. LocalTypes'
  BY <1>0, <1>1 DEF LocalTypes
<1>6. Others(w)
  BY <1>0, <1>1 DEF Others, LocalTypes
<1>7. PlanFits(w)'
  <2>1. plan'[w] = Tail(plan[w]) /\ pc'[w] = "write" /\ pc[w] = "write"
    BY <1>0, <1>1 DEF LocalTypes, Performing, PlanFits
  <2>2. /\ Tail(plan[w]) \in Seq(RecordWrites(result[w])) /\ JournalLast(Tail(plan[w]))
    BY <1>0, <1>2, NextOfRecord
  <2> QED BY <1>0, <1>1, <1>2, <1>3, <2>1, <2>2
          DEF PlanFits, LeasePlan, RecordPlan, Performing, RecordWrites
<1>8. JournalHasLast'
  <2>1. PICK m \in 0..MaxRevision : (m = 0 \/ m \in JournalRevs) /\ \A q \in JournalRevs : q <= m
    BY DEF StoreInv, JournalHasLast
  <2> DEFINE more == {e.active.rev} \cup
                     (IF e.action = "rollback" /\ e.previous # None THEN {e.previous.rev} ELSE {})
  <2>2. JournalRevs' = JournalRevs \cup more
    <3>1. journal \in Seq(Entries) /\ journal' \in Seq(Entries)
          /\ Len(journal') = Len(journal) + 1 /\ journal'[Len(journal) + 1] = e
          /\ \A i \in 1..Len(journal) : journal'[i] = journal[i]
      BY <1>0, <1>1, <1>3 DEF StoreTypes
    <3>2. DOMAIN journal = 1..Len(journal) /\ DOMAIN journal' = 1..Len(journal) + 1
          /\ Len(journal) \in Nat
      BY <3>1
    <3>3. ASSUME NEW q \in JournalRevs' PROVE q \in JournalRevs \cup more
      <4>1. PICK i \in DOMAIN journal' :
              \/ q = journal'[i].active.rev
              \/ /\ journal'[i].action = "rollback" /\ journal'[i].previous # None
                 /\ q = journal'[i].previous.rev
        BY DEF JournalRevs
      <4>2. CASE i \in 1..Len(journal)
        BY <3>1, <3>2, <4>1, <4>2 DEF JournalRevs
      <4>3. CASE i = Len(journal) + 1
        BY <3>1, <4>1, <4>3
      <4> QED BY <3>2, <4>2, <4>3
    <3>4. ASSUME NEW q \in JournalRevs PROVE q \in JournalRevs'
      <4>1. PICK i \in DOMAIN journal :
              \/ q = journal[i].active.rev
              \/ /\ journal[i].action = "rollback" /\ journal[i].previous # None
                 /\ q = journal[i].previous.rev
        BY DEF JournalRevs
      <4>2. i \in DOMAIN journal' /\ journal'[i] = journal[i]
        BY <3>1, <3>2, <4>1
      <4> QED BY <4>1, <4>2 DEF JournalRevs
    <3>5. ASSUME NEW q \in more PROVE q \in JournalRevs'
      <4> DEFINE i == Len(journal) + 1
      <4>1. i \in DOMAIN journal' /\ journal'[i] = e
        BY <3>1, <3>2
      <4> HIDE DEF i
      <4> QED BY <4>1 DEF JournalRevs
    <3> QED BY <3>3, <3>4, <3>5
  <2>3. more \subseteq 1..MaxRevision /\ e.active.rev \in more
    BY <1>3 DEF Entries, Records
  <2>4. \E m2 \in more : \A q \in more : q <= m2
    BY <2>3
  <2> HIDE DEF more
  <2>5. PICK m2 \in more : \A q \in more : q <= m2
    BY <2>4
  <2>6. \A q \in JournalRevs : q \in Nat
    BY <1>0, JournalRevsType
  <2>7. CASE m2 <= m
    <3>1. (m = 0 \/ m \in JournalRevs') /\ \A q \in JournalRevs' : q <= m
      <4>1. \A q \in more : q <= m
        BY <2>3, <2>5, <2>7
      <4> QED BY <2>1, <2>2, <4>1
    <3> QED BY <3>1 DEF JournalHasLast
  <2>8. CASE m < m2
    <3>1. m2 \in JournalRevs' /\ \A q \in JournalRevs' : q <= m2
      <4>1. \A q \in JournalRevs : q <= m2
        BY <2>1, <2>3, <2>6, <2>8
      <4> QED BY <2>2, <2>5, <4>1
    <3> QED BY <2>3, <3>1 DEF JournalHasLast
  <2> QED BY <2>1, <2>3, <2>5, <2>7, <2>8
<1> QED BY <1>4, <1>5, <1>6, <1>7, <1>8, OthersFit DEF StoreInv

LEMMA RecoverStarts ==
  ASSUME StoreInv, NEW w \in Workers, StartRecover(w)
  PROVE  StoreInv'
<1>0. StoreTypes /\ LocalTypes /\ PlanFits(w)
  BY DEF StoreInv
<1>1. PICK m \in {"check", "replay"} : MayStart(w, m) /\ pc' = [pc EXCEPT ![w] = m]
  BY DEF StartRecover
<1>2. /\ tmp' = [f \in FileNames |-> None]
      /\ UNCHANGED <<now, counter, lock, active, previous, journal, plan, taking,
                     result, mine, known, crashes, history>>
  BY DEF StartRecover
<1>3. StoreTypes'
  BY <1>0, <1>2 DEF StoreTypes, FileNames
<1>4. LocalTypes'
  BY <1>0, <1>1, <1>2 DEF LocalTypes
<1>5. Others(w)
  BY <1>0, <1>1, <1>2 DEF Others, LocalTypes
<1>6. PlanFits(w)'
  <2>1. pc[w] = "idle" /\ pc'[w] = m
    BY <1>0, <1>1 DEF MayStart, LocalTypes
  <2> QED BY <1>0, <1>2, <2>1 DEF PlanFits, LeasePlan, RecordPlan, Performing
<1>7. JournalHasLast'
  BY <1>2, JournalKept DEF StoreInv
<1> QED BY <1>3, <1>4, <1>5, <1>6, <1>7, OthersFit DEF StoreInv

LEMMA CrashSteps ==
  ASSUME StoreInv, NEW w \in Workers, Crash(w)
  PROVE  StoreInv'
<1>0. StoreTypes /\ LocalTypes /\ PlanFits(w)
  BY DEF StoreInv
<1>1. result[w] \in Records \cup {None}
  BY <1>0 DEF LocalTypes
<1>2. StoreTypes'
  BY <1>0, <1>1 DEF Crash, StoreTypes
<1>3. LocalTypes'
  BY <1>0 DEF Crash, LocalTypes
<1>4. Others(w)
  BY <1>0 DEF Crash, Others, LocalTypes
<1>5. PlanFits(w)'
  BY <1>0 DEF Crash, PlanFits, LeasePlan, RecordPlan, Performing, LocalTypes
<1>6. JournalHasLast'
  BY JournalKept DEF Crash, StoreInv
<1> QED BY <1>2, <1>3, <1>4, <1>5, <1>6, OthersFit DEF StoreInv

\* A step of nobody: the clock, or the loss of active.json.
LEMMA NobodysSteps ==
  ASSUME StoreInv, Tick \/ LoseActive \/ UNCHANGED vars
  PROVE  StoreInv'
<1>1. StoreTypes'
  <2>1. CASE Tick            BY <2>1 DEF StoreInv, StoreTypes, Tick
  <2>2. CASE LoseActive      BY <2>2 DEF StoreInv, StoreTypes, LoseActive
  <2>3. CASE UNCHANGED vars  BY <2>3 DEF StoreInv, StoreTypes, vars
  <2> QED BY <2>1, <2>2, <2>3
<1>2. UNCHANGED local /\ UNCHANGED journal
  BY DEF Tick, LoseActive, vars
<1>3. LocalTypes'
  BY <1>2 DEF StoreInv, LocalTypes
<1>4. ASSUME NEW w \in Workers PROVE PlanFits(w)'
  <2>1. Others(w) /\ PlanFits(w)
    BY <1>2 DEF Others, StoreInv
  <2>2. LeasePlan(w)'
    BY <1>2, <2>1 DEF PlanFits, LeasePlan, Performing
  <2>3. RecordPlan(w)'
    BY <1>2, <2>1 DEF PlanFits, RecordPlan, Performing, RecordWrites
  <2> QED BY <1>2, <2>1, <2>2, <2>3 DEF PlanFits, Performing, Todo
<1>5. JournalHasLast'
  BY <1>2, JournalKept DEF StoreInv
<1> QED BY <1>1, <1>3, <1>4, <1>5 DEF StoreInv

LEMMA StoreInvStep == StoreInv /\ [Next]_vars => StoreInv'
<1> SUFFICES ASSUME StoreInv, [Next]_vars PROVE StoreInv'
  OBVIOUS
<1>1. ASSUME NEW w \in Workers, Step(w) PROVE StoreInv'
  BY <1>1, LeaseSteps, RecordSteps, FillSteps, PublishSteps, JournalSteps, RecoverStarts DEF Step
<1> QED BY <1>1, CrashSteps, NobodysSteps DEF Next

------------------------------------------------------------------------------
(* Leases.                                                                 *)

FreeFor(w) == lock # None => lock.expires <= now /\ lock.token < taking[w].token

\* Nobody else acquires, so the counter and the lease a worker was let in with
\* are those it writes over; a .tmp file holds its value or was removed.
Acquiring(w) ==
  taking[w] # None =>
    /\ \A v \in Workers : taking[v] # None => v = w
    /\ pc[w] = "acquire" /\ lock # None => lock.expires <= now
    /\ Performing(w) =>
         /\ Len(plan[w]) = 2 => taking[w].token = counter + 1 /\ FreeFor(w)
         /\ Len(plan[w]) = 1 => taking[w].token = counter /\ FreeFor(w)
         /\ Len(plan[w]) = 0 => lock = taking[w]
    /\ pc[w] = "publish" => tmp[Todo(w).file] \in {None, Todo(w).value}

\* A lease that was returned has expired or is the one on file.
LeaseInv ==
  /\ lock # None => lock.token <= counter
  /\ \A w \in Workers : Acquiring(w)
  /\ \A w \in Workers : mine[w] # None =>
       mine[w].owner = w /\ (mine[w].expires <= now \/ lock = mine[w])

\* Who changes the lease on file, and how.
LEMMA LockStep ==
  ASSUME StoreInv, LeaseInv, Next, lock' # lock
  PROVE  \E w \in Workers :
           /\ taking[w] # None /\ Publish(w) /\ plan[w] = <<Write("lock", taking[w])>>
           /\ lock' = taking[w] /\ FreeFor(w) /\ counter' = counter
           /\ taking[w].token = counter
<1>1. PICK w \in Workers : Publish(w)
  BY DEF Next, Step, AcquireLock, TakeToken, Mutate, StartMutation, ApplyState, Rollback,
         StartRecover, Recover, FillTmp, AppendJournal, ReturnLease, ReturnRecord, Crash,
         Tick, LoseActive
<1>2. Todo(w).file = "lock" /\ lock' = tmp["lock"] /\ tmp["lock"] # None /\ counter' = counter
  BY <1>1 DEF Publish
<1>3. Performing(w) /\ plan[w] # <<>> /\ pc[w] = "publish"
  BY <1>1 DEF Publish, Performing, StoreInv, PlanFits
<1>4. taking[w] # None
  BY <1>2, <1>3, NextOfRecord DEF RecordWrites
<1>5. plan[w] = <<Write("lock", taking[w])>> /\ Todo(w) = Write("lock", taking[w])
  <2>1. Todo(w) # Write("counter", taking[w].token)
    BY <1>2
  <2> QED BY <1>3, <1>4, <2>1, NextOfLease
<1>6. Len(plan[w]) = 1 /\ Todo(w).value = taking[w]
  BY <1>5
<1>7. taking[w].token = counter /\ FreeFor(w) /\ tmp["lock"] \in {None, taking[w]}
  BY <1>2, <1>3, <1>4, <1>6 DEF LeaseInv, Acquiring
<1>8. lock' = taking[w]
  BY <1>2, <1>7
<1> QED BY <1>1, <1>2, <1>4, <1>5, <1>7, <1>8

LEMMA CounterStep ==
  ASSUME StoreInv, LeaseInv, Next, counter' # counter
  PROVE  lock' = lock /\ counter' > counter
<1>1. PICK w \in Workers : Publish(w)
  BY DEF Next, Step, AcquireLock, TakeToken, Mutate, StartMutation, ApplyState, Rollback,
         StartRecover, Recover, FillTmp, AppendJournal, ReturnLease, ReturnRecord, Crash,
         Tick, LoseActive
<1>2. /\ Todo(w).file = "counter" /\ counter' = tmp["counter"] /\ tmp["counter"] # None
      /\ lock' = lock
  BY <1>1 DEF Publish
<1>3. Performing(w) /\ plan[w] # <<>> /\ pc[w] = "publish"
  BY <1>1 DEF Publish, Performing, StoreInv, PlanFits
<1>4. taking[w] # None
  BY <1>2, <1>3, NextOfRecord DEF RecordWrites
<1>5. /\ plan[w] = <<Write("counter", taking[w].token), Write("lock", taking[w])>>
      /\ Todo(w) = Write("counter", taking[w].token)
  <2>1. Todo(w) # Write("lock", taking[w])
    BY <1>2
  <2> QED BY <1>3, <1>4, <2>1, NextOfLease
<1>6. Len(plan[w]) = 2 /\ Todo(w).value = taking[w].token
  BY <1>5
<1>7. taking[w].token = counter + 1 /\ tmp["counter"] \in {None, taking[w].token}
  BY <1>2, <1>3, <1>4, <1>6 DEF LeaseInv, Acquiring
<1>8. counter \in Nat
  BY DEF StoreInv, StoreTypes
<1> QED BY <1>2, <1>7, <1>8

\* An acquiring worker that the step of another worker leaves alone.
LEMMA AcquirerKept ==
  ASSUME StoreInv, NEW w \in Workers, Acquiring(w), taking'[w] = taking[w],
         taking[w] # None =>
           /\ pc'[w] = pc[w] /\ plan'[w] = plan[w]
           /\ counter' = counter /\ lock' = lock /\ now' \in {now, now + 1}
           /\ \A v \in Workers : taking'[v] # None => taking[v] # None
           /\ pc[w] = "publish" => tmp'[Todo(w).file] \in {None, tmp[Todo(w).file]}
  PROVE  Acquiring(w)'
<1> SUFFICES ASSUME taking[w] # None PROVE Acquiring(w)'
  BY DEF Acquiring
<1>1. /\ pc'[w] = pc[w] /\ plan'[w] = plan[w] /\ Todo(w)' = Todo(w)
      /\ counter' = counter /\ lock' = lock /\ now' \in {now, now + 1}
  BY DEF Todo
<1>2. now \in Nat /\ (lock # None => lock \in Leases)
  BY DEF StoreInv, StoreTypes
<1>3. lock # None /\ lock.expires <= now => lock'.expires <= now'
  BY <1>1, <1>2 DEF Leases
<1>4. FreeFor(w) => FreeFor(w)'
  BY <1>1, <1>3 DEF FreeFor
<1> QED BY <1>1, <1>3, <1>4 DEF Acquiring, Performing

\* What another worker fills or publishes is no part of a lease.
LEMMA RecordFiles ==
  ASSUME StoreInv, NEW a \in Workers, Performing(a), plan[a] # <<>>, taking[a] = None
  PROVE  Todo(a).file \in {"previous", "active", "journal"}
  BY NextOfRecord DEF RecordWrites

LEMMA LeaseFiles ==
  ASSUME StoreInv, NEW w \in Workers, pc[w] = "publish", taking[w] # None
  PROVE  Todo(w).file \in {"counter", "lock"}
<1>1. Performing(w) /\ plan[w] # <<>>
  BY DEF Performing, StoreInv, PlanFits
<1>2. Todo(w) = Write("counter", taking[w].token) \/ Todo(w) = Write("lock", taking[w])
  BY <1>1, NextOfLease
<1> QED BY <1>2

LEMMA AcquirerStep ==
  ASSUME "acquire" \notin Overlapping, StoreInv, LeaseInv, [Next]_vars, NEW w \in Workers
  PROVE  Acquiring(w)'
<1> USE DEF StoreInv, LocalTypes
<1>0. /\ Acquiring(w) /\ PlanFits(w) /\ StoreTypes
      /\ lock # None => lock.token <= counter
  BY DEF LeaseInv
<1>1. ASSUME NEW a \in Workers, AcquireLock(a) PROVE Acquiring(w)'
  <2>1. \A v \in Workers : taking[v] = None
    BY <1>1 DEF AcquireLock, MayStart, PlanFits, LeasePlan
  <2>2. taking' = [taking EXCEPT ![a] = [owner |-> a, token |-> 0, expires |-> now + Ttl]]
        /\ pc' = [pc EXCEPT ![a] = "acquire"] /\ LeaseFree /\ UNCHANGED <<lock, now>>
    BY <1>1 DEF AcquireLock
  <2> QED BY <2>1, <2>2 DEF Acquiring, Performing, LeaseFree
<1>2. ASSUME NEW a \in Workers, TakeToken(a) PROVE Acquiring(w)'
  <2>1. pc[a] = "acquire" /\ taking[a] # None /\ taking[a] \in Leases
    BY <1>2 DEF TakeToken, PlanFits, RecordPlan
  <2>2. CASE w # a
    BY <1>2, <2>1, <2>2 DEF TakeToken, LeaseInv, Acquiring
  <2>3. CASE w = a
    <3>1. /\ Len(plan'[w]) = 2 /\ taking'[w].token = counter + 1 /\ pc'[w] = "write"
          /\ UNCHANGED <<counter, lock, now>>
      BY <1>2, <2>1, <2>3 DEF TakeToken, NextToken, Leases
    <3>2. \A v \in Workers : taking'[v] # None => v = w
      BY <1>0, <1>2, <2>1, <2>3 DEF TakeToken, Acquiring
    <3>3. FreeFor(w)'
      BY <1>0, <2>1, <2>3, <3>1 DEF FreeFor, Acquiring, StoreTypes, Leases
    <3> QED BY <3>1, <3>2, <3>3 DEF Acquiring
  <2> QED BY <2>2, <2>3
<1>3. ASSUME NEW a \in Workers, ReturnLease(a) PROVE Acquiring(w)'
  BY <1>0, <1>3 DEF ReturnLease, LeaseInv, Acquiring
<1>4. ASSUME NEW a \in Workers, Mutate(a) \/ Recover(a) \/ ReturnRecord(a) \/ AppendJournal(a)
                                \/ StartRecover(a)
      PROVE  Acquiring(w)'
  <2>1. taking[a] = None
    <3>1. CASE AppendJournal(a)
      <4>1. Performing(a) /\ plan[a] # <<>> /\ Todo(a).file = "journal"
        BY <3>1 DEF AppendJournal, Performing
      <4>2. taking[a] # None =>
              Todo(a) = Write("counter", taking[a].token) \/ Todo(a) = Write("lock", taking[a])
        BY <4>1, NextOfLease
      <4> QED BY <4>1, <4>2
    <3>2. CASE ~AppendJournal(a)
      BY <1>4, <3>2 DEF Mutate, StartMutation, ApplyState, Rollback, Recover, ReturnRecord,
                        StartRecover, MayStart, PlanFits, LeasePlan
    <3> QED BY <3>1, <3>2
  <2>2. /\ taking' = taking /\ UNCHANGED <<now, counter, lock>>
        /\ \A v \in Workers \ {a} : pc'[v] = pc[v] /\ plan'[v] = plan[v]
    BY <1>4 DEF Mutate, StartMutation, ApplyState, Rollback, Recover, ReturnRecord,
                StartRecover, AppendJournal, Commit, Refuse
  <2>3. UNCHANGED tmp \/ tmp' = [f \in FileNames |-> None]
    BY <1>4 DEF Mutate, StartMutation, ApplyState, Rollback, Recover, ReturnRecord,
                StartRecover, AppendJournal
  <2>4. taking[w] # None /\ pc[w] = "publish" => tmp'[Todo(w).file] \in {None, tmp[Todo(w).file]}
    BY <2>3, LeaseFiles DEF FileNames
  <2> QED BY <1>0, <2>1, <2>2, <2>4, AcquirerKept
<1>5. ASSUME NEW a \in Workers, FillTmp(a) PROVE Acquiring(w)'
  <2>1. /\ Performing(a) /\ plan[a] # <<>> /\ tmp' = [tmp EXCEPT ![Todo(a).file] = Todo(a).value]
        /\ pc[a] = "write" /\ pc' = [pc EXCEPT ![a] = "publish"]
        /\ UNCHANGED <<now, counter, lock, plan, taking>>
    BY <1>5 DEF FillTmp, Performing
  <2>2. CASE taking[a] = None
    <3>1. Todo(a).file \notin {"counter", "lock"}
      BY <2>1, <2>2, RecordFiles
    <3>2. taking[w] # None /\ pc[w] = "publish" => tmp'[Todo(w).file] = tmp[Todo(w).file]
      BY <1>0, <2>1, <3>1, LeaseFiles DEF StoreTypes, FileNames
    <3> QED BY <1>0, <2>1, <2>2, <3>2, AcquirerKept
  <2>3. CASE taking[a] # None /\ w # a
    BY <2>1, <2>3 DEF LeaseInv, Acquiring
  <2>4. CASE taking[a] # None /\ w = a
    <3>1. Todo(w)' = Todo(w) /\ Todo(w).file \in FileNames
      <4>1. Todo(w) = Write("counter", taking[w].token) \/ Todo(w) = Write("lock", taking[w])
        BY <2>1, <2>4, NextOfLease
      <4> QED BY <2>1, <4>1 DEF Todo, FileNames
    <3>2. tmp'[Todo(w).file] = Todo(w).value
      BY <1>0, <2>1, <2>4, <3>1 DEF StoreTypes
    <3>3. pc'[w] = "publish" /\ FreeFor(w)' = FreeFor(w)
      BY <2>1, <2>4 DEF FreeFor
    <3> QED BY <1>0, <2>1, <2>4, <3>1, <3>2, <3>3 DEF Acquiring, Performing
  <2> QED BY <2>2, <2>3, <2>4
<1>6. ASSUME NEW a \in Workers, Publish(a) PROVE Acquiring(w)'
  <2>1. Performing(a) /\ plan[a] # <<>> /\ pc[a] = "publish" /\ now' = now
    BY <1>6 DEF Publish, Performing, PlanFits
  <2>2. CASE taking[a] = None
    <3>1. Todo(a).file \notin {"counter", "lock"}
      BY <2>1, <2>2, RecordFiles
    <3>2. UNCHANGED <<counter, lock>> /\ taking'[w] = taking[w]
          /\ \A v \in Workers : taking'[v] # None => taking[v] # None
      BY <1>6, <2>2, <3>1 DEF Publish
    <3>3. taking[w] # None => pc'[w] = pc[w] /\ plan'[w] = plan[w]
      BY <1>6, <2>2 DEF Publish
    <3>4. taking[w] # None /\ pc[w] = "publish" => tmp'[Todo(w).file] = tmp[Todo(w).file]
      BY <1>0, <1>6, <3>1, LeaseFiles DEF Publish, StoreTypes, FileNames
    <3> QED BY <1>0, <2>1, <3>2, <3>3, <3>4, AcquirerKept
  <2>3. CASE taking[a] # None /\ w # a
    BY <1>6, <2>3 DEF Publish, LeaseInv, Acquiring
  <2>4. CASE taking[a] # None /\ w = a
    <3>1. taking'[w] = None => Acquiring(w)'
      BY DEF Acquiring
    <3>2. ASSUME taking'[w] # None PROVE Acquiring(w)'
      <4>1. /\ tmp[Todo(w).file] # None
            /\ counter' = IF Todo(w).file = "counter" THEN tmp[Todo(w).file] ELSE counter
            /\ lock' = IF Todo(w).file = "lock" THEN tmp[Todo(w).file] ELSE lock
            /\ plan'[w] = Tail(plan[w]) /\ pc'[w] = "write" /\ taking' = taking
        BY <1>6, <2>4, <3>2 DEF Publish
      <4>2. tmp[Todo(w).file] = Todo(w).value /\ \A v \in Workers : taking[v] # None => v = w
        BY <1>0, <2>1, <2>4, <4>1 DEF Acquiring
      <4>3. CASE /\ plan[w] = <<Write("counter", taking[w].token), Write("lock", taking[w])>>
                 /\ Todo(w) = Write("counter", taking[w].token)
                 /\ Tail(plan[w]) = <<Write("lock", taking[w])>>
        <5>1. Len(plan[w]) = 2 /\ Len(plan'[w]) = 1
          BY <4>1, <4>3
        <5>2. counter' = taking[w].token /\ lock' = lock
          BY <4>1, <4>2, <4>3
        <5>3. FreeFor(w) /\ FreeFor(w)'
          BY <1>0, <2>1, <2>4, <4>1, <5>1, <5>2 DEF FreeFor, Acquiring
        <5>4. /\ pc'[w] = "write" /\ taking'[w].token = counter'
              /\ \A v \in Workers : taking'[v] # None => v = w
          BY <4>1, <4>2, <5>2
        <5> QED BY <5>1, <5>3, <5>4 DEF Acquiring
      <4>4. CASE plan[w] = <<Write("lock", taking[w])>> /\ Todo(w) = Write("lock", taking[w])
                   /\ Tail(plan[w]) = <<>>
        <5>1. Len(plan'[w]) = 0 /\ lock' = taking[w]
          BY <4>1, <4>2, <4>4
        <5>2. /\ pc'[w] = "write" /\ lock' = taking'[w]
              /\ \A v \in Workers : taking'[v] # None => v = w
          BY <4>1, <4>2, <5>1
        <5> QED BY <5>1, <5>2 DEF Acquiring
      <4> QED BY <2>1, <2>4, <4>3, <4>4, NextOfLease
    <3> QED BY <3>1, <3>2
  <2> QED BY <2>2, <2>3, <2>4
<1>7. ASSUME NEW a \in Workers, Crash(a) PROVE Acquiring(w)'
  <2>1. CASE w = a
    BY <1>7, <2>1 DEF Crash, Acquiring
  <2>2. CASE w # a
    BY <1>0, <1>7, <2>2, AcquirerKept DEF Crash
  <2> QED BY <2>1, <2>2
<1>8. CASE Tick \/ LoseActive \/ UNCHANGED vars
  BY <1>0, <1>8, AcquirerKept DEF Tick, LoseActive, vars
<1> QED BY <1>1, <1>2, <1>3, <1>4, <1>5, <1>6, <1>7, <1>8 DEF Next, Step

LEMMA LeaseInvInit == Init => LeaseInv
  BY DEF Init, LeaseInv, Acquiring

LEMMA LeaseInvStep ==
  ASSUME "acquire" \notin Overlapping
  PROVE  StoreInv /\ LeaseInv /\ [Next]_vars => LeaseInv'
<1> SUFFICES ASSUME StoreInv, LeaseInv, [Next]_vars PROVE LeaseInv'
  OBVIOUS
<1>0. /\ now \in Nat /\ counter \in Nat /\ (lock # None => lock \in Leases)
      /\ LocalTypes /\ StoreInv'
  BY StoreInvStep DEF StoreInv, StoreTypes
<1>1. (lock # None => lock.token <= counter)'
  <2>1. CASE UNCHANGED <<lock, counter>>
    BY <2>1 DEF LeaseInv
  <2>2. CASE Next /\ lock' # lock
    <3>1. PICK w \in Workers : taking[w] # None /\ lock' = taking[w] /\ taking[w].token = counter
      BY <1>0, <2>2, LockStep
    <3>2. counter' = counter
      BY <1>0, <2>2, LockStep
    <3>3. lock'.token = counter'
      BY <3>1, <3>2
    <3> QED BY <1>0, <3>2, <3>3
  <2>3. CASE Next /\ counter' # counter
    <3>1. lock' = lock /\ counter' > counter /\ counter' \in Nat
      BY <1>0, <2>3, CounterStep DEF StoreInv, StoreTypes
    <3> QED BY <1>0, <3>1 DEF LeaseInv, Leases
  <2> QED BY <2>1, <2>2, <2>3 DEF vars
<1>2. \A w \in Workers : Acquiring(w)'
  BY AcquirerStep
<1>3. ASSUME NEW w \in Workers, mine'[w] # None
      PROVE  mine'[w].owner = w /\ (mine'[w].expires <= now' \/ lock' = mine'[w])
  <2>1. now' \in {now, now + 1}
    BY DEF Next, Step, AcquireLock, TakeToken, Mutate, StartMutation, ApplyState, Rollback,
           StartRecover, Recover, FillTmp, Publish, AppendJournal, ReturnLease, ReturnRecord,
           Crash, Tick, LoseActive, vars
  <2>2. CASE mine'[w] = mine[w]
    <3>1. mine[w] \in Leases
      BY <1>0, <1>3, <2>2 DEF LocalTypes
    <3>2. mine[w].owner = w /\ (mine[w].expires <= now \/ lock = mine[w])
      BY <1>3, <2>2 DEF LeaseInv
    <3>3. mine[w].expires <= now => mine[w].expires <= now'
      BY <1>0, <2>1, <3>1 DEF Leases
    <3>4. lock' # lock /\ lock # None => lock.expires <= now
      <4>1. UNCHANGED vars => lock' = lock
        BY DEF vars
      <4> QED BY <4>1, LockStep DEF FreeFor
    <3>5. mine[w] # None
      BY <1>3, <2>2
    <3> QED BY <2>2, <3>2, <3>3, <3>4, <3>5
  <2>3. CASE mine'[w] # mine[w]
    <3>1. ReturnLease(w)
      <4>1. \A v \in Workers : ReturnLease(v) \/ Crash(v) => v = w
        BY <1>0, <2>3 DEF ReturnLease, Crash, LocalTypes
      <4>2. ~Crash(w)
        BY <1>0, <1>3 DEF Crash, LocalTypes
      <4>3. \E v \in Workers : ReturnLease(v) \/ Crash(v)
        BY <2>3 DEF Next, Step, AcquireLock, TakeToken, Mutate, StartMutation, ApplyState,
           Rollback, StartRecover, Recover, FillTmp, Publish, AppendJournal, ReturnLease,
           ReturnRecord, Crash, Tick, LoseActive, vars
      <4> QED BY <4>1, <4>2, <4>3
    <3>2. mine'[w] = taking[w] /\ taking[w] # None /\ Len(plan[w]) = 0 /\ Performing(w)
          /\ lock' = lock
      BY <1>0, <3>1 DEF ReturnLease, LocalTypes, Performing
    <3>3. taking[w].owner = w /\ lock = taking[w]
      BY <3>2 DEF LeaseInv, Acquiring, StoreInv, PlanFits, LeasePlan
    <3> QED BY <3>2, <3>3
  <2> QED BY <2>2, <2>3
<1> QED BY <1>1, <1>2, <1>3 DEF LeaseInv

\* If no two acquire_lock overlap, whatever else does, a lease is replaced only
\* after it expired and only by one with a larger token (acquire_lock,
\* _next_lock_token).
THEOREM LeasesOnlyAdvance ==
  ASSUME "acquire" \notin Overlapping
  PROVE  Spec => LeasesAdvance
<1>1. StoreInv /\ LeaseInv /\ [Next]_vars =>
        [lock' # lock =>
           lock = None \/ (lock.expires <= now /\ lock'.token > lock.token)]_vars
  <2> SUFFICES ASSUME StoreInv, LeaseInv, Next, lock' # lock, lock # None
               PROVE  lock.expires <= now /\ lock'.token > lock.token
    OBVIOUS
  <2>1. PICK w \in Workers : taking[w] # None /\ lock' = taking[w] /\ FreeFor(w)
    BY LockStep
  <2>2. lock \in Leases /\ taking[w] \in Leases
    BY <2>1 DEF StoreInv, StoreTypes, LocalTypes
  <2> QED BY <2>1, <2>2 DEF FreeFor, Leases
<1> QED BY StoreInvInit, StoreInvStep, LeaseInvInit, LeaseInvStep, <1>1, PTL
        DEF Spec, LeasesAdvance

\* Nor are two workers told at the same time that they hold the lease.
THEOREM OneLease ==
  ASSUME "acquire" \notin Overlapping
  PROVE  Spec => []OneUnexpiredLease
<1>1. LeaseInv => OneUnexpiredLease
  BY DEF LeaseInv, OneUnexpiredLease
<1> QED BY StoreInvInit, StoreInvStep, LeaseInvInit, LeaseInvStep, <1>1, PTL DEF Spec

------------------------------------------------------------------------------
(* Mutations.                                                              *)

\* From the check of its lease to its journal entry a mutation is under way.
Mutating(w) ==
  \/ pc[w] \in {"apply", "rollback"}
  \/ Performing(w) /\ plan[w] # <<>> /\ plan[w][Len(plan[w])].file = "journal"

\* Who mutates holds the lease and there is room for its entry; nobody else
\* mutates or acquires meanwhile.
FenceInv ==
  /\ Len(journal) <= MaxJournal
  /\ \A w \in Workers : Mutating(w) =>
       /\ HoldsLease(w) /\ Len(journal) < MaxJournal
       /\ \A v \in Workers : Mutating(v) \/ taking[v] # None => v = w

MutationsAlone == Overlapping \cap {"acquire", "apply", "rollback"} = {}

\* A step that starts no method and adds nothing to the journal.
LEMMA FenceKept ==
  ASSUME FenceInv, UNCHANGED <<journal, lock>>,
         \A w \in Workers : Mutating(w)' => Mutating(w) /\ mine'[w] = mine[w],
         \A v \in Workers : taking'[v] # None => taking[v] # None
  PROVE  FenceInv'
  BY DEF FenceInv, HoldsLease

\* A worker that waits, checks or replays neither mutates nor acquires; nor does
\* one that acquires mutate.
LEMMA NotMutating ==
  ASSUME StoreInv, NEW w \in Workers
  PROVE  /\ pc[w] \in {"idle", "check", "replay"} => ~Mutating(w) /\ taking[w] = None
         /\ taking[w] # None => ~Mutating(w)
<1>0. PlanFits(w)
  BY DEF StoreInv
<1>1. ASSUME taking[w] # None PROVE ~Mutating(w)
  <2>1. pc[w] \notin {"apply", "rollback"}
    BY <1>0, <1>1 DEF PlanFits, LeasePlan
  <2>2. ASSUME Performing(w), plan[w] # <<>> PROVE plan[w][Len(plan[w])].file = "lock"
    <3>1. plan[w] = <<Write("counter", taking[w].token), Write("lock", taking[w])>> =>
            plan[w][Len(plan[w])] = Write("lock", taking[w])
      OBVIOUS
    <3>2. plan[w] = <<Write("lock", taking[w])>> =>
            plan[w][Len(plan[w])] = Write("lock", taking[w])
      OBVIOUS
    <3> QED BY <1>0, <1>1, <2>2, <3>1, <3>2 DEF PlanFits, LeasePlan
  <2> QED BY <2>1, <2>2 DEF Mutating
<1>2. ASSUME pc[w] \in {"idle", "check", "replay"} PROVE ~Mutating(w) /\ taking[w] = None
  BY <1>0, <1>2 DEF PlanFits, LeasePlan, Mutating, Performing
<1> QED BY <1>1, <1>2

LEMMA FenceInvStep ==
  ASSUME MutationsAlone
  PROVE  StoreInv /\ FenceInv /\ [Next]_vars => FenceInv'
<1> SUFFICES ASSUME StoreInv, FenceInv, [Next]_vars PROVE FenceInv'
  OBVIOUS
<1>0. StoreTypes /\ LocalTypes /\ (\A w \in Workers : PlanFits(w)) /\ StoreInv'
  BY StoreInvStep DEF StoreInv
\* A method that may not overlap starts while the others wait, check or replay.
<1>s. ASSUME NEW a \in Workers, NEW m \in {"acquire", "apply", "rollback"}, MayStart(a, m)
      PROVE  \A v \in Workers : ~Mutating(v) /\ taking[v] = None
  BY <1>s, NotMutating DEF MayStart, MutationsAlone
<1>1. ASSUME NEW a \in Workers, AcquireLock(a) PROVE FenceInv'
  <2>1. \A v \in Workers : ~Mutating(v)
    BY <1>1, <1>s DEF AcquireLock
  <2>2. \A v \in Workers : ~Mutating(v)'
    BY <1>0, <1>1, <2>1 DEF AcquireLock, Mutating, Performing, LocalTypes
  <2> QED BY <1>1, <2>2 DEF AcquireLock, FenceInv
<1>2. ASSUME NEW a \in Workers, NEW m \in {"apply", "rollback"}, StartMutation(a, m)
      PROVE  FenceInv'
  <2>1. \A v \in Workers : ~Mutating(v) /\ taking[v] = None
    BY <1>2, <1>s DEF StartMutation
  <2>2. /\ pc' = [pc EXCEPT ![a] = m] /\ HoldsLease(a) /\ Len(journal) < MaxJournal
        /\ UNCHANGED <<lock, journal, plan, taking, mine>>
    BY <1>2 DEF StartMutation
  <2>3. \A v \in Workers : Mutating(v)' => v = a
    BY <1>0, <2>1, <2>2 DEF Mutating, Performing, LocalTypes
  <2> QED BY <2>1, <2>2, <2>3 DEF FenceInv, HoldsLease
<1>3. ASSUME NEW a \in Workers, TakeToken(a) PROVE FenceInv'
  <2>1. taking[a] # None
    BY <1>0, <1>3 DEF TakeToken, PlanFits, RecordPlan
  <2>2. \A v \in Workers : ~Mutating(v)
    BY <2>1, NotMutating DEF FenceInv
  <2>4. ~Mutating(a)'
    <3>1. /\ plan'[a] = <<Write("counter", NextToken), Write("lock", taking'[a])>>
          /\ pc'[a] = "write"
      BY <1>0, <1>3 DEF TakeToken, LocalTypes
    <3>2. plan'[a][Len(plan'[a])] = Write("lock", taking'[a])
      BY <3>1
    <3> QED BY <3>1, <3>2 DEF Mutating
  <2>5. \A v \in Workers : ~Mutating(v)'
    BY <1>0, <1>3, <2>2, <2>4 DEF TakeToken, Mutating, Performing, LocalTypes
  <2> QED BY <1>3, <2>5 DEF TakeToken, FenceInv
<1>4. ASSUME NEW a \in Workers, (\E s \in States : ApplyState(a, s)) \/ Rollback(a) PROVE FenceInv'
  <2>1. Mutating(a) /\ pc[a] \in {"apply", "rollback"}
    BY <1>4 DEF ApplyState, Rollback, Mutating
  <2>2. UNCHANGED <<lock, journal, mine, taking>>
        /\ \A v \in Workers \ {a} : pc'[v] = pc[v] /\ plan'[v] = plan[v]
    BY <1>0, <1>4 DEF ApplyState, Rollback, Commit, Refuse, LocalTypes
  <2>3. \A v \in Workers : Mutating(v)' => Mutating(v) /\ mine'[v] = mine[v]
    BY <2>1, <2>2 DEF Mutating, Performing
  <2> QED BY <2>2, <2>3, FenceKept
<1>5. ASSUME NEW a \in Workers, StartRecover(a) PROVE FenceInv'
  <2>1. PICK m \in {"check", "replay"} : pc' = [pc EXCEPT ![a] = m]
    BY <1>5 DEF StartRecover
  <2>2. UNCHANGED <<lock, journal, mine, taking, plan>>
    BY <1>5 DEF StartRecover
  <2>3. \A v \in Workers : Mutating(v)' => Mutating(v) /\ mine'[v] = mine[v]
    BY <1>0, <2>1, <2>2 DEF Mutating, Performing, LocalTypes
  <2> QED BY <2>2, <2>3, FenceKept
<1>6. ASSUME NEW a \in Workers, Recover(a) PROVE FenceInv'
  <2>1. UNCHANGED <<lock, journal, mine, taking>>
        /\ \A v \in Workers \ {a} : pc'[v] = pc[v] /\ plan'[v] = plan[v]
    BY <1>0, <1>6 DEF Recover, Commit, Refuse, LocalTypes
  <2>2. ~Mutating(a)'
    <3>1. CASE pc'[a] = "idle"
      BY <3>1 DEF Mutating, Performing
    <3>2. CASE pc'[a] # "idle"
      <4> DEFINE r == result'[a]
      <4>1. /\ pc'[a] = "write"
            /\ \/ plan'[a] = <<Write("active", r)>>
               \/ \E p \in Records : plan'[a] = <<Write("active", r), Write("previous", p)>>
        BY <1>0, <1>6, <3>2, RecoverCommits DEF LocalTypes
      <4> HIDE DEF r
      <4>2. CASE plan'[a] = <<Write("active", r)>>
        <5>1. plan'[a][Len(plan'[a])] = Write("active", r)
          BY <4>2
        <5> QED BY <4>1, <5>1 DEF Mutating
      <4>3. ASSUME NEW p \in Records, plan'[a] = <<Write("active", r), Write("previous", p)>>
            PROVE  ~Mutating(a)'
        <5>1. plan'[a][Len(plan'[a])] = Write("previous", p)
          BY <4>3
        <5> QED BY <4>1, <5>1 DEF Mutating
      <4> QED BY <4>1, <4>2, <4>3
    <3> QED BY <3>1, <3>2
  <2>3. \A v \in Workers : Mutating(v)' => Mutating(v) /\ mine'[v] = mine[v]
    BY <2>1, <2>2 DEF Mutating, Performing
  <2> QED BY <2>1, <2>3, FenceKept
<1>7. ASSUME NEW a \in Workers, FillTmp(a) PROVE FenceInv'
  <2>1. UNCHANGED <<lock, journal, mine, taking, plan>> /\ pc[a] = "write"
        /\ pc' = [pc EXCEPT ![a] = "publish"]
    BY <1>7 DEF FillTmp
  <2>2. \A v \in Workers : Mutating(v)' => Mutating(v) /\ mine'[v] = mine[v]
    BY <1>0, <2>1 DEF Mutating, Performing, LocalTypes
  <2> QED BY <2>1, <2>2, FenceKept
<1>8. ASSUME NEW a \in Workers, Publish(a) PROVE FenceInv'
  <2>0. pc[a] = "publish" /\ Performing(a) /\ plan[a] # <<>>
    BY <1>0, <1>8 DEF Publish, Performing, PlanFits
  <2>1. /\ UNCHANGED <<journal, mine>>
        /\ \A v \in Workers \ {a} : pc'[v] = pc[v] /\ plan'[v] = plan[v]
        /\ \A v \in Workers : taking'[v] # None => taking[v] # None
        /\ pc'[a] = "idle" \/ (pc'[a] = "write" /\ plan'[a] = Tail(plan[a]))
    BY <1>0, <1>8 DEF Publish, LocalTypes
  <2>2. Mutating(a)' => Mutating(a)
    <3>1. CASE taking[a] # None
      <4>1. Tail(plan[a]) = <<Write("lock", taking[a])>> \/ Tail(plan[a]) = <<>>
        BY <2>0, <3>1, NextOfLease
      <4> DEFINE l == Write("lock", taking[a])
                 t == Tail(plan[a])
      <4>2. t = <<l>> \/ t = <<>>
        BY <4>1
      <4>3. l.file = "lock"
        BY DEF Write
      <4> HIDE DEF l, t
      <4>4. t # <<>> => t[Len(t)].file = "lock"
        BY <4>2, <4>3
      <4> QED BY <2>1, <4>4 DEF Mutating, Performing, t
    <3>2. CASE taking[a] = None
      <4> DEFINE S == RecordWrites(result[a])
                 s == plan[a]
      <4>1. s \in Seq(S) /\ s # <<>>
        BY <1>0, <2>0, <3>2 DEF PlanFits, RecordPlan
      <4> HIDE DEF S, s
      <4>2. Tail(s) # <<>> => Tail(s)[Len(Tail(s))] = s[Len(s)]
        BY <4>1
      <4> QED BY <2>0, <2>1, <4>2 DEF Mutating, Performing, s
    <3> QED BY <3>1, <3>2
  <2>3. \A v \in Workers : Mutating(v)' => Mutating(v) /\ mine'[v] = mine[v]
    BY <2>1, <2>2 DEF Mutating, Performing
  <2>4. CASE lock' = lock
    BY <2>1, <2>3, <2>4, FenceKept
  <2>5. CASE lock' # lock
    <3>1. Todo(a).file = "lock"
      BY <1>8, <2>5 DEF Publish
    <3>2. taking[a] # None
      BY <2>0, <3>1, RecordFiles
    <3>3. \A v \in Workers : ~Mutating(v)
      BY <3>2, NotMutating DEF FenceInv
    <3> QED BY <2>1, <2>3, <3>3 DEF FenceInv
  <2> QED BY <2>4, <2>5
<1>9. ASSUME NEW a \in Workers, AppendJournal(a) PROVE FenceInv'
  <2>1. /\ pc[a] = "write" /\ plan[a] # <<>> /\ Todo(a).file = "journal" /\ Performing(a)
        /\ plan' = [plan EXCEPT ![a] = Tail(@)] /\ UNCHANGED <<pc, lock, mine, taking>>
        /\ journal' = Append(journal, Todo(a).value)
    BY <1>9 DEF AppendJournal, Performing
  <2>2. taking[a] = None
    <3>1. taking[a] # None =>
            Todo(a) = Write("counter", taking[a].token) \/ Todo(a) = Write("lock", taking[a])
      BY <2>1, NextOfLease
    <3> QED BY <2>1, <3>1
  <2>3. Todo(a).value \in Entries
    BY <2>1, <2>2, NextOfRecord DEF RecordWrites
  <2>4. Len(plan[a]) = 1 /\ Tail(plan[a]) = <<>> /\ plan[a][1].file = "journal"
    <3> DEFINE S == RecordWrites(result[a])
               s == plan[a]
    <3>1. s \in Seq(S) /\ s # <<>> /\ JournalLast(s)
      BY <1>0, <2>1, <2>2 DEF PlanFits, RecordPlan
    <3>2. s[1].file = "journal"
      BY <2>1 DEF Todo
    <3> HIDE DEF S, s
    <3>3. Len(s) \in Nat /\ Len(s) >= 1 /\ 1 \in 1..Len(s)
      BY <3>1
    <3>4. Len(s) = 1
      BY <3>1, <3>2, <3>3 DEF JournalLast
    <3>5. Tail(s) \in Seq(S) /\ Len(Tail(s)) = 0
      BY <3>1, <3>4
    <3>6. Tail(s) = <<>>
      BY <3>5, EmptySeq
    <3> QED BY <3>2, <3>4, <3>6 DEF s
  <2>5. Mutating(a)
    BY <2>1, <2>4 DEF Mutating
  <2>6. Len(journal) < MaxJournal /\ \A v \in Workers : Mutating(v) => v = a
    BY <2>5 DEF FenceInv
  <2>7. \A v \in Workers : ~Mutating(v)'
    BY <1>0, <2>1, <2>4, <2>6 DEF Mutating, Performing, LocalTypes
  <2>8. Len(journal') = Len(journal) + 1 /\ Len(journal) \in Nat
    BY <1>0, <2>1, <2>3 DEF StoreTypes
  <2> QED BY <2>6, <2>7, <2>8 DEF FenceInv
<1>10. ASSUME NEW a \in Workers, ReturnLease(a) \/ ReturnRecord(a) PROVE FenceInv'
  <2>1. /\ plan[a] = <<>> /\ pc' = [pc EXCEPT ![a] = "idle"] /\ UNCHANGED <<plan, lock, journal>>
        /\ \A v \in Workers \ {a} : mine'[v] = mine[v]
        /\ \A v \in Workers : taking'[v] # None => taking[v] # None
    BY <1>0, <1>10 DEF ReturnLease, ReturnRecord, LocalTypes
  <2>2. \A v \in Workers : Mutating(v)' => Mutating(v) /\ mine'[v] = mine[v]
    BY <1>0, <2>1 DEF Mutating, Performing, LocalTypes
  <2> QED BY <2>1, <2>2, FenceKept
<1>11. ASSUME NEW a \in Workers, Crash(a) PROVE FenceInv'
  <2>1. /\ pc' = [pc EXCEPT ![a] = "idle"] /\ UNCHANGED <<lock, journal>>
        /\ \A v \in Workers \ {a} : mine'[v] = mine[v] /\ plan'[v] = plan[v]
        /\ \A v \in Workers : taking'[v] # None => taking[v] # None
    BY <1>0, <1>11 DEF Crash, LocalTypes
  <2>2. \A v \in Workers : Mutating(v)' => Mutating(v) /\ mine'[v] = mine[v]
    BY <1>0, <2>1 DEF Mutating, Performing, LocalTypes
  <2> QED BY <2>1, <2>2, FenceKept
<1>12. CASE Tick \/ LoseActive \/ UNCHANGED vars
  BY <1>12, FenceKept DEF Tick, LoseActive, vars, Mutating, Performing
<1> QED BY <1>1, <1>2, <1>3, <1>4, <1>5, <1>6, <1>7, <1>8, <1>9, <1>10, <1>11, <1>12
        DEF Next, Step, Mutate

LEMMA FenceInvInit == Init => FenceInv
  BY DEF Init, FenceInv, Mutating, Performing

\* If no acquire_lock, apply_state or rollback overlaps another of them, whatever
\* recover() does meanwhile, whoever publishes an active record owns the lease
\* on file (_require_matching_lock): no write of an older lease lands.
THEOREM NobodyWritesUnfenced ==
  ASSUME MutationsAlone
  PROVE  Spec => MutationsFenced
<1>1. StoreInv /\ FenceInv /\ [Next]_vars =>
        [\A w \in Workers :
           /\ pc[w] = "publish" /\ pc'[w] = "write" /\ Todo(w).file = "active"
           /\ Len(plan[w]) > 1 /\ plan[w][Len(plan[w])].file = "journal"
           => lock.owner = w /\ lock.token = mine[w].token]_vars
  <2> SUFFICES ASSUME StoreInv, FenceInv, NEW w \in Workers, pc[w] = "publish",
                      plan[w][Len(plan[w])].file = "journal"
               PROVE  lock.owner = w /\ lock.token = mine[w].token
    OBVIOUS
  <2>1. plan[w] # <<>>
    BY DEF StoreInv, PlanFits
  <2>2. Mutating(w)
    BY <2>1 DEF Mutating, Performing
  <2> QED BY <2>2 DEF FenceInv, HoldsLease
<1> QED BY StoreInvInit, StoreInvStep, FenceInvInit, FenceInvStep, <1>1, PTL
        DEF Spec, MutationsFenced

\* Every file and every worker's local state has its type; in particular a
\* mutation leaves room for the entry it will append, which takes that no other
\* mutation appends meanwhile.
THEOREM TypeCorrect ==
  ASSUME MutationsAlone
  PROVE  Spec => []TypeOK
<1>1. StoreInv /\ FenceInv => TypeOK
  <2> SUFFICES ASSUME StoreInv, FenceInv PROVE TypeOK
    OBVIOUS
  <2>1. StoreTypes /\ LocalTypes /\ Len(journal) <= MaxJournal
    BY DEF StoreInv, FenceInv
  <2>2. \A i \in DOMAIN journal : journal[i] \in Entries
    BY <2>1 DEF StoreTypes
  <2>3. ASSUME NEW w \in Workers PROVE Len(plan[w]) <= 3
    <3>0. PlanFits(w)
      BY DEF StoreInv
    <3>1. CASE plan[w] = <<>>
      BY <3>1
    <3>2. CASE Performing(w) /\ plan[w] # <<>> /\ taking[w] # None
      <4> DEFINE c == Write("counter", taking[w].token)
                 l == Write("lock", taking[w])
      <4>1. plan[w] = <<c, l>> \/ plan[w] = <<l>>
        BY <3>0, <3>2 DEF PlanFits, LeasePlan
      <4> HIDE DEF c, l
      <4> DEFINE s == plan[w]
                 n == Len(s)
      <4>2. s = <<c, l>> => n = 2
        OBVIOUS
      <4>3. s = <<l>> => n = 1
        OBVIOUS
      <4>4. s = <<c, l>> \/ s = <<l>>
        BY <4>1
      <4> HIDE DEF s, n
      <4>5. n <= 3
        BY <4>2, <4>3, <4>4
      <4> QED BY <4>5 DEF n, s
    <3>3. CASE Performing(w) /\ taking[w] = None
      BY <3>0, <3>3 DEF PlanFits, RecordPlan, JournalLast
    <3> QED BY <3>0, <3>1, <3>2, <3>3 DEF PlanFits
  <2> QED BY <2>1, <2>2, <2>3 DEF TypeOK, StoreTypes, LocalTypes
<1> QED BY StoreInvInit, StoreInvStep, FenceInvInit, FenceInvStep, <1>1, PTL DEF Spec

------------------------------------------------------------------------------
(* What a mutation that returned leaves behind.                            *)

\* No mutation and no replay starts beside another method; acquisitions and
\* recover() calls that find an active record may, and may meet each other.
RecordsAlone == Overlapping \subseteq {"check", "acquire"}

Busy(w) == pc[w] \notin {"idle", "check", "acquire"} /\ taking[w] = None

\* Only the plan of the busy worker holds writes of records, and recover()
\* checks while there is an active record.
Alone ==
  /\ \A v, w \in Workers : Busy(v) /\ Busy(w) => v = w
  /\ \A w \in Workers : pc[w] = "check" => active # None

Left(w, file) == \E i \in 1..Len(plan[w]) : plan[w][i].file = file

\* Of the writes of records those done are visible in the files.
Stage(w) ==
  Performing(w) /\ taking[w] = None =>
    /\ ~Left(w, "active") => active = result[w]
    /\ ~Left(w, "journal") => ReplayedActive = result[w]
    /\ pc[w] = "publish" /\ Todo(w).file = "active" => tmp["active"] \in {None, result[w]}

\* The records under way, and what may be found once one was reported.
Candidates == {reported} \cup attempted \cup {result[w] : w \in Workers}
Known ==
  reported # None =>
    active \in {None} \cup Candidates /\ ReplayedActive \in Candidates \ {None}

ReportInv == Alone /\ (\A w \in Workers : Stage(w)) /\ Known

LEMMA ReportInvInit == Init => ReportInv
  BY DEF Init, ReportInv, Alone, Busy, Stage, Performing, Known

\* Once it has its token a worker still takes a lease.
LEMMA TokenTaken ==
  ASSUME StoreInv, NEW w \in Workers, TakeToken(w)
  PROVE  taking'[w] # None
<1>0. LocalTypes /\ PlanFits(w)
  BY DEF StoreInv
<1>1. pc[w] = "acquire" /\ taking[w] \in Leases
  BY <1>0 DEF TakeToken, PlanFits, RecordPlan, LocalTypes
<1>2. counter \in 0..MaxToken /\ counter < MaxToken
      /\ taking'[w] = [taking[w] EXCEPT !.token = NextToken]
  BY <1>0 DEF TakeToken, LocalTypes, StoreInv, StoreTypes
<1>3. taking'[w] \in Leases
  BY <1>1, <1>2 DEF Leases, NextToken
<1> QED BY <1>3

\* A worker moves nobody but itself.
LEMMA OthersStay ==
  ASSUME LocalTypes, NEW a \in Workers, Step(a) \/ Crash(a)
  PROVE  Others(a)
<1> USE DEF Others, LocalTypes
<1>1. CASE AcquireLock(a) \/ TakeToken(a) \/ (\E m \in {"apply", "rollback"} : StartMutation(a, m))
  BY <1>1 DEF AcquireLock, TakeToken, StartMutation
<1>2. CASE \E s \in States : ApplyState(a, s)
  BY <1>2 DEF ApplyState, Commit, Refuse
<1>3. CASE Rollback(a)
  BY <1>3 DEF Rollback, Commit, Refuse
<1>4. CASE StartRecover(a)
  BY <1>4 DEF StartRecover
<1>5. CASE Recover(a)
  BY <1>5 DEF Recover, Commit, Refuse
<1>6. CASE FillTmp(a) \/ AppendJournal(a)
  BY <1>6 DEF FillTmp, AppendJournal
<1>7. CASE Publish(a)
  BY <1>7 DEF Publish
<1>8. CASE ReturnLease(a) \/ ReturnRecord(a) \/ Crash(a)
  BY <1>8 DEF ReturnLease, ReturnRecord, Crash
<1> QED BY <1>1, <1>2, <1>3, <1>4, <1>5, <1>6, <1>7, <1>8 DEF Step, Mutate

LEMMA AloneStep ==
  ASSUME RecordsAlone, StoreInv, ReportInv, [Next]_vars
  PROVE  Alone'
<1>0. LocalTypes /\ Alone /\ active \in Records \cup {None}
  BY DEF StoreInv, StoreTypes, ReportInv
\* A method that writes records starts while the others wait, check or acquire.
<1>s. ASSUME NEW a \in Workers, NEW m \in Methods \ {"check", "acquire"}, MayStart(a, m)
      PROVE  \A v \in Workers : ~Busy(v)
  BY <1>s DEF MayStart, RecordsAlone, Busy
<1>k. ASSUME \A v \in Workers : Busy(v)' => Busy(v),
             \A v \in Workers : pc'[v] = "check" => pc[v] = "check",
             active' = None => active = None
      PROVE  Alone'
  BY <1>0, <1>k DEF Alone
\* A step of a moves nobody else.
<1>a. ASSUME NEW a \in Workers, Others(a), Busy(a)' => Busy(a), pc'[a] # "check",
             active' = None => active = None
      PROVE  Alone'
  <2>1. \A v \in Workers \ {a} : Busy(v)' <=> Busy(v)
    BY <1>a DEF Others, Busy
  <2>2. \A v \in Workers \ {a} : pc'[v] = pc[v]
    BY <1>a DEF Others
  <2> QED BY <1>k, <1>a, <2>1, <2>2
<1>1. ASSUME NEW a \in Workers, NEW m \in Methods \ {"check", "acquire"}, MayStart(a, m),
             pc' = [pc EXCEPT ![a] = m], active' = active, taking' = taking
      PROVE  Alone'
  BY <1>0, <1>1, <1>s DEF Alone, Busy, LocalTypes
<1>2. ASSUME NEW a \in Workers, Step(a) \/ Crash(a) PROVE Alone'
  <2>0. Others(a)
    BY <1>0, <1>2, OthersStay
  <2>1. CASE AcquireLock(a)
    <3>1. pc'[a] = "acquire" /\ active' = active
      BY <1>0, <2>1 DEF AcquireLock, LocalTypes
    <3> QED BY <1>a, <2>0, <3>1 DEF Busy
  <2>2. CASE \E m \in {"apply", "rollback"} : StartMutation(a, m)
    BY <1>1, <2>2 DEF StartMutation
  <2>3. CASE StartRecover(a)
    <3>1. PICK m \in {"check", "replay"} :
            (m = "check") = (active # None) /\ MayStart(a, m) /\ pc' = [pc EXCEPT ![a] = m]
      BY <2>3 DEF StartRecover
    <3>2. active' = active /\ taking' = taking
      BY <2>3 DEF StartRecover
    <3>3. CASE m = "replay"
      BY <1>1, <3>1, <3>2, <3>3
    <3>4. CASE m = "check"
      BY <1>0, <3>1, <3>2, <3>4 DEF Alone, Busy, LocalTypes
    <3> QED BY <3>1, <3>3, <3>4
  <2>4. CASE TakeToken(a)
    <3>1. taking'[a] # None /\ pc'[a] = "write" /\ active' = active
      BY <1>0, <2>4, TokenTaken DEF TakeToken, LocalTypes
    <3> QED BY <1>a, <2>0, <3>1 DEF Busy
  <2>5. CASE (\E s \in States : ApplyState(a, s)) \/ Rollback(a) \/ Recover(a)
    <3>1. taking' = taking /\ active' = active
          /\ pc[a] \in {"apply", "rollback", "check", "replay"} /\ pc'[a] \in {"idle", "write"}
      BY <1>0, <2>5 DEF ApplyState, Rollback, Recover, Commit, Refuse, LocalTypes
    <3>2. pc[a] = "check" => pc'[a] = "idle"
      BY <1>0, <2>5 DEF Alone, ApplyState, Rollback, Recover, Refuse, LocalTypes
    <3>3. Busy(a)' => Busy(a)
      BY <3>1, <3>2 DEF Busy
    <3> QED BY <1>a, <2>0, <3>1, <3>3
  <2>6. CASE FillTmp(a) \/ AppendJournal(a)
    <3>1. taking' = taking /\ active' = active /\ pc[a] = "write" /\ pc'[a] \in {"write", "publish"}
      BY <1>0, <2>6 DEF FillTmp, AppendJournal, LocalTypes
    <3> QED BY <1>a, <2>0, <3>1 DEF Busy
  <2>7. CASE Publish(a)
    <3>1. /\ pc[a] = "publish" /\ (active' = None => active = None)
          /\ pc'[a] = "idle" \/ (pc'[a] = "write" /\ taking' = taking)
      BY <1>0, <2>7 DEF Publish, LocalTypes
    <3> QED BY <1>a, <2>0, <3>1 DEF Busy
  <2>8. CASE ReturnLease(a) \/ ReturnRecord(a) \/ Crash(a)
    <3>1. pc'[a] = "idle" /\ active' = active
      BY <1>0, <2>8 DEF ReturnLease, ReturnRecord, Crash, LocalTypes
    <3> QED BY <1>a, <2>0, <3>1 DEF Busy
  <2> QED BY <1>2, <2>1, <2>2, <2>3, <2>4, <2>5, <2>6, <2>7, <2>8 DEF Step, Mutate
<1>3. CASE LoseActive
  BY <1>0, <1>3 DEF LoseActive, Alone, Busy
<1>4. CASE Tick \/ UNCHANGED vars
  BY <1>k, <1>4 DEF Tick, vars, Busy
<1> QED BY <1>2, <1>3, <1>4 DEF Next

\* A worker that waits, checks or takes a lease touches neither record nor
\* journal.
LEMMA IdleSteps ==
  ASSUME StoreInv, ReportInv, NEW a \in Workers, Step(a) \/ Crash(a), ~Busy(a) \/ Crash(a)
  PROVE  UNCHANGED <<active, journal>> /\ tmp'["active"] \in {None, tmp["active"]}
<1>0. LocalTypes /\ PlanFits(a) /\ DOMAIN tmp = FileNames
  BY DEF StoreInv, StoreTypes
<1>1. pc[a] = "check" => active # None
  BY DEF ReportInv, Alone
<1>2. CASE Crash(a)
  BY <1>2 DEF Crash
<1>3. CASE AcquireLock(a) \/ TakeToken(a) \/ Mutate(a) \/ ReturnLease(a) \/ ReturnRecord(a)
  BY <1>3 DEF AcquireLock, TakeToken, Mutate, StartMutation, ApplyState, Rollback, ReturnLease,
              ReturnRecord
<1>4. CASE StartRecover(a)
  BY <1>4 DEF StartRecover, FileNames
<1>5. CASE ~Crash(a) /\ Recover(a)
  <2>1. pc[a] = "check"
    BY <1>0, <1>5 DEF Busy, Recover, PlanFits, LeasePlan
  <2> QED BY <1>1, <1>5, <2>1 DEF Recover, Refuse
<1>6. CASE ~Crash(a) /\ (FillTmp(a) \/ Publish(a) \/ AppendJournal(a))
  <2>1. taking[a] # None /\ Performing(a) /\ plan[a] # <<>>
    BY <1>0, <1>6 DEF Busy, FillTmp, Publish, AppendJournal, Performing, PlanFits
  <2>2. Todo(a).file \in {"counter", "lock"}
    <3>1. Todo(a) = Write("counter", taking[a].token) \/ Todo(a) = Write("lock", taking[a])
      BY <2>1, NextOfLease
    <3> QED BY <3>1
  <2>3. CASE FillTmp(a)
    BY <1>0, <2>2, <2>3 DEF FillTmp, FileNames
  <2>4. CASE Publish(a)
    BY <1>0, <2>2, <2>4 DEF Publish, FileNames
  <2> QED BY <1>6, <2>2, <2>3, <2>4 DEF AppendJournal
<1> QED BY <1>2, <1>3, <1>4, <1>5, <1>6 DEF Step

LEMMA StageKept ==
  ASSUME NEW w \in Workers, Stage(w), UNCHANGED <<active, journal>>,
         tmp'["active"] \in {None, tmp["active"]},
         pc'[w] = pc[w], plan'[w] = plan[w], taking'[w] = taking[w], result'[w] = result[w]
  PROVE  Stage(w)'
  BY DEF Stage, Performing, Left, Todo, ReplayedActive

\* The first write is done, the others are left.
LEMMA LeftOfTail ==
  ASSUME NEW S, NEW s \in Seq(S), s # <<>>, NEW file,
         \E i \in 1..Len(s) : s[i].file = file, Head(s).file # file
  PROVE  \E i \in 1..Len(Tail(s)) : Tail(s)[i].file = file
<1>1. PICK i \in 1..Len(s) : s[i].file = file
  OBVIOUS
<1>2. Len(s) \in Nat /\ Len(Tail(s)) = Len(s) - 1 /\ Head(s) = s[1]
      /\ \A j \in 1..Len(s) - 1 : Tail(s)[j] = s[j + 1]
  OBVIOUS
<1>3. i # 1
  BY <1>1, <1>2
<1>4. i - 1 \in 1..Len(Tail(s)) /\ Tail(s)[i - 1] = s[i]
  BY <1>1, <1>2, <1>3
<1> QED BY <1>1, <1>4

LEMMA PublishStage ==
  ASSUME RecordsAlone, StoreInv, ReportInv, NEW w \in Workers, Publish(w)
  PROVE  /\ Stage(w)'
         /\ active' # active => active' = result[w]
<1>0. LocalTypes /\ pc[w] = "publish" /\ Performing(w) /\ plan[w] # <<>> /\ Stage(w)
      /\ Todo(w).file # "journal"
  BY DEF StoreInv, ReportInv, Publish, Performing, PlanFits
<1>1. journal' = journal /\ pc'[w] \in {"idle", "write"}
      /\ (pc'[w] = "write" => taking'[w] = taking[w] /\ result'[w] = result[w] /\ plan'[w] = Tail(plan[w]))
  BY <1>0 DEF Publish, LocalTypes
<1>2. CASE taking[w] # None
  <2>1. Todo(w).file \in {"counter", "lock"}
    BY <1>0, <1>2, LeaseFiles
  <2> QED BY <1>0, <1>1, <1>2, <2>1 DEF Publish, Stage, Performing
<1>3. CASE taking[w] = None
  <2>1. result[w] \in Records /\ Todo(w).file = "active" => tmp["active"] \in {None, result[w]}
    BY <1>0, <1>3 DEF Stage, Performing
  <2>2. active' = active \/ (Todo(w).file = "active" /\ active' = result[w])
    BY <1>0, <1>3, <2>1, NextOfRecord DEF Publish
  <2>3. ASSUME pc'[w] = "write" PROVE Stage(w)'
    <3> DEFINE S == RecordWrites(result[w])
               s == plan[w]
    <3>1. s \in Seq(S) /\ s # <<>>
      BY <1>0, <1>3 DEF StoreInv, PlanFits, RecordPlan
    <3>2. Head(s).file = Todo(w).file
      BY DEF Todo
    <3> HIDE DEF S, s
    <3>3. \A file : (\E i \in 1..Len(s) : s[i].file = file) /\ Head(s).file # file
              => \E i \in 1..Len(Tail(s)) : Tail(s)[i].file = file
      BY <3>1, LeftOfTail
    <3>4. ASSUME NEW file, Left(w, file), Todo(w).file # file PROVE Left(w, file)'
      <4>1. \E i \in 1..Len(s) : s[i].file = file
        BY <3>4 DEF Left, s
      <4>2. \E i \in 1..Len(Tail(s)) : Tail(s)[i].file = file
        BY <3>2, <3>3, <3>4, <4>1
      <4>3. plan'[w] = Tail(s)
        BY <1>1, <2>3 DEF s
      <4> QED BY <4>2, <4>3 DEF Left
    <3>5. Left(w, "journal") => Left(w, "journal")'
      BY <1>0, <3>4
    <3>6. ~Left(w, "active")' => active' = result[w]
      <4>1. CASE Todo(w).file = "active"
        <5>1. active' = tmp["active"] /\ tmp["active"] # None
          BY <1>0, <2>3, <4>1 DEF Publish, LocalTypes
        <5> QED BY <1>0, <1>3, <4>1, <5>1 DEF Stage
      <4>2. CASE Todo(w).file # "active"
        <5>1. active' = active
          BY <2>2, <4>2
        <5> QED BY <1>0, <1>3, <3>4, <4>2, <5>1 DEF Stage
      <4> QED BY <4>1, <4>2
    <3>7. ReplayedActive' = ReplayedActive
      BY <1>1 DEF ReplayedActive
    <3> QED BY <1>0, <1>1, <1>3, <2>3, <3>5, <3>6, <3>7 DEF Stage
  <2>4. ASSUME pc'[w] = "idle" PROVE Stage(w)'
    BY <2>4 DEF Stage, Performing
  <2> QED BY <1>1, <2>2, <2>3, <2>4
<1> QED BY <1>2, <1>3

LEMMA AppendStage ==
  ASSUME StoreInv, ReportInv, NEW w \in Workers, AppendJournal(w)
  PROVE  Stage(w)' /\ ReplayedActive' = result[w] /\ result[w] # None
<1>0. /\ LocalTypes /\ pc[w] = "write" /\ Performing(w) /\ plan[w] # <<>> /\ Stage(w)
      /\ Todo(w).file = "journal" /\ journal \in Seq(Entries)
      /\ UNCHANGED <<pc, active, taking, result>>
      /\ plan' = [plan EXCEPT ![w] = Tail(@)] /\ journal' = Append(journal, Todo(w).value)
  BY DEF StoreInv, StoreTypes, ReportInv, AppendJournal, Performing
<1>1. taking[w] = None
  <2>1. taking[w] # None =>
          Todo(w) = Write("counter", taking[w].token) \/ Todo(w) = Write("lock", taking[w])
    BY <1>0, NextOfLease
  <2> QED BY <1>0, <2>1
<1>2. Todo(w).value \in Entries /\ Todo(w).value.active = result[w] /\ result[w] \in Records
  BY <1>0, <1>1, NextOfRecord DEF RecordWrites
<1>3. ReplayedActive' = result[w]
  <2> DEFINE e == Todo(w).value
  <2>1. e \in Entries /\ journal' = Append(journal, e) /\ e.active = result[w]
    BY <1>0, <1>2
  <2> HIDE DEF e
  <2>2. journal' # <<>> /\ journal'[Len(journal')] = e
    BY <1>0, <2>1
  <2> QED BY <2>1, <2>2 DEF ReplayedActive
<1>4. ~Left(w, "active")
  <2> DEFINE S == RecordWrites(result[w])
             s == plan[w]
  <2>1. JournalLast(s) /\ s \in Seq(S) /\ s # <<>>
    BY <1>0, <1>1 DEF StoreInv, PlanFits, RecordPlan
  <2>2. s[1].file = "journal"
    BY <1>0 DEF Todo
  <2> HIDE DEF S, s
  <2>3. Len(s) \in Nat /\ Len(s) >= 1 /\ 1 \in 1..Len(s)
    BY <2>1
  <2>4. Len(s) = 1
    BY <2>1, <2>2, <2>3 DEF JournalLast
  <2>5. \A i \in 1..Len(s) : s[i].file # "active"
    BY <2>2, <2>4
  <2> QED BY <2>5 DEF Left, s
<1>5. Stage(w)'
  BY <1>0, <1>1, <1>3, <1>4 DEF Stage
<1> QED BY <1>2, <1>3, <1>5

LEMMA StageStep ==
  ASSUME RecordsAlone, StoreInv, ReportInv, [Next]_vars, NEW w \in Workers
  PROVE  Stage(w)'
<1>0. LocalTypes /\ Stage(w) /\ PlanFits(w) /\ Alone
  BY DEF StoreInv, ReportInv
<1>1. ASSUME NEW a \in Workers \ {w}, Step(a) \/ Crash(a) PROVE Stage(w)'
  <2>1. pc'[w] = pc[w] /\ plan'[w] = plan[w] /\ taking'[w] = taking[w] /\ result'[w] = result[w]
    <3>1. Others(a)
      BY <1>0, <1>1, OthersStay
    <3> QED BY <3>1 DEF Others
  <2>2. CASE Performing(w) /\ taking[w] = None
    <3>1. ~Busy(a)
      BY <1>0, <2>2 DEF Alone, Busy, Performing
    <3> QED BY <1>0, <1>1, <2>1, <3>1, IdleSteps, StageKept
  <2>3. CASE ~(Performing(w) /\ taking[w] = None)
    BY <2>1, <2>3 DEF Stage, Performing
  <2> QED BY <2>2, <2>3
<1>2. CASE AcquireLock(w) \/ (\E m \in {"apply", "rollback"} : StartMutation(w, m))
             \/ StartRecover(w) \/ ReturnLease(w) \/ ReturnRecord(w) \/ Crash(w)
  <2>1. pc'[w] \notin {"write", "publish"}
    BY <1>0, <1>2 DEF AcquireLock, StartMutation, StartRecover, ReturnLease, ReturnRecord,
                      Crash, LocalTypes
  <2> QED BY <2>1 DEF Stage, Performing
<1>3. CASE TakeToken(w)
  <2>1. taking'[w] # None
    BY <1>3, TokenTaken
  <2> QED BY <2>1 DEF Stage
<1>4. ASSUME NEW s \in States, ApplyState(w, s) PROVE Stage(w)'
  <2>1. CASE pc'[w] = "idle"
    BY <2>1 DEF Stage, Performing
  <2>2. CASE pc'[w] # "idle"
    <3> DEFINE r == result'[w]
               e == [action |-> "apply", active |-> r, previous |-> active]
               p == Write("previous", active)
               c == Write("active", r)
               j == Write("journal", e)
    <3>1. pc'[w] = "write" /\ (plan'[w] = <<p, c, j>> \/ plan'[w] = <<c, j>>)
      BY <1>0, <1>4, <2>2, ApplyCommits DEF LocalTypes
    <3>2. c.file = "active" /\ j.file = "journal"
      OBVIOUS
    <3> HIDE DEF p, c, j
    <3>3. Left(w, "active")' /\ Left(w, "journal")'
      <4>1. CASE plan'[w] = <<p, c, j>>
        <5>1. Len(plan'[w]) = 3 /\ plan'[w][2] = c /\ plan'[w][3] = j
          BY <4>1
        <5>2. 2 \in 1..3 /\ 3 \in 1..3
          OBVIOUS
        <5> QED BY <3>2, <5>1, <5>2 DEF Left
      <4>2. CASE plan'[w] = <<c, j>>
        <5>1. Len(plan'[w]) = 2 /\ plan'[w][1] = c /\ plan'[w][2] = j
          BY <4>2
        <5>2. 1 \in 1..2 /\ 2 \in 1..2
          OBVIOUS
        <5> QED BY <3>2, <5>1, <5>2 DEF Left
      <4> QED BY <3>1, <4>1, <4>2
    <3> QED BY <3>1, <3>3 DEF Stage
  <2> QED BY <2>1, <2>2
<1>5. CASE Rollback(w)
  <2>1. CASE pc'[w] = "idle"
    BY <2>1 DEF Stage, Performing
  <2>2. CASE pc'[w] # "idle"
    <3> DEFINE r == result'[w]
               e == [action |-> "rollback", active |-> r, previous |-> active]
               p == Write("previous", active)
               c == Write("active", r)
               j == Write("journal", e)
    <3>1. pc'[w] = "write" /\ plan'[w] = <<c, p, j>>
      BY <1>0, <1>5, <2>2, RollbackCommits DEF LocalTypes
    <3>2. c.file = "active" /\ j.file = "journal"
      OBVIOUS
    <3> HIDE DEF p, c, j
    <3>3. Len(plan'[w]) = 3 /\ plan'[w][1] = c /\ plan'[w][3] = j
      BY <3>1
    <3>4. 1 \in 1..3 /\ 3 \in 1..3
      OBVIOUS
    <3>5. Left(w, "active")' /\ Left(w, "journal")'
      BY <3>2, <3>3, <3>4 DEF Left
    <3> QED BY <3>1, <3>5 DEF Stage
  <2> QED BY <2>1, <2>2
<1>6. CASE Recover(w)
  <2>1. CASE pc'[w] = "idle"
    BY <2>1 DEF Stage, Performing
  <2>2. CASE pc'[w] # "idle"
    <3> DEFINE r == result'[w]
               c == Write("active", r)
    <3>1. pc'[w] = "write" /\ r = ReplayedActive
          /\ \/ plan'[w] = <<c>>
             \/ \E q \in Records : plan'[w] = <<c, Write("previous", q)>>
      BY <1>0, <1>6, <2>2, RecoverCommits DEF LocalTypes
    <3>2. c.file = "active"
      OBVIOUS
    <3> HIDE DEF c
    <3>3. Left(w, "active")'
      <4>1. CASE plan'[w] = <<c>>
        <5>1. Len(plan'[w]) = 1 /\ plan'[w][1] = c
          BY <4>1
        <5>2. 1 \in 1..1
          OBVIOUS
        <5> QED BY <3>2, <5>1, <5>2 DEF Left
      <4>2. ASSUME NEW q, plan'[w] = <<c, q>> PROVE Left(w, "active")'
        <5>1. Len(plan'[w]) = 2 /\ plan'[w][1] = c
          BY <4>2
        <5>2. 1 \in 1..2
          OBVIOUS
        <5> QED BY <3>2, <5>1, <5>2 DEF Left
      <4> QED BY <3>1, <4>1, <4>2
    <3>4. ReplayedActive' = result'[w]
      BY <1>6, <3>1 DEF Recover, ReplayedActive
    <3> QED BY <3>1, <3>3, <3>4 DEF Stage
  <2> QED BY <2>1, <2>2
<1>7. CASE FillTmp(w)
  <2>1. /\ pc[w] = "write" /\ Performing(w) /\ plan[w] # <<>>
        /\ UNCHANGED <<active, journal, plan, taking, result>>
        /\ tmp' = [tmp EXCEPT ![Todo(w).file] = Todo(w).value] /\ Todo(w)' = Todo(w)
    BY <1>7 DEF FillTmp, Performing, Todo
  <2>2. taking[w] = None /\ Todo(w).file = "active" => tmp'["active"] = result[w]
    <3>1. "active" \in DOMAIN tmp
      BY DEF StoreInv, StoreTypes, FileNames
    <3>2. taking[w] = None /\ Todo(w).file = "active" => Todo(w).value = result[w]
      BY <2>1, NextOfRecord DEF RecordWrites
    <3> QED BY <2>1, <3>1, <3>2
  <2>3. \A file : Left(w, file)' <=> Left(w, file)
    BY <2>1 DEF Left
  <2> QED BY <1>0, <2>1, <2>2, <2>3 DEF Stage, ReplayedActive
<1>8. CASE Publish(w)
  BY <1>8, PublishStage
<1>9. CASE AppendJournal(w)
  BY <1>9, AppendStage
<1>10. CASE Tick \/ UNCHANGED vars
  BY <1>0, <1>10, StageKept DEF Tick, vars
<1>11. CASE LoseActive
  BY <1>0, <1>11 DEF LoseActive, Stage, Performing
<1> QED BY <1>1, <1>2, <1>3, <1>4, <1>5, <1>6, <1>7, <1>8, <1>9, <1>10, <1>11
        DEF Next, Step, Mutate

LEMMA KnownKept ==
  ASSUME Known, reported' = reported, attempted \subseteq attempted',
         active' \in {None, active}, journal' = journal,
         \A w \in Workers : result[w] \in {None, result'[w]} \cup attempted'
  PROVE  Known'
<1>1. Candidates \ {None} \subseteq Candidates'
  BY DEF Candidates
<1>2. ReplayedActive' = ReplayedActive
  BY DEF ReplayedActive
<1> QED BY <1>1, <1>2 DEF Known

LEMMA KnownStep ==
  ASSUME RecordsAlone, StoreInv, ReportInv, [Next]_vars
  PROVE  Known'
<1>0. LocalTypes /\ Known /\ (\A w \in Workers : PlanFits(w)) /\ \A w \in Workers : Stage(w)
  BY DEF StoreInv, ReportInv
<1>1. ASSUME NEW a \in Workers, UNCHANGED <<active, journal, history>>,
             \A v \in Workers \ {a} : result'[v] = result[v],
             result'[a] = result[a] \/ ~Performing(a)
      PROVE  Known'
  BY <1>0, <1>1, KnownKept DEF PlanFits
<1>2. ASSUME NEW a \in Workers,
             \/ AcquireLock(a) \/ TakeToken(a) \/ Mutate(a) \/ StartRecover(a) \/ Recover(a)
             \/ FillTmp(a) \/ ReturnLease(a)
      PROVE  Known'
  <2>1. UNCHANGED <<active, journal, history>>
    BY <1>2 DEF AcquireLock, TakeToken, Mutate, StartMutation, ApplyState, Rollback,
                StartRecover, Recover, FillTmp, ReturnLease
  <2>2. (\A v \in Workers \ {a} : result'[v] = result[v]) /\ (result'[a] = result[a] \/ ~Performing(a))
    BY <1>0, <1>2 DEF AcquireLock, TakeToken, Mutate, StartMutation, ApplyState, Rollback,
       StartRecover, Recover, FillTmp, ReturnLease, Commit, Refuse, LocalTypes, Performing
  <2> QED BY <1>1, <2>1, <2>2
<1>3. ASSUME NEW a \in Workers, Publish(a) PROVE Known'
  <2>1. reported' = reported /\ journal' = journal /\ attempted \subseteq attempted'
        /\ \A w \in Workers : result[w] \in {None, result'[w]} \cup attempted'
    BY <1>0, <1>3 DEF Publish, LocalTypes
  <2>2. CASE active' = active
    BY <1>0, <2>1, <2>2, KnownKept
  <2>3. CASE active' # active
    <3>1. active' = result[a] /\ result' = result /\ attempted' = attempted
      BY <1>3, <2>3, PublishStage DEF Publish
    <3>2. Candidates' = Candidates /\ ReplayedActive' = ReplayedActive
      BY <2>1, <3>1 DEF Candidates, ReplayedActive
    <3> QED BY <1>0, <2>1, <3>1, <3>2 DEF Known, Candidates
  <2> QED BY <2>2, <2>3
<1>4. ASSUME NEW a \in Workers, AppendJournal(a) PROVE Known'
  <2>1. UNCHANGED <<active, history, result>>
    BY <1>4 DEF AppendJournal
  <2>2. ReplayedActive' = result[a] /\ result[a] # None
    BY <1>4, AppendStage
  <2>3. Candidates' = Candidates
    BY <2>1 DEF Candidates
  <2> QED BY <1>0, <2>1, <2>2, <2>3 DEF Known, Candidates
<1>5. ASSUME NEW a \in Workers, ReturnRecord(a) PROVE Known'
  <2>1. pc[a] = "write" /\ plan[a] = <<>> /\ taking[a] = None /\ reported' = result[a]
        /\ UNCHANGED <<active, journal>>
    BY <1>5 DEF ReturnRecord
  <2>2. result[a] # None
    BY <1>0, <2>1 DEF PlanFits, RecordPlan, Performing
  <2>3. ~Left(a, "active") /\ ~Left(a, "journal")
    BY <2>1 DEF Left
  <2>4. active = result[a] /\ ReplayedActive = result[a]
    BY <1>0, <2>1, <2>3 DEF Stage, Performing
  <2>5. ReplayedActive' = ReplayedActive
    BY <2>1 DEF ReplayedActive
  <2> QED BY <2>1, <2>2, <2>4, <2>5 DEF Known, Candidates
<1>6. ASSUME NEW a \in Workers, Crash(a) PROVE Known'
  BY <1>0, <1>6, KnownKept DEF Crash, LocalTypes
<1>7. CASE Tick \/ LoseActive \/ UNCHANGED vars
  BY <1>0, <1>7, KnownKept DEF Tick, LoseActive, vars
<1> QED BY <1>2, <1>3, <1>4, <1>5, <1>6, <1>7 DEF Next, Step

\* One mutation or replay at a time, beside any acquisitions and recover() calls
\* that find an active record: a crash, a failed os.replace or the removal of .tmp files
\* undoes no mutation that returned.
THEOREM ReportedIsKept ==
  ASSUME RecordsAlone
  PROVE  Spec => []ReportedSurvives
<1>1. StoreInv /\ ReportInv /\ [Next]_vars => ReportInv'
  BY AloneStep, StageStep, KnownStep DEF ReportInv
<1>2. StoreInv /\ ReportInv => ReportedSurvives
  <2> SUFFICES ASSUME StoreInv, ReportInv, Quiet, reported # None
               PROVE  /\ active \in {None, reported} \cup attempted
                      /\ ReplayedActive \in {reported} \cup attempted
    BY DEF ReportedSurvives
  <2>1. \A w \in Workers : result[w] = None
    BY DEF Quiet, StoreInv, PlanFits, Performing
  <2>2. Candidates \subseteq {None, reported} \cup attempted
    BY <2>1 DEF Candidates
  <2> QED BY <2>2 DEF ReportInv, Known
<1> QED BY StoreInvInit, StoreInvStep, ReportInvInit, <1>1, <1>2, PTL DEF Spec
=============================================================================
