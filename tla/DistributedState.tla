-------------------------- MODULE DistributedState --------------------------
(***************************************************************************)
(* The shared-runtime state store of distributed_state.py: a lease lock    *)
(* with fencing tokens, the active and previous records, and the journal   *)
(* from which recover() rebuilds them.                                     *)
(*                                                                         *)
(* Every method reads some files, decides, and then performs a fixed list  *)
(* of writes.  A write is two steps (_write_json_atomic: fill <name>.tmp,  *)
(* os.replace); a worker may crash between any two steps.  Nothing in the  *)
(* store keeps two workers from running their methods at the same time:    *)
(* Overlapping names the methods a run lets start beside another's.        *)
(***************************************************************************)
EXTENDS Naturals, Sequences

CONSTANTS
  Workers,      \* owner ids
  States,       \* the deployment states that may be applied
  None,
  Overlapping,  \* the methods that may start while another worker runs one
  Ttl,          \* ttl_seconds, in ticks of the clock
  MaxTime, MaxToken, MaxRevision, MaxJournal, MaxCrashes   \* bounds

\* recover() only checks when active.json is there, and replays otherwise.
Methods == {"acquire", "apply", "rollback", "check", "replay"}

ASSUME DistributedAssumption ==
  /\ None \notin Workers \cup States
  /\ Overlapping \subseteq Methods
  /\ Ttl \in Nat \ {0}
  /\ {MaxTime, MaxToken, MaxRevision, MaxJournal, MaxCrashes} \subseteq Nat

VARIABLES
  now,        \* the callers' clock
  counter,    \* lock-counter.json; 0: no such file
  lock,       \* lock.json
  active,     \* active.json
  previous,   \* previous.json
  journal,    \* journal.jsonl
  tmp,        \* <name>.tmp of each file
  pc,         \* where each worker is in its method
  plan,       \* the writes the method still has to do
  taking,     \* the lease acquire_lock will return; token 0 until it has one
  result,     \* the record a mutation or recover() will report active
  mine,       \* the lock the worker was given
  known,      \* the active record as its last method reported it
  crashes,
  reported,   \* history: the active record of the last mutation that returned
  attempted   \* history: records of mutations that crashed or failed since

files == <<counter, lock, active, previous, journal, tmp>>
local == <<pc, plan, taking, result, mine, known>>
history == <<reported, attempted>>
vars == <<now, files, local, crashes, history>>

Records == [rev : 1..MaxRevision, state : States]
Leases  == [owner : Workers, token : 0..MaxToken, expires : 0..MaxTime + Ttl]
Entries == [action : {"apply", "rollback"}, active : Records, previous : Records \cup {None}]
FileNames == {"counter", "lock", "active", "previous"}

\* None stands for a file that is not there, and is no document.
ASSUME NoneAssumption == None \notin Leases \cup Records

TypeOK ==
  /\ now \in 0..MaxTime
  /\ counter \in 0..MaxToken
  /\ lock \in Leases \cup {None}
  /\ active \in Records \cup {None} /\ previous \in Records \cup {None}
  /\ \A i \in DOMAIN journal : journal[i] \in Entries
  /\ Len(journal) <= MaxJournal
  /\ DOMAIN tmp = FileNames
  /\ tmp["counter"] \in 1..MaxToken \cup {None} /\ tmp["lock"] \in Leases \cup {None}
  /\ tmp["active"] \in Records \cup {None} /\ tmp["previous"] \in Records \cup {None}
  /\ pc \in [Workers -> {"idle"} \cup Methods \cup {"write", "publish"}]
  /\ DOMAIN plan = Workers /\ \A w \in Workers : Len(plan[w]) <= 3
  /\ taking \in [Workers -> Leases \cup {None}]
  /\ result \in [Workers -> Records \cup {None}]
  /\ mine \in [Workers -> Leases \cup {None}]
  /\ known \in [Workers -> Records \cup {None}]
  /\ crashes \in 0..MaxCrashes
  /\ reported \in Records \cup {None} /\ attempted \subseteq Records

Init ==
  /\ now = 0 /\ counter = 0 /\ lock = None /\ active = None /\ previous = None
  /\ journal = <<>> /\ tmp = [f \in FileNames |-> None]
  /\ pc = [w \in Workers |-> "idle"] /\ plan = [w \in Workers |-> <<>>]
  /\ taking = [w \in Workers |-> None]
  /\ result = [w \in Workers |-> None] /\ mine = [w \in Workers |-> None]
  /\ known = [w \in Workers |-> None] /\ crashes = 0
  /\ reported = None /\ attempted = {}

-----------------------------------------------------------------------------
Goto(w, label) == pc' = [pc EXCEPT ![w] = label]
Write(file, value) == [file |-> file, value |-> value]

MayStart(w, method) ==
  /\ pc[w] = "idle"
  /\ method \notin Overlapping =>
       \A v \in Workers : pc[v] \in {"idle"} \cup Overlapping

\* The method does these writes and returns r.
Commit(w, writes, r) ==
  /\ plan' = [plan EXCEPT ![w] = writes]
  /\ result' = [result EXCEPT ![w] = r]
  /\ Goto(w, "write")
  /\ UNCHANGED taking

\* The method raises: nothing was written (a denial is audited only).
Refuse(w) == Goto(w, "idle") /\ UNCHANGED <<plan, result, taking>>

\* acquire_lock refuses while an unexpired lease is on file.
LeaseFreeEarly == lock # None => lock.expires <= now + 1
LeaseFree == lock # None => lock.expires <= now

\* _require_matching_lock compares owner and token; expiry is not looked at.
LeaseNotChecked(w) == mine[w] # None
HoldsLease(w) ==
  /\ mine[w] # None /\ lock # None
  /\ lock.owner = w /\ lock.token = mine[w].token

AcquireLock(w) ==
  /\ MayStart(w, "acquire") /\ LeaseFree /\ counter < MaxToken
  /\ taking' = [taking EXCEPT ![w] = [owner |-> w, token |-> 0, expires |-> now + Ttl]]
  /\ Goto(w, "acquire")
  /\ UNCHANGED <<now, files, plan, result, mine, known, crashes, history>>

\* _next_lock_token
TokenReused == IF counter = 0 THEN 1 ELSE counter
NextToken == counter + 1

TakeToken(w) ==
  LET lease == [taking[w] EXCEPT !.token = NextToken] IN
  /\ pc[w] = "acquire" /\ counter < MaxToken
  /\ taking' = [taking EXCEPT ![w] = lease]
  /\ plan' = [plan EXCEPT ![w] = <<Write("counter", NextToken), Write("lock", lease)>>]
  /\ Goto(w, "write")
  /\ UNCHANGED <<now, files, result, mine, known, crashes, history>>

Rev(record) == IF record = None THEN 0 ELSE record.rev

\* _next_revision: one more than the active one, or than any in the journal.
JournalRevs ==
  {journal[i].active.rev : i \in DOMAIN journal} \cup
  {journal[i].previous.rev : i \in {j \in DOMAIN journal :
                                      /\ journal[j].action = "rollback"
                                      /\ journal[j].previous # None}}
RevisionOfActive == Rev(active)
NextRevision ==
  IF active # None THEN active.rev + 1
  ELSE CHOOSE r \in 1..MaxRevision + 1 :
         (r = 1 \/ r - 1 \in JournalRevs) /\ \A q \in JournalRevs : q < r

\* apply_state, rollback: the lock first ...
StartMutation(w, method) ==
  /\ MayStart(w, method) /\ HoldsLease(w)
  /\ method \in {"apply", "rollback"} /\ Len(journal) < MaxJournal
  /\ method = "apply" => Rev(active) < MaxRevision /\ \A r \in JournalRevs : r < MaxRevision
  /\ Goto(w, method)
  /\ UNCHANGED <<now, files, plan, taking, result, mine, known, crashes, history>>

\* ... then the active record.  The caller passes the revision it knows of.
ApplyState(w, s) ==
  LET record == [rev |-> NextRevision, state |-> s]
      entry  == [action |-> "apply", active |-> record, previous |-> active]
  IN
  /\ pc[w] = "apply"
  /\ \/ /\ Rev(active) = Rev(known[w]) /\ NextRevision <= MaxRevision
        /\ Commit(w, (IF active # None THEN <<Write("previous", active)>> ELSE <<>>)
                     \o <<Write("active", record), Write("journal", entry)>>, record)
     \/ /\ Rev(active) # Rev(known[w])
        /\ Refuse(w)
  /\ UNCHANGED <<now, files, mine, known, crashes, history>>

Rollback(w) ==
  LET entry == [action |-> "rollback", active |-> previous, previous |-> active] IN
  /\ pc[w] = "rollback"
  /\ \/ /\ active # None /\ previous # None
        /\ Commit(w, <<Write("active", previous), Write("previous", active),
                       Write("journal", entry)>>, previous)
     \/ /\ active = None \/ previous = None
        /\ Refuse(w)
  /\ UNCHANGED <<now, files, mine, known, crashes, history>>

\* recover: partial files go first, whoever is writing them.
StartRecover(w) ==
  /\ \E method \in {"check", "replay"} :
       /\ (method = "check") = (active # None)
       /\ MayStart(w, method)
       /\ Goto(w, method)
  /\ tmp' = [f \in FileNames |-> None]
  /\ UNCHANGED <<now, counter, lock, active, previous, journal, plan, taking,
                 result, mine, known, crashes, history>>

\* _replay_journal: the last entry names the active record; the previous one
\* is what was active before it, or what a rollback set aside.
ReplayedActiveFirst == IF journal = <<>> THEN None ELSE journal[1].active
ReplayedActive == IF journal = <<>> THEN None ELSE journal[Len(journal)].active
ReplayedPrevious ==
  LET n == Len(journal) IN
  IF n = 0 THEN None
  ELSE IF journal[n].action = "rollback" THEN journal[n].previous
  ELSE IF n = 1 THEN None ELSE journal[n - 1].active

\* Lines 179-199: nothing to do while active.json is there.
Recover(w) ==
  /\ pc[w] \in {"check", "replay"}
  /\ \/ /\ active = None /\ journal # <<>>
        /\ Commit(w, <<Write("active", ReplayedActive)>> \o
                     (IF ReplayedPrevious = None THEN <<>>
                      ELSE <<Write("previous", ReplayedPrevious)>>), ReplayedActive)
     \/ /\ active # None \/ journal = <<>>
        /\ Refuse(w)
  /\ UNCHANGED <<now, files, mine, known, crashes, history>>

-----------------------------------------------------------------------------
(* The writes.                                                             *)

Todo(w) == Head(plan[w])

\* _write_json_atomic, first half
FillTmp(w) ==
  /\ pc[w] = "write" /\ plan[w] # <<>> /\ Todo(w).file # "journal"
  /\ tmp' = [tmp EXCEPT ![Todo(w).file] = Todo(w).value]
  /\ Goto(w, "publish")
  /\ UNCHANGED <<now, counter, lock, active, previous, journal, plan, taking,
                 result, mine, known, crashes, history>>

\* os.replace publishes whatever the .tmp file holds by now; without one it
\* raises.
Publish(w) ==
  LET f == Todo(w).file  v == tmp[Todo(w).file] IN
  /\ pc[w] = "publish"
  /\ \/ /\ v # None
        /\ counter' = IF f = "counter" THEN v ELSE counter
        /\ lock' = IF f = "lock" THEN v ELSE lock
        /\ active' = IF f = "active" THEN v ELSE active
        /\ previous' = IF f = "previous" THEN v ELSE previous
        /\ tmp' = [tmp EXCEPT ![f] = None]
        /\ plan' = [plan EXCEPT ![w] = Tail(@)]
        /\ Goto(w, "write")
        /\ UNCHANGED <<taking, result, attempted>>
     \/ /\ v = None
        /\ plan' = [plan EXCEPT ![w] = <<>>]
        /\ taking' = [taking EXCEPT ![w] = None]
        /\ result' = [result EXCEPT ![w] = None]
        /\ attempted' = attempted \cup ({result[w]} \ {None})
        /\ Goto(w, "idle")
        /\ UNCHANGED <<counter, lock, active, previous, tmp>>
  /\ UNCHANGED <<now, journal, mine, known, crashes, reported>>

AppendJournal(w) ==
  /\ pc[w] = "write" /\ plan[w] # <<>> /\ Todo(w).file = "journal"
  /\ journal' = Append(journal, Todo(w).value)
  /\ plan' = [plan EXCEPT ![w] = Tail(@)]
  /\ UNCHANGED <<now, counter, lock, active, previous, tmp, pc, taking, result,
                 mine, known, crashes, history>>

\* The method returns: a lease to its owner, or the record now active.
ReturnLease(w) ==
  /\ pc[w] = "write" /\ plan[w] = <<>> /\ taking[w] # None
  /\ mine' = [mine EXCEPT ![w] = taking[w]]
  /\ taking' = [taking EXCEPT ![w] = None]
  /\ Goto(w, "idle")
  /\ UNCHANGED <<now, files, plan, result, known, crashes, history>>

ReturnRecord(w) ==
  /\ pc[w] = "write" /\ plan[w] = <<>> /\ taking[w] = None
  /\ known' = [known EXCEPT ![w] = result[w]]
  /\ reported' = result[w] /\ attempted' = {}
  /\ result' = [result EXCEPT ![w] = None]
  /\ Goto(w, "idle")
  /\ UNCHANGED <<now, files, plan, taking, mine, crashes>>

Crash(w) ==
  /\ pc[w] # "idle" /\ crashes < MaxCrashes
  /\ crashes' = crashes + 1
  /\ attempted' = attempted \cup ({result[w]} \ {None})
  /\ Goto(w, "idle")
  /\ plan' = [plan EXCEPT ![w] = <<>>]
  /\ taking' = [taking EXCEPT ![w] = None]
  /\ result' = [result EXCEPT ![w] = None]
  /\ mine' = [mine EXCEPT ![w] = None]
  /\ known' = [known EXCEPT ![w] = None]
  /\ UNCHANGED <<now, files, reported>>

-----------------------------------------------------------------------------
Tick == now < MaxTime /\ now' = now + 1 /\ UNCHANGED <<files, local, crashes, history>>

\* active.json is removed or lost while no worker runs; MaxCrashes bounds the
\* losses too.
LoseActive ==
  /\ active # None /\ crashes < MaxCrashes /\ \A w \in Workers : pc[w] = "idle"
  /\ active' = None /\ crashes' = crashes + 1
  /\ UNCHANGED <<now, counter, lock, previous, journal, tmp, local, history>>

Mutate(w) ==
  \/ \E m \in {"apply", "rollback"} : StartMutation(w, m)
  \/ \E s \in States : ApplyState(w, s)
  \/ Rollback(w)
Step(w) ==
  \/ AcquireLock(w) \/ TakeToken(w) \/ Mutate(w) \/ StartRecover(w) \/ Recover(w)
  \/ FillTmp(w) \/ Publish(w) \/ AppendJournal(w) \/ ReturnLease(w) \/ ReturnRecord(w)

Next == (\E w \in Workers : Step(w) \/ Crash(w)) \/ Tick \/ LoseActive
Spec == Init /\ [][Next]_vars

-----------------------------------------------------------------------------
(* Properties.                                                             *)

Quiet == \A w \in Workers : pc[w] = "idle"

\* A mutation that returned is not undone by a crash, nor by a recover() that
\* removes the .tmp files of a later mutation: what is active, and what
\* recover() would make active if active.json were lost, is the record of the
\* last mutation that returned or of one that crashed or failed after it.
ReportedSurvives ==
  Quiet /\ reported # None =>
    /\ active \in {None, reported} \cup attempted
    /\ ReplayedActive \in {reported} \cup attempted

\* The lease on file is replaced only after it expired and only by one with a
\* larger token, also when the owner of the larger token crashed before it
\* wrote its lease.
LeasesAdvance ==
  [][lock' # lock =>
       lock = None \/ (lock.expires <= now /\ lock'.token > lock.token)]_vars

\* A worker that publishes an active record owns the lease on file while it
\* does: nobody overwrites the state of a later lease.
MutationsFenced ==
  [][\A w \in Workers :
       /\ pc[w] = "publish" /\ pc'[w] = "write" /\ Todo(w).file = "active"
       /\ Len(plan[w]) > 1 /\ plan[w][Len(plan[w])].file = "journal"
       => lock.owner = w /\ lock.token = mine[w].token]_vars

\* A new lease is not returned to one worker while another's is unexpired.
OneUnexpiredLease ==
  \A v, w \in Workers :
    v # w /\ mine[v] # None /\ mine[w] # None =>
      mine[v].expires <= now \/ mine[w].expires <= now
=============================================================================
