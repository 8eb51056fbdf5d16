----------------------- MODULE DaemonLifecycleProofs -----------------------
(***************************************************************************)
(* For every number of daemons, upstreams and connections: only the holder *)
(* of the lock can be reached over the socket path, nothing but a late     *)
(* reaper takes the path from a daemon that serves, only servers write the *)
(* status, no living group is forgotten and no lock is kept for ever.      *)
(***************************************************************************)
EXTENDS DaemonLifecycle, TLAPS

\* The types of what the argument speaks of.
Types ==
  /\ life \in [Processes -> {"unborn", "live", "dead"}]
  /\ lock \in Daemons \cup {None} /\ sock \in Daemons \cup {None}
  /\ pidFile \in Upstreams \cup {None}
  /\ main \in [Daemons -> {"off", "lock", "bind", "record", "wait", "clean", "over"}]
  /\ serve \in [Daemons -> {"off", "loop", "accept", "clean", "over"}]
  /\ client \in [Daemons -> Upstreams \cup {None}]
  /\ cleaner \in [Daemons -> {"none", "main", "serve"}]
  /\ step \in [Daemons -> {"shut", "unlink", "release", "tell", "done"}]
  /\ reaper.at = "kill" => reaper.of \in Upstreams

\* Between its start and the release of the lock a daemon has the lock.
Busy(d) == main[d] \in {"bind", "record", "wait", "clean"} \/ serve[d] \in {"loop", "accept", "clean"}
HasLock(d) == Busy(d) /\ step[d] \in {"shut", "unlink", "release"} => lock = d

\* Before the serve loop runs nothing of the cleanup has happened; the thread
\* inside the cleanup has reached it, and the path is gone before the lock.
Ordered(d) ==
  /\ main[d] \in {"off", "lock", "bind", "record"} =>
       serve[d] = "off" /\ cleaner[d] = "none" /\ step[d] = "shut"
  /\ cleaner[d] # "none" => At(d, cleaner[d]) = "clean" /\ step[d] \in {"unlink", "release", "tell"}
  /\ step[d] = "release" => sock # d
  /\ life[d] = "unborn" => main[d] = "off"
  /\ main[d] \in {"off", "lock", "bind"} => sock # d

LockInv ==
  /\ Types
  /\ \A d \in Daemons : HasLock(d) /\ Ordered(d)
  /\ sock # None /\ life[sock] = "live" => lock = sock

USE DaemonAssumption DEF osVars, fileVars, socketVars, registry, cleanVars, Processes, At

LEMMA MainStep ==
  ASSUME LockInv, NEW d \in Daemons,
         Launch(d) \/ AcquireLock(d) \/ Bind(d) \/ Announce(d) \/ JoinMain(d)
  PROVE  LockInv'
<1> USE DEF LockInv, Types, HasLock, Busy, Ordered
<1>1. CASE Launch(d)       BY <1>1 DEF Launch
<1>2. CASE AcquireLock(d)  BY <1>2 DEF AcquireLock, LockFree
<1>3. CASE Bind(d)
  <2>1. CASE sock' = d /\ main' = [main EXCEPT ![d] = "record"] /\ UNCHANGED lock
    BY <1>3, <2>1 DEF Bind
  <2>2. CASE lock' = None /\ main' = [main EXCEPT ![d] = "over"] /\ UNCHANGED sock
    BY <1>3, <2>2 DEF Bind
  <2> QED BY <1>3, <2>1, <2>2 DEF Bind
<1>4. CASE Announce(d)     BY <1>4 DEF Announce
<1>5. CASE JoinMain(d)     BY <1>5 DEF JoinMain
<1> QED BY <1>1, <1>2, <1>3, <1>4, <1>5

LEMMA ServeStep ==
  ASSUME LockInv, NEW d \in Daemons, LoopTest(d) \/ (\E c \in Conns : Accept(d, c))
  PROVE  LockInv'
<1> USE DEF LockInv, Types, HasLock, Busy, Ordered
<1>1. CASE LoopTest(d)     BY <1>1 DEF LoopTest, AfterLoop
<1>2. ASSUME NEW c \in Conns, Accept(d, c) PROVE LockInv'
  BY <1>2 DEF Accept
<1> QED BY <1>1, <1>2

LEMMA CleanupStep ==
  ASSUME LockInv, NEW d \in Daemons,
         Cleanup(d) \/ (\E t \in {"main", "serve"} : CleanUpstreams(d, t) \/ SkipCleanup(d, t))
  PROVE  LockInv'
<1> USE DEF LockInv, Types, HasLock, Busy, Ordered, Did, StepAfter, ThreadOver
<1>1. CASE CleanSocket(d)  BY <1>1 DEF CleanSocket
<1>2. CASE ReleaseLock(d)  BY <1>2 DEF ReleaseLock
<1>3. CASE TellStopped(d)  BY <1>3 DEF TellStopped
<1>4. ASSUME NEW t \in {"main", "serve"}, SkipCleanup(d, t) PROVE LockInv'
  BY <1>4 DEF SkipCleanup
<1>5. ASSUME NEW t \in {"main", "serve"}, CleanUpstreams(d, t) PROVE LockInv'
  <2>1. CASE ShutdownUpstreams(d) /\ Did(d) /\ cleaner' = [cleaner EXCEPT ![d] = t]
               /\ UNCHANGED <<main, serve>>
    BY <1>5, <2>1 DEF CleanUpstreams, ShutdownUpstreams, StopsProcess
  <2>2. CASE ShutdownRaises(d) /\ ThreadOver(d, t) /\ UNCHANGED <<cleaner, step>>
    BY <1>5, <2>2 DEF CleanUpstreams, ShutdownRaises
  <2> QED BY <1>5, <2>1, <2>2 DEF CleanUpstreams
<1> QED BY <1>1, <1>2, <1>3, <1>4, <1>5 DEF Cleanup

LEMMA ConnectionStep ==
  ASSUME LockInv, NEW d \in Daemons, NEW c \in Conns, ServeConnection(d, c)
  PROVE  LockInv'
<1> USE DEF LockInv, Types, HasLock, Busy, Ordered
<1>1. CASE HandleCall(d, c)
  <2>1. CASE UNCHANGED <<osVars, pidFile, client, lost>>
    BY <1>1, <2>1 DEF HandleCall
  <2>2. ASSUME NEW u \in Upstreams, life[u] = "unborn",
               life' = [life EXCEPT ![u] = "live"], client' = [client EXCEPT ![d] = u],
               pidFile' = u
        PROVE  LockInv'
    BY <1>1, <2>2 DEF HandleCall
  <2> QED BY <1>1, <2>1, <2>2 DEF HandleCall, RecordProcess
<1>2. CASE RequestStop(d, c) BY <1>2 DEF RequestStop
<1>3. CASE HandleStop(d, c)
  <2>1. CASE ShutdownUpstreams(d)
    BY <1>3, <2>1 DEF HandleStop, ShutdownUpstreams, StopsProcess
  <2>2. CASE ShutdownRaises(d)
    BY <1>3, <2>2 DEF HandleStop, ShutdownRaises
  <2> QED BY <1>3, <2>1, <2>2 DEF HandleStop
<1>4. CASE LogWake(d, c)     BY <1>4 DEF LogWake
<1>5. CASE WakeServer(d, c)  BY <1>5 DEF WakeServer
<1> QED BY <1>1, <1>2, <1>3, <1>4, <1>5 DEF ServeConnection

LEMMA ReaperStep ==
  ASSUME LockInv, Reap
  PROVE  LockInv'
<1> USE DEF LockInv, Types, HasLock, Busy, Ordered
<1>1. CASE JudgeUpstream
  BY <1>1 DEF JudgeUpstream, Resting
<1>2. CASE KillGroup     BY <1>2 DEF KillGroup
<1>3. CASE DropRecord    BY <1>3 DEF DropRecord, Resting
<1>4. CASE JudgeSocket   BY <1>4 DEF JudgeSocket
<1>5. CASE UnlinkSocket  BY <1>5 DEF UnlinkSocket
<1>6. CASE UnlinkRecord  BY <1>6 DEF UnlinkRecord, Resting
<1>7. CASE ReaperDies    BY <1>7 DEF ReaperDies, Resting
<1> QED BY <1>1, <1>2, <1>3, <1>4, <1>5, <1>6, <1>7 DEF Reap

LEMMA EnvironmentStep ==
  ASSUME LockInv, Environment
  PROVE  LockInv'
<1> USE DEF LockInv, Types, HasLock, Busy, Ordered
<1>1. ASSUME NEW d \in Daemons, Launch(d) PROVE LockInv'
  BY <1>1, MainStep
<1>2. ASSUME NEW d \in Daemons, Connect(d) PROVE LockInv'
  BY <1>2 DEF Connect
<1>3. ASSUME NEW d \in Daemons, life[d] = "live", Vanish(d) PROVE LockInv'
  <2>1. /\ life' = [life EXCEPT ![d] = "dead"]
        /\ lock' = IF lock = d THEN None ELSE lock
        /\ main' = [main EXCEPT ![d] = "over"] /\ serve' = [serve EXCEPT ![d] = "over"]
        /\ cleaner' = [cleaner EXCEPT ![d] = "none"] /\ step' = [step EXCEPT ![d] = "done"]
        /\ client' = [client EXCEPT ![d] = None]
        /\ UNCHANGED <<sock, pidFile, reaper>>
    BY <1>3 DEF Vanish
  <2>2. Types'
    BY <2>1
  <2>3. \A e \in Daemons : (HasLock(e) /\ Ordered(e))'
    BY <2>1
  <2>4. (sock # None /\ life[sock] = "live" => lock = sock)'
    BY <2>1
  <2> QED BY <2>2, <2>3, <2>4
<1>4. ASSUME NEW u \in Upstreams, UpstreamExits(u) PROVE LockInv'
  BY <1>4 DEF UpstreamExits
<1>5. ASSUME NEW u \in Upstreams, ChildrenExit(u) PROVE LockInv'
  BY <1>5 DEF ChildrenExit
<1> QED BY <1>1, <1>2, <1>3, <1>4, <1>5 DEF Environment, Crash, Exit

LEMMA LockInvInit == Init => LockInv
  BY DEF Init, LockInv, Types, HasLock, Busy, Ordered, Resting

LEMMA LockInvStep == LockInv /\ [Next]_vars => LockInv'
<1> SUFFICES ASSUME LockInv, [Next]_vars PROVE LockInv'
  OBVIOUS
<1>1. ASSUME NEW d \in Daemons, MainThread(d) PROVE LockInv'
  BY <1>1, MainStep, CleanupStep DEF MainThread
<1>2. ASSUME NEW d \in Daemons, ServeThread(d) PROVE LockInv'
  BY <1>2, ServeStep, CleanupStep DEF ServeThread
<1>3. ASSUME NEW d \in Daemons, Cleanup(d) PROVE LockInv'
  BY <1>3, CleanupStep
<1>4. ASSUME NEW d \in Daemons, NEW c \in Conns, ServeConnection(d, c) PROVE LockInv'
  BY <1>4, ConnectionStep
<1>5. CASE Reap         BY <1>5, ReaperStep
<1>6. CASE Environment  BY <1>6, EnvironmentStep
<1>7. CASE UNCHANGED vars
  BY <1>7 DEF vars, LockInv, Types, HasLock, Busy, Ordered
<1> QED BY <1>1, <1>2, <1>3, <1>4, <1>5, <1>6, <1>7 DEF Next

\* The daemon that can be reached over the socket path holds the lock, whatever
\* daemons start, stop, crash and are reaped around it (start, _cleanup).
THEOREM ReachableIsLocked == Spec => []ReachableHoldsLock
<1>1. LockInv => ReachableHoldsLock
  BY DEF LockInv, ReachableHoldsLock, Listening
<1> QED BY LockInvInit, LockInvStep, <1>1, PTL DEF Spec

------------------------------------------------------------------------------
(* Who releases the lock, and who writes the socket's files and the status. *)

MoreTypes ==
  /\ kids \in [Upstreams -> BOOLEAN]
  /\ {lock, sock, sockMeta} \subseteq Daemons \cup {None}
  /\ conn \in [Daemons -> [Conns -> RequestKinds \cup {"none", "wake", "shut", "nudge"}]]
  /\ backlog \in [Daemons -> SUBSET (RequestKinds \cup {"wake"})]
  /\ open \in [Daemons -> BOOLEAN] /\ stopping \in [Daemons -> BOOLEAN]
  /\ closed \in [Daemons -> BOOLEAN]

\* A daemon with a thread that runs, or with the lock, lives; before its serve loop
\* runs it has no connections, and what has a socket record has lived.
Alive(d) ==
  /\ main[d] \notin {"off", "over"} \/ serve[d] \notin {"off", "over"} => life[d] = "live"
  /\ lock = d => life[d] = "live"
  /\ serve[d] = "off" => \A c \in Conns : conn[d][c] = "none"
  /\ main[d] \in {"wait", "clean"} => serve[d] # "off"
  /\ life[d] = "unborn" => sockMeta # d

\* A stop() that raises empties the registry, so of the two threads only one can
\* fail in the cleanup; the other is still to come.
OneRaises(d) ==
  /\ closed[d] => client[d] = None
  /\ step[d] = "shut" /\ serve[d] # "off" /\ main[d] = "over" =>
       closed[d] /\ stopping[d] /\ serve[d] \in {"loop", "accept", "clean"}
  /\ step[d] = "shut" /\ serve[d] = "over" => closed[d] /\ main[d] \in {"wait", "clean"}
  /\ step[d] \in {"unlink", "release", "tell"} => cleaner[d] # "none"
  /\ step[d] \in {"tell", "done"} => lock # d
  /\ main[d] \in {"off", "lock"} \/ (main[d] = "over" /\ serve[d] = "off") => lock # d

\* The request to stop stays with its connection until the registry is closed; a
\* main thread that failed leaves behind a serve loop that something will wake.
StopIsCarried(d) ==
  /\ main[d] = "clean" => stopping[d]
  /\ stopping[d] /\ ~closed[d] => \E c \in Conns : conn[d][c] = "shut"
  /\ main[d] \in {"record", "wait"} /\ ~stopping[d] =>
       open[d] /\ step[d] = "shut" /\ serve[d] \in {"off", "loop", "accept"}
  /\ lock = d /\ sock = d /\ main[d] = "over" /\ serve[d] = "accept" =>
       backlog[d] # {} \/ \E c \in Conns : conn[d][c] \in {"shut", "nudge"}

\* The reaper removes what belongs to the dead, and after a kill nothing lives.
ReaperKnows ==
  /\ reaper.at \in {"unlink", "forget"} => reaper.of \in Daemons /\ life[reaper.of] = "dead"
  /\ reaper.at = "drop" /\ reaper.verdict = "kill" =>
       reaper.of \in Upstreams /\ life[reaper.of] = "dead" /\ ~kids[reaper.of]
  /\ reaper.at = "kill" => reaper.verdict = "kill" 

ThreadInv == \A d \in Daemons : Alive(d) /\ OneRaises(d) /\ StopIsCarried(d)

\* A process that was never started has no group and no record.
RecordInv ==
  /\ ReaperKnows
  /\ \A u \in Upstreams : life[u] = "unborn" => ~kids[u] /\ pidFile # u
  /\ OrphansAreRecorded

ReleaseInv == LockInv /\ MoreTypes /\ ThreadInv /\ RecordInv

LEMMA ReleaseInvInit == Init => ReleaseInv
  BY LockInvInit DEF Init, ReleaseInv, MoreTypes, ThreadInv, RecordInv, Alive, OneRaises,
     StopIsCarried, ReaperKnows, OrphansAreRecorded, GroupAlive, Resting

\* A step leaves the threads of e alone and gives e neither lock nor path.
Untouched(e) ==
  /\ life'[e] = life[e] /\ main'[e] = main[e] /\ serve'[e] = serve[e] /\ conn'[e] = conn[e]
  /\ backlog[e] \subseteq backlog'[e] /\ open'[e] = open[e] /\ stopping'[e] = stopping[e]
  /\ client'[e] = client[e] /\ closed'[e] = closed[e] /\ cleaner'[e] = cleaner[e]
  /\ step'[e] = step[e]
  /\ lock' = e => lock = e
  /\ sock' = e => sock = e
  /\ sockMeta' = e => sockMeta = e

Threads(d) == Alive(d) /\ OneRaises(d) /\ StopIsCarried(d)

LEMMA UntouchedKeeps ==
  ASSUME NEW e \in Daemons, Threads(e), Untouched(e)
  PROVE  Threads(e)'
<1> USE DEF Threads, Untouched
<1>1. Alive(e)'          BY DEF Alive
<1>2. OneRaises(e)'      BY DEF OneRaises
<1>3. StopIsCarried(e)'
  <2>1. /\ (main[e] = "clean" => stopping[e])'
        /\ (stopping[e] /\ ~closed[e] => \E c \in Conns : conn[e][c] = "shut")'
        /\ (main[e] \in {"record", "wait"} /\ ~stopping[e] =>
              open[e] /\ step[e] = "shut" /\ serve[e] \in {"off", "loop", "accept"})'
    BY DEF StopIsCarried
  <2>2. (lock = e /\ sock = e /\ main[e] = "over" /\ serve[e] = "accept" =>
           backlog[e] # {} \/ \E c \in Conns : conn[e][c] \in {"shut", "nudge"})'
    BY DEF StopIsCarried
  <2> QED BY <2>1, <2>2 DEF StopIsCarried
<1> QED BY <1>1, <1>2, <1>3

\* A step that one daemon takes needs a look at the threads of this one only.
LEMMA OneDaemonSteps ==
  ASSUME ThreadInv, NEW d \in Daemons, Threads(d)',
         \A e \in Daemons \ {d} : Untouched(e)
  PROVE  ThreadInv'
  BY UntouchedKeeps DEF ThreadInv, Threads

LEMMA NobodySteps ==
  ASSUME ThreadInv, \A e \in Daemons : Untouched(e)
  PROVE  ThreadInv'
  BY UntouchedKeeps DEF ThreadInv, Threads

LEMMA MainThreads ==
  ASSUME LockInv, MoreTypes, ThreadInv, NEW d \in Daemons,
         Launch(d) \/ AcquireLock(d) \/ Bind(d) \/ Announce(d) \/ JoinMain(d)
  PROVE  ThreadInv'
<1> USE DEF LockInv, Types, Ordered, MoreTypes
<1>0. Alive(d) /\ OneRaises(d) /\ StopIsCarried(d) /\ Ordered(d) /\ HasLock(d)
  BY DEF ThreadInv
<1>1. CASE Launch(d)
  <2>1. \A e \in Daemons \ {d} : Untouched(e)  BY <1>1 DEF Launch, Untouched
  <2>2. Alive(d)'          BY <1>0, <1>1 DEF Launch, Alive
  <2>3. OneRaises(d)'      BY <1>0, <1>1 DEF Launch, OneRaises
  <2>4. StopIsCarried(d)'  BY <1>0, <1>1 DEF Launch, StopIsCarried
  <2> QED BY <2>1, <2>2, <2>3, <2>4, OneDaemonSteps DEF Threads
<1>2. CASE AcquireLock(d)
  <2>1. \A e \in Daemons \ {d} : Untouched(e)  BY <1>2 DEF AcquireLock, LockFree, Untouched
  <2>2. Alive(d)'          BY <1>0, <1>2 DEF AcquireLock, LockFree, Alive
  <2>3. OneRaises(d)'      BY <1>0, <1>2 DEF AcquireLock, LockFree, OneRaises
  <2>4. StopIsCarried(d)'  BY <1>0, <1>2 DEF AcquireLock, LockFree, StopIsCarried
  <2> QED BY <2>1, <2>2, <2>3, <2>4, OneDaemonSteps DEF Threads
<1>3. CASE Bind(d)
  <2>1. \A e \in Daemons \ {d} : Untouched(e)  BY <1>3 DEF Bind, Untouched
  <2>2. Alive(d)'          BY <1>0, <1>3 DEF Bind, Alive
  <2>3. OneRaises(d)'      BY <1>0, <1>3 DEF Bind, OneRaises
  <2>4. StopIsCarried(d)'  BY <1>0, <1>3 DEF Bind, StopIsCarried
  <2> QED BY <2>1, <2>2, <2>3, <2>4, OneDaemonSteps DEF Threads
<1>4. CASE Announce(d)
  <2>1. \A e \in Daemons \ {d} : Untouched(e)  BY <1>4 DEF Announce, Untouched
  <2>2. Alive(d)'          BY <1>0, <1>4 DEF Announce, Alive
  <2>3. OneRaises(d)'      BY <1>0, <1>4 DEF Announce, OneRaises
  <2>4. StopIsCarried(d)'  BY <1>0, <1>4 DEF Announce, StopIsCarried
  <2> QED BY <2>1, <2>2, <2>3, <2>4, OneDaemonSteps DEF Threads
<1>5. CASE JoinMain(d)
  <2>1. \A e \in Daemons \ {d} : Untouched(e)  BY <1>5 DEF JoinMain, Untouched
  <2>2. Alive(d)'          BY <1>0, <1>5 DEF JoinMain, Alive
  <2>3. OneRaises(d)'      BY <1>0, <1>5 DEF JoinMain, OneRaises
  <2>4. StopIsCarried(d)'  BY <1>0, <1>5 DEF JoinMain, StopIsCarried
  <2> QED BY <2>1, <2>2, <2>3, <2>4, OneDaemonSteps DEF Threads
<1> QED BY <1>1, <1>2, <1>3, <1>4, <1>5

LEMMA LoopThreads ==
  ASSUME LockInv, MoreTypes, ThreadInv, NEW d \in Daemons,
         LoopTest(d) \/ (\E c \in Conns : Accept(d, c))
  PROVE  ThreadInv'
<1> USE DEF LockInv, Types, Ordered, MoreTypes
<1>0. Alive(d) /\ OneRaises(d) /\ StopIsCarried(d) /\ Ordered(d) /\ HasLock(d)
  BY DEF ThreadInv
<1>1. CASE LoopTest(d)
  <2>1. \A e \in Daemons \ {d} : Untouched(e)  BY <1>1 DEF LoopTest, AfterLoop, Untouched
  <2>2. Alive(d)'          BY <1>0, <1>1 DEF LoopTest, AfterLoop, Alive
  <2>3. OneRaises(d)'      BY <1>0, <1>1 DEF LoopTest, AfterLoop, OneRaises
  <2>4. StopIsCarried(d)'  BY <1>0, <1>1 DEF LoopTest, AfterLoop, StopIsCarried, OneRaises
  <2> QED BY <2>1, <2>2, <2>3, <2>4, OneDaemonSteps DEF Threads
<1>2. ASSUME NEW c \in Conns, Accept(d, c) PROVE ThreadInv'
  <2>1. \A e \in Daemons \ {d} : Untouched(e)  BY <1>2 DEF Accept, Untouched
  <2>2. Alive(d)'          BY <1>0, <1>2 DEF Accept, Alive
  <2>3. OneRaises(d)'      BY <1>0, <1>2 DEF Accept, OneRaises
  <2>4. StopIsCarried(d)'  BY <1>0, <1>2 DEF Accept, StopIsCarried
  <2> QED BY <2>1, <2>2, <2>3, <2>4, OneDaemonSteps DEF Threads
<1> QED BY <1>1, <1>2

LEMMA CleanupThreads ==
  ASSUME LockInv, MoreTypes, ThreadInv, NEW d \in Daemons,
         Cleanup(d) \/ (\E t \in {"main", "serve"} : CleanUpstreams(d, t) \/ SkipCleanup(d, t))
  PROVE  ThreadInv'
<1> USE DEF LockInv, Types, Ordered, MoreTypes
<1>0. Alive(d) /\ OneRaises(d) /\ StopIsCarried(d) /\ Ordered(d) /\ HasLock(d)
  BY DEF ThreadInv
<1>1. CASE CleanSocket(d)
  <2>1. \A e \in Daemons \ {d} : Untouched(e)  BY <1>1 DEF CleanSocket, Did, Untouched
  <2>2. Alive(d)'          BY <1>0, <1>1 DEF CleanSocket, Did, StepAfter, Alive
  <2>3. OneRaises(d)'      BY <1>0, <1>1 DEF CleanSocket, Did, StepAfter, OneRaises
  <2>4. StopIsCarried(d)'  BY <1>0, <1>1 DEF CleanSocket, Did, StepAfter, StopIsCarried
  <2> QED BY <2>1, <2>2, <2>3, <2>4, OneDaemonSteps DEF Threads
<1>2. CASE ReleaseLock(d)
  <2>1. \A e \in Daemons \ {d} : Untouched(e)  BY <1>2 DEF ReleaseLock, Did, Untouched
  <2>2. Alive(d)'          BY <1>0, <1>2 DEF ReleaseLock, Did, StepAfter, Alive
  <2>3. OneRaises(d)'      BY <1>0, <1>2 DEF ReleaseLock, Did, StepAfter, OneRaises
  <2>4. StopIsCarried(d)'  BY <1>0, <1>2 DEF ReleaseLock, Did, StepAfter, StopIsCarried
  <2> QED BY <2>1, <2>2, <2>3, <2>4, OneDaemonSteps DEF Threads
<1>3. CASE TellStopped(d)
  <2>1. \A e \in Daemons \ {d} : Untouched(e)
    BY <1>3 DEF TellStopped, Did, ThreadOver, Untouched
  <2>2. Alive(d)'
    BY <1>0, <1>3 DEF TellStopped, Did, StepAfter, ThreadOver, Alive
  <2>3. OneRaises(d)'
    BY <1>0, <1>3 DEF TellStopped, Did, StepAfter, ThreadOver, OneRaises
  <2>4. StopIsCarried(d)'
    BY <1>0, <1>3 DEF TellStopped, Did, StepAfter, ThreadOver, StopIsCarried, OneRaises
  <2> QED BY <2>1, <2>2, <2>3, <2>4, OneDaemonSteps DEF Threads
<1>4. ASSUME NEW t \in {"main", "serve"}, SkipCleanup(d, t) PROVE ThreadInv'
  <2>1. \A e \in Daemons \ {d} : Untouched(e)  BY <1>4 DEF SkipCleanup, ThreadOver, Untouched
  <2>2. Alive(d)'          BY <1>0, <1>4 DEF SkipCleanup, ThreadOver, Alive
  <2>3. OneRaises(d)'      BY <1>0, <1>4 DEF SkipCleanup, ThreadOver, OneRaises
  <2>4. StopIsCarried(d)'
    BY <1>0, <1>4 DEF SkipCleanup, ThreadOver, StopIsCarried, OneRaises
  <2> QED BY <2>1, <2>2, <2>3, <2>4, OneDaemonSteps DEF Threads
<1>5. ASSUME NEW t \in {"main", "serve"}, CleanUpstreams(d, t) PROVE ThreadInv'
  <2>1. CASE /\ ShutdownUpstreams(d) /\ open' = [open EXCEPT ![d] = FALSE] /\ Did(d)
             /\ cleaner' = [cleaner EXCEPT ![d] = t] /\ UNCHANGED <<main, serve>>
    <3>0. \A e \in Daemons : life'[e] = life[e]
      BY <2>1 DEF ShutdownUpstreams, StopsProcess
    <3>1. \A e \in Daemons \ {d} : Untouched(e)
      BY <1>5, <2>1, <3>0 DEF CleanUpstreams, ShutdownUpstreams, Did, Untouched
    <3>2. Alive(d)'
      BY <1>0, <1>5, <2>1, <3>0 DEF CleanUpstreams, Did, StepAfter, Alive
    <3>3. OneRaises(d)'
      BY <1>0, <1>5, <2>1 DEF CleanUpstreams, ShutdownUpstreams, Did, StepAfter, OneRaises
    <3>4. StopIsCarried(d)'
      BY <1>0, <1>5, <2>1 DEF CleanUpstreams, ShutdownUpstreams, Did, StepAfter, StopIsCarried
    <3> QED BY <3>1, <3>2, <3>3, <3>4, OneDaemonSteps DEF Threads
  <2>2. CASE ShutdownRaises(d) /\ ThreadOver(d, t) /\ UNCHANGED <<open, cleaner, step>>
    <3>1. \A e \in Daemons \ {d} : Untouched(e)
      BY <1>5, <2>2 DEF CleanUpstreams, ShutdownRaises, ThreadOver, Untouched
    <3>2. Alive(d)'
      BY <1>0, <1>5, <2>2 DEF CleanUpstreams, ShutdownRaises, ThreadOver, Alive
    <3>3. OneRaises(d)'
      BY <1>0, <1>5, <2>2
      DEF CleanUpstreams, ShutdownRaises, ThreadOver, OneRaises, StopIsCarried, Alive
    <3>4. StopIsCarried(d)'
      BY <1>0, <1>5, <2>2
      DEF CleanUpstreams, ShutdownRaises, ThreadOver, OneRaises, StopIsCarried
    <3> QED BY <3>1, <3>2, <3>3, <3>4, OneDaemonSteps DEF Threads
  <2> QED BY <1>5, <2>1, <2>2 DEF CleanUpstreams
<1> QED BY <1>1, <1>2, <1>3, <1>4, <1>5 DEF Cleanup

LEMMA ConnectionThreads ==
  ASSUME LockInv, MoreTypes, ThreadInv, NEW d \in Daemons, NEW c \in Conns,
         ServeConnection(d, c)
  PROVE  ThreadInv'
<1> USE DEF LockInv, Types, Ordered, MoreTypes
<1>0. Alive(d) /\ OneRaises(d) /\ StopIsCarried(d) /\ Ordered(d) /\ HasLock(d)
  BY DEF ThreadInv
<1>1. CASE HandleCall(d, c)
  <2>0. \A e \in Daemons : life'[e] = life[e]
    BY <1>1 DEF HandleCall
  <2>1. \A e \in Daemons \ {d} : client'[e] = client[e]
    BY <1>1 DEF HandleCall
  <2>2. closed[d] => client'[d] = client[d]
    BY <1>1 DEF HandleCall
  <2>3. \A e \in Daemons \ {d} : Untouched(e)
    BY <1>1, <2>0, <2>1 DEF HandleCall, Untouched
  <2>4. Alive(d)'          BY <1>0, <1>1, <2>0 DEF HandleCall, Alive
  <2>5. OneRaises(d)'      BY <1>0, <1>1, <2>2 DEF HandleCall, OneRaises
  <2>6. StopIsCarried(d)'  BY <1>0, <1>1 DEF HandleCall, StopIsCarried
  <2> QED BY <2>3, <2>4, <2>5, <2>6, OneDaemonSteps DEF Threads
<1>2. CASE RequestStop(d, c)
  <2>1. \A e \in Daemons \ {d} : Untouched(e)  BY <1>2 DEF RequestStop, Untouched
  <2>2. Alive(d)'          BY <1>0, <1>2 DEF RequestStop, Alive
  <2>3. OneRaises(d)'      BY <1>0, <1>2 DEF RequestStop, OneRaises
  <2>4. StopIsCarried(d)'  BY <1>0, <1>2 DEF RequestStop, StopIsCarried
  <2> QED BY <2>1, <2>2, <2>3, <2>4, OneDaemonSteps DEF Threads
<1>3. CASE HandleStop(d, c)
  <2>1. CASE ShutdownUpstreams(d) /\ conn' = [conn EXCEPT ![d][c] = "nudge"]
    <3>0. \A e \in Daemons : life'[e] = life[e]
      BY <2>1 DEF ShutdownUpstreams, StopsProcess
    <3>1. \A e \in Daemons \ {d} : Untouched(e)
      BY <1>3, <2>1, <3>0 DEF HandleStop, ShutdownUpstreams, Untouched
    <3>2. Alive(d)'          BY <1>0, <1>3, <2>1, <3>0 DEF HandleStop, Alive
    <3>3. OneRaises(d)'      BY <1>0, <1>3, <2>1 DEF HandleStop, ShutdownUpstreams, OneRaises
    <3>4. StopIsCarried(d)'
      BY <1>0, <1>3, <2>1 DEF HandleStop, ShutdownUpstreams, StopIsCarried
    <3> QED BY <3>1, <3>2, <3>3, <3>4, OneDaemonSteps DEF Threads
  <2>2. CASE ShutdownRaises(d) /\ conn' = [conn EXCEPT ![d][c] = "none"]
    <3>1. \A e \in Daemons \ {d} : Untouched(e)
      BY <1>3, <2>2 DEF HandleStop, ShutdownRaises, Untouched
    <3>2. Alive(d)'          BY <1>0, <1>3, <2>2 DEF HandleStop, ShutdownRaises, Alive
    <3>3. OneRaises(d)'      BY <1>0, <1>3, <2>2 DEF HandleStop, ShutdownRaises, OneRaises
    <3>4. StopIsCarried(d)'
      BY <1>0, <1>3, <2>2 DEF HandleStop, ShutdownRaises, StopIsCarried, OneRaises
    <3> QED BY <3>1, <3>2, <3>3, <3>4, OneDaemonSteps DEF Threads
  <2> QED BY <1>3, <2>1, <2>2 DEF HandleStop
<1>4. CASE LogWake(d, c)
  <2>1. \A e \in Daemons \ {d} : Untouched(e)  BY <1>4 DEF LogWake, Untouched
  <2>2. Alive(d)'          BY <1>0, <1>4 DEF LogWake, Alive
  <2>3. OneRaises(d)'      BY <1>0, <1>4 DEF LogWake, OneRaises
  <2>4. StopIsCarried(d)'  BY <1>0, <1>4 DEF LogWake, StopIsCarried
  <2> QED BY <2>1, <2>2, <2>3, <2>4, OneDaemonSteps DEF Threads
<1>5. CASE WakeServer(d, c)
  <2>1. \A e \in Daemons : backlog[e] \subseteq backlog'[e]
    <3>1. CASE sock # None /\ Listening(sock)
      <4>1. sock \in Daemons /\ backlog' = [backlog EXCEPT ![sock] = @ \cup {"wake"}]
        BY <1>5, <3>1 DEF WakeServer
      <4> QED BY <4>1
    <3>2. CASE ~(sock # None /\ Listening(sock))
      BY <1>5, <3>2 DEF WakeServer, Listening
    <3> QED BY <3>1, <3>2
  <2>2. sock = d /\ Listening(d) => backlog'[d] # {}
    <3> SUFFICES ASSUME sock = d, Listening(d) PROVE backlog'[d] # {}
      OBVIOUS
    <3>1. backlog' = [backlog EXCEPT ![d] = @ \cup {"wake"}]
      BY <1>5 DEF WakeServer
    <3> QED BY <3>1
  <2>3. \A e \in Daemons \ {d} : Untouched(e)  BY <1>5, <2>1 DEF WakeServer, Untouched
  <2>4. Alive(d)'          BY <1>0, <1>5 DEF WakeServer, Alive
  <2>5. OneRaises(d)'      BY <1>0, <1>5 DEF WakeServer, OneRaises
  <2>6. StopIsCarried(d)'
    BY <1>0, <1>5, <2>1, <2>2 DEF WakeServer, StopIsCarried, Listening, Alive
  <2> QED BY <2>3, <2>4, <2>5, <2>6, OneDaemonSteps DEF Threads
<1> QED BY <1>1, <1>2, <1>3, <1>4, <1>5 DEF ServeConnection

LEMMA ReaperThreads ==
  ASSUME LockInv, MoreTypes, ThreadInv, Reap
  PROVE  ThreadInv'
<1> USE DEF LockInv, Types
<1>1. \A e \in Daemons : life'[e] = life[e]
  BY DEF Reap, JudgeUpstream, KillGroup, DropRecord, JudgeSocket, UnlinkSocket,
         UnlinkRecord, ReaperDies
<1>2. \A e \in Daemons : Untouched(e)
  BY <1>1 DEF Reap, JudgeUpstream, KillGroup, DropRecord, JudgeSocket, UnlinkSocket,
              UnlinkRecord, ReaperDies, Untouched
<1> QED BY <1>2, NobodySteps

LEMMA EnvironmentThreads ==
  ASSUME LockInv, MoreTypes, ThreadInv, Environment
  PROVE  ThreadInv'
<1> USE DEF LockInv, Types, Ordered, MoreTypes
<1>1. ASSUME NEW d \in Daemons, Launch(d) PROVE ThreadInv'
  BY <1>1, MainThreads
<1>2. ASSUME NEW d \in Daemons, Connect(d) PROVE ThreadInv'
  BY <1>2, NobodySteps DEF Connect, Untouched
<1>3. ASSUME NEW d \in Daemons, life[d] = "live", Vanish(d) PROVE ThreadInv'
  <2>0. Alive(d) /\ OneRaises(d) /\ StopIsCarried(d)
    BY DEF ThreadInv
  <2>1. \A e \in Daemons \ {d} : Untouched(e)  BY <1>3 DEF Vanish, Untouched
  <2>2. Alive(d)'          BY <2>0, <1>3 DEF Vanish, Alive
  <2>3. OneRaises(d)'      BY <2>0, <1>3 DEF Vanish, OneRaises
  <2>4. StopIsCarried(d)'  BY <2>0, <1>3 DEF Vanish, StopIsCarried
  <2> QED BY <2>1, <2>2, <2>3, <2>4, OneDaemonSteps DEF Threads
<1>4. ASSUME NEW u \in Upstreams, UpstreamExits(u) PROVE ThreadInv'
  BY <1>4, NobodySteps DEF UpstreamExits, Untouched
<1>5. ASSUME NEW u \in Upstreams, ChildrenExit(u) PROVE ThreadInv'
  BY <1>5, NobodySteps DEF ChildrenExit, Untouched
<1> QED BY <1>1, <1>2, <1>3, <1>4, <1>5 DEF Environment, Crash, Exit

LEMMA ThreadInvStep == LockInv /\ MoreTypes /\ ThreadInv /\ [Next]_vars => ThreadInv'
<1> SUFFICES ASSUME LockInv, MoreTypes, ThreadInv, [Next]_vars PROVE ThreadInv'
  OBVIOUS
<1>1. ASSUME NEW d \in Daemons, MainThread(d) PROVE ThreadInv'
  BY <1>1, MainThreads, CleanupThreads DEF MainThread
<1>2. ASSUME NEW d \in Daemons, ServeThread(d) PROVE ThreadInv'
  BY <1>2, LoopThreads, CleanupThreads DEF ServeThread
<1>3. ASSUME NEW d \in Daemons, Cleanup(d) PROVE ThreadInv'
  BY <1>3, CleanupThreads
<1>4. ASSUME NEW d \in Daemons, NEW c \in Conns, ServeConnection(d, c) PROVE ThreadInv'
  BY <1>4, ConnectionThreads
<1>5. CASE Reap         BY <1>5, ReaperThreads
<1>6. CASE Environment  BY <1>6, EnvironmentThreads
<1>7. CASE UNCHANGED vars
  BY <1>7, NobodySteps DEF vars, Untouched
<1> QED BY <1>1, <1>2, <1>3, <1>4, <1>5, <1>6, <1>7 DEF Next

LEMMA MoreTypesStep == LockInv /\ MoreTypes /\ [Next]_vars => MoreTypes'
<1> SUFFICES ASSUME LockInv, MoreTypes, [Next]_vars PROVE MoreTypes'
  OBVIOUS
<1> USE DEF LockInv, Types, MoreTypes, RequestKinds
<1>0. ASSUME NEW d \in Daemons, ShutdownUpstreams(d) \/ ShutdownRaises(d)
      PROVE  kids' \in [Upstreams -> BOOLEAN] /\ closed' \in [Daemons -> BOOLEAN]
  <2>1. closed' \in [Daemons -> BOOLEAN]
    BY <1>0 DEF ShutdownUpstreams, ShutdownRaises
  <2>2. kids' \in [Upstreams -> BOOLEAN]
    <3>1. kids' = kids \/ \E u \in Upstreams : kids' = [kids EXCEPT ![u] = FALSE]
      BY <1>0 DEF ShutdownUpstreams, ShutdownRaises, StopsProcess
    <3> QED BY <3>1
  <2> QED BY <2>1, <2>2
<1>1. ASSUME NEW d \in Daemons, MainThread(d) PROVE MoreTypes'
  <2>1. CASE AcquireLock(d)  BY <2>1 DEF AcquireLock
  <2>2. CASE Bind(d)
    <3>1. open' \in [Daemons -> BOOLEAN]
      BY <2>2 DEF Bind
    <3>2. lock' \in Daemons \cup {None} /\ sock' \in Daemons \cup {None}
      BY <2>2 DEF Bind
    <3> QED BY <2>2, <3>1, <3>2 DEF Bind
  <2>3. CASE Announce(d)     BY <2>3 DEF Announce
  <2>4. CASE JoinMain(d) \/ SkipCleanup(d, "main")
    BY <2>4 DEF JoinMain, SkipCleanup
  <2>5. CASE CleanUpstreams(d, "main")
    BY <1>0, <2>5 DEF CleanUpstreams
  <2> QED BY <1>1, <2>1, <2>2, <2>3, <2>4, <2>5 DEF MainThread
<1>2. ASSUME NEW d \in Daemons, ServeThread(d) PROVE MoreTypes'
  <2>1. ASSUME CleanUpstreams(d, "serve") PROVE MoreTypes'
    BY <1>0, <2>1 DEF CleanUpstreams
  <2>2. ASSUME NEW c \in Conns, Accept(d, c) PROVE MoreTypes'
    <3>1. UNCHANGED <<kids, closed, open, lock, sock, sockMeta, stopping>>
      BY <2>2 DEF Accept
    <3>2. PICK k \in backlog[d] : /\ backlog' = [backlog EXCEPT ![d] = @ \ {k}]
                                  /\ conn' = [conn EXCEPT ![d][c] = k]
      BY <2>2 DEF Accept
    <3>3. backlog' \in [Daemons -> SUBSET (RequestKinds \cup {"wake"})]
      BY <3>2
    <3>4. conn' \in [Daemons -> [Conns -> RequestKinds \cup {"none", "wake", "shut", "nudge"}]]
      <4> HIDE DEF RequestKinds, LockInv
      <4>1. backlog[d] \subseteq RequestKinds \cup {"wake"}
        OBVIOUS
      <4>2. conn \in [Daemons -> [Conns -> RequestKinds \cup {"none", "wake", "shut", "nudge"}]]
        OBVIOUS
      <4> HIDE DEF MoreTypes
      <4> QED BY <3>2, <4>1, <4>2
    <3> QED BY <3>1, <3>3, <3>4
  <2> QED BY <1>2, <2>1, <2>2 DEF ServeThread, LoopTest, SkipCleanup
<1>3. ASSUME NEW d \in Daemons, Cleanup(d) PROVE MoreTypes'
  BY <1>3 DEF Cleanup, CleanSocket, ReleaseLock, TellStopped
<1>4. ASSUME NEW d \in Daemons, NEW c \in Conns, ServeConnection(d, c) PROVE MoreTypes'
  <2>1. CASE HandleCall(d, c)   BY <2>1 DEF HandleCall
  <2>2. CASE RequestStop(d, c)  BY <2>2 DEF RequestStop
  <2>3. CASE HandleStop(d, c)
    <3>1. conn' \in [Daemons -> [Conns -> RequestKinds \cup {"none", "wake", "shut", "nudge"}]]
      <4>1. CASE conn' = [conn EXCEPT ![d][c] = "nudge"]  BY <4>1
      <4>2. CASE conn' = [conn EXCEPT ![d][c] = "none"]   BY <4>2
      <4> QED BY <2>3, <4>1, <4>2 DEF HandleStop
    <3>2. kids' \in [Upstreams -> BOOLEAN] /\ closed' \in [Daemons -> BOOLEAN]
      BY <1>0, <2>3 DEF HandleStop
    <3> QED BY <2>3, <3>1, <3>2 DEF HandleStop
  <2>4. CASE LogWake(d, c)      BY <2>4 DEF LogWake
  <2>5. CASE WakeServer(d, c)   BY <2>5 DEF WakeServer
  <2> QED BY <1>4, <2>1, <2>2, <2>3, <2>4, <2>5 DEF ServeConnection
<1>5. CASE Reap
  <2>1. CASE KillGroup  BY <2>1 DEF KillGroup
  <2>2. CASE JudgeUpstream \/ DropRecord \/ JudgeSocket
    BY <2>2 DEF JudgeUpstream, DropRecord, JudgeSocket
  <2>3. CASE UnlinkSocket \/ UnlinkRecord \/ ReaperDies
    BY <2>3 DEF UnlinkSocket, UnlinkRecord, ReaperDies
  <2> QED BY <1>5, <2>1, <2>2, <2>3 DEF Reap
<1>6. CASE Environment
  <2>1. ASSUME NEW d \in Daemons, Launch(d) PROVE MoreTypes'   BY <2>1 DEF Launch
  <2>2. ASSUME NEW d \in Daemons, Connect(d) PROVE MoreTypes'  BY <2>2 DEF Connect
  <2>3. ASSUME NEW d \in Daemons, Vanish(d) PROVE MoreTypes'   BY <2>3 DEF Vanish
  <2>4. ASSUME NEW u \in Upstreams, UpstreamExits(u) PROVE MoreTypes'
    BY <2>4 DEF UpstreamExits
  <2>5. ASSUME NEW u \in Upstreams, ChildrenExit(u) PROVE MoreTypes'
    BY <2>5 DEF ChildrenExit
  <2> QED BY <1>6, <2>1, <2>2, <2>3, <2>4, <2>5 DEF Environment, Crash, Exit
<1>7. CASE UNCHANGED vars  BY <1>7 DEF vars
<1> QED BY <1>1, <1>2, <1>3, <1>4, <1>5, <1>6, <1>7 DEF Next

\* What the records and the reaper speak of does not move.
SameProcesses ==
  /\ \A p \in Processes : life'[p] = life[p] \/ (p \in Daemons /\ life[p] # "dead")
  /\ UNCHANGED <<kids, pidFile, lost, reaper>>

LEMMA SameProcessesKeep ==
  ASSUME LockInv, RecordInv, SameProcesses
  PROVE  RecordInv'
<1> USE DEF RecordInv, SameProcesses
<1>1. ReaperKnows'
  BY DEF ReaperKnows, LockInv, Types
<1>2. (\A u \in Upstreams : life[u] = "unborn" => ~kids[u] /\ pidFile # u)'
  OBVIOUS
<1>3. OrphansAreRecorded'
  BY DEF OrphansAreRecorded, GroupAlive
<1> QED BY <1>1, <1>2, <1>3

LEMMA RecordInvStep == ReleaseInv /\ [Next]_vars => RecordInv'
<1> SUFFICES ASSUME LockInv, MoreTypes, ThreadInv, RecordInv, [Next]_vars PROVE RecordInv'
  BY DEF ReleaseInv
<1> USE DEF LockInv, Types, MoreTypes
<1>0. ASSUME NEW d \in Daemons, ShutdownUpstreams(d), UNCHANGED reaper PROVE RecordInv'
  <2>1. CASE client[d] = None
    BY <1>0, <2>1, SameProcessesKeep DEF ShutdownUpstreams, SameProcesses
  <2>2. CASE client[d] # None
    <3> DEFINE u == client[d]
    <3>1. u \in Upstreams /\ StopsProcess(u)
      BY <1>0, <2>2 DEF ShutdownUpstreams
    <3>2. CASE life[u] = "live"
      <4>1. /\ life' = [life EXCEPT ![u] = "dead"] /\ kids' = [kids EXCEPT ![u] = FALSE]
            /\ pidFile' = None /\ lost' = lost \cup ({pidFile} \ {None, u})
        BY <3>1, <3>2 DEF StopsProcess, OverwritesRecord
      <4> HIDE DEF u
      <4> QED BY <1>0, <3>1, <4>1 DEF RecordInv, ReaperKnows, OrphansAreRecorded, GroupAlive
    <3>3. CASE life[u] # "live"
      <4>1. /\ UNCHANGED <<life, kids>>
            /\ pidFile' = None /\ lost' = lost \cup ({u, pidFile} \ {None})
        BY <3>1, <3>3 DEF StopsProcess
      <4> HIDE DEF u
      <4> QED BY <1>0, <3>1, <4>1 DEF RecordInv, ReaperKnows, OrphansAreRecorded, GroupAlive
    <3> QED BY <3>2, <3>3
  <2> QED BY <2>1, <2>2
<1>1. ASSUME NEW d \in Daemons, NEW t \in {"main", "serve"}, CleanUpstreams(d, t)
      PROVE  RecordInv'
  BY <1>0, <1>1, SameProcessesKeep DEF CleanUpstreams, ShutdownRaises, SameProcesses
<1>2. ASSUME NEW d \in Daemons, MainThread(d) PROVE RecordInv'
  BY <1>1, <1>2, SameProcessesKeep
  DEF MainThread, AcquireLock, Bind, Announce, JoinMain, SkipCleanup, SameProcesses
<1>3. ASSUME NEW d \in Daemons, ServeThread(d) PROVE RecordInv'
  BY <1>1, <1>3, SameProcessesKeep
  DEF ServeThread, LoopTest, Accept, SkipCleanup, SameProcesses
<1>4. ASSUME NEW d \in Daemons, Cleanup(d) PROVE RecordInv'
  BY <1>4, SameProcessesKeep
  DEF Cleanup, CleanSocket, ReleaseLock, TellStopped, SameProcesses
<1>5. ASSUME NEW d \in Daemons, NEW c \in Conns, ServeConnection(d, c) PROVE RecordInv'
  <2>1. CASE HandleCall(d, c)
    <3>1. CASE UNCHANGED <<osVars, pidFile, client, lost>>
      BY <2>1, <3>1, SameProcessesKeep DEF HandleCall, SameProcesses
    <3>2. ASSUME NEW u \in Upstreams, life[u] = "unborn",
                 life' = [life EXCEPT ![u] = "live"], RecordProcess(u), UNCHANGED kids
          PROVE  RecordInv'
      BY <2>1, <3>2
      DEF HandleCall, RecordProcess, OverwritesRecord, RecordInv, ReaperKnows,
          OrphansAreRecorded, GroupAlive
    <3> QED BY <2>1, <3>1, <3>2 DEF HandleCall
  <2>2. CASE HandleStop(d, c)
    BY <1>0, <2>2, SameProcessesKeep DEF HandleStop, ShutdownRaises, SameProcesses
  <2>3. CASE RequestStop(d, c) \/ LogWake(d, c) \/ WakeServer(d, c)
    BY <2>3, SameProcessesKeep DEF RequestStop, LogWake, WakeServer, SameProcesses
  <2> QED BY <1>5, <2>1, <2>2, <2>3 DEF ServeConnection
<1>6. CASE Reap
  <2> USE DEF RecordInv, ReaperKnows, OrphansAreRecorded, GroupAlive
  <2>1. CASE JudgeUpstream  BY <2>1 DEF JudgeUpstream, Verdict
  <2>2. CASE KillGroup      BY <2>2 DEF KillGroup
  <2>3. CASE DropRecord     BY <2>3 DEF DropRecord, Resting
  <2>4. CASE JudgeSocket    BY <2>4 DEF JudgeSocket, Owns, ThreadInv, Alive
  <2>5. CASE UnlinkSocket   BY <2>5 DEF UnlinkSocket
  <2>6. CASE UnlinkRecord \/ ReaperDies
    BY <2>6 DEF UnlinkRecord, ReaperDies, Resting
  <2> QED BY <1>6, <2>1, <2>2, <2>3, <2>4, <2>5, <2>6 DEF Reap
<1>7. CASE Environment
  <2>1. ASSUME NEW d \in Daemons,
               Launch(d) \/ Connect(d) \/ (life[d] = "live" /\ Vanish(d))
        PROVE  RecordInv'
    BY <2>1, SameProcessesKeep DEF Launch, Connect, Vanish, SameProcesses
  <2>2. ASSUME NEW u \in Upstreams, UpstreamExits(u) PROVE RecordInv'
    <3>1. PICK k \in BOOLEAN : kids' = [kids EXCEPT ![u] = k]
      BY <2>2 DEF UpstreamExits
    <3> QED BY <2>2, <3>1
            DEF UpstreamExits, RecordInv, ReaperKnows, OrphansAreRecorded, GroupAlive
  <2>3. ASSUME NEW u \in Upstreams, ChildrenExit(u) PROVE RecordInv'
    BY <2>3 DEF ChildrenExit, RecordInv, ReaperKnows, OrphansAreRecorded, GroupAlive
  <2> QED BY <1>7, <2>1, <2>2, <2>3 DEF Environment, Crash, Exit
<1>8. CASE UNCHANGED vars
  BY <1>8, SameProcessesKeep DEF vars, SameProcesses
<1> QED BY <1>2, <1>3, <1>4, <1>5, <1>6, <1>7, <1>8 DEF Next

LEMMA ReleaseInvStep == ReleaseInv /\ [Next]_vars => ReleaseInv'
  BY LockInvStep, MoreTypesStep, ThreadInvStep, RecordInvStep DEF ReleaseInv

\* Every group that lives is in the pid file or among those whose record another
\* process took away (upstream start and stop, runtime_reaper.py).
THEOREM OrphansAreKnown == Spec => []OrphansAreRecorded
<1>1. ReleaseInv => OrphansAreRecorded
  BY DEF ReleaseInv, RecordInv
<1> QED BY ReleaseInvInit, ReleaseInvStep, <1>1, PTL DEF Spec

\* No stop() that raises and no join that runs out of time leaves a lock that
\* nobody is going to release (_cleanup, _serve_loop).
THEOREM NoLockForEver == Spec => []LockGetsReleased
<1>1. ReleaseInv => LockGetsReleased
  <2> SUFFICES ASSUME ReleaseInv, NEW d \in Daemons,
                      lock = d, sock = d, main[d] = "over"
               PROVE  \/ serve[d] \in {"loop", "clean"}
                      \/ backlog[d] # {} \/ \E c \in Conns : conn[d][c] # "none"
    BY DEF LockGetsReleased
  <2>1. Types /\ HasLock(d) /\ Ordered(d) /\ OneRaises(d) /\ StopIsCarried(d)
    BY DEF ReleaseInv, LockInv, ThreadInv
  <2>2. step[d] \in {"shut", "unlink"} /\ serve[d] # "off"
    BY <2>1 DEF Types, Ordered, OneRaises
  <2>3. CASE step[d] = "unlink"
    BY <2>1, <2>3 DEF Ordered, OneRaises, Types
  <2>4. CASE step[d] = "shut"
    <3>1. serve[d] \in {"loop", "accept", "clean"}
      BY <2>1, <2>2, <2>4 DEF OneRaises
    <3>2. CASE serve[d] = "accept"
      BY <2>1, <3>2 DEF StopIsCarried
    <3> QED BY <3>1, <3>2
  <2> QED BY <2>2, <2>3, <2>4
<1> QED BY ReleaseInvInit, ReleaseInvStep, <1>1, PTL DEF Spec

\* A daemon that serves has the lock, and its cleanup has not begun.
LEMMA ServingHasLock ==
  ASSUME ReleaseInv, NEW d \in Daemons, Serving(d)
  PROVE  lock = d /\ step[d] = "shut"
  BY DEF ReleaseInv, LockInv, ThreadInv, StopIsCarried, HasLock, Busy, Serving

\* The threads of any other process find the lock taken.
LEMMA OthersPastTheLock ==
  ASSUME ReleaseInv, NEW e \in Daemons, lock # e,
         Busy(e) \/ cleaner[e] # "none" \/ (\E c \in Conns : conn[e][c] # "none")
  PROVE  step[e] \in {"tell", "done"}
<1>1. Types /\ HasLock(e) /\ Ordered(e) /\ Alive(e) /\ OneRaises(e)
  BY DEF ReleaseInv, LockInv, ThreadInv
<1>2. CASE Busy(e)
  BY <1>1, <1>2 DEF HasLock, Types
<1>3. CASE cleaner[e] # "none"
  BY <1>1, <1>3 DEF HasLock, Busy, Ordered, Types
<1>4. CASE ~Busy(e) /\ \E c \in Conns : conn[e][c] # "none"
  BY <1>1, <1>4 DEF Busy, Ordered, Alive, OneRaises, Types
<1> QED BY <1>2, <1>3, <1>4

LEMMA SocketStep ==
  ASSUME ReleaseInv, Next, NEW d \in Daemons, Serving(d)
  PROVE  /\ sock = d => sock' = d \/ (reaper.at = "unlink" /\ reaper.of # d)
         /\ sockMeta = d => sockMeta' = d \/ (reaper.at = "forget" /\ reaper.of # d)
<1>0. lock = d /\ step[d] = "shut" /\ life[d] = "live" /\ main[d] = "wait"
  BY ServingHasLock DEF Serving
<1>1. ASSUME NEW e \in Daemons, NEW t \in {"main", "serve"}, CleanUpstreams(e, t)
      PROVE  UNCHANGED <<sock, sockMeta>>
  BY <1>1 DEF CleanUpstreams
<1>2. ASSUME NEW e \in Daemons, MainThread(e)
      PROVE  sock = d => sock' = d
  <2>1. ~LockFree
    BY <1>0 DEF LockFree
  <2> QED BY <1>0, <1>1, <1>2, <2>1 DEF MainThread, AcquireLock, Bind, Announce, JoinMain, SkipCleanup
<1>3. ASSUME NEW e \in Daemons, MainThread(e)
      PROVE  sockMeta = d => sockMeta' = d
  <2>1. CASE Announce(e)
    BY <1>0, <2>1, OthersPastTheLock DEF ReleaseInv, LockInv, Ordered, Announce, Busy
  <2>2. CASE ~Announce(e)
    BY <1>1, <1>3, <2>2 DEF MainThread, AcquireLock, Bind, JoinMain, SkipCleanup
  <2> QED BY <2>1, <2>2
<1>4. ASSUME NEW e \in Daemons, ServeThread(e)
      PROVE  UNCHANGED <<sock, sockMeta>>
  BY <1>1, <1>4 DEF ServeThread, LoopTest, Accept, SkipCleanup
<1>5. ASSUME NEW e \in Daemons, Cleanup(e)
      PROVE  (sock = d => sock' = d) /\ (sockMeta = d => sockMeta' = d)
  <2>1. ~CleanSocket(e)
    BY <1>0, OthersPastTheLock DEF CleanSocket
  <2> QED BY <1>5, <2>1 DEF Cleanup, ReleaseLock, TellStopped
<1>6. ASSUME NEW e \in Daemons, NEW c \in Conns, ServeConnection(e, c)
      PROVE  UNCHANGED <<sock, sockMeta>>
  BY <1>6 DEF ServeConnection, HandleCall, RequestStop, HandleStop, LogWake, WakeServer
<1>7. CASE Reap
  <2>1. reaper.at \in {"unlink", "forget"} => reaper.of # d
    BY <1>0 DEF ReleaseInv, RecordInv, ReaperKnows
  <2> QED BY <1>7, <2>1
          DEF Reap, JudgeUpstream, KillGroup, DropRecord, JudgeSocket, UnlinkSocket,
              UnlinkRecord, ReaperDies
<1>8. CASE Environment
  BY <1>8 DEF Environment, Launch, Connect, Crash, Exit, Vanish, UpstreamExits, ChildrenExit
<1> QED BY <1>2, <1>3, <1>4, <1>5, <1>6, <1>7, <1>8 DEF Next

\* Only a reaper that has read the record of an earlier daemon takes the socket
\* path or its record from a daemon that serves (start, _cleanup, runtime_reaper.py).
THEOREM ServersKeepTheirSocket == Spec => ServingKeepsItsSocket
<1>1. ReleaseInv /\ [Next]_vars =>
        [\A d \in Daemons :
           Serving(d) /\ Serving(d)' =>
             /\ sock = d => sock' = d \/ (reaper.at = "unlink" /\ reaper.of # d)
             /\ sockMeta = d => sockMeta' = d \/ (reaper.at = "forget" /\ reaper.of # d)]_vars
  BY SocketStep
<1> QED BY ReleaseInvInit, ReleaseInvStep, <1>1, PTL DEF Spec, ServingKeepsItsSocket

LEMMA SnapshotStep ==
  ASSUME ReleaseInv, Next, NEW d \in Daemons, Serving(d), snapshot' # snapshot
  PROVE  snapshot' = d \/ step[snapshot'] \in {"tell", "done"}
<1>0. lock = d
  BY ServingHasLock
<1>1. ASSUME NEW e \in Daemons, NEW t \in {"main", "serve"}, CleanUpstreams(e, t)
      PROVE  UNCHANGED snapshot
  BY <1>1 DEF CleanUpstreams
<1>2. ASSUME NEW e \in Daemons, MainThread(e)
      PROVE  snapshot' = e /\ main[e] = "record"
  BY <1>1, <1>2 DEF MainThread, AcquireLock, Bind, Announce, JoinMain, SkipCleanup
<1>3. ASSUME NEW e \in Daemons, ServeThread(e)
      PROVE  FALSE
  BY <1>1, <1>3 DEF ServeThread, LoopTest, Accept, SkipCleanup
<1>4. ASSUME NEW e \in Daemons, Cleanup(e)
      PROVE  snapshot' = e /\ cleaner[e] # "none"
  BY <1>4 DEF Cleanup, CleanSocket, ReleaseLock, TellStopped
<1>5. ASSUME NEW e \in Daemons, NEW c \in Conns, ServeConnection(e, c)
      PROVE  snapshot' = e /\ conn[e][c] # "none"
  BY <1>5 DEF ServeConnection, HandleCall, RequestStop, HandleStop, LogWake, WakeServer
<1>6. ~Reap
  BY DEF Reap, JudgeUpstream, KillGroup, DropRecord, JudgeSocket, UnlinkSocket,
         UnlinkRecord, ReaperDies
<1>7. ~Environment
  BY DEF Environment, Launch, Connect, Crash, Exit, Vanish, UpstreamExits, ChildrenExit
<1>8. \E e \in Daemons :
        /\ snapshot' = e
        /\ Busy(e) \/ cleaner[e] # "none" \/ (\E c \in Conns : conn[e][c] # "none")
  BY <1>2, <1>3, <1>4, <1>5, <1>6, <1>7 DEF Next, Busy
<1> QED BY <1>0, <1>8, OthersPastTheLock

\* While a daemon serves, only it and those past the release of their lock write
\* the status snapshot (_cleanup, _write_request_log).
THEOREM SnapshotIsTheServers == Spec => SnapshotFromServer
<1>1. ReleaseInv /\ [Next]_vars =>
        [\A d \in Daemons :
           Serving(d) /\ snapshot' # snapshot =>
             snapshot' = d \/ step[snapshot'] \in {"tell", "done"}]_vars
  BY SnapshotStep
<1> QED BY ReleaseInvInit, ReleaseInvStep, <1>1, PTL DEF Spec, SnapshotFromServer
=============================================================================
