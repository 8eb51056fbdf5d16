-------------------------- MODULE DaemonLifecycle --------------------------
(***************************************************************************)
(* The life of the daemon processes of one runtime directory: the lock     *)
(* under flock, the socket and its owner record, the serve loop with its   *)
(* connection threads, the stop with its two joins and one cleanup         *)
(* (daemon.py), and the reaper that another command runs on what crashed   *)
(* daemons left behind (runtime_reaper.py).                                *)
(*                                                                         *)
(* A daemon or an upstream is one process from its start to its end, so a  *)
(* recorded pid with its start time is the process itself: the platform    *)
(* tells start times, and pids are not handed out again (see README).      *)
(***************************************************************************)
EXTENDS Naturals, FiniteSets

CONSTANTS
  Daemons,     \* daemon processes ever started
  Upstreams,   \* upstream processes ever spawned, all under one upstream name
  Conns,       \* connection threads a daemon may have at a time
  None

RequestKinds == {"call", "stop"}

ASSUME DaemonAssumption == None \notin Daemons \cup Upstreams /\ Daemons \cap Upstreams = {}

VARIABLES
  life,      \* what the pid of a process stands for
  kids,      \* the upstream's group has members besides its leader
  broker,    \* the daemon that spawned the upstream
  lock,      \* who holds the flock on run/broker.lock
  sock,      \* whose listening socket the socket path names
  sockMeta,  \* the daemon recorded as the owner of the socket path
  pidFile,   \* the upstream recorded under the upstream's name
  snapshot,  \* who wrote state/broker-status.json
  main,      \* where the main thread is
  serve,     \* where the serve-loop thread is
  conn,      \* what each connection thread does
  backlog,   \* connections nobody has accepted yet, by the request they bring
  open,      \* the server socket has not been closed
  stopping,  \* _stop_requested
  client,    \* the upstream process of the registry's one client
  closed,    \* _upstreams_shutdown
  cleaner,   \* the thread inside _cleanup, which holds _cleanup_lock
  step,      \* how far _cleanup is; "done": _cleanup_done
  reaper,    \* where the reaper is, what it has read and what it decided
  lost       \* upstreams whose record was overwritten, or removed unread
osVars     == <<life, kids, broker>>
fileVars   == <<lock, sock, sockMeta, pidFile, snapshot>>
socketVars == <<backlog, open>>
registry   == <<client, closed>>
cleanVars  == <<cleaner, step>>
vars == <<osVars, fileVars, socketVars, registry, cleanVars, lost,
          main, serve, conn, stopping, reaper>>

Processes == Daemons \cup Upstreams
Resting == [at |-> "idle", of |-> None, verdict |-> "none"]

TypeOK ==
  /\ life \in [Processes -> {"unborn", "live", "dead"}]
  /\ kids \in [Upstreams -> BOOLEAN] /\ broker \in [Upstreams -> Daemons \cup {None}]
  /\ {lock, sock, sockMeta} \subseteq Daemons \cup {None} /\ pidFile \in Upstreams \cup {None}
  /\ snapshot \in Daemons \cup {None}
  /\ main \in [Daemons -> {"off", "lock", "bind", "record", "wait", "clean", "over"}]
  /\ serve \in [Daemons -> {"off", "loop", "accept", "clean", "over"}]
  /\ conn \in [Daemons -> [Conns -> RequestKinds \cup {"none", "wake", "shut", "nudge"}]]
  /\ backlog \in [Daemons -> SUBSET (RequestKinds \cup {"wake"})]
  /\ {open, stopping, closed} \subseteq [Daemons -> BOOLEAN]
  /\ client \in [Daemons -> Upstreams \cup {None}]
  /\ cleaner \in [Daemons -> {"none", "main", "serve"}]
  /\ step \in [Daemons -> {"shut", "unlink", "release", "tell", "done"}]
  /\ reaper \in [at : {"idle", "kill", "drop", "unlink", "forget"},
                 of : Processes \cup {None}, verdict : {"none", "kill", "unlink"}]
  /\ lost \subseteq Upstreams

Init ==
  /\ life = [p \in Processes |-> "unborn"]
  /\ kids = [u \in Upstreams |-> FALSE] /\ broker = [u \in Upstreams |-> None]
  /\ lock = None /\ sock = None /\ sockMeta = None /\ pidFile = None
  /\ snapshot = None
  /\ main = [d \in Daemons |-> "off"] /\ serve = [d \in Daemons |-> "off"]
  /\ conn = [d \in Daemons |-> [c \in Conns |-> "none"]]
  /\ backlog = [d \in Daemons |-> {}] /\ open = [d \in Daemons |-> FALSE]
  /\ stopping = [d \in Daemons |-> FALSE]
  /\ client = [d \in Daemons |-> None] /\ closed = [d \in Daemons |-> FALSE]
  /\ cleaner = [d \in Daemons |-> "none"] /\ step = [d \in Daemons |-> "shut"]
  /\ reaper = Resting
  /\ lost = {}

\* A connection to the path reaches d: its socket is listening, or it has been
\* closed while the serve loop was already blocked in accept(), which keeps it.
Listening(d) == life[d] = "live" /\ (open[d] \/ serve[d] = "accept")

------------------------------------------------------------------------------
(* start(): the main thread of `mcp_broker.daemon serve`.                  *)

Launch(d) ==
  /\ life[d] = "unborn"
  /\ life' = [life EXCEPT ![d] = "live"]
  /\ main' = [main EXCEPT ![d] = "lock"]
  /\ UNCHANGED <<kids, broker, fileVars, socketVars, registry, cleanVars, lost,
                 serve, conn, stopping, reaper>>

LockNotTested == TRUE
LockFree == lock = None

\* _acquire_lock: LOCK_EX | LOCK_NB; a second daemon gives up.  The holder
\* removes what is at the socket path.
AcquireLock(d) ==
  /\ main[d] = "lock"
  /\ IF LockFree
     THEN lock' = d /\ sock' = None /\ main' = [main EXCEPT ![d] = "bind"]
     ELSE UNCHANGED <<lock, sock>> /\ main' = [main EXCEPT ![d] = "over"]
  /\ UNCHANGED <<osVars, sockMeta, pidFile, snapshot, socketVars, registry,
                 cleanVars, lost, serve, conn, stopping, reaper>>

\* bind() and listen(); an OSError releases the lock and ends the start.
Bind(d) ==
  /\ main[d] = "bind"
  /\ \/ /\ sock = None
        /\ sock' = d /\ open' = [open EXCEPT ![d] = TRUE]
        /\ main' = [main EXCEPT ![d] = "record"]
        /\ UNCHANGED lock
     \/ /\ lock' = None
        /\ main' = [main EXCEPT ![d] = "over"]
        /\ UNCHANGED <<sock, open>>
  /\ UNCHANGED <<osVars, sockMeta, pidFile, snapshot, backlog, registry, cleanVars,
                 lost, serve, conn, stopping, reaper>>

\* The owner record, the snapshot "running", and the serve loop starts.
Announce(d) ==
  /\ main[d] = "record"
  /\ sockMeta' = d
  /\ snapshot' = d
  /\ serve' = [serve EXCEPT ![d] = "loop"]
  /\ main' = [main EXCEPT ![d] = "wait"]
  /\ UNCHANGED <<osVars, lock, sock, pidFile, socketVars, registry, cleanVars, lost, conn,
                 stopping, reaper>>

------------------------------------------------------------------------------
(* serve_forever() and join() of the main thread, _serve_loop().           *)

\* serve_forever wakes up; join() waits for the serve loop and the connections,
\* but no longer than five seconds, which may pass at any point.
JoinMain(d) ==
  /\ main[d] = "wait" /\ stopping[d]
  /\ main' = [main EXCEPT ![d] = "clean"]
  /\ UNCHANGED <<osVars, fileVars, socketVars, registry, cleanVars, lost, serve, conn,
                 stopping, reaper>>

AfterLoopOnlyEnds == "over"
AfterLoop == "clean"   \* _serve_loop ends in _cleanup

\* The test of the while loop; accept() on a closed server raises OSError.  The
\* join of the connection threads that follows may time out, so it waits for none.
LoopTest(d) ==
  /\ serve[d] = "loop"
  /\ serve' = [serve EXCEPT ![d] = IF stopping[d] \/ ~open[d] THEN AfterLoop ELSE "accept"]
  /\ UNCHANGED <<osVars, fileVars, socketVars, registry, cleanVars, lost, main, conn,
                 stopping, reaper>>

\* A new connection gets a thread of its own.
Accept(d, c) ==
  /\ serve[d] = "accept" /\ conn[d][c] = "none"
  /\ \E k \in backlog[d] :
       /\ backlog' = [backlog EXCEPT ![d] = @ \ {k}]
       /\ conn' = [conn EXCEPT ![d][c] = k]
  /\ serve' = [serve EXCEPT ![d] = "loop"]
  /\ UNCHANGED <<osVars, fileVars, open, registry, cleanVars, lost, main, stopping, reaper>>

------------------------------------------------------------------------------
(* Connection threads: handle_connection and _handle_request.              *)

\* The record pidFile is written or removed by its path, whatever it names.
OverwritesRecord(u) == lost' = lost \cup ({pidFile} \ {None, u})

RecordSkipped(u) == UNCHANGED <<pidFile, lost>>
RecordProcess(u) == pidFile' = u /\ OverwritesRecord(u)

\* tools/call on the shared upstream: reuse the process, start another one, or
\* answer with an error (after the shutdown, or because the start fails).  Every
\* handled request ends in _write_request_log, which rewrites the snapshot.
HandleCall(d, c) ==
  /\ conn[d][c] = "call"
  /\ conn' = [conn EXCEPT ![d][c] = "none"]
  /\ snapshot' = d
  /\ \/ UNCHANGED <<osVars, pidFile, client, lost>>
     \/ /\ ~closed[d]
        /\ client[d] # None => life[client[d]] # "live"
        /\ \E u \in Upstreams :
             /\ life[u] = "unborn"
             /\ life' = [life EXCEPT ![u] = "live"]
             /\ broker' = [broker EXCEPT ![u] = d]
             /\ client' = [client EXCEPT ![d] = u]
             /\ RecordProcess(u)
        /\ UNCHANGED kids
  /\ UNCHANGED <<lock, sock, sockMeta, socketVars, closed, cleanVars,
                 main, serve, stopping, reaper>>

RequestStop(d, c) ==
  /\ conn[d][c] = "stop"
  /\ stopping' = [stopping EXCEPT ![d] = TRUE]
  /\ conn' = [conn EXCEPT ![d][c] = "shut"]
  /\ UNCHANGED <<osVars, fileVars, socketVars, registry, cleanVars, lost, main, serve, reaper>>

\* stop() of an upstream process: the group dies and its record goes.  A leader
\* that exited earlier no longer tells its group, so its children stay.
StopsProcess(u) ==
  /\ pidFile' = None
  /\ IF life[u] = "live"
     THEN /\ life' = [life EXCEPT ![u] = "dead"]
          /\ kids' = [kids EXCEPT ![u] = FALSE]
          /\ OverwritesRecord(u)
     ELSE /\ UNCHANGED <<life, kids>>
          /\ lost' = lost \cup ({u, pidFile} \ {None})

\* _shutdown_upstreams: close and empty the registry, stop what was in it.
ShutdownUpstreams(d) ==
  /\ closed' = [closed EXCEPT ![d] = TRUE]
  /\ client' = [client EXCEPT ![d] = None]
  /\ IF client[d] = None THEN UNCHANGED <<life, kids, pidFile, lost>> ELSE StopsProcess(client[d])

\* stop() raises: the registry is empty, the process runs on, still recorded.
ShutdownRaises(d) ==
  /\ client[d] # None
  /\ closed' = [closed EXCEPT ![d] = TRUE]
  /\ client' = [client EXCEPT ![d] = None]
  /\ UNCHANGED <<life, kids, pidFile, lost>>

HandleStop(d, c) ==
  /\ conn[d][c] = "shut"
  /\ \/ /\ ShutdownUpstreams(d)
        /\ snapshot' = d
        /\ conn' = [conn EXCEPT ![d][c] = "nudge"]
     \/ /\ ShutdownRaises(d)
        /\ conn' = [conn EXCEPT ![d][c] = "none"]
        /\ UNCHANGED snapshot
  /\ UNCHANGED <<broker, lock, sock, sockMeta, socketVars, cleanVars, main,
                 serve, stopping, reaper>>

\* A wake-up is an unknown method: it is only logged.
LogWake(d, c) ==
  /\ conn[d][c] = "wake"
  /\ snapshot' = d
  /\ conn' = [conn EXCEPT ![d][c] = "none"]
  /\ UNCHANGED <<osVars, lock, sock, sockMeta, pidFile, socketVars, registry, cleanVars,
                 lost, main, serve, stopping, reaper>>

\* _wake_server: one more connection to whoever listens on the path.
WakeServer(d, c) ==
  /\ conn[d][c] = "nudge"
  /\ conn' = [conn EXCEPT ![d][c] = "none"]
  /\ backlog' = IF sock # None /\ Listening(sock)
                THEN [backlog EXCEPT ![sock] = @ \cup {"wake"}] ELSE backlog
  /\ UNCHANGED <<osVars, fileVars, open, registry, cleanVars, lost, main, serve,
                 stopping, reaper>>

ServeConnection(d, c) ==
  HandleCall(d, c) \/ RequestStop(d, c) \/ HandleStop(d, c)
    \/ LogWake(d, c) \/ WakeServer(d, c)

------------------------------------------------------------------------------
(* _cleanup(), entered by the main thread and by the serve loop.           *)

\* The order of _cleanup: upstreams and server, socket files, lock, last words.
LockFirst(s) ==
  CASE s = "shut" -> "release" [] s = "release" -> "unlink" [] s = "unlink" -> "tell"
    [] OTHER -> "done"
StepAfter(s) ==
  CASE s = "shut" -> "unlink" [] s = "unlink" -> "release" [] s = "release" -> "tell"
    [] OTHER -> "done"

Did(d) == step' = [step EXCEPT ![d] = StepAfter(@)]

ThreadOver(d, t) ==
  IF t = "main" THEN main' = [main EXCEPT ![d] = "over"] /\ UNCHANGED serve
                ELSE serve' = [serve EXCEPT ![d] = "over"] /\ UNCHANGED main

At(d, t) == IF t = "main" THEN main[d] ELSE serve[d]

\* A thread that gets the cleanup lock after the other has finished returns.
SkipCleanup(d, t) ==
  /\ At(d, t) = "clean" /\ cleaner[d] = "none" /\ step[d] = "done"
  /\ ThreadOver(d, t)
  /\ UNCHANGED <<osVars, fileVars, socketVars, registry, cleanVars, lost, conn, stopping, reaper>>

\* Take the cleanup lock, stop the upstreams and close the server; if a stop()
\* raises the lock is dropped and the thread ends, the other may try again.
CleanUpstreams(d, t) ==
  /\ At(d, t) = "clean" /\ cleaner[d] = "none" /\ step[d] = "shut"
  /\ \/ /\ ShutdownUpstreams(d)
        /\ open' = [open EXCEPT ![d] = FALSE]
        /\ Did(d)
        /\ cleaner' = [cleaner EXCEPT ![d] = t]
        /\ UNCHANGED <<main, serve>>
     \/ /\ ShutdownRaises(d)
        /\ ThreadOver(d, t)
        /\ UNCHANGED <<open, cleaner, step>>
  /\ UNCHANGED <<broker, lock, sock, sockMeta, snapshot, backlog, conn, stopping, reaper>>

\* Both under the lock: the socket path and its owner record go.
CleanSocket(d) ==
  /\ cleaner[d] # "none" /\ step[d] = "unlink"
  /\ sock' = None /\ sockMeta' = None
  /\ Did(d)
  /\ UNCHANGED <<osVars, lock, pidFile, snapshot, socketVars, registry, cleaner, lost, main,
                 serve, conn, stopping, reaper>>

ReleaseLock(d) ==
  /\ cleaner[d] # "none" /\ step[d] = "release"
  /\ lock' = None
  /\ Did(d)
  /\ UNCHANGED <<osVars, sock, sockMeta, pidFile, snapshot, socketVars, registry, cleaner,
                 lost, main, serve, conn, stopping, reaper>>

\* The last lines of _cleanup run after the lock was released.
TellStopped(d) ==
  /\ cleaner[d] # "none" /\ step[d] = "tell"
  /\ snapshot' = d
  /\ Did(d)
  /\ cleaner' = [cleaner EXCEPT ![d] = "none"]
  /\ ThreadOver(d, cleaner[d])
  /\ UNCHANGED <<osVars, lock, sock, sockMeta, pidFile, socketVars, registry, lost, conn,
                 stopping, reaper>>

Cleanup(d) ==
  CleanSocket(d) \/ ReleaseLock(d) \/ TellStopped(d)

------------------------------------------------------------------------------
(* RuntimeReaper.reap(), run by `make broker-reap` and `make doctor`.      *)

\* _pid_still_owns_metadata, by pid and start time.
Owns(p) == life[p] = "live"

GroupAlive(u) == life[u] = "live" \/ kids[u]

\* What a reaper decides about the upstream a record names.
Verdict(u) ==
  IF ~Owns(broker[u]) /\ GroupAlive(u) THEN "kill" ELSE IF ~Owns(u) THEN "unlink" ELSE "none"

\* reap() looks at the pid files, then at the socket records.  Each look reads and
\* judges, and acts later; one that finds nothing to do changes nothing.
JudgeUpstream ==
  /\ reaper.at = "idle" /\ pidFile # None
  /\ LET v == Verdict(pidFile)
     IN  /\ v # "none"
         /\ reaper' = [at |-> IF v = "kill" THEN v ELSE "drop", of |-> pidFile, verdict |-> v]
  /\ UNCHANGED <<osVars, fileVars, socketVars, registry, cleanVars, lost, main, serve,
                 conn, stopping>>

\* killpg on the recorded group id.
KillGroup ==
  /\ reaper.at = "kill"
  /\ LET u == reaper.of
     IN  /\ life' = [life EXCEPT ![u] = "dead"]
         /\ kids' = [kids EXCEPT ![u] = FALSE]
  /\ reaper' = [reaper EXCEPT !.at = "drop"]
  /\ UNCHANGED <<broker, fileVars, socketVars, registry, cleanVars, lost, main, serve,
                 conn, stopping>>

DropRecord ==
  /\ reaper.at = "drop"
  /\ pidFile' = None
  /\ lost' = lost \cup ({pidFile} \ (IF reaper.verdict = "kill" THEN {None, reaper.of} ELSE {None}))
  /\ reaper' = Resting
  /\ UNCHANGED <<osVars, lock, sock, sockMeta, snapshot, socketVars, registry, cleanVars,
                 main, serve, conn, stopping>>

JudgeSocket ==
  /\ reaper.at = "idle" /\ sockMeta # None
  /\ ~Owns(sockMeta)
  /\ reaper' = [at |-> "unlink", of |-> sockMeta, verdict |-> "unlink"]
  /\ UNCHANGED <<osVars, fileVars, socketVars, registry, cleanVars, lost, main, serve,
                 conn, stopping>>

UnlinkSocket ==
  /\ reaper.at = "unlink"
  /\ sock' = None
  /\ reaper' = [reaper EXCEPT !.at = "forget"]
  /\ UNCHANGED <<osVars, lock, sockMeta, pidFile, snapshot, socketVars, registry, cleanVars,
                 lost, main, serve, conn, stopping>>

UnlinkRecord ==
  /\ reaper.at = "forget"
  /\ sockMeta' = None
  /\ reaper' = Resting
  /\ UNCHANGED <<osVars, lock, sock, pidFile, snapshot, socketVars, registry, cleanVars,
                 lost, main, serve, conn, stopping>>

ReaperDies ==
  /\ reaper.at # "idle"
  /\ reaper' = Resting
  /\ UNCHANGED <<osVars, fileVars, socketVars, registry, cleanVars, lost, main, serve,
                 conn, stopping>>

Reap == JudgeUpstream \/ KillGroup \/ DropRecord \/ JudgeSocket
          \/ UnlinkSocket \/ UnlinkRecord \/ ReaperDies

------------------------------------------------------------------------------
(* Clients, exits, crashes and the kernel.                                 *)

\* Bound: one connection waits at a time.
Connect(d) ==
  /\ sock = d /\ Listening(d) /\ backlog[d] = {}
  /\ \E k \in RequestKinds : backlog' = [backlog EXCEPT ![d] = @ \cup {k}]
  /\ UNCHANGED <<osVars, fileVars, open, registry, cleanVars, lost, main, serve, conn,
                 stopping, reaper>>

\* The process d is no more: the kernel drops its flock and its sockets.
Vanish(d) ==
  /\ life' = [life EXCEPT ![d] = "dead"]
  /\ lock' = IF lock = d THEN None ELSE lock
  /\ main' = [main EXCEPT ![d] = "over"] /\ serve' = [serve EXCEPT ![d] = "over"]
  /\ conn' = [conn EXCEPT ![d] = [c \in Conns |-> "none"]]
  /\ backlog' = [backlog EXCEPT ![d] = {}] /\ open' = [open EXCEPT ![d] = FALSE]
  /\ cleaner' = [cleaner EXCEPT ![d] = "none"] /\ step' = [step EXCEPT ![d] = "done"]
  /\ client' = [client EXCEPT ![d] = None] /\ closed' = [closed EXCEPT ![d] = TRUE]
  /\ stopping' = [stopping EXCEPT ![d] = FALSE]
  /\ UNCHANGED <<kids, broker, sock, sockMeta, pidFile, snapshot, lost, reaper>>

Crash(d) ==
  life[d] = "live" /\ Vanish(d)

\* The interpreter ends when the threads that are not daemonic have ended.
Exit(d) ==
  life[d] = "live" /\ main[d] = "over" /\ serve[d] \in {"off", "over"} /\ Vanish(d)

UpstreamExits(u) ==
  /\ life[u] = "live"
  /\ life' = [life EXCEPT ![u] = "dead"]
  /\ \E k \in BOOLEAN : kids' = [kids EXCEPT ![u] = k]
  /\ UNCHANGED <<broker, fileVars, socketVars, registry, cleanVars, lost, main, serve, conn,
                 stopping, reaper>>

ChildrenExit(u) ==
  /\ kids[u]
  /\ kids' = [kids EXCEPT ![u] = FALSE]
  /\ UNCHANGED <<life, broker, fileVars, socketVars, registry, cleanVars, lost, main, serve,
                 conn, stopping, reaper>>

MainThread(d) ==
  AcquireLock(d) \/ Bind(d) \/ Announce(d) \/ JoinMain(d)
    \/ CleanUpstreams(d, "main") \/ SkipCleanup(d, "main")

ServeThread(d) ==
  LoopTest(d) \/ (\E c \in Conns : Accept(d, c)) \/ CleanUpstreams(d, "serve") \/ SkipCleanup(d, "serve")

Environment ==
  \/ \E d \in Daemons : Launch(d) \/ Connect(d) \/ Crash(d) \/ Exit(d)
  \/ \E u \in Upstreams : UpstreamExits(u) \/ ChildrenExit(u)

Next ==
  \/ \E d \in Daemons : \/ MainThread(d) \/ ServeThread(d) \/ Cleanup(d)
                        \/ \E c \in Conns : ServeConnection(d, c)
  \/ Reap
  \/ Environment

Spec == Init /\ [][Next]_vars

------------------------------------------------------------------------------
(* Properties.                                                             *)

\* Whoever can be reached over the socket path holds the lock: a daemon that
\* is stopping gives up its lock only after nobody can connect to it, and one
\* that starts is reachable only after it has the lock (start and _cleanup).
ReachableHoldsLock == sock # None /\ Listening(sock) => lock = sock

\* A daemon that is up and has not been asked to stop.
Serving(d) == life[d] = "live" /\ main[d] = "wait" /\ ~stopping[d]

\* Nothing takes the socket path or its record from a serving daemon, except a
\* reaper that had read the record of an earlier daemon before (runtime_reaper.py
\* reads, judges and unlinks in separate steps; _cleanup unlinks before it
\* releases the lock).
ServingKeepsItsSocket ==
  [][\A d \in Daemons :
       Serving(d) /\ Serving(d)' =>
         /\ sock = d => sock' = d \/ (reaper.at = "unlink" /\ reaper.of # d)
         /\ sockMeta = d => sockMeta' = d \/ (reaper.at = "forget" /\ reaper.of # d)]_vars

\* While a daemon serves, the status snapshot comes from it or from one that has
\* released the lock and not ended yet (_cleanup and connection threads that
\* outlive the joins write it late).
SnapshotFromServer ==
  [][\A d \in Daemons :
       Serving(d) /\ snapshot' # snapshot =>
         snapshot' = d \/ step[snapshot'] \in {"tell", "done"}]_vars

\* A living group is named by the pid file, where the reaper finds it should its
\* daemon crash, unless that file was overwritten by a later start or removed with
\* the record of another process.
OrphansAreRecorded ==
  \A u \in Upstreams : GroupAlive(u) => pidFile = u \/ u \in lost

\* A daemon whose main thread has ended and that still has its lock and its
\* socket path has somebody to release them: the serve loop on its way to the
\* cleanup, or a connection that wakes it.  So one stop() that raises, or a join
\* that runs out of time, keeps no lock for ever (_cleanup runs in two threads).
\* Without its socket path, taken by a late reaper, the wake-up goes nowhere.
LockGetsReleased ==
  \A d \in Daemons :
    lock = d /\ sock = d /\ main[d] = "over" =>
      \/ serve[d] \in {"loop", "clean"}
      \/ backlog[d] # {} \/ \E c \in Conns : conn[d][c] # "none"
=============================================================================
