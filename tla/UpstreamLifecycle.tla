------------------------- MODULE UpstreamLifecycle -------------------------
(***************************************************************************)
(* The life of the stdio upstreams of one broker daemon: the registry of   *)
(* daemon.py / daemon_upstreams.py, the StdioUpstreamProcess objects of    *)
(* upstream_stdio.py, and the OS process groups and pid metadata files     *)
(* they leave behind.                                                      *)
(*                                                                         *)
(* Connection threads call tools, ask for health, stop a session or stop   *)
(* the broker; the idle janitor sweeps.  They share the registry lock      *)
(* (_stdio_upstreams_lock) and one call lock per client (_lock).  stop()   *)
(* takes NO lock, so its steps interleave with _start() on the same        *)
(* client.                                                                 *)
(***************************************************************************)
EXTENDS Naturals

CONSTANTS
  Threads,     \* connection threads of the daemon
  Janitor,     \* the janitor thread
  SharedUp,    \* upstreams with mode "shared"
  SessionUp,   \* upstreams with mode "per_session"
  PerCallUp,   \* upstreams with mode "per_call"
  RelayUp,     \* upstreams with relay_elicitation, called by unlike hosts
  Sessions,    \* broker session ids
  Clients,     \* slots for StdioUpstreamProcess objects, reused once freed
  Procs,       \* slots for process groups, reused once nothing names them
  None,        \* Python's None
  MaxCalls,    \* call_tool calls one request may make (2 more for auth repair)
  Requests,    \* the kinds of request the clients send
  Forking,     \* process groups whose leader may fork children
  Stubborn,    \* process groups that outlive SIGKILL past the verify window
  LogFails     \* TRUE: the event log may fail inside stop()

RequestKinds == {"call", "health", "session_stop", "broker_stop"}

Actors == Threads \cup {Janitor}

\* stdio_client_key: a shared upstream is registered under its name, a
\* per_session one under (name, session).  Both are pairs here.
SharedKeys  == SharedUp \X {None}
SessionKeys == SessionUp \X Sessions
Keys        == SharedKeys \cup SessionKeys
CallKeys    == PerCallUp \X {None}      \* per_call clients, registered by call id
ClientKeyNoSession(u, s) == <<u, IF u \in SessionUp THEN CHOOSE x \in Sessions : TRUE ELSE None>>
ClientKey(u, s) == IF u \in SessionUp THEN <<u, s>> ELSE <<u, None>>

ASSUME LifecycleAssumption ==
  /\ Janitor \notin Threads
  /\ None \notin Threads \cup {Janitor} \cup Clients \cup Procs \cup RequestKinds
  /\ SharedUp \cap SessionUp = {} /\ SharedUp \cap PerCallUp = {}
  /\ SessionUp \cap PerCallUp = {}
  /\ Clients \cap (SharedUp \cup SessionUp \cup PerCallUp) = {}
  /\ None \notin Sessions \cup Keys \cup CallKeys
  /\ RelayUp \subseteq SharedUp \cup SessionUp
  /\ MaxCalls \in Nat \ {0}
  /\ Requests \subseteq RequestKinds
  /\ LogFails \in BOOLEAN

VARIABLES
  registry,   \* _stdio_upstreams
  perCall,    \* _active_per_call_upstreams
  shutdown,   \* _upstreams_shutdown
  regLock,    \* thread stopping a per_call client inside _stdio_upstreams_lock
  ckey,       \* what each client object was created for; None: slot free
  proc,       \* client._process
  callLock,   \* holder of client._lock
  idle,       \* client.idle_seconds() has reached idle_timeout_seconds
  leader,     \* "running", "exited" (zombie) or "gone" (reaped) group leader
  kids,       \* the group has members besides its leader
  files,      \* run/upstreams/<name>.json: the process group it records
  pc, op,     \* where each actor is, and in which request
  want,       \* the (upstream, session) the request names
  held,       \* the client the actor's frame refers to
  lproc,      \* the local `process` of _jsonrpc_request_locked
  sproc,      \* the local `process` of stop()
  sgroup,     \* stop() knows the process group id
  left,       \* stop() found remaining_processes
  todo,       \* clients a sweep still has to stop (or the janitor to visit)
  calls       \* call_tool calls the request has made

registryVars == <<registry, perCall, shutdown, regLock>>
clientVars   == <<ckey, proc, callLock, idle>>
osVars       == <<leader, kids, files>>
stopVars     == <<sproc, sgroup, left>>
frameVars    == <<op, want, held, lproc, todo, calls>>
vars == <<registryVars, clientVars, osVars, pc, frameVars, stopVars>>

PcLabels == {"idle", "visit", "got", "start", "spawn", "meta", "io", "release",
             "failed", "p_lock", "h_poll", "sweep", "s_capture", "s_kill", "s_clear",
             "s_meta", "stopped", "raised"}
MetaNames == SharedUp \cup SessionUp \cup PerCallUp \cup Clients

TypeOK ==
  /\ registry \in [Keys -> Clients \cup {None}]
  /\ perCall \subseteq Clients
  /\ shutdown \in BOOLEAN
  /\ regLock \in Threads \cup {None}
  /\ ckey \in [Clients -> Keys \cup CallKeys \cup {None}]
  /\ proc \in [Clients -> Procs \cup {None}]
  /\ callLock \in [Clients -> Threads \cup {None}]
  /\ idle \in [Clients -> BOOLEAN]
  /\ leader \in [Procs -> {"running", "exited", "gone"}]
  /\ kids \in [Procs -> BOOLEAN]
  /\ files \in [MetaNames -> Procs \cup {None}]
  /\ pc \in [Actors -> PcLabels]
  /\ op \in [Actors -> RequestKinds \cup {None}]
  /\ want \in [Actors -> Keys \cup CallKeys \cup {None}]
  /\ held \in [Actors -> Clients \cup {None}]
  /\ lproc \in [Actors -> Procs \cup {None}]
  /\ sproc \in [Actors -> Procs \cup {None}]
  /\ sgroup \in [Actors -> BOOLEAN]
  /\ left \in [Actors -> BOOLEAN]
  /\ todo \in [Actors -> SUBSET Clients]
  /\ calls \in [Actors -> 0..MaxCalls]

Init ==
  /\ registry = [k \in Keys |-> None]
  /\ perCall = {} /\ shutdown = FALSE /\ regLock = None
  /\ ckey = [c \in Clients |-> None]
  /\ proc = [c \in Clients |-> None]
  /\ callLock = [c \in Clients |-> None]
  /\ idle = [c \in Clients |-> FALSE]
  /\ leader = [p \in Procs |-> "gone"]
  /\ kids = [p \in Procs |-> FALSE]
  /\ files = [n \in MetaNames |-> None]
  /\ pc = [a \in Actors |-> "idle"]
  /\ op = [a \in Actors |-> None]
  /\ want = [a \in Actors |-> None]
  /\ held = [a \in Actors |-> None]
  /\ lproc = [a \in Actors |-> None]
  /\ sproc = [a \in Actors |-> None]
  /\ sgroup = [a \in Actors |-> FALSE]
  /\ left = [a \in Actors |-> FALSE]
  /\ todo = [a \in Actors |-> {}]
  /\ calls = [a \in Actors |-> 0]

-----------------------------------------------------------------------------
(* References, process groups and metadata files.                          *)

IsPerCall(c) == ckey[c] \in CallKeys
Registered(c) == c \in perCall \/ \E k \in Keys : registry[k] = c
Referenced(c) == \/ Registered(c)
                 \/ \E a \in Actors : held[a] = c \/ c \in todo[a]

\* A per_call client has a metadata name of its own (<name>.call.<call_id>);
\* every other client of an upstream uses the upstream's name.
MetaNameShared(c) == ckey[c][1]
MetaName(c) == IF IsPerCall(c) THEN c ELSE ckey[c][1]

GroupAlive(p) == leader[p] = "running" \/ kids[p]

FreshClient(c) == ckey[c] = None /\ ~Referenced(c) /\ files[c] = None
FreshProc(p) ==
  /\ leader[p] = "gone" /\ ~kids[p]
  /\ \A c \in Clients : proc[c] # p
  /\ \A a \in Actors : lproc[a] # p /\ sproc[a] # p
  /\ \A n \in MetaNames : files[n] # p

\* Popen.poll(): a leader that exited is reaped.
Polled(p) == IF leader[p] = "exited" THEN [leader EXCEPT ![p] = "gone"] ELSE leader

\* client.status == "exited"
Exited(c) == proc[c] # None /\ leader[proc[c]] # "running"

Goto(a, label) == pc' = [pc EXCEPT ![a] = label]

\* The request ends: its frame and every reference in it are gone.
EndRequest(a) ==
  /\ Goto(a, "idle")
  /\ op' = [op EXCEPT ![a] = None]
  /\ want' = [want EXCEPT ![a] = None]
  /\ held' = [held EXCEPT ![a] = None]
  /\ lproc' = [lproc EXCEPT ![a] = None]
  /\ todo' = [todo EXCEPT ![a] = {}]
  /\ calls' = [calls EXCEPT ![a] = 0]

-----------------------------------------------------------------------------
(* A connection thread serves a tool call (or a tools/list).               *)

\* _stdio_client and _per_call_stdio_client refuse after shutdown.
AcceptingAlways == TRUE
Accepting == ~shutdown

\* _stdio_client: get or create under the registry lock, refused after
\* shutdown.
GetClient(t, u, s) ==
  LET k == ClientKey(u, s) IN
  /\ "call" \in Requests /\ pc[t] = "idle"
  /\ regLock = None /\ Accepting
  /\ \/ /\ registry[k] # None
        /\ held' = [held EXCEPT ![t] = registry[k]]
        /\ UNCHANGED <<registry, ckey, idle>>
     \/ /\ registry[k] = None
        /\ \E c \in Clients :
             /\ FreshClient(c)
             /\ ckey' = [ckey EXCEPT ![c] = k]
             /\ idle' = [idle EXCEPT ![c] = FALSE]
             /\ registry' = [registry EXCEPT ![k] = c]
             /\ held' = [held EXCEPT ![t] = c]
  /\ op' = [op EXCEPT ![t] = "call"]
  /\ want' = [want EXCEPT ![t] = IF u \in SessionUp THEN <<u, s>> ELSE <<u, None>>]
  /\ Goto(t, "got")
  /\ UNCHANGED <<perCall, shutdown, regLock, proc, callLock, osVars, lproc,
                 todo, calls, stopVars>>

\* _per_call_stdio_client: always a new client, registered by call id.
GetPerCallClient(t, u) ==
  /\ "call" \in Requests /\ pc[t] = "idle"
  /\ regLock = None /\ Accepting
  /\ \E c \in Clients :
       /\ FreshClient(c)
       /\ ckey' = [ckey EXCEPT ![c] = <<u, None>>]
       /\ idle' = [idle EXCEPT ![c] = FALSE]
       /\ perCall' = perCall \cup {c}
       /\ held' = [held EXCEPT ![t] = c]
  /\ op' = [op EXCEPT ![t] = "call"]
  /\ want' = [want EXCEPT ![t] = <<u, None>>]
  /\ Goto(t, "got")
  /\ UNCHANGED <<registry, shutdown, regLock, proc, callLock, osVars, lproc,
                 todo, calls, stopVars>>

\* client._lock
CallLockIgnored(c) == TRUE
CallLockFree(c) == callLock[c] = None

CallLockKept(c) == callLock
CallLockReleased(c) == [callLock EXCEPT ![c] = None]

\* call_tool / list_tools: enter `with self._lock`, stamp the activity.
\* ensure_running takes the same lock and stamps nothing.
Acquire(t) ==
  LET c == held[t] IN
  /\ pc[t] = "got" /\ CallLockFree(c)
  /\ callLock' = [callLock EXCEPT ![c] = t]
  /\ idle' = IF op[t] = "call" THEN [idle EXCEPT ![c] = FALSE] ELSE idle
  /\ calls' = [calls EXCEPT ![t] = IF op[t] = "call" THEN @ + 1 ELSE @]
  /\ Goto(t, "start")
  /\ UNCHANGED <<registryVars, ckey, proc, osVars, op, want, held, lproc, todo,
                 stopVars>>

\* _jsonrpc_request_locked, 375-378: a host with other capabilities than the
\* one the process was initialised for has it stopped before the start.
CapabilityStop(t) ==
  LET c == held[t] IN
  /\ pc[t] = "start" /\ op[t] = "call"
  /\ ckey[c][1] \in RelayUp /\ proc[c] # None
  /\ Goto(t, "s_capture")
  /\ UNCHANGED <<registryVars, clientVars, osVars, frameVars, stopVars>>

\* _start, 284-293: return if the process runs; tidy up after one that exited.
StartCheck(t) ==
  LET c == held[t]  p == proc[held[t]] IN
  /\ pc[t] = "start"
  /\ \/ /\ p # None /\ leader[p] = "running"
        /\ Goto(t, IF op[t] = "call" THEN "io" ELSE "release")
        /\ lproc' = [lproc EXCEPT ![t] = p]
        /\ UNCHANGED osVars
     \/ /\ p # None /\ leader[p] # "running"
        /\ leader' = Polled(p)
        /\ files' = [files EXCEPT ![MetaName(c)] = None]
        /\ Goto(t, "spawn")
        /\ UNCHANGED <<kids, lproc>>
     \/ /\ p = None
        /\ Goto(t, "spawn")
        /\ UNCHANGED <<osVars, lproc>>
  /\ UNCHANGED <<registryVars, clientVars, op, want, held, todo, calls, stopVars>>

\* _start, 302-314: Popen, or OSError.
Spawn(t) ==
  LET c == held[t] IN
  /\ pc[t] = "spawn"
  /\ \/ \E p \in Procs :
          /\ FreshProc(p)
          /\ leader' = [leader EXCEPT ![p] = "running"]
          /\ proc' = [proc EXCEPT ![c] = p]
          /\ Goto(t, "meta")
     \/ Goto(t, "failed") /\ UNCHANGED <<leader, proc>>
  /\ UNCHANGED <<registryVars, ckey, callLock, idle, kids, files, frameVars,
                 stopVars>>

\* _start, 315-325: record the process in the metadata file.  self._process
\* is read again here: a stop() in between has set it to None (AttributeError),
\* and a leader another thread has reaped has no group to record.  The ready
\* event polls.
RecordProcess(t) ==
  LET c == held[t]  p == proc[held[t]] IN
  /\ pc[t] = "meta"
  /\ \/ /\ p # None /\ leader[p] # "gone"
        /\ files' = [files EXCEPT ![MetaName(c)] = p]
        /\ lproc' = [lproc EXCEPT ![t] = p]
        /\ leader' = Polled(p)
        /\ Goto(t, IF op[t] = "call" THEN "io" ELSE "release")
     \/ /\ ~(p # None /\ leader[p] # "gone")
        /\ Goto(t, "failed")
        /\ UNCHANGED <<files, lproc, leader>>
  /\ UNCHANGED <<registryVars, clientVars, kids, op, want, held, todo,
                 calls, stopVars>>

\* _roundtrip answers, or fails because stop() closed the pipes under it or
\* the process exited; a reader that found no data polls before it says so.
Roundtrip(t) ==
  /\ pc[t] = "io"
  /\ \/ Goto(t, "release") /\ UNCHANGED leader
     \/ Goto(t, "failed") /\ leader' \in {leader, Polled(lproc[t])}
  /\ UNCHANGED <<registryVars, clientVars, kids, files, frameVars, stopVars>>

\* StdioUpstreamTimeout: _reset_after_timeout_locked stops the process.
TimeOut(t) ==
  /\ pc[t] = "io"
  /\ Goto(t, "s_capture")
  /\ UNCHANGED <<registryVars, clientVars, osVars, frameVars, stopVars>>

\* _call_stdio_client_or_repair calls once, or up to three times as long as the
\* calls answer: the call, the repair tool, the retry.
MayCallAfterFailure(t) == op[t] = "call" /\ calls[t] < MaxCalls
MayCallAgain(t) == pc[t] = "release" /\ op[t] = "call" /\ calls[t] < MaxCalls

\* The call lock is released; the request calls again (auth repair), stops
\* its per_call client, or ends.
Release(t) ==
  LET c == held[t] IN
  /\ pc[t] \in {"release", "failed"}
  /\ callLock' = CallLockReleased(c)
  /\ \/ /\ MayCallAgain(t)
        /\ Goto(t, "got")
        /\ lproc' = [lproc EXCEPT ![t] = None]
        /\ UNCHANGED <<op, want, held, todo, calls>>
     \/ /\ IsPerCall(c)
        /\ Goto(t, "p_lock")
        /\ lproc' = [lproc EXCEPT ![t] = None]
        /\ UNCHANGED <<op, want, held, todo, calls>>
     \/ ~IsPerCall(c) /\ EndRequest(t)
  /\ UNCHANGED <<registryVars, ckey, proc, idle, osVars, stopVars>>

\* _stop_per_call_stdio_client: only the registered owner stops the client,
\* and it holds the registry lock while it does.
PerCallStop(t) ==
  /\ pc[t] = "p_lock" /\ regLock = None
  /\ \/ /\ held[t] \in perCall
        /\ regLock' = t
        /\ Goto(t, "s_capture")
        /\ UNCHANGED frameVars
     \/ /\ held[t] \notin perCall
        /\ EndRequest(t)
        /\ UNCHANGED regLock
  /\ UNCHANGED <<registry, perCall, shutdown, clientVars, osVars, stopVars>>

-----------------------------------------------------------------------------
(* stop() of the client in held[a].  No lock protects it.                  *)

StopCapture(a) ==
  LET p == proc[held[a]] IN
  /\ pc[a] = "s_capture"
  /\ \/ /\ p = None
        /\ Goto(a, "stopped")
        /\ UNCHANGED stopVars
     \/ /\ p # None
        /\ sproc' = [sproc EXCEPT ![a] = p]
        /\ sgroup' = [sgroup EXCEPT ![a] = leader[p] # "gone"]
        /\ left' = [left EXCEPT ![a] = FALSE]
        /\ Goto(a, "s_kill")
  /\ UNCHANGED <<registryVars, clientVars, osVars, frameVars>>

\* SIGTERM, SIGKILL to the group, wait, verify.  Without a group id nothing is
\* signalled and nothing is verified.
Killed(p) ==
  /\ leader' = [leader EXCEPT ![p] = "gone"]
  /\ kids' = [kids EXCEPT ![p] = FALSE]

StopKill(a) ==
  LET p == sproc[a] IN
  /\ pc[a] = "s_kill"
  /\ \/ /\ sgroup[a] /\ p \notin Stubborn
        /\ Killed(p)
        /\ UNCHANGED left
     \/ /\ sgroup[a] /\ p \in Stubborn
        /\ left' = [left EXCEPT ![a] = GroupAlive(p)]
        /\ UNCHANGED <<leader, kids>>
     \/ /\ ~sgroup[a]
        /\ UNCHANGED <<leader, kids, left>>
  /\ Goto(a, "s_clear")
  /\ UNCHANGED <<registryVars, clientVars, files, frameVars, sproc, sgroup>>

\* The event log fails after the leader was waited for and before the group
\* gets its final SIGKILL (line 234): stop() raises.
StopRaises(a) ==
  LET p == sproc[a] IN
  /\ LogFails /\ pc[a] = "s_kill" /\ p \notin Stubborn
  /\ leader' = [leader EXCEPT ![p] = "gone"]
  /\ sproc' = [sproc EXCEPT ![a] = None]
  /\ sgroup' = [sgroup EXCEPT ![a] = FALSE]
  /\ Goto(a, "raised")
  /\ UNCHANGED <<registryVars, clientVars, kids, files, frameVars, left>>

StopClear(a) ==
  /\ pc[a] = "s_clear"
  /\ proc' = [proc EXCEPT ![held[a]] = None]
  /\ sproc' = [sproc EXCEPT ![a] = None]
  /\ sgroup' = [sgroup EXCEPT ![a] = FALSE]
  /\ Goto(a, "s_meta")
  /\ UNCHANGED <<registryVars, ckey, callLock, idle, osVars, frameVars, left>>

\* The metadata file goes only if the group is gone.
RecordDropped(a) ==
  IF left[a] THEN files ELSE [files EXCEPT ![MetaName(held[a])] = None]

StopForget(a) ==
  /\ pc[a] = "s_meta"
  /\ files' = RecordDropped(a)
  /\ left' = [left EXCEPT ![a] = FALSE]
  /\ Goto(a, "stopped")
  /\ UNCHANGED <<registryVars, clientVars, leader, kids, frameVars, sproc, sgroup>>

-----------------------------------------------------------------------------
(* Who called stop(), and what they do when it returns or raises.          *)

\* Inside the call lock: the reset after a timeout ends the call, the stop for
\* other capabilities (no process chosen yet) goes on to _start.
Resetting(t) == op[t] = "call" /\ callLock[held[t]] = t

AfterReset(t) ==
  /\ pc[t] \in {"stopped", "raised"} /\ Resetting(t)
  /\ Goto(t, IF pc[t] = "stopped" /\ lproc[t] = None THEN "start" ELSE "failed")
  /\ UNCHANGED <<registryVars, clientVars, osVars, frameVars, stopVars>>

\* _stop_per_call_stdio_client again: unregister only if stop() returned.
PerCallPopped(t) == IF pc[t] = "stopped" THEN perCall \ {held[t]} ELSE perCall

AfterPerCallStop(t) ==
  /\ pc[t] \in {"stopped", "raised"} /\ regLock = t
  /\ perCall' = PerCallPopped(t)
  /\ regLock' = None
  /\ EndRequest(t)
  /\ UNCHANGED <<registry, shutdown, clientVars, osVars, stopVars>>

\* broker/session/stop: pop the session's clients under the lock ...
SessionStop(t, s) ==
  LET mine == {k \in SessionKeys : k[2] = s} IN
  /\ "session_stop" \in Requests /\ pc[t] = "idle" /\ regLock = None
  /\ todo' = [todo EXCEPT ![t] = {c \in Clients : \E k \in mine : registry[k] = c}]
  /\ registry' = [k \in Keys |-> IF k \in mine THEN None ELSE registry[k]]
  /\ op' = [op EXCEPT ![t] = "session_stop"]
  /\ Goto(t, "sweep")
  /\ UNCHANGED <<perCall, shutdown, regLock, clientVars, osVars, want, held,
                 lproc, calls, stopVars>>

\* _shutdown_upstreams: ... or every client, for good.
BrokerStop(t) ==
  /\ "broker_stop" \in Requests /\ pc[t] = "idle" /\ regLock = None
  /\ shutdown' = TRUE
  /\ todo' = [todo EXCEPT ![t] = {c \in Clients : Registered(c)}]
  /\ registry' = [k \in Keys |-> None]
  /\ perCall' = {}
  /\ op' = [op EXCEPT ![t] = "broker_stop"]
  /\ Goto(t, "sweep")
  /\ UNCHANGED <<regLock, clientVars, osVars, want, held, lproc, calls, stopVars>>

\* ... and stop them one by one outside it.
SweepNext(t) ==
  /\ pc[t] = "sweep"
  /\ \/ \E c \in todo[t] :
          /\ held' = [held EXCEPT ![t] = c]
          /\ Goto(t, "s_capture")
          /\ UNCHANGED <<op, want, lproc, todo, calls>>
     \/ todo[t] = {} /\ EndRequest(t)
  /\ UNCHANGED <<registryVars, clientVars, osVars, stopVars>>

Sweeping(t) == op[t] \in {"session_stop", "broker_stop"}

\* A stop() that raises ends the sweep: the clients left in `clients` are
\* dropped unstopped, to be stopped by __del__.
AfterSweepStop(t) ==
  /\ Sweeping(t)
  /\ \/ /\ pc[t] = "stopped"
        /\ todo' = [todo EXCEPT ![t] = @ \ {held[t]}]
        /\ held' = [held EXCEPT ![t] = None]
        /\ Goto(t, "sweep")
        /\ UNCHANGED <<op, want, lproc, calls>>
     \/ pc[t] = "raised" /\ EndRequest(t)
  /\ UNCHANGED <<registryVars, clientVars, osVars, stopVars>>

-----------------------------------------------------------------------------
(* broker/health, one client of the snapshot at a time.                    *)

HealthSnapshot(t) ==
  /\ "health" \in Requests /\ pc[t] = "idle" /\ regLock = None
  /\ \E c \in Clients : Registered(c) /\ held' = [held EXCEPT ![t] = c]
  /\ op' = [op EXCEPT ![t] = "health"]
  /\ Goto(t, "h_poll")
  /\ UNCHANGED <<registryVars, clientVars, osVars, want, lproc, todo, calls,
                 stopVars>>

\* health_snapshot polls; an exited shared client is restarted
\* (ensure_running), any other is only reported.
HealthPoll(t) ==
  LET c == held[t]  p == proc[held[t]] IN
  /\ pc[t] = "h_poll"
  /\ leader' = IF p = None THEN leader ELSE Polled(p)
  /\ \/ /\ Exited(c) /\ ckey[c] \in SharedKeys
        /\ Goto(t, "got")
        /\ UNCHANGED frameVars
     \/ /\ ~(Exited(c) /\ ckey[c] \in SharedKeys)
        /\ EndRequest(t)
  /\ UNCHANGED <<registryVars, clientVars, kids, files, stopVars>>

-----------------------------------------------------------------------------
(* The idle janitor, _reap_idle_upstreams.                                 *)

JanitorSnapshot ==
  /\ pc[Janitor] = "idle" /\ regLock = None
  /\ todo' = [todo EXCEPT ![Janitor] = {c \in Clients : \E k \in Keys : registry[k] = c}]
  /\ Goto(Janitor, "visit")
  /\ UNCHANGED <<registryVars, clientVars, osVars, op, want, held, lproc, calls,
                 stopVars>>

\* Condemned clients (exited, or per_session and idle) go to stop(); `status`
\* polls the process.
CondemnedIfExited(c) == Exited(c)
CondemnedIfIdle(c) == ckey[c] \in SessionKeys /\ idle[c]
Condemned(c) == Exited(c) \/ (ckey[c] \in SessionKeys /\ idle[c])

JanitorVisit ==
  /\ pc[Janitor] = "visit"
  /\ \E c \in todo[Janitor] :
       /\ leader' = IF proc[c] = None THEN leader ELSE Polled(proc[c])
       /\ \/ /\ Condemned(c)
             /\ held' = [held EXCEPT ![Janitor] = c]
             /\ Goto(Janitor, "s_capture")
             /\ UNCHANGED todo
          \/ /\ ~Condemned(c)
             /\ todo' = [todo EXCEPT ![Janitor] = @ \ {c}]
             /\ UNCHANGED <<pc, held>>
  /\ UNCHANGED <<registryVars, clientVars, kids, files, op, want, lproc, calls,
                 stopVars>>

\* Pop the key under the lock, but only if it still maps to the same client.
EvictedByKey(k, c) == [registry EXCEPT ![k] = None]
Evicted(k, c) == IF registry[k] = c THEN [registry EXCEPT ![k] = None] ELSE registry

JanitorPop ==
  LET c == held[Janitor]  k == ckey[held[Janitor]] IN
  /\ pc[Janitor] = "stopped" /\ regLock = None
  /\ registry' = Evicted(k, c)
  /\ todo' = [todo EXCEPT ![Janitor] = @ \ {c}]
  /\ held' = [held EXCEPT ![Janitor] = None]
  /\ Goto(Janitor, "visit")
  /\ UNCHANGED <<perCall, shutdown, regLock, clientVars, osVars, op, want, lproc,
                 calls, stopVars>>

\* The sweep is over, or a stop() raised and _idle_janitor_loop logged it.
JanitorSleep ==
  /\ \/ pc[Janitor] = "visit" /\ todo[Janitor] = {}
     \/ pc[Janitor] = "raised"
  /\ EndRequest(Janitor)
  /\ UNCHANGED <<registryVars, clientVars, osVars, stopVars>>

-----------------------------------------------------------------------------
(* __del__: the last reference to a client is gone, stop() runs on it (its *)
(* exceptions are suppressed) and the object is freed.                     *)

Collect(c) ==
  LET p == proc[c] IN
  /\ ckey[c] # None /\ ~Referenced(c)
  /\ \/ /\ p = None
        /\ UNCHANGED osVars
     \/ /\ p # None /\ leader[p] # "gone" /\ p \notin Stubborn
        /\ Killed(p)
        /\ files' = [files EXCEPT ![MetaName(c)] = None]
     \/ /\ p # None /\ leader[p] # "gone" /\ p \in Stubborn
        /\ files' = IF GroupAlive(p) THEN files
                    ELSE [files EXCEPT ![MetaName(c)] = None]
        /\ UNCHANGED <<leader, kids>>
     \/ /\ p # None /\ leader[p] = "gone"
        /\ files' = [files EXCEPT ![MetaName(c)] = None]
        /\ UNCHANGED <<leader, kids>>
     \/ /\ LogFails /\ p # None /\ p \notin Stubborn
        /\ leader' = [leader EXCEPT ![p] = "gone"]
        /\ UNCHANGED <<kids, files>>
  /\ ckey' = [ckey EXCEPT ![c] = None]
  /\ proc' = [proc EXCEPT ![c] = None]
  /\ idle' = [idle EXCEPT ![c] = FALSE]
  /\ UNCHANGED <<registryVars, callLock, pc, frameVars, stopVars>>

-----------------------------------------------------------------------------
(* The upstream processes and the clock.                                   *)

LeaderExits(p) ==
  /\ leader[p] = "running"
  /\ leader' = [leader EXCEPT ![p] = "exited"]
  /\ UNCHANGED <<registryVars, clientVars, kids, files, pc, frameVars, stopVars>>

LeaderForks(p) ==
  /\ leader[p] = "running" /\ p \in Forking /\ ~kids[p]
  /\ kids' = [kids EXCEPT ![p] = TRUE]
  /\ UNCHANGED <<registryVars, clientVars, leader, files, pc, frameVars, stopVars>>

ChildrenExit(p) ==
  /\ kids[p]
  /\ kids' = [kids EXCEPT ![p] = FALSE]
  /\ UNCHANGED <<registryVars, clientVars, leader, files, pc, frameVars, stopVars>>

\* idle_seconds() grows past the timeout; nothing but a call stamps it back.
Age(c) ==
  /\ ckey[c] \in SessionKeys /\ ~idle[c]
  /\ idle' = [idle EXCEPT ![c] = TRUE]
  /\ UNCHANGED <<registryVars, ckey, proc, callLock, osVars, pc, frameVars, stopVars>>

-----------------------------------------------------------------------------
Stop(a) == \/ StopCapture(a) \/ StopKill(a) \/ StopRaises(a)
           \/ StopClear(a) \/ StopForget(a)

\* A handler begins: _call_upstream for a tool call, a stop, or a health check.
Arrive(t) ==
  \/ \E u \in SharedUp \cup SessionUp, s \in Sessions : GetClient(t, u, s)
  \/ \E u \in PerCallUp : GetPerCallClient(t, u)
  \/ \E s \in Sessions : SessionStop(t, s)
  \/ BrokerStop(t)
  \/ HealthSnapshot(t)

\* _list_stdio_upstream: a tools/list goes the way of a call that is not repaired.
Serve(t) ==
  \/ Acquire(t) \/ CapabilityStop(t) \/ StartCheck(t) \/ Spawn(t) \/ RecordProcess(t)
  \/ Roundtrip(t) \/ TimeOut(t) \/ Release(t) \/ PerCallStop(t)
  \/ AfterReset(t) \/ AfterPerCallStop(t)
  \/ SweepNext(t) \/ AfterSweepStop(t) \/ HealthPoll(t) \/ Stop(t)

Sweep == JanitorSnapshot \/ JanitorVisit \/ JanitorPop \/ JanitorSleep \/ Stop(Janitor)

Environment ==
  \/ \E p \in Procs : LeaderExits(p) \/ LeaderForks(p) \/ ChildrenExit(p)
  \/ \E c \in Clients : Age(c)

Next ==
  \/ \E t \in Threads : Arrive(t) \/ Serve(t)
  \/ Sweep
  \/ \E c \in Clients : Collect(c)
  \/ Environment

Spec == Init /\ [][Next]_vars

\* Every started handler runs on; the janitor is a loop; the garbage
\* collector runs.  Both locks are threading.Lock: a thread that waits for one
\* that is released again and again gets it (strong fairness).
Fairness ==
  /\ \A t \in Threads : WF_vars(Serve(t)) /\ SF_vars(Acquire(t)) /\ SF_vars(PerCallStop(t))
  /\ WF_vars(Sweep) /\ SF_vars(JanitorPop) /\ SF_vars(JanitorSnapshot)
  /\ \A c \in Clients : WF_vars(Collect(c))

FairSpec == Spec /\ Fairness

-----------------------------------------------------------------------------
(* Properties.                                                             *)

InCall(t) == pc[t] = "io"

\* No two connection threads ever talk to the same upstream process at the
\* same time, whatever was stopped, evicted or restarted under them: the call
\* lock of the client is the only thing that keeps JSON-RPC lines on one pipe
\* apart (upstream_stdio.py:107, 138).
PipeExclusive ==
  \A t, u \in Threads :
    t # u /\ InCall(t) /\ InCall(u) => lproc[t] # lproc[u]

\* The client that owns the process a request is talking to was created for
\* the upstream and the session the request names: sessions of a per_session
\* upstream never share a process (docs/protocol.md:106).
SessionIsolation ==
  \A t \in Threads, c \in Clients :
    InCall(t) /\ proc[c] = lproc[t] => ckey[c] = want[t]

\* Once shutdown has begun no client is ever registered again, so the daemon
\* cannot end with an upstream its registry still owns.
RegistryClosed ==
  shutdown => perCall = {} /\ \A k \in Keys : registry[k] = None

\* A client leaves the registry only into the hands of somebody who is going
\* to stop it (session or broker stop) or whose stop() of that very client has
\* returned: the janitor does not evict a client that a session created under
\* the same key during the stop (daemon.py:591), and a per_call client whose
\* stop() raised stays registered (daemon_upstreams.py:292-298).
NoEvictionWithoutStop ==
  [][\A c \in Clients :
       Registered(c) /\ ~Registered(c)' =>
         \E a \in Actors : c \in todo'[a] \/ (held[a] = c /\ pc[a] = "stopped")]_vars

\* Every running upstream process is the current process of a client object,
\* so that some stop() or __del__ will still reach it.
OwnedProcesses ==
  \A p \in Procs : leader[p] = "running" => \E c \in Clients : proc[c] = p

\* A process group that outlives stop() is not forgotten: it still belongs to
\* a client or a metadata file names it, so the reaper can find it.
LiveGroupsAccounted ==
  \A p \in Procs : GroupAlive(p) =>
    (\E c \in Clients : proc[c] = p) \/ (\E n \in MetaNames : files[n] = p)

\* While a request talks to a running process, a metadata file records it: if
\* the broker dies now, the reaper finds the orphan.
CallsAreRecorded ==
  \A t \in Threads :
    InCall(t) /\ leader[lproc[t]] = "running" => \E n \in MetaNames : files[n] = lproc[t]

\* When the broker was stopped, every thread is done and every client is
\* collected, no process group is left.
NothingOutlivesStop ==
  /\ shutdown /\ \A a \in Actors : pc[a] = "idle"
  /\ \A c \in Clients : ckey[c] = None
  => \A p \in Procs : ~GroupAlive(p)

\* Every request ends, whoever stops or evicts its client meanwhile.
RequestsEnd == \A t \in Threads : pc[t] # "idle" ~> pc[t] = "idle"

\* A per_session client that nobody calls is evicted: it does not stay
\* registered and idle for ever.
IdleEvicted ==
  \A k \in SessionKeys, c \in Clients : ~<>[](registry[k] = c /\ idle[c])

\* An exited upstream does not keep its registry entry and its pipes for ever.
ExitedEvicted ==
  \A k \in Keys, c \in Clients : ~<>[](registry[k] = c /\ Exited(c))

\* After shutdown begins every client object is eventually stopped and freed,
\* the ones a late request started again after they were stopped included.
ShutdownSettles == [](shutdown => <>[](\A c \in Clients : ckey[c] = None))
=============================================================================
