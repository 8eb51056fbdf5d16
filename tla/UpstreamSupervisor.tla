------------------------- MODULE UpstreamSupervisor -------------------------
(***************************************************************************)
(* The registry of supervised local upstream processes                     *)
(* (upstream_process.py): starting with a readiness check, stopping a      *)
(* process group, the restart circuit, the idle and resource watchdogs.    *)
(* One caller drives it; processes die, and may hang in the kernel, at any *)
(* moment.                                                                 *)
(***************************************************************************)
EXTENDS Naturals, Sequences

CONSTANTS
  Keys,            \* registry keys: an upstream, or an upstream and a session
  MaxAttempts,     \* restart.max_attempts
  BackoffSeconds,  \* restart.backoff_seconds
  IdleSeconds,     \* idle_timeout_seconds and cpu_watchdog_seconds
  MaxClock,        \* bound: time
  MaxManual        \* bound: manual restarts per supervisor

ASSUME SupervisorAssumption ==
  /\ MaxAttempts \in Nat /\ BackoffSeconds \in Nat /\ IdleSeconds \in Nat
  /\ MaxClock \in Nat /\ MaxManual \in Nat

VARIABLES
  supervisors,  \* per key: the supervisor
  clock,
  stopping      \* keys stop_all has still to visit

supervisorVars == <<supervisors, clock, stopping>>

Never == MaxClock + 1

ChildStates == {"none", "alive", "stuck"}

\* process: the leader this supervisor holds ("dead" until a poll reaps it);
\* children: the rest of its group ("stuck": in the kernel, deaf to SIGKILL).
\* restarts, last, activity as in the source; manual, starts, left
\* and warned are history: the number of manual restarts, the times of the automatic
\* ones, whether a group was left with living members, and whether before that its
\* leader exited by itself or a stop raised.
NewSupervisor ==
  [process |-> "none", children |-> "none", state |-> "configured", restarts |-> 0,
   last |-> Never, activity |-> 0, manual |-> 0, starts |-> <<>>, left |-> FALSE, warned |-> FALSE]

SupervisorInit ==
  /\ supervisors = [k \in Keys |-> NewSupervisor]
  /\ clock = 0
  /\ stopping = {}

Sets(k, s) == supervisors' = [supervisors EXCEPT ![k] = s]

\* `status`: polling reaps a dead leader and finds the upstream failed.
Polled(s) ==
  IF s.process \in {"dead", "reaped"}
  THEN [s EXCEPT !.process = "reaped", !.state = "failed"] ELSE s

Running(s) == s.process = "alive"

------------------------------------------------------------------------------
(* stop: the ways it can end, each with whether it raises.                 *)

Ended(s, raises) == [s |-> s, raises |-> raises]

\* SIGKILL goes to the group in any case and ends every child that can die.
GroupKilled(s) == [s EXCEPT !.children = IF @ = "stuck" THEN "stuck" ELSE "none"]

\* The group is looked up before the leader is waited for: that of a leader
\* that was reaped earlier is unknown, and its members are not looked for.
Verified(s) ==
  LET killed == GroupKilled(s)
      gone == [killed EXCEPT !.process = "none", !.children = "none", !.state = "stopped"] IN
  IF s.process = "reaped"
  THEN Ended([gone EXCEPT !.left = @ \/ killed.children = "stuck"], FALSE)
  ELSE IF killed.children = "stuck"
       THEN Ended([killed EXCEPT !.process = "reaped", !.state = "failed", !.warned = TRUE], TRUE)
       ELSE Ended(gone, FALSE)

\* A leader stuck in the kernel lets wait() time out a second time.
StopEnds(s) ==
  IF s.process = "none" THEN {Ended([s EXCEPT !.state = "stopped"], FALSE)}
  ELSE {Verified(s)} \cup
       (IF s.process = "alive" THEN {Ended([s EXCEPT !.state = "failed"], TRUE)} ELSE {})

------------------------------------------------------------------------------
(* start: the ways it can end.                                             *)

\* The new process replaces the handle of one that has exited.
Spawned(s, children) ==
  [s EXCEPT !.process = "alive", !.children = children, !.state = "running", !.activity = clock,
            !.left = @ \/ s.children # "none"]

\* The readiness check ran out of time, or the process exited during it.
NotReady(s) ==
  {Ended(IF e.raises THEN e.s ELSE [e.s EXCEPT !.state = "backoff"], TRUE) :
     e \in StopEnds(s) \cup StopEnds([s EXCEPT !.process = "reaped", !.warned = TRUE])}

StartEnds(s) ==
  LET p == Polled(s) IN
  IF Running(p) THEN {Ended(p, FALSE)}
  ELSE {Ended([p EXCEPT !.state = "backoff"], TRUE)} \cup
       UNION {{Ended(Spawned(p, c), FALSE)} \cup NotReady(Spawned(p, c)) : c \in ChildStates}

CountedRestart(s) ==
  [s EXCEPT !.restarts = @ + 1, !.last = clock, !.starts = Append(@, clock)]

ManualRestart(s) == [s EXCEPT !.restarts = @ + 1, !.manual = @ + 1]

\* restart: stop, and unless that raises, start again, counted either way
StopThen(s, automatic) ==
  UNION {IF e.raises THEN {e}
         ELSE StartEnds(IF automatic THEN CountedRestart(e.s) ELSE ManualRestart(e.s))
         : e \in StopEnds(s)}

------------------------------------------------------------------------------
(* The operations.                                                         *)

\* registry.get_or_start
GetOrStart(k) ==
  /\ stopping = {}
  /\ \E e \in StartEnds(supervisors[k]) : Sets(k, e.s)
  /\ UNCHANGED <<clock, stopping>>

Stop(k) ==
  /\ stopping = {}
  /\ \E e \in StopEnds(supervisors[k]) : Sets(k, e.s)
  /\ UNCHANGED <<clock, stopping>>

Restart(k) ==
  LET s == supervisors[k] IN
  /\ stopping = {} /\ s.manual < MaxManual
  /\ \E e \in StopThen(s, FALSE) : Sets(k, e.s)
  /\ UNCHANGED <<clock, stopping>>

CircuitOpen(s) == s.restarts >= MaxAttempts

NeverTooSoon(s) == FALSE

TooSoon(s) == s.last # Never /\ clock - s.last < BackoffSeconds

\* The circuit opens for good: nothing takes restarts back.  A supervisor that is
\* running may be told failed or backing off here, and stays told so.
RestartAfterFailure(k) ==
  LET s == supervisors[k]
      p == Polled(s) IN
  /\ stopping = {}
  /\ \/ CircuitOpen(s) /\ Sets(k, [s EXCEPT !.state = "failed"])
     \/ ~CircuitOpen(s) /\ TooSoon(s) /\ Sets(k, [s EXCEPT !.state = "backoff"])
     \/ /\ ~CircuitOpen(s) /\ ~TooSoon(s)
        /\ \E e \in (IF Running(p) THEN StopThen(p, TRUE)
                    ELSE StartEnds(CountedRestart(p))) : Sets(k, e.s)
  /\ UNCHANGED <<clock, stopping>>

RecordActivity(k) ==
  /\ stopping = {}
  /\ Sets(k, [supervisors[k] EXCEPT !.activity = clock])
  /\ UNCHANGED <<clock, stopping>>

Idle(s) == clock - s.activity >= IdleSeconds

ReapIfIdle(k) ==
  LET p == Polled(supervisors[k]) IN
  /\ stopping = {}
  /\ IF Running(p) /\ Idle(p) THEN \E e \in StopEnds(p) : Sets(k, e.s) ELSE Sets(k, p)
  /\ UNCHANGED <<clock, stopping>>

\* The processor watchdog spares a process with recent activity, the memory
\* watchdog does not look.
KillIfOver(k) ==
  LET p == Polled(supervisors[k]) IN
  /\ stopping = {}
  /\ \E over \in {"cpu", "memory"} :
       IF Running(p) /\ (over = "memory" \/ Idle(p))
       THEN \E e \in StopEnds(p) : Sets(k, [e.s EXCEPT !.state = "failed"])
       ELSE Sets(k, p)
  /\ UNCHANGED <<clock, stopping>>

\* stop_all visits every supervisor there is, until one stop raises.
StopAll ==
  /\ stopping = {}
  /\ stopping' = {k \in Keys : supervisors[k].state # "configured"}
  /\ UNCHANGED <<supervisors, clock>>

StopNext(k) ==
  /\ k \in stopping
  /\ \E e \in StopEnds(supervisors[k]) :
       Sets(k, e.s) /\ stopping' = IF e.raises THEN {} ELSE stopping \ {k}
  /\ UNCHANGED clock

------------------------------------------------------------------------------
(* The processes and time.                                                 *)

LeaderDies(k) ==
  /\ supervisors[k].process = "alive"
  /\ Sets(k, [supervisors[k] EXCEPT !.process = "dead", !.warned = TRUE])
  /\ UNCHANGED <<clock, stopping>>

\* ChildStates come and go; without a leader they can only go or hang.
ChildrenChange(k) ==
  LET s == supervisors[k] IN
  /\ s.process # "none" /\ (s.process = "alive" \/ s.children # "none")
  /\ \E c \in ChildStates \ {s.children} : Sets(k, [s EXCEPT !.children = c])
  /\ UNCHANGED <<clock, stopping>>

Tick == clock < MaxClock /\ clock' = clock + 1 /\ UNCHANGED <<supervisors, stopping>>

SupervisorNext ==
  \/ \E k \in Keys :
       \/ GetOrStart(k) \/ Stop(k) \/ Restart(k) \/ RestartAfterFailure(k)
       \/ RecordActivity(k) \/ ReapIfIdle(k) \/ KillIfOver(k) \/ StopNext(k)
       \/ LeaderDies(k) \/ ChildrenChange(k)
  \/ StopAll \/ Tick

SupervisorSpec == SupervisorInit /\ [][SupervisorNext]_supervisorVars

------------------------------------------------------------------------------
(* Properties.                                                             *)

\* However starts, stops, deaths and watchdogs interleave: a supervisor that says
\* running holds a process, and one that says stopped holds none; what it holds
\* no more has no member it could still have to stop.
HonestState ==
  \A k \in Keys :
    LET s == supervisors[k] IN
    /\ s.state = "running" => s.process \in {"alive", "dead"}
    /\ s.state = "stopped" => s.process = "none"
    /\ s.process = "none" => s.children = "none"

\* Automatic restarts stay within the circuit: at most max_attempts of them, and
\* backoff_seconds between any two, manual restarts in between or not.
RestartCircuit ==
  \A k \in Keys :
    LET starts == supervisors[k].starts IN
    /\ Len(starts) <= MaxAttempts
    /\ \A i \in 1 .. Len(starts) - 1 : starts[i + 1] - starts[i] >= BackoffSeconds

\* No stop, restart or watchdog silently leaves living members of a group behind:
\* only when its leader had exited by itself, or a stop had raised, may a start
\* replace the handle of the group, or a stop that finds the leader reaped miss
\* what hangs.
LeftAfterWarning == \A k \in Keys : supervisors[k].left => supervisors[k].warned

\* What the supervisors promise in every state.
SupervisorSafe == HonestState /\ RestartCircuit /\ LeftAfterWarning
=============================================================================
