---------------------- MODULE BrokerPartsProofs ----------------------
(***************************************************************************)
(* Proofs about the smaller parts of the broker, for any constants: what a *)
(* supervisor says, holds, counts and leaves behind; the handshakes and    *)
(* executions of remote calls and the repairs of authentication; where the *)
(* name of a tool leads and what runs in the shared worker; what rollout,  *)
(* break-glass, client and import commands leave on disk; what a           *)
(* configuration promises and which layers its values come from.           *)
(***************************************************************************)
EXTENDS BrokerParts, SequenceTheorems, FiniteSetTheorems, WellFoundedInduction, TLAPS

USE SupervisorAssumption

Supervisors ==
  [process : {"none", "alive", "dead", "reaped"}, children : ChildStates,
   state : {"configured", "running", "stopped", "failed", "backoff"},
   restarts : Nat, last : 0..Never, activity : Nat, manual : Nat, starts : Seq(Nat),
   left : BOOLEAN, warned : BOOLEAN]

\* What it says agrees with what it holds; no leader was lost without a warning,
\* and no group was left without one.
Holds(s) ==
  /\ s.state = "running" => s.process \in {"alive", "dead"}
  /\ s.state = "stopped" => s.process = "none"
  /\ s.process = "none" => s.children = "none"
  /\ s.process \in {"dead", "reaped"} => s.warned
  /\ s.left => s.warned

Spaced(starts) == \A i \in 1 .. Len(starts) - 1 : starts[i + 1] - starts[i] >= BackoffSeconds

\* An automatic restart is counted, as every restart is, and last is its time.
CountsStarts(s, now) ==
  /\ Len(s.starts) <= s.restarts /\ Len(s.starts) <= MaxAttempts
  /\ s.starts = <<>> => s.last = Never
  /\ s.starts # <<>> => s.last = s.starts[Len(s.starts)] /\ s.last <= now
  /\ Spaced(s.starts)

SupervisorInv ==
  /\ clock \in 0..MaxClock
  /\ supervisors \in [Keys -> Supervisors]
  /\ \A k \in Keys : Holds(supervisors[k]) /\ CountsStarts(supervisors[k], clock)

LEMMA SupervisorInvInit == SupervisorInit => SupervisorInv
<1> SUFFICES ASSUME SupervisorInit PROVE SupervisorInv
  OBVIOUS
<1>1. NewSupervisor \in Supervisors
  BY DEF NewSupervisor, Supervisors, ChildStates, Never
<1>2. Holds(NewSupervisor) /\ CountsStarts(NewSupervisor, 0)
  BY DEF NewSupervisor, Holds, CountsStarts, Spaced
<1> QED BY <1>1, <1>2 DEF SupervisorInit, SupervisorInv

------------------------------------------------------------------------------
(* What the ends of a stop and of a start have in common.                  *)

SameCounts(s, t) == t.restarts = s.restarts /\ t.last = s.last /\ t.starts = s.starts

LEMMA PolledKeeps ==
  ASSUME NEW s \in Supervisors, Holds(s)
  PROVE  /\ Polled(s) \in Supervisors /\ Holds(Polled(s)) /\ SameCounts(s, Polled(s))
         /\ Polled(s).process # "dead"
  BY DEF Polled, Supervisors, Holds, SameCounts

LEMMA StopKeeps ==
  ASSUME NEW s \in Supervisors, Holds(s), NEW e \in StopEnds(s)
  PROVE  /\ e.s \in Supervisors /\ Holds(e.s) /\ SameCounts(s, e.s)
         /\ ~e.raises => e.s.process = "none"
<1> DEFINE killed == GroupKilled(s)
           gone == [killed EXCEPT !.process = "none", !.children = "none", !.state = "stopped"]
<1>1. CASE s.process = "none"
  <2>1. e = Ended([s EXCEPT !.state = "stopped"], FALSE)
    BY <1>1 DEF StopEnds
  <2> QED BY <1>1, <2>1 DEF Ended, Supervisors, Holds, SameCounts
<1>2. CASE s.process = "alive" /\ e = Ended([s EXCEPT !.state = "failed"], TRUE)
  BY <1>2 DEF Ended, Supervisors, Holds, SameCounts
<1>3. CASE s.process # "none" /\ e = Verified(s)
  <2>1. killed \in Supervisors /\ SameCounts(s, killed) /\ killed.left = s.left
        /\ killed.warned = s.warned /\ killed.process = s.process
    BY DEF GroupKilled, Supervisors, ChildStates, SameCounts
  <2>2. /\ gone \in Supervisors /\ SameCounts(s, gone) /\ gone.left = s.left
        /\ gone.warned = s.warned /\ gone.process = "none" /\ gone.children = "none"
        /\ gone.state = "stopped"
    BY <2>1 DEF Supervisors, ChildStates, SameCounts
  <2> HIDE DEF killed, gone
  <2>3. CASE s.process = "reaped"
    <3>1. e = Ended([gone EXCEPT !.left = @ \/ killed.children = "stuck"], FALSE)
      BY <1>3, <2>3 DEF Verified, killed, gone
    <3>2. s.warned
      BY <2>3 DEF Holds
    <3>3. (gone.left \/ killed.children = "stuck") \in BOOLEAN
      BY <2>2 DEF Supervisors
    <3> QED BY <2>2, <3>1, <3>2, <3>3 DEF Ended, Supervisors, Holds, SameCounts
  <2>4. CASE s.process # "reaped" /\ killed.children = "stuck"
    <3>1. e = Ended([killed EXCEPT !.process = "reaped", !.state = "failed", !.warned = TRUE], TRUE)
      BY <1>3, <2>4 DEF Verified, killed
    <3> QED BY <2>1, <2>4, <3>1 DEF Ended, Supervisors, Holds, SameCounts
  <2>5. CASE s.process # "reaped" /\ killed.children # "stuck"
    <3>1. e = Ended(gone, FALSE)
      BY <1>3, <2>5 DEF Verified, killed, gone
    <3> QED BY <2>2, <3>1 DEF Ended, Holds
  <2> QED BY <2>3, <2>4, <2>5
<1> QED BY <1>1, <1>2, <1>3 DEF StopEnds

\* A process spawned where the supervisor holds none, or one it was warned of.
LEMMA SpawnKeeps ==
  ASSUME NEW s \in Supervisors, Holds(s), s.process \in {"none", "reaped"},
         NEW c \in ChildStates, clock \in Nat
  PROVE  Spawned(s, c) \in Supervisors /\ Holds(Spawned(s, c)) /\ SameCounts(s, Spawned(s, c))
<1> DEFINE l == s.left \/ s.children # "none"
<1>1. Spawned(s, c) = [s EXCEPT !.process = "alive", !.children = c, !.state = "running",
                                !.activity = clock, !.left = l]
  BY DEF Spawned, Supervisors
<1>2. (l => s.warned) /\ l \in BOOLEAN
  BY DEF Holds
<1> HIDE DEF l
<1>3. Spawned(s, c) \in Supervisors /\ SameCounts(s, Spawned(s, c))
  BY <1>1, <1>2 DEF Supervisors, SameCounts
<1>4. /\ Spawned(s, c).process = "alive" /\ Spawned(s, c).state = "running"
      /\ Spawned(s, c).left = l /\ Spawned(s, c).warned = s.warned
  BY <1>1 DEF Supervisors
<1> QED BY <1>2, <1>3, <1>4 DEF Holds

LEMMA NotReadyKeeps ==
  ASSUME NEW s \in Supervisors, Holds(s), s.state = "running", NEW e \in NotReady(s)
  PROVE  e.s \in Supervisors /\ Holds(e.s) /\ SameCounts(s, e.s)
<1> DEFINE exited == [s EXCEPT !.process = "reaped", !.warned = TRUE]
\* exited still says running, which the stop that follows corrects.
<1>1. PICK d \in StopEnds(s) \cup StopEnds(exited) :
        e = Ended(IF d.raises THEN d.s ELSE [d.s EXCEPT !.state = "backoff"], TRUE)
  BY DEF NotReady
<1>2. d.s \in Supervisors /\ Holds(d.s) /\ SameCounts(s, d.s)
  <2>1. CASE d \in StopEnds(s)
    BY <2>1, StopKeeps
  <2>2. CASE d \in StopEnds(exited)
    <3> DEFINE quiet == [exited EXCEPT !.state = "failed"]
    <3>1. exited \in Supervisors /\ exited.process = "reaped"
      BY DEF Supervisors
    <3>2. d = Verified(exited)
      BY <2>2, <3>1 DEF StopEnds
    <3>3. quiet \in Supervisors /\ Holds(quiet) /\ SameCounts(s, quiet)
          /\ quiet.process = "reaped"
      BY DEF Supervisors, Holds, SameCounts
    <3>4. Verified(quiet) = Verified(exited)
      BY <3>1 DEF Verified, GroupKilled, Supervisors
    <3>5. d \in StopEnds(quiet)
      BY <3>2, <3>3, <3>4 DEF StopEnds
    <3> HIDE DEF quiet, exited
    <3> QED BY <3>3, <3>5, StopKeeps DEF SameCounts
  <2> QED BY <1>1, <2>1, <2>2
<1> HIDE DEF exited
<1>3. [d.s EXCEPT !.state = "backoff"] \in Supervisors
      /\ Holds([d.s EXCEPT !.state = "backoff"]) /\ SameCounts(s, [d.s EXCEPT !.state = "backoff"])
  BY <1>2 DEF Supervisors, Holds, SameCounts
<1> QED BY <1>1, <1>2, <1>3 DEF Ended

LEMMA StartKeeps ==
  ASSUME NEW s \in Supervisors, Holds(s), clock \in Nat, NEW e \in StartEnds(s)
  PROVE  e.s \in Supervisors /\ Holds(e.s) /\ SameCounts(s, e.s)
<1> DEFINE p == Polled(s)
<1>1. p \in Supervisors /\ Holds(p) /\ SameCounts(s, p) /\ p.process # "dead"
  BY PolledKeeps
<1>2. \/ e = Ended(p, FALSE)
      \/ /\ ~Running(p)
         /\ \/ e = Ended([p EXCEPT !.state = "backoff"], TRUE)
            \/ \E c \in ChildStates : e = Ended(Spawned(p, c), FALSE) \/ e \in NotReady(Spawned(p, c))
  BY DEF StartEnds
<1> HIDE DEF p
<1>3. CASE e = Ended(p, FALSE)
  BY <1>1, <1>3 DEF Ended
<1>4. CASE ~Running(p) /\ e = Ended([p EXCEPT !.state = "backoff"], TRUE)
  BY <1>1, <1>4 DEF Ended, Supervisors, Holds, SameCounts
<1>5. ASSUME NEW c \in ChildStates, ~Running(p),
             e = Ended(Spawned(p, c), FALSE) \/ e \in NotReady(Spawned(p, c))
      PROVE  e.s \in Supervisors /\ Holds(e.s) /\ SameCounts(s, e.s)
  <2>1. p.process \in {"none", "reaped"}
    BY <1>1, <1>5 DEF Running, Supervisors
  <2>2. Spawned(p, c) \in Supervisors /\ Holds(Spawned(p, c)) /\ SameCounts(p, Spawned(p, c))
    BY <1>1, <2>1, SpawnKeeps
  <2>3. Spawned(p, c).state = "running"
    BY <1>1 DEF Spawned, Supervisors
  <2>4. e.s \in Supervisors /\ Holds(e.s) /\ SameCounts(Spawned(p, c), e.s)
    BY <1>5, <2>2, <2>3, NotReadyKeeps DEF Ended, SameCounts
  <2> QED BY <1>1, <2>2, <2>4 DEF SameCounts
<1> QED BY <1>2, <1>3, <1>4, <1>5

\* One more automatic restart, at a time the circuit allows.
LEMMA CountedKeeps ==
  ASSUME NEW s \in Supervisors, Holds(s), CountsStarts(s, clock), clock \in 0..MaxClock,
         ~CircuitOpen(s), ~TooSoon(s)
  PROVE  LET t == CountedRestart(s) IN t \in Supervisors /\ Holds(t) /\ CountsStarts(t, clock)
<1> DEFINE t == CountedRestart(s)
           u == s.starts
           v == Append(u, clock)
           r == s.restarts + 1
<1>0. v \in Seq(Nat) /\ r \in Nat /\ clock \in 0..Never
  BY DEF Supervisors, Never
<1>t. t = [s EXCEPT !.restarts = r, !.last = clock, !.starts = v]
  BY DEF CountedRestart, Supervisors
<1> HIDE DEF t, v, r
<1>1. /\ t \in Supervisors /\ t.restarts = r /\ t.last = clock /\ t.starts = v
      /\ t.process = s.process /\ t.children = s.children /\ t.state = s.state
      /\ t.left = s.left /\ t.warned = s.warned
  BY <1>0, <1>t DEF Supervisors
<1>2. u \in Seq(Nat) /\ s.restarts \in Nat /\ s.last \in 0..Never /\ Spaced(u)
      /\ (u # <<>> => s.last = u[Len(u)] /\ s.last <= clock) /\ Len(u) <= s.restarts
  BY DEF Supervisors, CountsStarts
<1>3. s.restarts < MaxAttempts
  BY <1>2 DEF CircuitOpen
<1>4. u # <<>> => clock - u[Len(u)] >= BackoffSeconds
  BY <1>2 DEF TooSoon, Never
<1> HIDE DEF u
<1>5. /\ v # <<>> /\ Len(v) = Len(u) + 1 /\ v[Len(v)] = clock /\ Len(u) \in Nat
      /\ \A i \in 1..Len(u) : v[i] = u[i]
  BY <1>2 DEF v
<1>6. Spaced(v)
  <2> SUFFICES ASSUME NEW i \in 1 .. Len(v) - 1 PROVE v[i + 1] - v[i] >= BackoffSeconds
    BY DEF Spaced
  <2>1. CASE i = Len(u)
    <3>1. v[i] = u[Len(u)] /\ v[i + 1] = clock /\ u # <<>>
      BY <1>2, <1>5, <2>1
    <3> QED BY <1>4, <3>1
  <2>2. CASE i # Len(u)
    <3>1. i \in 1 .. Len(u) - 1 /\ v[i] = u[i] /\ v[i + 1] = u[i + 1]
      BY <1>5, <2>2
    <3> QED BY <1>2, <3>1 DEF Spaced
  <2> QED BY <2>1, <2>2
<1>7. CountsStarts(t, clock)
  BY <1>1, <1>2, <1>3, <1>5, <1>6 DEF CountsStarts, r
<1> QED BY <1>1, <1>7 DEF Holds, t

LEMMA CountsKept ==
  ASSUME NEW s \in Supervisors, NEW t \in Supervisors, NEW now, CountsStarts(s, now),
         t.last = s.last, t.starts = s.starts, t.restarts \in {s.restarts, s.restarts + 1}
  PROVE  CountsStarts(t, now)
  BY DEF CountsStarts, Supervisors

\* What is kept of a supervisor, wherever an operation of it ends.
Fits(t) == t \in Supervisors /\ Holds(t) /\ CountsStarts(t, clock)

LEMMA StopFits ==
  ASSUME NEW s, Fits(s), NEW e \in StopEnds(s)
  PROVE  Fits(e.s)
  BY StopKeeps, CountsKept DEF Fits, SameCounts

LEMMA StartFits ==
  ASSUME NEW s, Fits(s), clock \in 0..MaxClock, NEW e \in StartEnds(s)
  PROVE  Fits(e.s)
  BY StartKeeps, CountsKept DEF Fits, SameCounts

LEMMA ManualFits ==
  ASSUME NEW s, Fits(s)
  PROVE  Fits(ManualRestart(s))
<1> DEFINE r == s.restarts + 1
           m == s.manual + 1
           t == ManualRestart(s)
<1>0. s \in Supervisors /\ r \in Nat /\ m \in Nat
  BY DEF Fits, Supervisors
<1>1. t = [s EXCEPT !.restarts = r, !.manual = m]
  BY <1>0 DEF ManualRestart, Supervisors
<1> HIDE DEF m, t
<1>2. t \in Supervisors /\ t.last = s.last /\ t.starts = s.starts /\ t.restarts = s.restarts + 1
  BY <1>0, <1>1 DEF Supervisors
<1>3. Holds(t)
  BY <1>0, <1>1 DEF Fits, Holds, Supervisors
<1> QED BY <1>2, <1>3, CountsKept DEF Fits, t

\* Fields that neither say, hold nor count anything.
LEMMA FieldFits ==
  ASSUME NEW s, Fits(s), clock \in 0..MaxClock
  PROVE  /\ Fits([s EXCEPT !.activity = clock])
         /\ Fits([s EXCEPT !.state = "failed"]) /\ Fits([s EXCEPT !.state = "backoff"])
         /\ Fits([s EXCEPT !.process = "dead", !.warned = TRUE]) \/ s.process # "alive"
         /\ s.process # "none" => \A c \in ChildStates : Fits([s EXCEPT !.children = c])
<1>1. s \in Supervisors /\ Holds(s) /\ CountsStarts(s, clock)
  BY DEF Fits
<1>2. ASSUME NEW t \in Supervisors, SameCounts(s, t), Holds(t) PROVE Fits(t)
  BY <1>1, <1>2, CountsKept DEF Fits, SameCounts
<1>c. clock \in Nat
  OBVIOUS
<1>3. Fits([s EXCEPT !.activity = clock])
  BY <1>c, <1>1, <1>2 DEF Supervisors, Holds, SameCounts
<1>4. Fits([s EXCEPT !.state = "failed"]) /\ Fits([s EXCEPT !.state = "backoff"])
  BY <1>1, <1>2 DEF Supervisors, Holds, SameCounts
<1>5. ASSUME s.process = "alive" PROVE Fits([s EXCEPT !.process = "dead", !.warned = TRUE])
  BY <1>1, <1>2, <1>5 DEF Supervisors, Holds, SameCounts
<1>6. ASSUME s.process # "none", NEW c \in ChildStates PROVE Fits([s EXCEPT !.children = c])
  BY <1>1, <1>2, <1>6 DEF Supervisors, Holds, SameCounts
<1> QED BY <1>3, <1>4, <1>5, <1>6

------------------------------------------------------------------------------
(* The steps.                                                              *)

LEMMA SupervisorInvStep ==
  SupervisorInv /\ [SupervisorNext]_supervisorVars => SupervisorInv'
<1> SUFFICES ASSUME SupervisorInv, [SupervisorNext]_supervisorVars PROVE SupervisorInv'
  OBVIOUS
<1>0. clock \in 0..MaxClock /\ supervisors \in [Keys -> Supervisors]
      /\ \A k \in Keys : Fits(supervisors[k])
  BY DEF SupervisorInv, Fits
\* One supervisor changes to one that fits.
<1>1. ASSUME NEW k \in Keys, NEW t, Fits(t), Sets(k, t), clock' = clock PROVE SupervisorInv'
  BY <1>0, <1>1 DEF Sets, Fits, SupervisorInv
<1>2. ASSUME NEW k \in Keys, GetOrStart(k) PROVE SupervisorInv'
  <2>1. PICK e \in StartEnds(supervisors[k]) : Sets(k, e.s)
    BY <1>2 DEF GetOrStart
  <2> QED BY <1>0, <1>1, <1>2, <2>1, StartFits DEF GetOrStart
<1>3. ASSUME NEW k \in Keys, Stop(k) \/ StopNext(k) PROVE SupervisorInv'
  <2>1. PICK e \in StopEnds(supervisors[k]) : Sets(k, e.s)
    BY <1>3 DEF Stop, StopNext
  <2> QED BY <1>0, <1>1, <1>3, <2>1, StopFits DEF Stop, StopNext
<1>4. ASSUME NEW k \in Keys, Restart(k) PROVE SupervisorInv'
  <2>1. PICK e \in StopThen(supervisors[k], FALSE) : Sets(k, e.s)
    BY <1>4 DEF Restart
  <2>2. PICK d \in StopEnds(supervisors[k]) : e = d \/ e \in StartEnds(ManualRestart(d.s))
    BY <2>1 DEF StopThen
  <2>3. Fits(d.s)
    BY <1>0, StopFits
  <2>4. Fits(e.s)
    BY <1>0, <2>2, <2>3, ManualFits, StartFits
  <2> QED BY <1>1, <1>4, <2>1, <2>4 DEF Restart
<1>5. ASSUME NEW k \in Keys, RestartAfterFailure(k) PROVE SupervisorInv'
  <2> DEFINE s == supervisors[k]
             p == Polled(s)
  <2>1. Fits(s)
    BY <1>0
  <2>2. clock' = clock
    BY <1>5 DEF RestartAfterFailure
  <2>3. p \in Supervisors /\ Holds(p) /\ SameCounts(s, p)
    BY <2>1, PolledKeeps DEF Fits
  <2>4. Fits(p)
    BY <2>1, <2>3, CountsKept DEF Fits, SameCounts
  <2> HIDE DEF s
  <2>5. CASE Sets(k, [s EXCEPT !.state = "failed"]) \/ Sets(k, [s EXCEPT !.state = "backoff"])
    BY <1>0, <1>1, <2>1, <2>2, <2>5, FieldFits
  <2>6. CASE /\ ~CircuitOpen(s) /\ ~TooSoon(s)
             /\ \E e \in (IF Running(p) THEN StopThen(p, TRUE)
                          ELSE StartEnds(CountedRestart(p))) : Sets(k, e.s)
    <3> HIDE DEF p
    \* The circuit is closed for whatever counts the same.
    <3>1. ASSUME NEW t, Fits(t), SameCounts(p, t) PROVE Fits(CountedRestart(t))
      <4>1. ~CircuitOpen(t) /\ ~TooSoon(t)
        BY <2>3, <2>6, <3>1 DEF CircuitOpen, TooSoon, SameCounts
      <4> QED BY <1>0, <3>1, <4>1, CountedKeeps DEF Fits
    <3>2. PICK e : /\ Sets(k, e.s)
                   /\ e \in (IF Running(p) THEN StopThen(p, TRUE) ELSE StartEnds(CountedRestart(p)))
      BY <2>6
    <3>3. CASE Running(p)
      <4>1. PICK d \in StopEnds(p) : e = d \/ e \in StartEnds(CountedRestart(d.s))
        BY <3>2, <3>3 DEF StopThen
      <4>2. Fits(d.s) /\ SameCounts(p, d.s)
        BY <2>4, StopFits, StopKeeps DEF Fits
      <4>3. Fits(e.s)
        BY <1>0, <3>1, <4>1, <4>2, StartFits
      <4> QED BY <1>1, <2>2, <3>2, <4>3
    <3>4. CASE ~Running(p)
      <4>1. Fits(CountedRestart(p))
        BY <2>4, <3>1 DEF SameCounts
      <4>2. Fits(e.s)
        BY <1>0, <3>2, <3>4, <4>1, StartFits
      <4> QED BY <1>1, <2>2, <3>2, <4>2
    <3> QED BY <3>3, <3>4
  <2> QED BY <1>5, <2>5, <2>6 DEF RestartAfterFailure, s
<1>6. ASSUME NEW k \in Keys, RecordActivity(k) PROVE SupervisorInv'
  BY <1>0, <1>1, <1>6, FieldFits DEF RecordActivity
<1>7. ASSUME NEW k \in Keys, ReapIfIdle(k) \/ KillIfOver(k) PROVE SupervisorInv'
  <2> DEFINE p == Polled(supervisors[k])
  <2>1. Fits(p)
    <3>1. p \in Supervisors /\ Holds(p) /\ SameCounts(supervisors[k], p)
      BY <1>0, PolledKeeps DEF Fits
    <3> QED BY <1>0, <3>1, CountsKept DEF Fits, SameCounts
  <2>2. \/ Sets(k, p)
        \/ \E e \in StopEnds(p) : Sets(k, e.s) \/ Sets(k, [e.s EXCEPT !.state = "failed"])
    BY <1>7 DEF ReapIfIdle, KillIfOver
  <2>3. clock' = clock
    BY <1>7 DEF ReapIfIdle, KillIfOver
  <2> HIDE DEF p
  <2>4. ASSUME NEW e \in StopEnds(p) PROVE Fits(e.s) /\ Fits([e.s EXCEPT !.state = "failed"])
    BY <1>0, <2>1, StopFits, FieldFits
  <2> QED BY <1>1, <2>1, <2>2, <2>3, <2>4
<1>8. ASSUME NEW k \in Keys, LeaderDies(k) PROVE SupervisorInv'
  BY <1>0, <1>1, <1>8, FieldFits DEF LeaderDies
<1>9. ASSUME NEW k \in Keys, ChildrenChange(k) PROVE SupervisorInv'
  <2>1. PICK c \in ChildStates : Sets(k, [supervisors[k] EXCEPT !.children = c])
    BY <1>9 DEF ChildrenChange
  <2> QED BY <1>0, <1>1, <1>9, <2>1, FieldFits DEF ChildrenChange
<1>10. CASE StopAll \/ UNCHANGED supervisorVars
  BY <1>10 DEF StopAll, supervisorVars, SupervisorInv
<1>11. CASE Tick
  <2>1. clock' \in 0..MaxClock /\ clock' = clock + 1 /\ supervisors' = supervisors
    BY <1>0, <1>11 DEF Tick
  <2>2. \A k \in Keys : supervisors[k] \in Supervisors
    BY <1>0
  <2> QED BY <1>0, <2>1, <2>2 DEF SupervisorInv, CountsStarts, Supervisors
<1> QED BY <1>2, <1>3, <1>4, <1>5, <1>6, <1>7, <1>8, <1>9, <1>10, <1>11 DEF SupervisorNext

\* A supervisor that says running holds a process and one that says stopped
\* none; automatic restarts stay within max_attempts and backoff_seconds apart,
\* whatever manual restarts come in between; and nothing silently leaves living
\* members of a group behind (UpstreamProcessSupervisor, UpstreamProcessRegistry).
THEOREM SupervisorsAreSafe == SupervisorSpec => []SupervisorSafe
<1>1. SupervisorInv => SupervisorSafe
  <2> SUFFICES ASSUME SupervisorInv PROVE SupervisorSafe
    OBVIOUS
  <2>1. HonestState
    BY DEF SupervisorInv, Holds, HonestState
  <2>2. RestartCircuit
    BY DEF SupervisorInv, CountsStarts, Spaced, RestartCircuit
  <2>3. LeftAfterWarning
    BY DEF SupervisorInv, Holds, LeftAfterWarning
  <2> QED BY <2>1, <2>2, <2>3 DEF SupervisorSafe
<1> QED BY <1>1, SupervisorInvInit, SupervisorInvStep, PTL DEF SupervisorSpec

-----------------------------------------------------------------------------
(* A remote upstream: the handshake before every call, one execution a post. *)

USE HttpAssumption

SessionIds == HttpSessions \cup {NoHttp}
HttpRequests ==
  [at : {"idle", "create", "check", "send", "wait"}, client : HttpClients \cup {NoHttp},
   method : {"none", "initialize", "notify", "call"}, sent : SessionIds,
   reply : {"none", "ok", "retryable", "error", "timeout"}, header : SessionIds,
   left : 0..RetryAttempts, result : {"none", "ok", "upstream_error", "upstream_timeout"}]

\* Where a request is, and how often its call has been executed: a post that may
\* still be repeated leaves room for the executions of its retries.
RequestFits(r, n) ==
  /\ r.at \in {"send", "wait"} <=> r.method # "none"
  /\ r.at \in {"check", "send", "wait"} => r.client \in HttpClients
  /\ r.at # "idle" => r.result = "none"
  /\ n <= RetryAttempts + 1
  /\ r.at \in {"create", "check"} \/ r.method \in {"initialize", "notify"} => n = 0
  /\ r.at = "send" => n <= RetryAttempts - r.left
  /\ r.at = "wait" => n <= RetryAttempts + 1 - r.left
  /\ (r.at = "wait" /\ r.method = "call" /\ r.reply = "ok") \/ r.result = "ok" => n >= 1

HttpTypes ==
  /\ registered \in HttpClients \cup {NoHttp}
  /\ clients \in [HttpClients -> [made : BOOLEAN, initialized : BOOLEAN, session : SessionIds]]
  /\ server \in [HttpSessions -> {"unused", "open", "ready", "lost"}]
RequestInv ==
  /\ thread \in [HttpThreads -> HttpRequests] /\ executed \in [HttpThreads -> Nat]
  /\ \A t \in HttpThreads : RequestFits(thread[t], executed[t])

\* Unless two handshakes overlap on a client, it has one at most, before it is
\* initialized; then its session, and any a call is sent under, are past theirs.
Issued(s) == s # NoHttp => server[s] # "unused"
PastHandshake(s) == s # NoHttp => server[s] \in {"ready", "lost"}
Concluded(r) == PastHandshake(r.sent) /\ r.header \in {r.sent, NoHttp}
ClientFits(c) ==
  /\ Issued(clients[c].session)
  /\ c \notin overlapped =>
       /\ \A t, o \in HttpThreads : Handshaking(t, c) /\ Handshaking(o, c) => t = o
       /\ clients[c].initialized => PastHandshake(clients[c].session)
ThreadFits(t) ==
  LET r == thread[t]
      c == r.client IN
  /\ r.at = "wait" => Issued(r.header)
  /\ c \in HttpClients \ overlapped =>
       /\ r.method \in {"initialize", "notify"} => ~clients[c].initialized
       /\ r.method = "call" => clients[c].initialized
       /\ r.at = "wait" /\ r.method = "call" => Concluded(r)
       /\ r.at = "wait" /\ r.method = "notify" /\ r.reply = "ok" =>
            Concluded(r) /\ r.sent = clients[c].session
SessionInv ==
  (\A c \in HttpClients : ClientFits(c)) /\ (\A t \in HttpThreads : ThreadFits(t))

HttpInv == HttpTypes /\ RequestInv /\ SessionInv

LEMMA HttpInvInit == HttpInit => HttpInv
<1> SUFFICES ASSUME HttpInit PROVE HttpInv
  OBVIOUS
<1>1. HttpTypes
  BY DEF HttpInit, HttpTypes, SessionIds
<1>2. IdleThread \in HttpRequests /\ RequestFits(IdleThread, 0)
  BY DEF IdleThread, HttpRequests, SessionIds, RequestFits
<1>3. RequestInv
  BY <1>2 DEF HttpInit, RequestInv
<1>4. SessionInv
  BY DEF HttpInit, SessionInv, Issued, ClientFits, ThreadFits, Handshaking, IdleThread
<1> QED BY <1>1, <1>3, <1>4 DEF HttpInv

\* One thread's request goes on.
LEMMA RequestGoes ==
  ASSUME RequestInv, NEW t \in HttpThreads, NEW r \in HttpRequests, NEW n \in Nat,
         RequestFits(r, n), thread' = [thread EXCEPT ![t] = r],
         executed' = [executed EXCEPT ![t] = n]
  PROVE  RequestInv'
<1>1. thread' \in [HttpThreads -> HttpRequests] /\ executed' \in [HttpThreads -> Nat]
  BY DEF RequestInv
<1>2. ASSUME NEW o \in HttpThreads PROVE RequestFits(thread'[o], executed'[o])
  BY DEF RequestInv
<1> QED BY <1>1, <1>2 DEF RequestInv

LEMMA SameExecuted ==
  ASSUME RequestInv, NEW t \in HttpThreads, UNCHANGED executed
  PROVE  executed[t] \in Nat /\ executed' = [executed EXCEPT ![t] = executed[t]]
BY DEF RequestInv

LEMMA RequestFails ==
  ASSUME RequestInv, NEW t \in HttpThreads, NEW result \in {"ok", "upstream_error", "upstream_timeout"},
         Fails(t, result), result = "ok" => executed[t] >= 1, UNCHANGED executed
  PROVE  RequestInv'
<1>1. [IdleThread EXCEPT !.result = result] \in HttpRequests
  BY DEF IdleThread, HttpRequests, SessionIds
<1>2. executed[t] <= RetryAttempts + 1
  BY DEF RequestInv, RequestFits
<1>3. RequestFits([IdleThread EXCEPT !.result = result], executed[t])
  BY <1>2 DEF RequestFits, IdleThread
<1> QED BY <1>1, <1>3, SameExecuted, RequestGoes DEF Fails

\* A thread posts a request.
LEMMA RequestPosts ==
  ASSUME RequestInv, NEW t \in HttpThreads, NEW method \in {"initialize", "notify", "call"},
         thread[t].at = "check" \/ thread[t].method \in {"initialize", "notify"},
         thread' = [thread EXCEPT ![t] = Post(t, method)], UNCHANGED executed
  PROVE  RequestInv'
<1> DEFINE r == Post(t, method)
<1>1. thread[t] \in HttpRequests /\ RequestFits(thread[t], executed[t]) /\ executed[t] \in Nat
  BY DEF RequestInv
<1>2. executed[t] = 0 /\ thread[t].client \in HttpClients /\ thread[t].result = "none"
  BY <1>1 DEF RequestFits, HttpRequests
<1>3. r \in HttpRequests
  <2>1. RetryAttempts \in 0..RetryAttempts /\ "send" \in {"idle", "create", "check", "send", "wait"}
    OBVIOUS
  <2>2. method \in {"none", "initialize", "notify", "call"}
    OBVIOUS
  <2> QED BY <1>1, <2>1, <2>2 DEF Post, HttpRequests
<1>4. RequestFits(r, 0)
  BY <1>1, <1>2 DEF Post, RequestFits, HttpRequests
<1> HIDE DEF r
<1> QED BY <1>2, <1>3, <1>4, SameExecuted, RequestGoes DEF r

LEMMA RequestStep ==
  ASSUME HttpTypes, RequestInv, [HttpNext]_httpVars
  PROVE  RequestInv'
<1>t. ASSUME NEW t \in HttpThreads
      PROVE  thread[t] \in HttpRequests /\ RequestFits(thread[t], executed[t]) /\ executed[t] \in Nat
  BY DEF RequestInv
<1>1. ASSUME NEW t \in HttpThreads, LookUp(t) PROVE RequestInv'
  <2> DEFINE r == [IdleThread EXCEPT !.at = IF registered = NoHttp THEN "create" ELSE "check",
                                     !.client = registered]
  <2>1. PICK at \in {"create", "check"}, c \in HttpClients \cup {NoHttp} :
          r = [IdleThread EXCEPT !.at = at, !.client = c] /\ (at = "check" => c \in HttpClients)
    BY DEF HttpTypes
  <2>3. 0 \in 0..RetryAttempts
    OBVIOUS
  <2>4. r \in HttpRequests
    BY <2>1, <2>3 DEF IdleThread, HttpRequests, SessionIds
  <2>6. r.at = at /\ r.client = c /\ r.method = "none" /\ r.result = "none"
    BY <2>1 DEF IdleThread
  <2>2. thread' = [thread EXCEPT ![t] = r] /\ executed' = [executed EXCEPT ![t] = 0]
    BY <1>1 DEF LookUp
  <2> HIDE DEF r
  <2>5. RequestFits(r, 0)
    BY <2>1, <2>6 DEF RequestFits
  <2> QED BY <2>2, <2>4, <2>5, RequestGoes
<1>2. ASSUME NEW t \in HttpThreads, Create(t) PROVE RequestInv'
  <2>1. PICK c \in HttpClients : thread' = [thread EXCEPT ![t].at = "check", ![t].client = c]
    BY <1>2 DEF Create
  <2> DEFINE r == [thread[t] EXCEPT !.at = "check", !.client = c]
  <2>2. r \in HttpRequests
    BY <1>t DEF HttpRequests
  <2>3. RequestFits(r, executed[t])
    BY <1>2, <1>t DEF Create, RequestFits, HttpRequests
  <2>4. thread' = [thread EXCEPT ![t] = r]
    BY <2>1 DEF RequestInv, HttpRequests
  <2> HIDE DEF r
  <2> QED BY <1>2, <1>t, <2>2, <2>3, <2>4, SameExecuted, RequestGoes DEF Create
<1>3. ASSUME NEW t \in HttpThreads, CheckInitialized(t) PROVE RequestInv'
  <2>1. PICK method \in {"initialize", "notify", "call"} : thread' = [thread EXCEPT ![t] = Post(t, method)]
    BY <1>3 DEF CheckInitialized
  <2> QED BY <1>3, <2>1, RequestPosts DEF CheckInitialized
<1>4. ASSUME NEW t \in HttpThreads, SendRefused(t) PROVE RequestInv'
  BY <1>4, RequestFails DEF SendRefused
<1>5. ASSUME NEW t \in HttpThreads, Send(t) PROVE RequestInv'
  <2>1. PICK reply \in {"ok", "retryable", "error", "timeout"}, header \in SessionIds :
          /\ thread' = [thread EXCEPT ![t].at = "wait", ![t].sent = clients[thread[t].client].session,
                                      ![t].reply = reply, ![t].header = header]
          /\ \/ thread[t].method # "call" /\ UNCHANGED executed
             \/ /\ thread[t].method = "call"
                /\ \E k \in {0, 1} : /\ reply = "ok" => k = 1
                                     /\ executed' = [executed EXCEPT ![t] = @ + k]
    <3>1. thread[t].method \in {"initialize", "notify", "call"}
      BY <1>5, <1>t DEF Send, RequestFits, HttpRequests
    <3>2. CASE thread[t].method = "initialize"
      BY <1>5, <3>2 DEF Send, SessionIds
    <3>3. CASE thread[t].method = "notify"
      BY <1>5, <3>3 DEF Send, SessionIds
    <3>4. CASE thread[t].method = "call"
      BY <1>5, <3>4 DEF Send, SessionIds
    <3> QED BY <3>1, <3>2, <3>3, <3>4
  <2>2. PICK s \in SessionIds : s = clients[thread[t].client].session
    BY <1>5, <1>t DEF Send, RequestFits, HttpTypes
  <2> DEFINE r == [thread[t] EXCEPT !.at = "wait", !.sent = s, !.reply = reply, !.header = header]
  <2>3. r \in HttpRequests /\ thread' = [thread EXCEPT ![t] = r]
    <3>1. thread[t] \in HttpRequests
      BY <1>t DEF RequestInv
    <3>2. r \in HttpRequests
      BY <2>1, <2>2, <3>1 DEF HttpRequests
    <3>3. thread' = [thread EXCEPT ![t] = r]
      BY <2>1, <2>2, <3>1 DEF HttpRequests
    <3> QED BY <3>2, <3>3
  <2>4. PICK n \in Nat : /\ executed' = [executed EXCEPT ![t] = n]
                         /\ n = executed[t] \/ (n = executed[t] + 1 /\ thread[t].method = "call")
                         /\ thread[t].method = "call" /\ reply = "ok" => n = executed[t] + 1
    <3>1. CASE UNCHANGED executed /\ thread[t].method # "call"
      BY <1>t, <3>1, SameExecuted
    <3>2. CASE thread[t].method = "call" /\ executed' = [executed EXCEPT ![t] = @ + 0] /\ reply # "ok"
      <4>1. executed[t] + 0 = executed[t] /\ executed[t] \in Nat
        BY <1>t
      <4> QED BY <3>2, <4>1
    <3>3. CASE thread[t].method = "call" /\ executed' = [executed EXCEPT ![t] = @ + 1]
      <4>1. executed[t] + 1 \in Nat
        BY <1>t
      <4> QED BY <3>3, <4>1
    <3> QED BY <2>1, <3>1, <3>2, <3>3
  <2>5. /\ r.at = "wait" /\ r.method = thread[t].method /\ r.client = thread[t].client
        /\ r.result = thread[t].result /\ r.left = thread[t].left /\ r.reply = reply
        /\ thread[t].at = "send" /\ thread[t].left \in 0..RetryAttempts
    BY <1>5, <1>t DEF Send, HttpRequests
  <2> HIDE DEF r
  <2>6. RequestFits(r, n)
    BY <1>t, <2>4, <2>5 DEF RequestFits
  <2> QED BY <2>3, <2>4, <2>6, RequestGoes
<1>6. ASSUME NEW s \in HttpSessions, ForgetSession(s) PROVE RequestInv'
  BY <1>6 DEF ForgetSession, RequestInv
<1>7. ASSUME NEW t \in HttpThreads, Retry(t) PROVE RequestInv'
  <2> DEFINE r == [thread[t] EXCEPT !.at = "send", !.left = @ - 1]
  <2>1. thread[t].left \in 0..RetryAttempts /\ thread[t].left > 0 /\ thread[t].at = "wait"
    BY <1>7, <1>t DEF Retry, Retries, HttpRequests
  <2>2. thread[t].left - 1 \in 0..RetryAttempts
    BY <2>1
  <2>3. r \in HttpRequests /\ thread' = [thread EXCEPT ![t] = r]
    BY <1>7, <1>t, <2>2 DEF Retry, RequestInv, HttpRequests
  <2>4. /\ r.at = "send" /\ r.method = thread[t].method /\ r.client = thread[t].client
        /\ r.result = thread[t].result /\ r.left = thread[t].left - 1
    BY <1>t DEF HttpRequests
  <2> HIDE DEF r
  <2>5. RequestFits(r, executed[t])
    BY <1>t, <2>1, <2>4 DEF RequestFits
  <2> QED BY <1>7, <1>t, <2>3, <2>5, SameExecuted, RequestGoes DEF Retry
<1>8. ASSUME NEW t \in HttpThreads, GiveUp(t) PROVE RequestInv'
  BY <1>8, RequestFails DEF GiveUp
<1>9. ASSUME NEW t \in HttpThreads, Answered(t) PROVE RequestInv'
  <2>1. UNCHANGED executed
    BY <1>9 DEF Answered
  <2>2. CASE thread[t].method = "initialize" /\ thread' = [thread EXCEPT ![t] = Post(t, "notify")]
    BY <2>1, <2>2, RequestPosts
  <2>3. CASE thread[t].method = "notify" /\ thread' = [thread EXCEPT ![t] = Post(t, "call")]
    BY <2>1, <2>3, RequestPosts
  <2>4. CASE thread[t].method = "call" /\ Fails(t, "ok")
    <3>1. executed[t] >= 1
      BY <1>9, <1>t, <2>4 DEF Answered, RequestFits
    <3> QED BY <2>1, <2>4, <3>1, RequestFails
  <2>5. CASE Fails(t, "upstream_error")
    BY <2>1, <2>5, RequestFails
  <2> QED BY <1>9, <2>2, <2>3, <2>4, <2>5 DEF Answered
<1>10. CASE UNCHANGED httpVars
  BY <1>10 DEF httpVars, RequestInv
<1> QED BY <1>1, <1>2, <1>3, <1>4, <1>5, <1>6, <1>7, <1>8, <1>9, <1>10 DEF HttpNext

LEMMA HttpTypesStep ==
  ASSUME HttpTypes, RequestInv, [HttpNext]_httpVars
  PROVE  HttpTypes'
<1>t. ASSUME NEW t \in HttpThreads
      PROVE  thread[t] \in HttpRequests /\ RequestFits(thread[t], executed[t])
  BY DEF RequestInv
<1>1. ASSUME NEW t \in HttpThreads, Create(t) PROVE HttpTypes'
  <2>1. PICK c \in HttpClients : registered' = c /\ clients' = [clients EXCEPT ![c].made = TRUE]
    BY <1>1 DEF Create
  <2>2. clients' \in [HttpClients -> [made : BOOLEAN, initialized : BOOLEAN, session : SessionIds]]
    BY <2>1 DEF HttpTypes
  <2> QED BY <1>1, <2>1, <2>2 DEF Create, HttpTypes
<1>2. ASSUME NEW t \in HttpThreads, Send(t) PROVE HttpTypes'
  <2>1. UNCHANGED <<registered, clients>>
    BY <1>2 DEF Send
  <2>2. server' \in [HttpSessions -> {"unused", "open", "ready", "lost"}]
    BY <1>2 DEF Send, HttpTypes
  <2> QED BY <2>1, <2>2 DEF HttpTypes
<1>3. ASSUME NEW s \in HttpSessions, ForgetSession(s) PROVE HttpTypes'
  BY <1>3 DEF ForgetSession, HttpTypes
<1>4. ASSUME NEW t \in HttpThreads, Answered(t) PROVE HttpTypes'
  <2>1. UNCHANGED <<registered, server>>
    BY <1>4 DEF Answered
  <2>2. PICK c \in HttpClients, s \in SessionIds :
          \/ clients' = [clients EXCEPT ![c].session = s]
          \/ clients' = [clients EXCEPT ![c].session = s, ![c].initialized = TRUE]
    <3>1. thread[t].client \in HttpClients /\ thread[t].header \in SessionIds
      BY <1>4, <1>t DEF Answered, RequestFits, HttpRequests
    <3>2. clients[thread[t].client].session \in SessionIds
      BY <3>1 DEF HttpTypes
    <3> QED BY <1>4, <3>1, <3>2 DEF Answered
  <2>3. clients' \in [HttpClients -> [made : BOOLEAN, initialized : BOOLEAN, session : SessionIds]]
    BY <2>2 DEF HttpTypes
  <2> QED BY <2>1, <2>3 DEF HttpTypes
<1>5. ASSUME NEW t \in HttpThreads, LookUp(t) \/ CheckInitialized(t) \/ SendRefused(t) \/ Retry(t) \/ GiveUp(t)
      PROVE  HttpTypes'
  BY <1>5 DEF LookUp, CheckInitialized, SendRefused, Retry, GiveUp, HttpTypes
<1>6. CASE UNCHANGED httpVars
  BY <1>6 DEF httpVars, HttpTypes
<1> QED BY <1>1, <1>2, <1>3, <1>4, <1>5, <1>6 DEF HttpNext

\* A session never goes back to the state before its handshake.
ServerMovesOn ==
  \A s \in HttpSessions : /\ server[s] # "unused" => server'[s] # "unused"
                          /\ server[s] \in {"ready", "lost"} => server'[s] \in {"ready", "lost"}

LEMMA MovesOn ==
  ASSUME ServerMovesOn, NEW s \in SessionIds
  PROVE  (Issued(s) => Issued(s)') /\ (PastHandshake(s) => PastHandshake(s)')
BY DEF ServerMovesOn, SessionIds, Issued, PastHandshake

\* A thread that rests, while others change its client only before or after the
\* handshake.
LEMMA ThreadRests ==
  ASSUME RequestInv, ServerMovesOn, overlapped \subseteq overlapped',
         NEW t \in HttpThreads, ThreadFits(t), thread'[t] = thread[t],
         \A c \in HttpClients \ overlapped' :
           thread[t].client = c =>
             \/ thread[t].method = "none"
             \/ clients[c].initialized /\ clients'[c].initialized
             \/ /\ clients'[c].initialized = clients[c].initialized
                /\ clients'[c].session = clients[c].session
  PROVE  ThreadFits(t)'
<1> DEFINE r == thread[t]
           c == r.client
<1>1. r \in HttpRequests /\ r.header \in SessionIds /\ r.sent \in SessionIds
  BY DEF RequestInv, HttpRequests
<1>2. Issued(r.header) => Issued(r.header)'
  BY <1>1, MovesOn
<1>3. Concluded(r) => Concluded(r)'
  BY <1>1, MovesOn DEF Concluded
<1>4. ASSUME c \in HttpClients \ overlapped'
      PROVE  /\ r.method \in {"initialize", "notify"} => ~clients'[c].initialized
             /\ r.method = "call" => clients'[c].initialized
             /\ r.at = "wait" /\ r.method = "call" => Concluded(r)
             /\ r.at = "wait" /\ r.method = "notify" /\ r.reply = "ok" =>
                  Concluded(r) /\ r.sent = clients'[c].session
  BY <1>4 DEF ThreadFits
<1> QED BY <1>2, <1>3, <1>4 DEF ThreadFits, Concluded, Issued, PastHandshake

\* The clients rest, and no handshake begins but alone.
LEMMA ClientRests ==
  ASSUME HttpTypes, ServerMovesOn, overlapped \subseteq overlapped', NEW c \in HttpClients, ClientFits(c),
         clients'[c].initialized = clients[c].initialized, clients'[c].session = clients[c].session,
         c \notin overlapped' =>
           \/ \A t \in HttpThreads : Handshaking(t, c)' => Handshaking(t, c)
           \/ \E o \in HttpThreads : \A t \in HttpThreads : Handshaking(t, c)' => t = o
  PROVE  ClientFits(c)'
<1>1. PICK s \in SessionIds : s = clients[c].session
  BY DEF HttpTypes
<1>2. Issued(s)'
  BY <1>1, MovesOn DEF ClientFits
<1>3. c \notin overlapped' /\ clients'[c].initialized => PastHandshake(s)'
  BY <1>1, MovesOn DEF ClientFits
<1>4. ASSUME c \notin overlapped', NEW t \in HttpThreads, NEW o \in HttpThreads,
             Handshaking(t, c)', Handshaking(o, c)'
      PROVE  t = o
  BY <1>4 DEF ClientFits
<1> QED BY <1>1, <1>2, <1>3, <1>4 DEF ClientFits, Issued, PastHandshake

\* A step of thread t that leaves the clients' handshakes and sessions alone.
LEMMA ThreadMoves ==
  ASSUME HttpTypes, RequestInv, SessionInv, ServerMovesOn, overlapped \subseteq overlapped',
         \A c \in HttpClients : /\ clients'[c].initialized = clients[c].initialized
                                /\ clients'[c].session = clients[c].session,
         NEW t \in HttpThreads, \A o \in HttpThreads \ {t} : thread'[o] = thread[o],
         \A c \in HttpClients \ overlapped' :
           Handshaking(t, c)' =>
             Handshaking(t, c) \/ \A o \in HttpThreads \ {t} : ~Handshaking(o, c),
         ThreadFits(t)'
  PROVE  SessionInv'
<1>1. ASSUME NEW o \in HttpThreads PROVE ThreadFits(o)'
  BY ThreadRests DEF SessionInv
<1>2. ASSUME NEW c \in HttpClients PROVE ClientFits(c)'
  <2>1. \A o \in HttpThreads \ {t} : Handshaking(o, c)' => Handshaking(o, c)
    BY DEF Handshaking
  <2>2. CASE c \in overlapped' \/ Handshaking(t, c) \/ ~Handshaking(t, c)'
    BY <2>1, <2>2, ClientRests DEF SessionInv
  <2>3. CASE c \notin overlapped' /\ \A o \in HttpThreads \ {t} : ~Handshaking(o, c)
    <3>1. \A o \in HttpThreads : Handshaking(o, c)' => o = t
      BY <2>1, <2>3
    <3> QED BY <3>1, ClientRests DEF SessionInv
  <2> QED BY <2>2, <2>3
<1> QED BY <1>1, <1>2 DEF SessionInv

\* A thread that does not hold a request on the wire claims nothing.
LEMMA Silent ==
  ASSUME NEW t \in HttpThreads, thread[t].method = "none", thread[t].at # "wait"
  PROVE  ThreadFits(t)
BY DEF ThreadFits

LEMMA SessionStep ==
  ASSUME HttpTypes, RequestInv, SessionInv, [HttpNext]_httpVars
  PROVE  SessionInv'
<1>t. ASSUME NEW t \in HttpThreads
      PROVE  /\ thread[t] \in HttpRequests /\ RequestFits(thread[t], executed[t])
             /\ thread[t].header \in SessionIds /\ thread[t].sent \in SessionIds
  BY DEF RequestInv, HttpRequests
<1>s. UNCHANGED server => ServerMovesOn
  BY DEF ServerMovesOn
<1>c. UNCHANGED clients => \A c \in HttpClients : /\ clients'[c].initialized = clients[c].initialized
                                                  /\ clients'[c].session = clients[c].session
  OBVIOUS
<1>i. IdleThread.method = "none" /\ IdleThread.at = "idle"
  BY DEF IdleThread
<1>1. ASSUME NEW t \in HttpThreads, LookUp(t) PROVE SessionInv'
  <2>1. /\ thread'[t].method = "none" /\ thread'[t].at # "wait"
        /\ \A o \in HttpThreads \ {t} : thread'[o] = thread[o]
    BY <1>1, <1>t DEF LookUp, RequestInv, IdleThread
  <2>2. ThreadFits(t)' /\ \A c \in HttpClients : ~Handshaking(t, c)'
    BY <2>1 DEF ThreadFits, Handshaking
  <2> QED BY <1>1, <1>s, <1>c, <2>1, <2>2, ThreadMoves DEF LookUp
<1>2. ASSUME NEW t \in HttpThreads, Create(t) PROVE SessionInv'
  <2>1. PICK c \in HttpClients : /\ thread' = [thread EXCEPT ![t].at = "check", ![t].client = c]
                                 /\ clients' = [clients EXCEPT ![c].made = TRUE]
    BY <1>2 DEF Create
  <2>2. /\ thread'[t].method = "none" /\ thread'[t].at # "wait"
        /\ \A o \in HttpThreads \ {t} : thread'[o] = thread[o]
    BY <1>2, <1>t, <2>1 DEF Create, RequestInv, RequestFits, HttpRequests
  <2>3. ThreadFits(t)' /\ \A x \in HttpClients : ~Handshaking(t, x)'
    BY <2>2 DEF ThreadFits, Handshaking
  <2>4. \A x \in HttpClients : /\ clients'[x].initialized = clients[x].initialized
                               /\ clients'[x].session = clients[x].session
    BY <2>1 DEF HttpTypes
  <2> QED BY <1>2, <1>s, <2>2, <2>3, <2>4, ThreadMoves DEF Create
<1>3. ASSUME NEW t \in HttpThreads, CheckInitialized(t) PROVE SessionInv'
  <2> DEFINE c == thread[t].client
  <2>1. c \in HttpClients
    BY <1>3, <1>t DEF CheckInitialized, RequestFits
  <2>2. /\ thread'[t].client = c /\ thread'[t].at = "send"
        /\ thread'[t].method = IF clients[c].initialized THEN "call" ELSE "initialize"
        /\ \A o \in HttpThreads \ {t} : thread'[o] = thread[o]
    BY <1>3, <1>t DEF CheckInitialized, Post, RequestInv, HttpRequests
  <2>3. /\ overlapped \subseteq overlapped' /\ UNCHANGED <<clients, server>>
        /\ c \notin overlapped' =>
             clients[c].initialized \/ \A o \in HttpThreads \ {t} : ~Handshaking(o, c)
    BY <1>3 DEF CheckInitialized
  <2>4. ThreadFits(t)'
    BY <2>2, <2>3 DEF ThreadFits
  <2>5. \A x \in HttpClients \ overlapped' :
          Handshaking(t, x)' => \A o \in HttpThreads \ {t} : ~Handshaking(o, x)
    BY <2>2, <2>3 DEF Handshaking
  <2> QED BY <1>s, <1>c, <2>2, <2>3, <2>4, <2>5, ThreadMoves
<1>4. ASSUME NEW t \in HttpThreads, SendRefused(t) \/ GiveUp(t) PROVE SessionInv'
  <2>1. /\ thread'[t].method = "none" /\ thread'[t].at # "wait"
        /\ \A o \in HttpThreads \ {t} : thread'[o] = thread[o]
    BY <1>4, <1>t DEF SendRefused, GiveUp, Fails, RequestInv, IdleThread
  <2>2. ThreadFits(t)' /\ \A c \in HttpClients : ~Handshaking(t, c)'
    BY <2>1 DEF ThreadFits, Handshaking
  <2> QED BY <1>4, <1>s, <1>c, <2>1, <2>2, ThreadMoves DEF SendRefused, GiveUp
<1>5. ASSUME NEW t \in HttpThreads, Retry(t) PROVE SessionInv'
  <2>1. /\ thread'[t].at = "send" /\ thread'[t].client = thread[t].client
        /\ thread'[t].method = thread[t].method
        /\ \A o \in HttpThreads \ {t} : thread'[o] = thread[o]
    BY <1>5, <1>t DEF Retry, RequestInv, HttpRequests
  <2>2. ThreadFits(t)'
    BY <1>5, <2>1 DEF Retry, ThreadFits, SessionInv
  <2>3. \A c \in HttpClients : Handshaking(t, c)' => Handshaking(t, c)
    BY <2>1 DEF Handshaking
  <2> QED BY <1>5, <1>s, <1>c, <2>1, <2>2, <2>3, ThreadMoves DEF Retry
<1>6. ASSUME NEW s \in HttpSessions, ForgetSession(s) PROVE SessionInv'
  <2>1. ServerMovesOn /\ UNCHANGED <<clients, thread, overlapped>>
    BY <1>6 DEF ForgetSession, ServerMovesOn, HttpTypes
  <2>2. ASSUME NEW c \in HttpClients PROVE ClientFits(c)'
    BY <2>1, ClientRests DEF SessionInv, Handshaking
  <2>3. ASSUME NEW o \in HttpThreads PROVE ThreadFits(o)'
    BY <2>1, ThreadRests DEF SessionInv
  <2> QED BY <2>2, <2>3 DEF SessionInv
<1>7. CASE UNCHANGED httpVars
  <2>1. ServerMovesOn /\ UNCHANGED <<clients, thread, overlapped>>
    BY <1>7, <1>s DEF httpVars
  <2>2. ASSUME NEW c \in HttpClients PROVE ClientFits(c)'
    BY <2>1, ClientRests DEF SessionInv, Handshaking
  <2>3. ASSUME NEW o \in HttpThreads PROVE ThreadFits(o)'
    BY <2>1, ThreadRests DEF SessionInv
  <2> QED BY <2>2, <2>3 DEF SessionInv
<1>8. ASSUME NEW t \in HttpThreads, Send(t) PROVE SessionInv'
  <2> DEFINE r == thread[t]
  <2>1. PICK c \in HttpClients, s \in SessionIds :
          c = r.client /\ s = clients[c].session /\ ClientFits(c) /\ ThreadFits(t)
    BY <1>8, <1>t DEF Send, RequestFits, HttpTypes, SessionInv
  <2>2. PICK reply \in {"ok", "retryable", "error", "timeout"}, header \in SessionIds :
          /\ thread' = [thread EXCEPT ![t].at = "wait", ![t].sent = s,
                                      ![t].reply = reply, ![t].header = header]
          /\ \/ /\ r.method = "initialize" /\ header \in FreshSessions \cup {NoHttp}
                /\ server' = [x \in HttpSessions |-> IF x = header THEN "open" ELSE server[x]]
             \/ /\ r.method = "notify" /\ header \in {s, NoHttp}
                /\ server' = [x \in HttpSessions |->
                                IF x = s /\ server[x] = "open" /\ reply # "error"
                                THEN "ready" ELSE server[x]]
             \/ r.method = "call" /\ header \in {s, NoHttp} /\ UNCHANGED server
    <3>1. r.method \in {"initialize", "notify", "call"}
      BY <1>8, <1>t DEF Send, RequestFits, HttpRequests
    <3>2. CASE r.method = "initialize"
      BY <1>8, <2>1, <3>2 DEF Send, SessionIds
    <3>3. CASE r.method = "notify"
      <4>1. PICK reply \in {"ok", "retryable", "error", "timeout"}, header \in HttpSessions \cup {NoHttp} :
              /\ thread' = [thread EXCEPT ![t].at = "wait", ![t].sent = clients[r.client].session,
                                          ![t].reply = reply, ![t].header = header]
              /\ header \in {clients[r.client].session, NoHttp}
              /\ server' = [x \in HttpSessions |->
                              IF x = clients[r.client].session /\ server[x] = "open" /\ reply # "error"
                              THEN "ready" ELSE server[x]]
        BY <1>8, <3>3 DEF Send
      <4>2. clients[r.client].session = s /\ header \in SessionIds
        BY <2>1 DEF SessionIds
      <4> QED BY <3>3, <4>1, <4>2
    <3>4. CASE r.method = "call"
      BY <1>8, <2>1, <3>4 DEF Send, SessionIds
    <3> QED BY <3>1, <3>2, <3>3, <3>4
  <2>3. /\ thread'[t].at = "wait" /\ thread'[t].sent = s /\ thread'[t].reply = reply
        /\ thread'[t].header = header /\ thread'[t].client = c /\ thread'[t].method = r.method
        /\ \A o \in HttpThreads \ {t} : thread'[o] = thread[o]
    BY <1>t, <2>1, <2>2 DEF RequestInv, HttpRequests
  <2>4. \A x \in FreshSessions : x \in HttpSessions /\ server[x] = "unused"
    BY DEF FreshSessions
  <2>5. ServerMovesOn
    BY <2>2, <2>4 DEF ServerMovesOn
  <2>6. Issued(header)'
    <3>1. CASE r.method = "initialize" /\ header \in FreshSessions \cup {NoHttp}
      BY <2>2, <2>4, <3>1 DEF Issued
    <3>2. CASE header \in {s, NoHttp}
      BY <2>1, <2>5, <3>2, MovesOn DEF ClientFits, Issued
    <3> QED BY <2>2, <3>1, <3>2
  <2>7. ASSUME c \notin overlapped, r.method = "call"
        PROVE  clients[c].initialized /\ PastHandshake(s)' /\ header \in {s, NoHttp}
    <3>1. clients[c].initialized /\ PastHandshake(s)
      BY <2>1, <2>7 DEF ClientFits, ThreadFits
    <3> QED BY <2>2, <2>5, <2>7, <3>1, MovesOn
  <2>8. ASSUME r.method = "notify", reply = "ok"
        PROVE  PastHandshake(s)' /\ header \in {s, NoHttp}
    BY <2>1, <2>2, <2>8 DEF PastHandshake, Issued, ClientFits, HttpTypes, SessionIds
  <2>9. ThreadFits(t)'
    <3>1. c \notin overlapped /\ r.method \in {"initialize", "notify"} => ~clients[c].initialized
      BY <2>1 DEF ThreadFits
    <3>2. UNCHANGED <<clients, overlapped>>
      BY <1>8 DEF Send
    <3> QED BY <2>1, <2>3, <2>6, <2>7, <2>8, <3>1, <3>2 DEF ThreadFits, Issued, PastHandshake, Concluded
  <2>10. \A x \in HttpClients : Handshaking(t, x)' => Handshaking(t, x)
    BY <2>1, <2>3 DEF Handshaking
  <2> QED BY <1>8, <1>c, <2>3, <2>5, <2>9, <2>10, ThreadMoves DEF Send
<1>9. ASSUME NEW t \in HttpThreads, Answered(t) PROVE SessionInv'
  <2> DEFINE r == thread[t]
             old == clients[r.client].session
  <2>1. PICK c \in HttpClients : c = r.client /\ ClientFits(c) /\ ThreadFits(t)
    BY <1>9, <1>t DEF Answered, RequestFits, SessionInv
  <2>2. PICK s \in SessionIds : s = (IF r.header = NoHttp THEN old ELSE r.header)
    BY <1>t, <2>1 DEF HttpTypes
  <2>3. ServerMovesOn /\ UNCHANGED <<server, overlapped>>
    BY <1>9, <1>s DEF Answered
  <2>4. Issued(s) /\ Issued(s)'
    BY <1>9, <2>1, <2>2, <2>3, MovesOn DEF Answered, ClientFits, ThreadFits
  <2>a. \/ /\ r.method = "initialize" /\ thread' = [thread EXCEPT ![t] = Post(t, "notify")]
           /\ clients' = [clients EXCEPT ![c].session = s]
        \/ /\ r.method = "notify" /\ thread' = [thread EXCEPT ![t] = Post(t, "call")]
           /\ clients' = [clients EXCEPT ![c].session = s, ![c].initialized = TRUE]
        \/ /\ Fails(t, "ok") \/ Fails(t, "upstream_error")
           /\ clients' = [clients EXCEPT ![c].session = s]
    BY <1>9, <2>1, <2>2 DEF Answered
  <2>p. ASSUME NEW method, thread' = [thread EXCEPT ![t] = Post(t, method)]
        PROVE  thread'[t].at = "send" /\ thread'[t].client = c /\ thread'[t].method = method
    BY <1>t, <2>1, <2>p DEF Post, RequestInv, HttpRequests
  <2>f. ASSUME NEW result, Fails(t, result)
        PROVE  thread'[t].at = "idle" /\ thread'[t].method = "none"
    BY <2>f DEF Fails, RequestInv, IdleThread
  <2>5. /\ \A o \in HttpThreads \ {t} : thread'[o] = thread[o]
        /\ \/ thread'[t].method = "none" /\ thread'[t].at = "idle"
           \/ /\ thread'[t].at = "send" /\ thread'[t].client = c
              /\ \/ r.method = "initialize" /\ thread'[t].method = "notify"
                 \/ r.method = "notify" /\ thread'[t].method = "call"
    <3>1. \A o \in HttpThreads \ {t} : thread'[o] = thread[o]
      BY <2>a DEF Fails, RequestInv
    <3> QED BY <2>a, <2>p, <2>f, <3>1
  <2>6. /\ clients'[c].session = s
        /\ \/ clients'[c].initialized = clients[c].initialized /\ thread'[t].method # "call"
           \/ clients'[c].initialized /\ r.method = "notify"
        /\ \A x \in HttpClients \ {c} : clients'[x] = clients[x]
    <3>1. CASE clients' = [clients EXCEPT ![c].session = s] /\ thread'[t].method # "call"
      BY <2>1, <3>1 DEF HttpTypes
    <3>2. CASE clients' = [clients EXCEPT ![c].session = s, ![c].initialized = TRUE] /\ r.method = "notify"
      BY <2>1, <3>2 DEF HttpTypes
    <3> QED BY <2>a, <2>p, <2>f, <3>1, <3>2
  <2>7. ASSUME c \notin overlapped, clients'[c].initialized PROVE PastHandshake(s)
    <3>1. r.at = "wait" /\ r.reply = "ok" /\ r.method \in {"initialize", "notify", "call"}
      BY <1>9, <1>t DEF Answered, RequestFits, HttpRequests
    <3>2. CASE r.method = "initialize"
      BY <2>1, <2>6, <2>7, <3>2 DEF ThreadFits
    <3>3. CASE r.method = "notify"
      BY <2>1, <2>2, <2>7, <3>1, <3>3 DEF ThreadFits, Concluded
    <3>4. CASE r.method = "call"
      BY <2>1, <2>2, <2>7, <3>1, <3>4 DEF ThreadFits, Concluded, ClientFits
    <3> QED BY <3>1, <3>2, <3>3, <3>4
  <2>8. ASSUME NEW o \in HttpThreads \ {t}, c \notin overlapped, thread[o].client = c
        PROVE  \/ thread[o].method = "none"
               \/ clients[c].initialized /\ clients'[c].initialized
    <3>1. thread[o].method \in {"none", "initialize", "notify", "call"} /\ ThreadFits(o)
      BY <1>t DEF HttpRequests, SessionInv
    <3>2. r.method \in {"initialize", "notify", "call"}
      BY <1>9, <1>t DEF Answered, RequestFits, HttpRequests
    <3>3. CASE r.method = "call"
      BY <2>1, <2>6, <2>8, <3>3 DEF ThreadFits
    <3>4. CASE r.method \in {"initialize", "notify"}
      BY <2>1, <2>8, <3>1, <3>4 DEF ThreadFits, ClientFits, Handshaking
    <3> QED BY <3>2, <3>3, <3>4
  <2>9. ASSUME NEW o \in HttpThreads PROVE ThreadFits(o)'
    <3>1. CASE o # t
      BY <2>3, <2>5, <2>6, <2>8, <3>1, ThreadRests DEF SessionInv
    <3>2. CASE o = t
      BY <2>1, <2>3, <2>5, <2>6, <3>2 DEF ThreadFits
    <3> QED BY <3>1, <3>2
  <2>10. \A x \in HttpClients, o \in HttpThreads : Handshaking(o, x)' => Handshaking(o, x)
    BY <2>1, <2>5 DEF Handshaking
  <2>11. ClientFits(c)'
    <3>1. c \notin overlapped' /\ clients'[c].initialized => PastHandshake(s)'
      BY <2>3, <2>7, MovesOn
    <3>2. ASSUME c \notin overlapped', NEW o \in HttpThreads, NEW p \in HttpThreads,
                 Handshaking(o, c)', Handshaking(p, c)'
          PROVE  o = p
      BY <2>1, <2>3, <2>10, <3>2 DEF ClientFits
    <3> QED BY <2>4, <2>6, <3>1, <3>2 DEF ClientFits, Issued, PastHandshake
  <2>12. ASSUME NEW x \in HttpClients \ {c} PROVE ClientFits(x)'
    BY <2>3, <2>6, <2>10, ClientRests DEF SessionInv
  <2> QED BY <2>9, <2>11, <2>12 DEF SessionInv
<1> QED BY <1>1, <1>2, <1>3, <1>4, <1>5, <1>6, <1>7, <1>8, <1>9 DEF HttpNext

LEMMA HttpInvStep == HttpInv /\ [HttpNext]_httpVars => HttpInv'
BY RequestStep, HttpTypesStep, SessionStep DEF HttpInv

LEMMA HttpInvSafe == HttpInv => CallsFollowHandshake /\ ExecutionsBounded
<1> SUFFICES ASSUME HttpInv PROVE CallsFollowHandshake /\ ExecutionsBounded
  OBVIOUS
<1>1. CallsFollowHandshake
  <2> SUFFICES ASSUME NEW t \in HttpThreads, thread[t].at = "wait", thread[t].method = "call",
                      thread[t].sent # NoHttp, thread[t].client \notin overlapped
               PROVE  server[thread[t].sent] # "open"
    BY DEF CallsFollowHandshake
  <2>1. thread[t].client \in HttpClients
    BY DEF HttpInv, RequestInv, RequestFits
  <2> QED BY <2>1 DEF HttpInv, SessionInv, ThreadFits, Concluded, PastHandshake
<1>2. ExecutionsBounded
  BY DEF HttpInv, RequestInv, RequestFits, ExecutionsBounded
<1> QED BY <1>1, <1>2

-----------------------------------------------------------------------------
(* Repairs of an upstream's authentication, and the counters of them.        *)

USE RepairAssumption

RepairRequests ==
  [at : {"idle", "first", "count", "store", "repair", "retry"},
   counter : {"none", "attempts", "successes", "failures"}, read : Nat,
   then : {"none", "repair", "idle"}, made : Nat]

\* Where a call is, which counter it updates before it goes where, and how often it
\* has run its tool and the repair tool.
RepairFits(r, n) ==
  LET counting == r.at \in {"count", "store"} IN
  /\ counting =>
       \/ r.counter = "attempts" /\ r.then = "repair"
       \/ r.counter \in {"successes", "failures"} /\ r.then = "idle"
  /\ n.repair <= 1 /\ n.original <= 1 + n.repair
  /\ r.at = "first" => n.original = 0 /\ n.repair = 0
  /\ r.at = "repair" \/ (counting /\ r.counter = "attempts") => n.original = 1 /\ n.repair = 0
  /\ r.at = "retry" => n.original = 1 /\ n.repair = 1

RepairTypes ==
  /\ options \in [serialize : BOOLEAN, retry : BOOLEAN]
  /\ stats \in [attempts : Nat, successes : Nat, failures : Nat,
                auth_state : {"unknown", "authenticated", "unauthenticated"}]
  /\ overlapping \in BOOLEAN /\ repairEnd \in {"none", "successes", "failures"}
CallInv ==
  /\ request \in [RepairThreads -> RepairRequests]
  /\ ran \in [RepairThreads -> [original : Nat, repair : Nat]]
  /\ \A t \in RepairThreads : RepairFits(request[t], ran[t])

\* A call of a serialised upstream holds the lock from its first step to its last.
CallLockInv ==
  options.serialize => \A t \in RepairThreads : request[t].at # "idle" => callLock = t

\* Unless two updates overlapped, what a thread is about to write follows what the
\* counter holds.
CounterInv ==
  /\ options.serialize => ~overlapping
  /\ ~overlapping =>
       /\ \A t, o \in RepairThreads : request[t].at = "store" /\ request[o].at = "store" => t = o
       /\ \A t \in RepairThreads : request[t].at = "store" => request[t].read = stats[request[t].counter]
  /\ IsFiniteSet(Repairing)
  /\ ~overlapping => stats.attempts = stats.successes + stats.failures + Cardinality(Repairing)

\* While no repair is under way at a serialised upstream, auth_state tells how the
\* last one ended.
EndInv ==
  options.serialize /\ Repairing = {} /\ repairEnd # "none" =>
    stats.auth_state = AuthStateAfter(repairEnd)

RepairInv == RepairTypes /\ CallInv /\ CallLockInv /\ CounterInv /\ EndInv

LEMMA RepairInvInit == RepairInit => RepairInv
<1> SUFFICES ASSUME RepairInit PROVE RepairInv
  OBVIOUS
<1>1. RepairTypes
  BY DEF RepairInit, RepairTypes
<1>2. CallInv
  BY DEF RepairInit, CallInv, NoRequest, RepairRequests, RepairFits
<1>3. CallLockInv
  BY DEF RepairInit, CallLockInv, NoRequest
<1>4. Repairing = {}
  BY DEF RepairInit, Repairing, NoRequest
<1>5. CounterInv
  BY <1>4, FS_EmptySet DEF RepairInit, CounterInv, NoRequest
<1>6. EndInv
  BY DEF RepairInit, EndInv
<1> QED BY <1>1, <1>2, <1>3, <1>5, <1>6 DEF RepairInv

\* A call goes on.
LEMMA CallGoes ==
  ASSUME CallInv, NEW t \in RepairThreads, NEW r \in RepairRequests,
         NEW n \in [original : Nat, repair : Nat], RepairFits(r, n),
         request' = [request EXCEPT ![t] = r], ran' = [ran EXCEPT ![t] = n]
  PROVE  CallInv'
<1>1. request' \in [RepairThreads -> RepairRequests] /\ ran' \in [RepairThreads -> [original : Nat, repair : Nat]]
  BY DEF CallInv
<1>2. ASSUME NEW o \in RepairThreads PROVE RepairFits(request'[o], ran'[o])
  BY DEF CallInv
<1> QED BY <1>1, <1>2 DEF CallInv

LEMMA CallTyped ==
  ASSUME CallInv, NEW t \in RepairThreads
  PROVE  /\ request[t] \in RepairRequests /\ ran[t] \in [original : Nat, repair : Nat]
         /\ RepairFits(request[t], ran[t])
BY DEF CallInv

LEMMA RanTools ==
  ASSUME CallInv, NEW t \in RepairThreads
  PROVE  /\ UNCHANGED ran => ran' = [ran EXCEPT ![t] = ran[t]]
         /\ Ran(t, "original") =>
              ran' = [ran EXCEPT ![t] = [original |-> ran[t].original + 1, repair |-> ran[t].repair]]
         /\ Ran(t, "repair") =>
              ran' = [ran EXCEPT ![t] = [original |-> ran[t].original, repair |-> ran[t].repair + 1]]
<1>1. UNCHANGED ran => ran' = [ran EXCEPT ![t] = ran[t]]
  BY DEF CallInv
<1>2. Ran(t, "original") =>
        ran' = [ran EXCEPT ![t] = [original |-> ran[t].original + 1, repair |-> ran[t].repair]]
  BY CallTyped DEF Ran, CallInv
<1>3. Ran(t, "repair") =>
        ran' = [ran EXCEPT ![t] = [original |-> ran[t].original, repair |-> ran[t].repair + 1]]
  BY CallTyped DEF Ran, CallInv
<1> QED BY <1>1, <1>2, <1>3

\* Where a call goes, given how often it has run the two tools by then.
LEMMA CallGoesTo ==
  ASSUME CallInv, NEW t \in RepairThreads, NEW n \in [original : Nat, repair : Nat],
         ran' = [ran EXCEPT ![t] = n],
         NEW at \in {"idle", "first", "count", "store", "repair", "retry"}, Goes(t, at),
         RepairFits([request[t] EXCEPT !.at = at], n)
  PROVE  CallInv'
<1>1. [request[t] EXCEPT !.at = at] \in RepairRequests
  BY CallTyped DEF RepairRequests
<1>2. request' = [request EXCEPT ![t] = [request[t] EXCEPT !.at = at]]
  BY DEF Goes, CallInv
<1> QED BY <1>1, <1>2, CallGoes

LEMMA CallCounts ==
  ASSUME CallInv, NEW t \in RepairThreads, NEW n \in [original : Nat, repair : Nat],
         ran' = [ran EXCEPT ![t] = n], NEW counter \in {"attempts", "successes", "failures"},
         NEW next \in {"repair", "idle"}, Counts(t, counter, next),
         n.repair <= 1, n.original <= 1 + n.repair,
         \/ counter = "attempts" /\ next = "repair" /\ n.original = 1 /\ n.repair = 0
         \/ counter # "attempts" /\ next = "idle"
  PROVE  CallInv'
<1> DEFINE r == [request[t] EXCEPT !.at = "count", !.counter = counter, !.then = next]
<1>1. r \in RepairRequests /\ r.at = "count" /\ r.counter = counter /\ r.then = next
  BY CallTyped DEF RepairRequests
<1>2. request' = [request EXCEPT ![t] = r]
  BY DEF Counts, CallInv
<1> HIDE DEF r
<1>3. RepairFits(r, n)
  BY <1>1 DEF RepairFits
<1> QED BY <1>1, <1>2, <1>3, CallGoes

LEMMA CallStep ==
  ASSUME RepairTypes, CallInv, [RepairNext]_repairVars
  PROVE  CallInv'
<1>t. ASSUME NEW t \in RepairThreads
      PROVE  /\ request[t] \in RepairRequests /\ ran[t] \in [original : Nat, repair : Nat]
             /\ RepairFits(request[t], ran[t])
  BY CallTyped
<1>1. ASSUME NEW t \in RepairThreads, Begin(t) PROVE CallInv'
  <2> DEFINE r == [NoRequest EXCEPT !.at = "first", !.made = request[t].made + 1]
             n == [original |-> 0, repair |-> 0]
  <2>1. request[t].made + 1 \in Nat
    BY <1>t DEF RepairRequests
  <2>2. r \in RepairRequests /\ r.at = "first" /\ n \in [original : Nat, repair : Nat]
    BY <2>1 DEF NoRequest, RepairRequests
  <2>3. request' = [request EXCEPT ![t] = r] /\ ran' = [ran EXCEPT ![t] = n]
    BY <1>1 DEF Begin
  <2> HIDE DEF r
  <2>4. RepairFits(r, n)
    BY <2>2 DEF RepairFits
  <2> QED BY <2>2, <2>3, <2>4, CallGoes
<1>2. ASSUME NEW t \in RepairThreads, FirstCall(t) PROVE CallInv'
  <2> DEFINE n == [original |-> ran[t].original + 1, repair |-> ran[t].repair]
  <2>1. ran' = [ran EXCEPT ![t] = n]
    BY <1>2, RanTools DEF FirstCall
  <2>2. n \in [original : Nat, repair : Nat] /\ n.original = 1 /\ n.repair = 0
    BY <1>2, <1>t DEF FirstCall, RepairFits
  <2> HIDE DEF n
  <2>3. CASE Goes(t, "idle")
    <3>1. [request[t] EXCEPT !.at = "idle"].at = "idle"
      BY <1>t DEF RepairRequests
    <3>2. RepairFits([request[t] EXCEPT !.at = "idle"], n)
      BY <2>2, <3>1 DEF RepairFits
    <3> QED BY <2>1, <2>2, <2>3, <3>2, CallGoesTo
  <2>4. CASE Counts(t, "attempts", "repair")
    <3>1. n.repair <= 1 /\ n.original <= 1 + n.repair
      BY <2>2
    <3> QED BY <2>1, <2>2, <2>4, <3>1, CallCounts
  <2> QED BY <1>2, <2>3, <2>4 DEF FirstCall, Returns
<1>3. ASSUME NEW t \in RepairThreads, ReadCounter(t) PROVE CallInv'
  <2> DEFINE v == stats[request[t].counter]
             r == [request[t] EXCEPT !.at = "store", !.read = v]
  <2>1. v \in Nat
    BY <1>3, <1>t DEF ReadCounter, RepairFits, RepairTypes
  <2>2. r \in RepairRequests /\ request' = [request EXCEPT ![t] = r]
    BY <1>3, <1>t, <2>1 DEF ReadCounter, RepairRequests, CallInv
  <2>3. r.at = "store" /\ r.counter = request[t].counter /\ r.then = request[t].then
    BY <1>t DEF RepairRequests
  <2> HIDE DEF r
  <2>4. RepairFits(r, ran[t])
    BY <1>3, <1>t, <2>3 DEF ReadCounter, RepairFits
  <2> QED BY <1>3, <1>t, <2>2, <2>4, RanTools, CallGoes DEF ReadCounter
<1>4. ASSUME NEW t \in RepairThreads, WriteCounter(t) PROVE CallInv'
  <2>1. ran' = [ran EXCEPT ![t] = ran[t]]
    BY <1>4, RanTools DEF WriteCounter
  <2>2. PICK at \in {"repair", "idle"} : at = request[t].then
    BY <1>4, <1>t DEF WriteCounter, RepairFits
  <2>3. Goes(t, at)
    BY <1>4, <2>2 DEF WriteCounter, Returns
  <2>4. [request[t] EXCEPT !.at = at].at = at
    BY <1>t DEF RepairRequests
  <2>5. RepairFits([request[t] EXCEPT !.at = at], ran[t])
    BY <1>4, <1>t, <2>2, <2>4 DEF WriteCounter, RepairFits
  <2> QED BY <1>t, <2>1, <2>3, <2>5, CallGoesTo
<1>5. ASSUME NEW t \in RepairThreads, Repair(t) PROVE CallInv'
  <2> DEFINE n == [original |-> ran[t].original, repair |-> ran[t].repair + 1]
  <2>1. ran' = [ran EXCEPT ![t] = n]
    BY <1>5, RanTools DEF Repair
  <2>2. n \in [original : Nat, repair : Nat] /\ n.original = 1 /\ n.repair = 1
    BY <1>5, <1>t DEF Repair, RepairFits
  <2> HIDE DEF n
  <2>3. CASE Goes(t, "retry")
    <3>1. [request[t] EXCEPT !.at = "retry"].at = "retry"
      BY <1>t DEF RepairRequests
    <3>2. RepairFits([request[t] EXCEPT !.at = "retry"], n)
      BY <2>2, <3>1 DEF RepairFits
    <3> QED BY <2>1, <2>2, <2>3, <3>2, CallGoesTo
  <2>4. ASSUME NEW c \in {"successes", "failures"}, Counts(t, c, "idle") PROVE CallInv'
    <3>1. n.repair <= 1 /\ n.original <= 1 + n.repair
      BY <2>2
    <3>2. c \in {"attempts", "successes", "failures"} /\ c # "attempts"
      OBVIOUS
    <3> QED BY <2>1, <2>2, <2>4, <3>1, <3>2, CallCounts
  <2> QED BY <1>5, <2>3, <2>4 DEF Repair
<1>6. ASSUME NEW t \in RepairThreads, RetryOriginal(t) PROVE CallInv'
  <2> DEFINE n == [original |-> ran[t].original + 1, repair |-> ran[t].repair]
  <2>1. ran' = [ran EXCEPT ![t] = n]
    BY <1>6, RanTools DEF RetryOriginal
  <2>2. n \in [original : Nat, repair : Nat] /\ n.original = 2 /\ n.repair = 1
    BY <1>6, <1>t DEF RetryOriginal, RepairFits
  <2> HIDE DEF n
  <2>3. PICK c \in {"successes", "failures"} : Counts(t, c, "idle")
    BY <1>6 DEF RetryOriginal
  <2>4. n.repair <= 1 /\ n.original <= 1 + n.repair
    BY <2>2
  <2>5. c \in {"attempts", "successes", "failures"} /\ c # "attempts"
    OBVIOUS
  <2> QED BY <2>1, <2>2, <2>3, <2>4, <2>5, CallCounts
<1>7. CASE UNCHANGED repairVars
  BY <1>7 DEF repairVars, CallInv
<1> QED BY <1>1, <1>2, <1>3, <1>4, <1>5, <1>6, <1>7 DEF RepairNext

LEMMA RepairTypesStep ==
  ASSUME RepairTypes, CallInv, [RepairNext]_repairVars
  PROVE  RepairTypes'
<1>1. ASSUME NEW t \in RepairThreads,
             Begin(t) \/ FirstCall(t) \/ ReadCounter(t) \/ Repair(t) \/ RetryOriginal(t)
      PROVE  RepairTypes'
  BY <1>1 DEF Begin, FirstCall, ReadCounter, Repair, RetryOriginal, RepairTypes
<1>2. ASSUME NEW t \in RepairThreads, WriteCounter(t) PROVE RepairTypes'
  <2>1. PICK counter \in {"attempts", "successes", "failures"}, read \in Nat :
          /\ stats' = [stats EXCEPT ![counter] = read + 1, !.auth_state = AuthStateAfter(counter)]
          /\ repairEnd' = IF counter = "attempts" THEN repairEnd ELSE counter
    BY <1>2 DEF WriteCounter, CallInv, RepairRequests, RepairFits
  <2>2. read + 1 \in Nat /\ AuthStateAfter(counter) \in {"authenticated", "unauthenticated"}
    BY DEF AuthStateAfter
  <2>3. stats' \in [attempts : Nat, successes : Nat, failures : Nat,
                    auth_state : {"unknown", "authenticated", "unauthenticated"}]
    BY <2>1, <2>2 DEF RepairTypes
  <2> QED BY <1>2, <2>1, <2>3 DEF WriteCounter, RepairTypes
<1>3. CASE UNCHANGED repairVars
  BY <1>3 DEF repairVars, RepairTypes
<1> QED BY <1>1, <1>2, <1>3 DEF RepairNext

\* Only the request of the thread that takes the step moves.
LEMMA OnlyOne ==
  ASSUME CallInv, NEW t \in RepairThreads,
         Begin(t) \/ FirstCall(t) \/ ReadCounter(t) \/ WriteCounter(t) \/ Repair(t) \/ RetryOriginal(t)
  PROVE  \A o \in RepairThreads \ {t} : request'[o] = request[o]
BY DEF Begin, FirstCall, ReadCounter, WriteCounter, Repair, RetryOriginal, Goes, Counts, Returns, CallInv

LEMMA CallLockStep ==
  ASSUME RepairTypes, CallInv, CallLockInv, [RepairNext]_repairVars
  PROVE  CallLockInv'
<1>o. UNCHANGED options
  BY DEF RepairNext, repairVars, Begin, FirstCall, ReadCounter, WriteCounter, Repair, RetryOriginal
<1> SUFFICES ASSUME options.serialize, NEW o \in RepairThreads, request'[o].at # "idle"
             PROVE  callLock' = o
  BY <1>o DEF CallLockInv
<1>l. \A p \in RepairThreads : request[p].at # "idle" => callLock = p
  BY DEF CallLockInv
<1>1. ASSUME NEW t \in RepairThreads, Begin(t) PROVE callLock' = o
  <2>1. callLock = Nobody /\ callLock' = t
    BY <1>1 DEF Begin
  <2>2. o = t
    BY <1>1, <1>l, <2>1, OnlyOne
  <2> QED BY <2>1, <2>2
<1>2. ASSUME NEW t \in RepairThreads, request[t].at # "idle", UNCHANGED callLock,
             \A p \in RepairThreads \ {t} : request'[p] = request[p]
      PROVE  callLock' = o
  BY <1>l, <1>2
<1>3. ASSUME NEW t \in RepairThreads, request[t].at # "idle", Returns(t) PROVE callLock' = o
  <2>1. request'[t].at = "idle" /\ \A p \in RepairThreads \ {t} : request'[p] = request[p]
    BY <1>3 DEF Returns, Goes, CallInv, RepairRequests
  <2> QED BY <1>3, <1>l, <2>1 DEF Returns, Release
<1>4. CASE UNCHANGED repairVars
  BY <1>4, <1>l DEF repairVars
<1>5. ASSUME NEW t \in RepairThreads, FirstCall(t) \/ ReadCounter(t) \/ WriteCounter(t) \/ Repair(t) \/ RetryOriginal(t)
      PROVE  callLock' = o
  <2>1. request[t].at # "idle" /\ \A p \in RepairThreads \ {t} : request'[p] = request[p]
    BY <1>5, OnlyOne DEF FirstCall, ReadCounter, WriteCounter, Repair, RetryOriginal
  <2>2. UNCHANGED callLock \/ Returns(t)
    BY <1>5 DEF FirstCall, ReadCounter, WriteCounter, Repair, RetryOriginal
  <2> QED BY <1>2, <1>3, <2>1, <2>2
<1> QED BY <1>1, <1>4, <1>5 DEF RepairNext

\* Whose repair is under way after a step of t.
InRepair(r) ==
  r.at \in {"repair", "retry"} \/ (r.at \in {"count", "store"} /\ r.counter # "attempts")

LEMMA RepairingNext ==
  ASSUME CallInv, CallInv', NEW t \in RepairThreads,
         \A o \in RepairThreads \ {t} : request'[o] = request[o]
  PROVE  /\ Repairing' = IF InRepair(request'[t]) THEN Repairing \cup {t} ELSE Repairing \ {t}
         /\ t \in Repairing <=> InRepair(request[t])
BY DEF Repairing, InRepair

LEMMA SameRepairing ==
  ASSUME CallInv, CallInv', NEW t \in RepairThreads,
         \A o \in RepairThreads \ {t} : request'[o] = request[o],
         InRepair(request'[t]) <=> InRepair(request[t])
  PROVE  Repairing' = Repairing
BY RepairingNext

\* A step that counts nothing.
LEMMA CountsNothing ==
  ASSUME CallInv, CallInv', CounterInv, EndInv, NEW t \in RepairThreads,
         \A o \in RepairThreads \ {t} : request'[o] = request[o],
         InRepair(request'[t]) <=> InRepair(request[t]), request'[t].at # "store",
         UNCHANGED <<options, stats, overlapping, repairEnd>>
  PROVE  CounterInv' /\ EndInv'
<1>1. Repairing' = Repairing
  BY SameRepairing
<1>2. /\ \A o, p \in RepairThreads : request'[o].at = "store" /\ request'[p].at = "store" /\ ~overlapping => o = p
      /\ \A o \in RepairThreads : request'[o].at = "store" /\ ~overlapping =>
            request'[o].read = stats[request'[o].counter]
  BY DEF CounterInv
<1> QED BY <1>1, <1>2 DEF CounterInv, EndInv, AuthStateAfter

LEMMA CounterStep ==
  ASSUME RepairTypes, CallInv, CallInv', CallLockInv, CounterInv, EndInv, [RepairNext]_repairVars
  PROVE  CounterInv' /\ EndInv'
<1>t. ASSUME NEW t \in RepairThreads
      PROVE  request[t] \in RepairRequests /\ RepairFits(request[t], ran[t])
  BY CallTyped
<1>g. ASSUME NEW t \in RepairThreads, NEW at, Goes(t, at) PROVE request'[t].at = at
  BY <1>g DEF Goes, CallInv, RepairRequests
<1>c. ASSUME NEW t \in RepairThreads, NEW counter, NEW next, Counts(t, counter, next)
      PROVE  request'[t].at = "count" /\ request'[t].counter = counter
  BY <1>c DEF Counts, CallInv, RepairRequests
<1>1. ASSUME NEW t \in RepairThreads, Begin(t) \/ FirstCall(t) PROVE CounterInv' /\ EndInv'
  <2>1. \A o \in RepairThreads \ {t} : request'[o] = request[o]
    BY <1>1, OnlyOne
  <2>2. CASE Begin(t)
    <3>1. request'[t].at = "first"
      BY <2>2 DEF Begin, CallInv, NoRequest
    <3> QED BY <2>1, <2>2, <3>1, CountsNothing DEF Begin, InRepair
  <2>3. CASE FirstCall(t)
    <3>1. request'[t].at = "idle" \/ (request'[t].at = "count" /\ request'[t].counter = "attempts")
      BY <1>g, <1>c, <2>3 DEF FirstCall, Returns
    <3> QED BY <2>1, <2>3, <3>1, CountsNothing DEF FirstCall, InRepair
  <2> QED BY <1>1, <2>2, <2>3
<1>2. ASSUME NEW t \in RepairThreads, Repair(t) \/ RetryOriginal(t) PROVE CounterInv' /\ EndInv'
  <2>1. request'[t].at = "retry" \/ (request'[t].at = "count" /\ request'[t].counter \in {"successes", "failures"})
    BY <1>g, <1>c, <1>2 DEF Repair, RetryOriginal
  <2>2. InRepair(request[t]) /\ InRepair(request'[t]) /\ request'[t].at # "store"
    BY <1>2, <2>1 DEF Repair, RetryOriginal, InRepair
  <2> QED BY <1>2, <2>2, OnlyOne, CountsNothing DEF Repair, RetryOriginal
<1>3. ASSUME NEW t \in RepairThreads, ReadCounter(t) PROVE CounterInv' /\ EndInv'
  <2>1. /\ request'[t].at = "store" /\ request'[t].counter = request[t].counter
        /\ request'[t].read = stats[request[t].counter]
        /\ request[t].at = "count" /\ UNCHANGED <<options, stats, repairEnd>>
    BY <1>3 DEF ReadCounter, CallInv, RepairRequests
  <2>2. \A o \in RepairThreads \ {t} : request'[o] = request[o]
    BY <1>3, OnlyOne
  <2>3. Repairing' = Repairing
    BY <2>1, <2>2, SameRepairing DEF InRepair
  <2>4. overlapping' = (overlapping \/ \E o \in RepairThreads \ {t} : request[o].at = "store")
    BY <1>3 DEF ReadCounter
  <2>5. options.serialize => ~overlapping'
    BY <2>1, <2>4 DEF CounterInv, CallLockInv
  <2>6. ASSUME ~overlapping', NEW o \in RepairThreads, request'[o].at = "store" PROVE o = t
    BY <2>2, <2>4, <2>6
  <2>7. ~overlapping' =>
          /\ \A o, p \in RepairThreads : request'[o].at = "store" /\ request'[p].at = "store" => o = p
          /\ \A o \in RepairThreads : request'[o].at = "store" =>
                request'[o].read = stats'[request'[o].counter]
    BY <2>1, <2>6
  <2>8. ~overlapping' => ~overlapping
    BY <2>4
  <2> QED BY <2>1, <2>3, <2>5, <2>7, <2>8 DEF CounterInv, EndInv, AuthStateAfter
<1>4. ASSUME NEW t \in RepairThreads, WriteCounter(t) PROVE CounterInv' /\ EndInv'
  <2> DEFINE r == request[t]
  <2>1. \A o \in RepairThreads \ {t} : request'[o] = request[o]
    BY <1>4, OnlyOne
  <2>2. PICK counter \in {"attempts", "successes", "failures"}, read \in Nat :
          /\ counter = r.counter /\ read = r.read
          /\ stats' = [stats EXCEPT ![counter] = read + 1, !.auth_state = AuthStateAfter(counter)]
          /\ repairEnd' = IF counter = "attempts" THEN repairEnd ELSE counter
    BY <1>4, <1>t DEF WriteCounter, RepairRequests, RepairFits
  <2>3. UNCHANGED <<options, overlapping>> /\ r.at = "store"
    BY <1>4 DEF WriteCounter
  <2>4. /\ counter = "attempts" => request'[t].at = "repair"
        /\ counter # "attempts" => request'[t].at = "idle"
    BY <1>4, <1>t, <1>g, <2>2 DEF WriteCounter, RepairFits, Returns
  <2>5. ASSUME ~overlapping, NEW o \in RepairThreads PROVE request'[o].at # "store"
    BY <2>1, <2>3, <2>4, <2>5 DEF CounterInv
  <2>6. stats'.auth_state = AuthStateAfter(counter)
    BY <2>2 DEF RepairTypes
  <2>7. IsFiniteSet(Repairing) /\ Cardinality(Repairing) \in Nat
    BY FS_CardinalityType DEF CounterInv
  <2>8. ~overlapping => read = stats[counter]
    BY <2>2, <2>3 DEF CounterInv
  <2>9. CASE counter = "attempts"
    <3>1. Repairing' = Repairing \cup {t} /\ t \notin Repairing
      BY <2>1, <2>2, <2>3, <2>4, <2>9, RepairingNext DEF InRepair
    <3>2. IsFiniteSet(Repairing') /\ Cardinality(Repairing') = Cardinality(Repairing) + 1
      BY <2>7, <3>1, FS_AddElement
    <3>3. /\ stats'.attempts = read + 1
          /\ stats'.successes = stats.successes /\ stats'.failures = stats.failures
      BY <2>2, <2>9 DEF RepairTypes
    <3>4. ~overlapping => stats'.attempts = stats'.successes + stats'.failures + Cardinality(Repairing')
      <4>1. ~overlapping => read = stats.attempts
        BY <2>8, <2>9
      <4> QED BY <2>7, <3>2, <3>3, <4>1 DEF CounterInv, RepairTypes
    <3>5. Repairing' # {}
      BY <3>1
    <3> QED BY <2>3, <2>5, <3>2, <3>4, <3>5 DEF CounterInv, EndInv
  <2>10. CASE counter # "attempts"
    <3>1. Repairing' = Repairing \ {t} /\ t \in Repairing
      BY <2>1, <2>2, <2>3, <2>4, <2>10, RepairingNext DEF InRepair
    <3>2. IsFiniteSet(Repairing') /\ Cardinality(Repairing') = Cardinality(Repairing) - 1
      BY <2>7, <3>1, FS_RemoveElement
    <3>3. /\ stats'.attempts = stats.attempts
          /\ \/ stats'.successes = read + 1 /\ stats'.failures = stats.failures /\ counter = "successes"
             \/ stats'.successes = stats.successes /\ stats'.failures = read + 1 /\ counter = "failures"
      BY <2>2, <2>10 DEF RepairTypes
    <3>4. ASSUME ~overlapping
          PROVE  stats'.attempts = stats'.successes + stats'.failures + Cardinality(Repairing')
      <4>1. (counter = "successes" => read = stats.successes) /\ (counter = "failures" => read = stats.failures)
        BY <2>8, <3>4
      <4>2. stats.attempts = stats.successes + stats.failures + Cardinality(Repairing)
        BY <3>4 DEF CounterInv
      <4>3. stats.attempts \in Nat /\ stats.successes \in Nat /\ stats.failures \in Nat
        BY DEF RepairTypes
      <4> QED BY <2>7, <3>2, <3>3, <4>1, <4>2, <4>3
    <3>5. EndInv'
      BY <2>2, <2>6, <2>10 DEF EndInv, AuthStateAfter
    <3> QED BY <2>3, <2>5, <3>2, <3>4, <3>5 DEF CounterInv
  <2> QED BY <2>9, <2>10
<1>5. CASE UNCHANGED repairVars
  <2>1. Repairing' = Repairing
    BY <1>5 DEF repairVars, Repairing
  <2> QED BY <1>5, <2>1 DEF repairVars, CounterInv, EndInv, AuthStateAfter
<1> QED BY <1>1, <1>2, <1>3, <1>4, <1>5 DEF RepairNext

LEMMA RepairInvStep == RepairInv /\ [RepairNext]_repairVars => RepairInv'
BY RepairTypesStep, CallStep, CallLockStep, CounterStep DEF RepairInv

LEMMA RepairInvSafe == RepairInv => RepairsSafe
<1> SUFFICES ASSUME RepairInv PROVE RepairsSafe
  OBVIOUS
<1>1. CountersAddUp
  BY DEF RepairInv, CounterInv, CountersAddUp
<1>2. SerializedRepair
  <2> SUFFICES ASSUME options.serialize
               PROVE  /\ Cardinality({t \in RepairThreads : request[t].at # "idle"}) <= 1
                      /\ AtRest /\ repairEnd # "none" => stats.auth_state = AuthStateAfter(repairEnd)
    BY DEF SerializedRepair
  <2> DEFINE busy == {t \in RepairThreads : request[t].at # "idle"}
  <2>1. busy \subseteq {callLock}
    BY DEF RepairInv, CallLockInv
  <2>2. Cardinality(busy) <= 1
    <3>1. busy = {} \/ busy = {callLock}
      BY <2>1
    <3> HIDE DEF busy
    <3>2. Cardinality({}) = 0
      BY FS_EmptySet, Zenon
    <3>3. Cardinality({callLock}) = 1
      BY FS_Singleton, Zenon
    <3> QED BY <3>1, <3>2, <3>3
  <2>3. AtRest => Repairing = {}
    BY DEF AtRest, Repairing
  <2> QED BY <2>2, <2>3 DEF RepairInv, EndInv
<1>3. RepairedOnce
  BY DEF RepairInv, CallInv, RepairFits, RepairedOnce
<1>4. BadCredentialsDegrade
  BY DEF BadCredentialsDegrade, HealthStatus, Health, Probe, TokenFiles
<1> QED BY <1>1, <1>2, <1>3, <1>4 DEF RepairsSafe

\* A remote tool call follows a completed handshake, unless two overlap on its client,
\* and each of its posts executes it once at most (upstream_http.py).  A call repairs
\* the authentication of its upstream once at most; attempts are the successes, the
\* failures and the repairs under way, unless two updates overlap; and a serialised
\* upstream's auth_state tells how its last repair ended (daemon_upstreams.py).  Restarts
\* of a process keep to their circuit and back-off (upstream_process.py).
THEOREM RetriesAreSafe == HttpSpec /\ RepairSpec /\ SupervisorSpec => []RetriesSafe
<1>1. HttpInv /\ RepairInv /\ SupervisorSafe => RetriesSafe
  BY HttpInvSafe, RepairInvSafe DEF RetriesSafe
<1> QED BY <1>1, HttpInvInit, HttpInvStep, RepairInvInit, RepairInvStep, SupervisorsAreSafe, PTL
        DEF HttpSpec, RepairSpec

-----------------------------------------------------------------------------
(* Which upstream a name leads to.                                         *)

\* What was told and who was contacted are of the catalog: enabled, in the profile,
\* and not mutating unless allowlisted.
RoutingInv ==
  /\ \E n \in Nat : config.upstreams \in [1 .. n -> Upstreams]
  /\ contacted \subseteq Catalog
  /\ \A entry \in told : entry[2] \in Catalog /\ entry[1] \in ToolNames(entry[2])

\* Min of a set of naturals is its least element.
LEMMA LeastOf ==
  ASSUME NEW S \in SUBSET Nat, S # {}
  PROVE  Min(S) \in S /\ \A y \in S : Min(S) <= y
<1> DEFINE less == {p \in Nat \X Nat : p[1] < p[2]}
<1>1. less = OpToRel(<, Nat)
  BY Zenon DEF OpToRel
<1>2. \A x, y \in S : y < x => <<y, x>> \in less
  OBVIOUS
<1>3. IsWellFoundedOn(less, Nat)
  BY <1>1, NatLessThanWellFounded, Zenon
<1> HIDE DEF less
<1>4. \E x \in S : \A y \in S : ~(<<y, x>> \in less)
  BY <1>3, WFMin, Zenon
<1>5. PICK x \in S : \A y \in S : ~(y < x)
  BY <1>2, <1>4, Zenon
<1>6. \A y \in S : x <= y
  BY <1>5
<1> QED BY <1>6 DEF Min

\* Entries of a set of upstreams name one of them and a tool it has.
LEMMA EntriesNameTheirs ==
  ASSUME NEW is, NEW entry \in Entries(is)
  PROVE  entry[2] \in is /\ entry[1] \in ToolNames(entry[2])
BY DEF Entries

LEMMA SelectedIsCatalog ==
  ASSUME NEW is \in SUBSET Catalog
  PROVE  Selected(is) \subseteq Catalog
BY DEF Selected

\* A route that reaches an upstream reaches one of the catalog.
LEMMA ReachedIsCatalog ==
  ASSUME NEW name
  PROVE  Reached(Route(name)) \subseteq Catalog /\ Reached(DirectRoute(name)) \subseteq Catalog
<1>1. \A i \in Names(config) : AllowedRoute(i) = "routed" => i \in Catalog
  BY DEF AllowedRoute, Catalog
<1>2. Reached(Route(name)) \subseteq Catalog
  <2> DEFINE owner == FirstWith(<<Head(name)>>)
  <2>1. CASE Len(name) < 2 \/ owner = {}
    BY <2>1 DEF Route, Reached
  <2>2. CASE ~(Len(name) < 2) /\ owner # {}
    <3> DEFINE i == CHOOSE i \in owner : TRUE
    <3>1. i \in Names(config)
      BY <2>2 DEF FirstWith
    <3>2. Route(name) = [code |-> AllowedRoute(i), upstream |-> i]
      BY <2>2 DEF Route
    <3> HIDE DEF i
    <3> QED BY <1>1, <3>1, <3>2 DEF Reached
  <2> QED BY <2>1, <2>2
<1> QED BY <1>2 DEF DirectRoute, Reached

LEMMA RoutingInvStep == RoutingInv /\ [RoutingNext]_routingVars => RoutingInv'
<1> SUFFICES ASSUME RoutingInv, [RoutingNext]_routingVars PROVE RoutingInv'
  OBVIOUS
<1> DEFINE Told(t) == \A entry \in t : entry[2] \in Catalog /\ entry[1] \in ToolNames(entry[2])
<1>1. ASSUME UNCHANGED <<config, profile>>, contacted' \subseteq Catalog, Told(told')
      PROVE  RoutingInv'
  BY <1>1 DEF RoutingInv, Catalog, Names, Enabled, InProfile, MayMutate, ToolNames, Prefix
<1>2. CASE ListTools
  <2>1. CASE CompactTools
    BY <1>1, <1>2, <2>1 DEF ListTools, RoutingInv
  <2>2. CASE ~CompactTools
    <3>1. PICK up \in SUBSET Visible :
            LET last == Min(Blocking(up)) IN
            IF Blocking(up) # {}
            THEN /\ contacted' = {i \in Visible : i < last \/ (i = last /\ MayMutate(i))}
                 /\ UNCHANGED told
            ELSE contacted' = Visible /\ told' \in {told, Entries(Visible)}
      BY <1>2, <2>2 DEF ListTools
    <3>2. \A i \in Visible : MayMutate(i) => i \in Catalog
      BY DEF Visible, Catalog
    <3>3. CASE Blocking(up) # {}
      <4>1. Blocking(up) \in SUBSET Nat
        BY DEF RoutingInv, Blocking, Visible, Names
      <4>2. \A i \in Blocking(up) : i >= Min(Blocking(up)) /\ i \in Nat
        BY <3>3, <4>1, LeastOf
      <4>3. Min(Blocking(up)) \in Nat
        BY <3>3, <4>1, LeastOf
      <4>4. \A i \in Visible : i < Min(Blocking(up)) => MayMutate(i)
        BY <4>2, <4>3 DEF Blocking
      <4> QED BY <1>1, <1>2, <3>1, <3>2, <3>3, <4>4 DEF ListTools, RoutingInv
    <3>4. CASE Blocking(up) = {}
      <4>1. Visible \subseteq Catalog
        BY <3>2, <3>4 DEF Blocking
      <4>2. Told(Entries(Visible))
        BY <4>1, EntriesNameTheirs
      <4> QED BY <1>1, <1>2, <3>1, <3>4, <4>1, <4>2 DEF ListTools, RoutingInv
    <3> QED BY <3>3, <3>4
  <2> QED BY <2>1, <2>2
<1>3. CASE SearchTools
  <2>1. PICK matching \in SUBSET Catalog, up \in SUBSET Catalog :
          /\ contacted' = Selected(matching)
          /\ told' \in {{}} \cup {{entry} : entry \in Entries(Selected(matching) \cap up)}
    BY <1>3 DEF SearchTools
  <2>2. Selected(matching) \subseteq Catalog
    BY SelectedIsCatalog
  <2>3. Told(told')
    BY <2>1, <2>2, EntriesNameTheirs
  <2> QED BY <1>1, <1>3, <2>1, <2>2, <2>3 DEF SearchTools
<1>4. CASE Status
  BY <1>1, <1>4 DEF Status, RoutingInv
<1>5. ASSUME NEW name, DescribeTool(name) PROVE RoutingInv'
  <2>1. Asked(name) \subseteq Catalog
    BY SelectedIsCatalog DEF Asked
  <2> QED BY <1>1, <1>5, <2>1 DEF DescribeTool, RoutingInv
<1>6. ASSUME NEW name, CallTool(name) \/ CallManagedTool(name) PROVE RoutingInv'
  BY <1>1, <1>6, ReachedIsCatalog DEF CallTool, CallManagedTool, RoutingInv
<1>7. CASE UNCHANGED routingVars
  BY <1>1, <1>7 DEF routingVars, RoutingInv
<1> QED BY <1>2, <1>3, <1>4, <1>5, <1>6, <1>7 DEF RoutingNext

\* A name that starts with a prefix of one part is taken apart after it.
LEMMA OnePartPrefix ==
  ASSUME NEW p \in Seq(STRING), Len(p) = 1, NEW tool \in Seq(STRING), tool # <<>>
  PROVE  /\ ~(Len(p \o tool) < 2)
         /\ <<Head(p \o tool)>> = p
         /\ Head(p \o tool) = Head(p)
         /\ IsStrictPrefix(p, p \o tool)
<1>1. Len(p \o tool) = 1 + Len(tool) /\ Len(tool) >= 1 /\ p \o tool \in Seq(STRING)
  <2>1. Len(tool) \in Nat /\ Len(tool) # 0
    BY EmptySeq
  <2>2. Len(p \o tool) = Len(p) + Len(tool) /\ p \o tool \in Seq(STRING)
    BY ConcatProperties, Zenon
  <2> QED BY <2>1, <2>2
<1>2. (p \o tool)[1] = p[1]
  BY <1>1
<1>3. p = <<p[1]>>
  OBVIOUS
<1>4. Head(p \o tool) = p[1] /\ Head(p) = p[1]
  BY <1>1, <1>2
<1>5. SubSeq(p, 1, Len(p)) = SubSeq(p \o tool, 1, Len(p))
  BY <1>1, <1>2
<1>6. p # p \o tool
  BY <1>1
<1>7. IsStrictPrefix(p, p \o tool)
  BY <1>1, <1>5, <1>6 DEF IsStrictPrefix, IsPrefix
<1>8. <<Head(p \o tool)>> = p /\ Head(p \o tool) = Head(p)
  BY <1>3, <1>4
<1> QED BY <1>1, <1>7, <1>8

LEMMA RoutingInvSafe == RoutingInv => ListedIsCallable /\ ContactAllowed
<1> SUFFICES ASSUME RoutingInv PROVE ListedIsCallable /\ ContactAllowed
  OBVIOUS
<1>1. ContactAllowed
  BY DEF RoutingInv, ContactAllowed, Catalog, Names, Enabled, InProfile, MayMutate
<1>2. ListedIsCallable
  <2> SUFFICES ASSUME NEW entry \in told, ~Shadowed(entry[2])
               PROVE  /\ LeadsTo(entry[1], entry[2]) /\ Route(entry[1]) = DirectRoute(entry[1])
                      /\ {i \in Described(entry[1], Asked(entry[1])) : ~Shadowed(i)} = {entry[2]}
    BY DEF ListedIsCallable
  <2> DEFINE name == entry[1]
             u == entry[2]
  <2>1. PICK n \in Nat : config.upstreams \in [1 .. n -> Upstreams]
    BY DEF RoutingInv
  <2>2. Names(config) = 1 .. n
    BY <2>1 DEF Names
  <2>3. u \in Catalog /\ name \in ToolNames(u)
    BY DEF RoutingInv
  <2>4. \A i \in Names(config) :
          /\ Prefix(i) \in Seq(STRING) /\ Prefix(i) # <<>>
          /\ \A tool \in config.upstreams[i].tools : tool \in Seq(STRING) /\ tool # <<>>
    BY <2>1, <2>2, RoutingAssumption DEF Prefix
  <2>5. ASSUME NEW i \in Names(config), ~Shadowed(i), name \in ToolNames(i)
        PROVE  /\ ~(Len(name) < 2) /\ <<Head(name)>> = Prefix(i) /\ Head(name) = Head(Prefix(i))
               /\ Owns(i, name)
    <3>1. PICK tool \in config.upstreams[i].tools : name = Prefix(i) \o tool
      BY <2>5 DEF ToolNames
    <3>2. Len(Prefix(i)) = 1
      BY <2>5 DEF Shadowed
    <3> HIDE DEF name
    <3> QED BY <2>4, <3>1, <3>2, OnePartPrefix DEF Owns
  <2>6. u \in Names(config) /\ AllowedRoute(u) = "routed"
    BY <2>3 DEF Catalog, AllowedRoute
  <2> HIDE DEF name, u
  <2>u. ~Shadowed(u)
    BY DEF u
  <2>7. FirstWith(<<Head(name)>>) = {u}
    <3>1. \A j \in 1 .. u - 1 : Prefix(j) # Prefix(u)
      BY <2>u DEF Shadowed
    <3>2. <<Head(name)>> = Prefix(u)
      BY <2>3, <2>5, <2>6, <2>u
    <3>3. \A i \in Names(config) : i < u \/ i = u \/ u \in 1 .. i - 1
      BY <2>1, <2>2, <2>6
    <3>4. \A i \in Names(config) : i < u => i \in 1 .. u - 1
      BY <2>1, <2>2, <2>6
    <3> QED BY <2>6, <3>1, <3>2, <3>3, <3>4 DEF FirstWith
  <2>8. Route(name) = [code |-> "routed", upstream |-> u]
    <3>1. (CHOOSE i \in {u} : TRUE) = u
      OBVIOUS
    <3>2. ~(Len(name) < 2)
      BY <2>3, <2>5, <2>6, <2>u
    <3> QED BY <2>6, <2>7, <3>1, <3>2 DEF Route
  <2>9. DirectRoute(name) = Route(name)
    BY <2>3, <2>5, <2>6, <2>u DEF DirectRoute, ForFacade, Shadowed
  <2>10. {i \in Described(name, Asked(name)) : ~Shadowed(i)} = {u}
    <3>1. Asked(name) = {i \in Catalog : Owns(i, name)}
      BY <2>3, <2>5, <2>6, <2>u DEF Asked, Selected
    <3>2. u \in Described(name, Asked(name))
      BY <2>3, <2>5, <2>6, <2>u, <3>1 DEF Described
    <3>3. ASSUME NEW i \in Described(name, Asked(name)), ~Shadowed(i) PROVE i = u
      <4>1. i \in Names(config) /\ name \in ToolNames(i)
        BY <3>1, <3>3 DEF Described, Catalog
      <4>2. Prefix(i) = Prefix(u)
        BY <2>3, <2>5, <2>6, <2>u, <3>3, <4>1
      <4>3. i \notin 1 .. u - 1 /\ u \notin 1 .. i - 1
        BY <2>u, <3>3, <4>2 DEF Shadowed
      <4> QED BY <2>1, <2>2, <2>6, <4>1, <4>3
    <3> QED BY <2>u, <3>2, <3>3
  <2> QED BY <2>8, <2>9, <2>10 DEF LeadsTo, name, u
<1> QED BY <1>1, <1>2

LEMMA RoutingInvInit == RoutingInit => RoutingInv
<1> SUFFICES ASSUME RoutingInit PROVE RoutingInv
  OBVIOUS
<1>1. PICK us \in UNION {[1 .. n -> Upstreams] : n \in 1 .. MaxUpstreams} : config.upstreams = us
  BY DEF RoutingInit
<1> QED BY <1>1, RoutingAssumption DEF RoutingInit, RoutingInv
-----------------------------------------------------------------------------
(* Where a routed call runs, and under which quota.                        *)

CallTypes ==
  [stateless : BOOLEAN, shared_worker : BOOLEAN, shared_mode : BOOLEAN, mutating : BOOLEAN,
   local_state : BOOLEAN, tenant : Identifiers, team : {"absent", "safe", "unsafe"},
   has_snapshot : BOOLEAN, tool : {"known", "unknown"}, name : {"dotted", "undotted", "unsafe"},
   quota : Snapshots \cup {<<>>}]

SharingInv == call \in CallTypes /\ SharingSafe

\* No scope is named when none of a snapshot is in one of the states.
LEMMA NoScopeNamed ==
  ASSUME NEW q \in Snapshots, NEW states, FirstScope(q, states) = "none"
  PROVE  \A i \in 1 .. 5 : q[i] \notin states
<1> DEFINE hits == {i \in 1 .. Len(q) : q[i] \in states}
<1>1. DOMAIN q = 1 .. 5 /\ Len(Scopes) = 5 /\ q \in [1 .. 5 -> ScopeStates]
  BY DEF Snapshots, Scopes
<1>2. Len(q) = 5
  <2>1. q \in Seq(ScopeStates)
    BY <1>1, 5 \in Nat, SeqDef, Zenon
  <2>2. Len(q) \in Nat /\ DOMAIN q = 1 .. Len(q)
    BY <2>1, LenProperties, Zenon
  <2> QED BY <1>1, <2>2
<1>3. SelectInSeq(q, LAMBDA s : s \in states) = IF hits # {} THEN Min(hits) ELSE 0
  BY DEF SelectInSeq
<1>4. ASSUME hits # {} PROVE FALSE
  <2>0. hits \in SUBSET Nat
    BY <1>2
  <2>1. Min(hits) \in hits
    BY <1>4, <2>0, LeastOf, Zenon
  <2>2. Min(hits) \in 1 .. 5
    BY <1>2, <2>1
  <2> HIDE DEF hits
  <2>3. FirstScope(q, states) = Scopes[Min(hits)]
    BY <1>3, <1>4, <2>2 DEF FirstScope
  <2>4. \A i \in 1 .. 5 : Scopes[i] # "none"
    BY DEF Scopes
  <2> QED BY <2>2, <2>3, <2>4
<1> QED BY <1>2, <1>4

\* What is allowed has every scope in order.
LEMMA AllowedIsInOrder ==
  ASSUME NEW q \in Snapshots, QuotaAllows(q)
  PROVE  \A i \in DOMAIN q : q[i] = "in_order"
<1>1. \A i \in 1 .. 5 : q[i] \notin {"killed", "switch_missing"}
  BY NoScopeNamed DEF QuotaAllows, KillSwitchDenial
<1>2. \A i \in 1 .. 5 : q[i] \notin {"exceeded", "limit_missing"}
  BY NoScopeNamed DEF QuotaAllows, LimitDenial
<1>3. DOMAIN q = 1 .. 5 /\ \A i \in 1 .. 5 : q[i] \in ScopeStates
  BY DEF Snapshots, Scopes
<1> QED BY <1>1, <1>2, <1>3 DEF ScopeStates

\* How the worker's answer ends: it ran within quota, or says so or was malformed.
LEMMA WorkerEnds ==
  ASSUME NEW class, NEW allowlisted, NEW local, NEW quotaAllows \in BOOLEAN,
         WorkerCall(class, allowlisted, local, quotaAllows)
  PROVE  /\ outcome'.ran \in {"nowhere", "worker"}
         /\ outcome'.ran = "worker" =>
              quotaAllows /\ call.tenant = "safe" /\ class = "stateless" /\ ~local
         /\ outcome'.ran = "nowhere" /\ ~outcome'.audited => outcome'.reason = "shared_worker_error"
BY DEF WorkerCall, Ends, Placement

LEMMA SharingInvInit == SharingInit => SharingInv
BY DEF SharingInit, SharingInv, CallTypes, SharingSafe, QuotaFailsClosed, DenialsAudited, Resting

LEMMA SharingInvStep == SharingInv /\ [SharingNext]_sharingVars => SharingInv'
<1> SUFFICES ASSUME SharingInv, [SharingNext]_sharingVars PROVE SharingInv'
  OBVIOUS
<1>1. call \in CallTypes
  BY DEF SharingInv
<1>2. CASE RouteToEdge
  BY <1>1, <1>2 DEF RouteToEdge, Ends, HasContext, Eligible, SharingInv, SharingSafe,
                    QuotaFailsClosed, DenialsAudited
<1>3. CASE RouteToWorker
  <2>1. PICK q \in Snapshots :
          /\ call' = [call EXCEPT !.quota = q]
          /\ IF ~QuotaValid THEN Ends("nowhere", "shared_routing_quota_invalid", FALSE)
             ELSE WorkerCall("stateless", TRUE, FALSE, QuotaAllows(q))
    BY <1>3 DEF RouteToWorker
  <2>2. call' \in CallTypes /\ call'.quota = q /\ call'.tenant = call.tenant
        /\ call'.stateless = call.stateless /\ call'.local_state = call.local_state
    BY <1>1, <2>1 DEF CallTypes
  <2>3. call.stateless /\ ~call.local_state
    BY <1>3 DEF RouteToWorker, Eligible
  <2>4. CASE ~QuotaValid
    BY <2>1, <2>2, <2>4 DEF Ends, SharingInv, SharingSafe, QuotaFailsClosed, DenialsAudited
  <2>5. CASE QuotaValid
    <3>1. QuotaAllows(q) \in BOOLEAN
      BY DEF QuotaAllows
    <3>2. /\ outcome'.ran \in {"nowhere", "worker"}
          /\ outcome'.ran = "worker" => QuotaAllows(q) /\ call.tenant = "safe"
          /\ outcome'.ran = "nowhere" /\ ~outcome'.audited => outcome'.reason = "shared_worker_error"
      BY <2>1, <2>5, <3>1, WorkerEnds
    <3>3. outcome'.ran = "worker" => \A i \in DOMAIN q : q[i] = "in_order"
      BY <3>2, AllowedIsInOrder
    <3> QED BY <2>2, <2>3, <3>2, <3>3 DEF SharingInv, SharingSafe, QuotaFailsClosed, DenialsAudited
  <2> QED BY <2>4, <2>5
<1>4. CASE CallWorker
  <2>1. PICK class \in {"stateless", "stateful", "unknown", "private_inventory"}, q \in Snapshots :
          /\ call' = [call EXCEPT !.quota = q, !.stateless = (class = "stateless")]
          /\ WorkerCall(class, call.shared_worker, call.local_state, QuotaAllows(q))
    BY <1>4 DEF CallWorker
  <2>2. call' \in CallTypes /\ call'.quota = q /\ call'.tenant = call.tenant
        /\ call'.stateless = (class = "stateless") /\ call'.local_state = call.local_state
    BY <1>1, <2>1 DEF CallTypes
  <2>3. QuotaAllows(q) \in BOOLEAN
    BY DEF QuotaAllows
  <2>4. /\ outcome'.ran \in {"nowhere", "worker"}
        /\ outcome'.ran = "worker" =>
             QuotaAllows(q) /\ call.tenant = "safe" /\ class = "stateless" /\ ~call.local_state
        /\ outcome'.ran = "nowhere" /\ ~outcome'.audited => outcome'.reason = "shared_worker_error"
    BY <2>1, <2>3, WorkerEnds
  <2>5. outcome'.ran = "worker" => \A i \in DOMAIN q : q[i] = "in_order"
    BY <2>4, AllowedIsInOrder
  <2> QED BY <2>2, <2>4, <2>5 DEF SharingInv, SharingSafe, QuotaFailsClosed, DenialsAudited
<1>5. CASE UNCHANGED sharingVars
  BY <1>5 DEF sharingVars, SharingInv, CallTypes, SharingSafe, QuotaFailsClosed, DenialsAudited,
              Eligible, HasContext
<1> QED BY <1>2, <1>3, <1>4, <1>5 DEF SharingNext

\* A name that was given out leads to the upstream that listed it, by either way to call
\* a tool and to have it described, unless its prefix is shadowed; no request reaches an
\* upstream its profile may not (broker.py, catalog.py).  What runs in the shared worker
\* has every quota scope in order, a call that may go there never ends at the local edge,
\* and a denial is audited (hybrid_router.py, quota_policy.py, shared_worker.py).
THEOREM NamesLeadHome == RoutingSpec /\ SharingSpec => []ToolCallsRouted
<1>1. RoutingInv /\ SharingInv => ToolCallsRouted
  BY RoutingInvSafe DEF SharingInv, ToolCallsRouted
<1> QED BY <1>1, RoutingInvInit, RoutingInvStep, SharingInvInit, SharingInvStep, PTL
        DEF RoutingSpec, SharingSpec
-----------------------------------------------------------------------------
(* What break-glass and rollout commands leave on disk.                    *)

\* The record the pointer names is written, began before now, and is in the log or its
\* command is about to log it or was cut off.
BypassInv ==
  /\ instant \in Nat
  /\ \A r \in bypassRecords : r.created \in Nat /\ r.created < r.expires /\ r.created <= instant
  /\ creating \in [step : {"idle", "point", "audit"}, record : bypassRecords \cup {NoBypass}]
  /\ bypassAudit \subseteq bypassRecords
  /\ creating.step # "idle" => creating.record \in bypassRecords
  /\ activeBypass # NoBypass =>
       /\ activeBypass \in bypassRecords
       /\ \/ activeBypass \in bypassAudit \cup abandoned
          \/ creating.step = "audit" /\ activeBypass = creating.record

LEMMA BypassInvInit == BypassInit => BypassInv
BY DEF BypassInit, BypassInv, NotCreating

LEMMA BypassInvStep == BypassInv /\ [BypassNext]_bypassVars => BypassInv'
<1> SUFFICES ASSUME BypassInv, [BypassNext]_bypassVars PROVE BypassInv'
  OBVIOUS
<1>1. ASSUME NEW reason \in BypassReasons, NEW expires \in Instants, CreateRecord(reason, expires)
      PROVE  BypassInv'
  <2> DEFINE record == [reason |-> reason, created |-> instant, expires |-> expires]
  <2>1. /\ bypassRecords' = bypassRecords \cup {record}
        /\ creating' = [step |-> "point", record |-> record] /\ creating.step = "idle"
        /\ instant < expires
        /\ UNCHANGED <<activeBypass, bypassAudit, instant, abandoned>>
    BY <1>1 DEF CreateRecord, BypassInv, Instants
  <2>2. record.created \in Nat /\ record.created < record.expires /\ record.created <= instant
    BY <2>1 DEF BypassInv
  <2> HIDE DEF record
  <2> QED BY <2>1, <2>2 DEF BypassInv
<1>2. CASE PointAtRecord
  BY <1>2 DEF PointAtRecord, BypassInv
<1>3. CASE AuditRecord
  BY <1>3 DEF AuditRecord, BypassInv, NotCreating
<1>4. CASE CreateCutOff
  BY <1>4 DEF CreateCutOff, BypassInv, NotCreating
<1>5. CASE InstantPasses
  BY <1>5 DEF InstantPasses, BypassInv
<1>6. CASE UNCHANGED bypassVars
  BY <1>6 DEF bypassVars, BypassInv
<1> QED BY <1>1, <1>2, <1>3, <1>4, <1>5, <1>6 DEF BypassNext

LEMMA BypassInvSafe == BypassInv => BypassAccounted
BY DEF BypassInv, BypassAccounted, BypassInForce

\* What a run may decide after it was told this of the fleet; one run decides
\* rollbacks only or none at all.
Justified(id, ofFleet) ==
  /\ id[3] # "hold" => \A s \in ofFleet : s.covered
  /\ id[3] = "rollback" => \E s \in ofFleet : s.degraded /\ s.broker = id[2]
  /\ id[3] \in {"canary", "staged", "broad"} => \A s \in ofFleet : ~s.degraded
AllAlike(records) ==
  (\E a \in records : a.id[3] = "rollback") => \A a \in records : a.id[3] = "rollback"

RolloutSteps == {"idle", "assign", "decide", "record", "approve", "auditApproval", "report"}
RolloutTypes ==
  /\ runs \in 0 .. MaxRuns
  /\ fleet \in [1 .. MaxRuns -> SUBSET Statuses]
  /\ command = [step |-> command.step, whole |-> command.whole, bundle |-> command.bundle,
                broker |-> command.broker, todo |-> command.todo, done |-> command.done]
  /\ command.step \in RolloutSteps /\ command.whole \in BOOLEAN
  /\ command.step # "idle" => runs >= 1

\* The records of the run, decided and written: they are in the ledger once it has been
\* appended to, and none is before.
OwnRecords ==
  /\ \A a \in command.todo \cup command.done :
       a.run = runs /\ Justified(a.id, fleet[runs])
  /\ AllAlike(command.todo \cup command.done)
  /\ command.done \subseteq actions
  /\ command.step \in {"idle", "assign", "decide"} => command.todo = {} /\ command.done = {}
  /\ command.step = "record" => command.todo \cup command.done # {}
  /\ command.step \notin {"idle", "record"} => command.todo = {}
  /\ command.step \in {"assign", "decide"} => \A a \in actions : a.run # runs
  /\ command.step \in {"assign", "decide", "record"} => \A a \in ledger : a.run # runs
  /\ command.step \in {"approve", "report"} \/ (command.step = "auditApproval" /\ command.whole) =>
       command.whole /\ command.done # {} /\ command.done = {a \in ledger : a.run = runs}
  /\ command.step = "auditApproval" /\ ~command.whole => command.done = {}

\* The records of all runs: a file that is in no ledger is the command's or was left.
AllRecords ==
  /\ ledger \subseteq actions
  /\ \A a \in actions : a.run \in 1 .. runs
  /\ \A a \in actions \ ledger : a.run \in cutOff \/ a \in command.done
  /\ \A a \in ledger : Justified(a.id, fleet[a.run])

Approval(run, records) == [run |-> run, type |-> RequestType(records), ids |-> Ids(records)]
ReportInv ==
  /\ command.step = "auditApproval" /\ command.whole => Approval(runs, command.done) \in approvals
  /\ command.step = "report" => Approval(runs, command.done) \in approvalLog
  /\ report.run \in Nat
  /\ report.run # 0 =>
       /\ report.run <= runs /\ (command.step # "idle" => report.run # runs)
       /\ LET records == {a \in ledger : a.run = report.run}
          IN /\ records # {} /\ AllAlike(records)
             /\ report = Approval(report.run, records) /\ report \in approvalLog

RolloutInv == RolloutTypes /\ OwnRecords /\ AllRecords /\ ReportInv

LEMMA RolloutInvInit == RolloutInit => RolloutInv
<1> SUFFICES ASSUME RolloutInit PROVE RolloutInv
  OBVIOUS
<1> USE RolloutAssumption DEF RolloutInit
<1>1. RolloutTypes
  BY DEF RolloutTypes, NoRollout, RolloutSteps
<1>2. OwnRecords
  BY DEF OwnRecords, NoRollout, AllAlike
<1>3. AllRecords
  BY DEF AllRecords
<1>4. ReportInv
  BY DEF ReportInv, NoRollout
<1> QED BY <1>1, <1>2, <1>3, <1>4 DEF RolloutInv

\* What a run decides is justified by the statuses it was told, whatever the stages.
LEMMA DecidedFit ==
  ASSUME NEW stages, NEW statuses \in Seq(Statuses), NEW required, NEW granted
  PROVE  LET records == RecordsOf(Simulated(stages, statuses, required, granted))
         IN /\ \A a \in records : a.run = runs /\ Justified(a.id, ToSet(statuses))
            /\ AllAlike(records)
<1> DEFINE simulation == Simulated(stages, statuses, required, granted)
           records == RecordsOf(simulation)
<1> USE DEF ActionRecord
<1>s. ToSet(statuses) = {statuses[i] : i \in 1 .. Len(statuses)}
  BY DEF ToSet
<1>h. CASE records = {ActionRecord(1, "fleet", "hold")}
  BY <1>h DEF Justified, AllAlike
<1>1. CASE simulation.state \in {"approval_required", "compatibility_rejection"}
  BY <1>1, <1>h DEF RecordsOf
<1>2. CASE simulation = [state |-> "rollback",
                         decisions |-> RollbackDecisions(stages, statuses)]
           /\ \A i \in 1 .. Len(statuses) : statuses[i].covered
  <2>1. \A d \in simulation.decisions : d.state = "rollback" /\
            \E i \in 1 .. Len(statuses) : statuses[i].degraded /\ statuses[i].broker = d.broker
    <3> SUFFICES ASSUME NEW d \in RollbackDecisions(stages, statuses)
        PROVE  d.state = "rollback" /\ \E i \in 1 .. Len(statuses) :
                   statuses[i].degraded /\ statuses[i].broker = d.broker
      BY <1>2
    <3>1. PICK i \in {i \in 1 .. Len(statuses) : statuses[i].degraded} :
            d = Decision(Cardinality({j \in {k \in 1 .. Len(statuses) : statuses[k].degraded} :
                                        j <= i}),
                         statuses[i].broker, StageOf(stages, statuses[i].broker), "rollback")
      BY Zenon DEF RollbackDecisions
    <3> QED BY <3>1 DEF Decision
  <2>2. records = {ActionRecord(d.place, d.broker, ActionFor(d.state)) :
                     d \in simulation.decisions}
    BY <1>2 DEF RecordsOf
  <2>3. \A a \in records : a.run = runs /\ a.id[3] = "rollback" /\
            \E i \in 1 .. Len(statuses) : statuses[i].degraded /\ statuses[i].broker = a.id[2]
    <3> SUFFICES ASSUME NEW d \in simulation.decisions,
                        NEW a, a = ActionRecord(d.place, d.broker, ActionFor(d.state))
                 PROVE  /\ a.run = runs /\ a.id[3] = "rollback"
                        /\ \E i \in 1 .. Len(statuses) :
                              statuses[i].degraded /\ statuses[i].broker = a.id[2]
      BY <2>2
    <3>1. ActionFor(d.state) = "rollback"
      BY <2>1 DEF ActionFor
    <3>2. a.run = runs /\ a.id[3] = "rollback" /\ a.id[2] = d.broker
      BY <3>1
    <3> QED BY <2>1, <3>2
  <2> QED BY <2>3, <1>2, <1>s DEF Justified, AllAlike
<1>3. CASE simulation = [state |-> "ready", decisions |-> RolloutDecisions(stages, statuses)]
           /\ \A i \in 1 .. Len(statuses) : statuses[i].covered /\ ~statuses[i].degraded
  <2>1. \A d \in simulation.decisions :
            d.state \in {"canary", "broad_rollout", "staged_rollout"}
    <3>1. \A name : StateForStage(name) \in {"canary", "broad_rollout", "staged_rollout"}
      BY DEF StateForStage
    <3> SUFFICES ASSUME NEW d \in RolloutDecisions(stages, statuses)
        PROVE  \E name : d.state = StateForStage(name)
      BY <1>3, <3>1
    <3>2. PICK place, p : d = Decision(place, p[2], stages[p[1]].name,
                                       StateForStage(stages[p[1]].name))
      BY Zenon DEF RolloutDecisions
    <3> QED BY <3>2 DEF Decision
  <2>2. records = {ActionRecord(d.place, d.broker, ActionFor(d.state)) :
                     d \in simulation.decisions}
    BY <1>3 DEF RecordsOf
  <2>3. \A a \in records : a.run = runs /\ a.id[3] \in {"canary", "staged", "broad"}
    BY <2>1, <2>2 DEF ActionFor
  <2> QED BY <2>3, <1>3, <1>s DEF Justified, AllAlike
<1> QED BY <1>1, <1>2, <1>3 DEF Simulated

LEMMA RolloutInvStep == RolloutInv /\ [RolloutNext]_rolloutVars => RolloutInv'
<1> SUFFICES ASSUME RolloutInv, [RolloutNext]_rolloutVars PROVE RolloutInv'
  OBVIOUS
<1> USE RolloutAssumption
<1>t. RolloutTypes /\ OwnRecords /\ AllRecords /\ ReportInv
  BY DEF RolloutInv
<1>1. CASE PublishBundle
  <2>0. PICK bundle \in Bundles, broker \in Brokers : Begins("assign", TRUE, bundle, broker)
    BY <1>1 DEF PublishBundle
  <2>b. /\ command.step = "idle" /\ runs < MaxRuns /\ runs' = runs + 1
        /\ command' = [step |-> "assign", whole |-> TRUE, bundle |-> bundle,
                       broker |-> broker, todo |-> {}, done |-> {}]
    BY <2>0 DEF Begins, At, NoRollout
  <2>u. UNCHANGED <<actions, ledger, approvals, approvalLog, report, cutOff, fleet>>
    BY <1>1 DEF PublishBundle
  <2> USE <1>t, <2>b, <2>u
  <2>1. RolloutTypes'
    BY DEF RolloutTypes, RolloutSteps
  <2>2. OwnRecords'
    BY DEF RolloutTypes, OwnRecords, AllRecords, AllAlike
  <2>3. AllRecords'
    BY DEF RolloutTypes, OwnRecords, AllRecords
  <2>4. ReportInv'
    BY DEF RolloutTypes, OwnRecords, AllRecords, ReportInv, Approval, RequestType, Ids
  <2> QED BY <2>1, <2>2, <2>3, <2>4 DEF RolloutInv
<1>2. CASE EvaluateAssignment
  <2>u. /\ UNCHANGED <<actions, ledger, approvals, approvalLog, report, runs, fleet>>
        /\ command.step = "assign"
    BY <1>2 DEF EvaluateAssignment, At
  <2>1. CASE Leaves("decide") /\ UNCHANGED cutOff
    <3> USE <1>t, <2>1, <2>u DEF Leaves
    <3>1. RolloutTypes'
      BY DEF RolloutTypes, RolloutSteps
    <3>2. OwnRecords'
      BY DEF RolloutTypes, OwnRecords, AllRecords, AllAlike
    <3>3. AllRecords'
      BY DEF RolloutTypes, OwnRecords, AllRecords
    <3>4. ReportInv'
      BY DEF RolloutTypes, OwnRecords, AllRecords, ReportInv, Approval, RequestType, Ids
    <3> QED BY <3>1, <3>2, <3>3, <3>4 DEF RolloutInv
  <2>2. CASE GivesUp
    <3> USE <1>t, <2>2, <2>u DEF GivesUp, NoRollout
    <3>1. RolloutTypes'
      BY DEF RolloutTypes, RolloutSteps
    <3>2. OwnRecords'
      BY DEF RolloutTypes, OwnRecords, AllRecords, AllAlike
    <3>3. AllRecords'
      BY DEF RolloutTypes, OwnRecords, AllRecords
    <3>4. ReportInv'
      BY DEF RolloutTypes, OwnRecords, AllRecords, ReportInv, Approval, RequestType, Ids
    <3> QED BY <3>1, <3>2, <3>3, <3>4 DEF RolloutInv
  <2> QED BY <1>2, <2>1, <2>2 DEF EvaluateAssignment
<1>3. CASE StartRolloutControl
  <2>0. PICK bundle \in Bundles : Begins("decide", FALSE, bundle, "none")
    BY <1>3 DEF StartRolloutControl
  <2>b. /\ command.step = "idle" /\ runs < MaxRuns /\ runs' = runs + 1
        /\ command' = [step |-> "decide", whole |-> FALSE, bundle |-> bundle,
                       broker |-> "none", todo |-> {}, done |-> {}]
    BY <2>0 DEF Begins, At, NoRollout
  <2>u. UNCHANGED <<actions, ledger, approvals, approvalLog, report, cutOff, fleet>>
    BY <1>3 DEF StartRolloutControl
  <2> USE <1>t, <2>b, <2>u
  <2>1. RolloutTypes'
    BY DEF RolloutTypes, RolloutSteps
  <2>2. OwnRecords'
    BY DEF RolloutTypes, OwnRecords, AllRecords, AllAlike
  <2>3. AllRecords'
    BY DEF RolloutTypes, OwnRecords, AllRecords
  <2>4. ReportInv'
    BY DEF RolloutTypes, OwnRecords, AllRecords, ReportInv, Approval, RequestType, Ids
  <2> QED BY <2>1, <2>2, <2>3, <2>4 DEF RolloutInv
<1>4. CASE DecideReference \/ DecideControl
  <2>p. PICK statuses \in FleetStatuses : \E stages, required, granted :
          Decide(stages, statuses, required, granted)
    <3>1. CASE DecideReference
      <4>1. PICK statuses \in FleetStatuses, ring \in StageNames, required \in BOOLEAN :
              Decide(<<[name |-> ring, brokers |-> {command.broker}]>>, statuses, required, TRUE)
        BY <3>1 DEF DecideReference
      <4> QED BY <4>1
    <3>2. CASE DecideControl
      <4>1. PICK statuses \in FleetStatuses, first \in SUBSET Brokers, required \in BOOLEAN,
                 granted \in BOOLEAN :
              Decide(<<[name |-> "canary", brokers |-> first],
                       [name |-> "broad", brokers |-> Brokers \ first]>>,
                     statuses, required, granted)
        BY <3>2 DEF DecideControl
      <4> QED BY <4>1
    <3> QED BY <1>4, <3>1, <3>2
  <2>0. PICK stages, required, granted : Decide(stages, statuses, required, granted)
    BY <2>p
  <2>s. command.step = "decide"
    BY <1>4 DEF DecideReference, DecideControl, At
  <2>q. statuses \in Seq(Statuses)
    <3>1. PICK n \in 1 .. 2 : statuses \in [1 .. n -> Statuses]
      BY DEF FleetStatuses
    <3> QED BY <3>1
  <2> DEFINE records == RecordsOf(Simulated(stages, statuses, required, granted))
  <2>d. /\ \A a \in records : a.run = runs /\ Justified(a.id, ToSet(statuses))
        /\ AllAlike(records)
    BY <2>q, DecidedFit
  <2>f. fleet' = [fleet EXCEPT ![runs] = ToSet(statuses)] /\ ToSet(statuses) \subseteq Statuses
    BY <2>0, <2>q DEF Decide, ToSet
  <2>u. UNCHANGED <<actions, ledger, approvals, approvalLog, report, runs>>
    BY <2>0 DEF Decide
  <2>j. \A a \in ledger : Justified(a.id, fleet'[a.run])
    BY <1>t, <2>f, <2>s DEF RolloutTypes, OwnRecords, AllRecords
  <2> HIDE DEF records
  <2>1. CASE records = {} /\ GivesUp
    <3> USE <1>t, <2>1, <2>u, <2>s, <2>f, <2>j DEF GivesUp, NoRollout
    <3>1. RolloutTypes'
      BY DEF RolloutTypes, RolloutSteps
    <3>2. OwnRecords'
      BY DEF RolloutTypes, OwnRecords, AllRecords, AllAlike
    <3>3. AllRecords'
      BY DEF RolloutTypes, OwnRecords, AllRecords
    <3>4. ReportInv'
      BY DEF RolloutTypes, OwnRecords, AllRecords, ReportInv, Approval, RequestType, Ids
    <3> QED BY <3>1, <3>2, <3>3, <3>4 DEF RolloutInv
  <2>2. CASE /\ records # {} /\ UNCHANGED cutOff
             /\ command' = [command EXCEPT !.step = "record", !.todo = records]
    <3> USE <1>t, <2>2, <2>u, <2>s, <2>f, <2>j, <2>d
    <3>1. RolloutTypes'
      BY DEF RolloutTypes, RolloutSteps
    <3>2. OwnRecords'
      BY DEF RolloutTypes, OwnRecords, AllRecords, AllAlike
    <3>3. AllRecords'
      BY DEF RolloutTypes, OwnRecords, AllRecords
    <3>4. ReportInv'
      BY DEF RolloutTypes, OwnRecords, AllRecords, ReportInv, Approval, RequestType, Ids
    <3> QED BY <3>1, <3>2, <3>3, <3>4 DEF RolloutInv
  <2> QED BY <2>0, <2>1, <2>2 DEF Decide, records
<1>6. CASE DecisionRefused
  <2> USE <1>t, <1>6 DEF DecisionRefused, At, GivesUp, NoRollout
  <2>1. RolloutTypes'
    BY DEF RolloutTypes, RolloutSteps
  <2>2. OwnRecords'
    BY DEF RolloutTypes, OwnRecords, AllRecords, AllAlike
  <2>3. AllRecords'
    BY DEF RolloutTypes, OwnRecords, AllRecords
  <2>4. ReportInv'
    BY DEF RolloutTypes, OwnRecords, AllRecords, ReportInv, Approval, RequestType, Ids
  <2> QED BY <2>1, <2>2, <2>3, <2>4 DEF RolloutInv
<1>7. CASE WriteAction
  <2>u. /\ UNCHANGED <<ledger, approvals, approvalLog, report, runs, fleet>>
        /\ command.step = "record"
    BY <1>7 DEF WriteAction, At
  <2>0. PICK record \in command.todo :
          \/ actions' = actions \cup {record} /\ Written(record) /\ UNCHANGED cutOff
          \/ GivesUp /\ UNCHANGED actions
    BY <1>7 DEF WriteAction
  <2>1. CASE actions' = actions \cup {record} /\ Written(record) /\ UNCHANGED cutOff
    <3>0. command' = [step |-> "record", whole |-> command.whole, bundle |-> command.bundle,
                      broker |-> command.broker, todo |-> command.todo \ {record},
                      done |-> command.done \cup {record}]
      BY <1>t, <2>1, <2>u DEF Written, RolloutTypes
    <3> USE <1>t, <2>u, <2>1, <3>0
    <3>1. RolloutTypes'
      BY DEF RolloutTypes, RolloutSteps
    <3>2. OwnRecords'
      BY DEF RolloutTypes, OwnRecords, AllRecords, AllAlike
    <3>3. AllRecords'
      BY DEF RolloutTypes, OwnRecords, AllRecords
    <3>4. ReportInv'
      BY DEF RolloutTypes, OwnRecords, AllRecords, ReportInv, Approval, RequestType, Ids
    <3> QED BY <3>1, <3>2, <3>3, <3>4 DEF RolloutInv
  <2>2. CASE GivesUp /\ UNCHANGED actions
    <3> USE <1>t, <2>2, <2>u DEF GivesUp, NoRollout
    <3>1. RolloutTypes'
      BY DEF RolloutTypes, RolloutSteps
    <3>2. OwnRecords'
      BY DEF RolloutTypes, OwnRecords, AllRecords, AllAlike
    <3>3. AllRecords'
      BY DEF RolloutTypes, OwnRecords, AllRecords
    <3>4. ReportInv'
      BY DEF RolloutTypes, OwnRecords, AllRecords, ReportInv, Approval, RequestType, Ids
    <3> QED BY <3>1, <3>2, <3>3, <3>4 DEF RolloutInv
  <2> QED BY <2>0, <2>1, <2>2
<1>8. CASE AppendLedger
  <2> USE <1>t, <1>8 DEF AppendLedger, At, NoRollout
  <2>1. RolloutTypes'
    BY DEF RolloutTypes, RolloutSteps
  <2>2. OwnRecords'
    BY DEF RolloutTypes, OwnRecords, AllRecords, AllAlike
  <2>3. AllRecords'
    BY DEF RolloutTypes, OwnRecords, AllRecords
  <2>4. ReportInv'
    BY DEF RolloutTypes, OwnRecords, AllRecords, ReportInv, Approval, RequestType, Ids
  <2> QED BY <2>1, <2>2, <2>3, <2>4 DEF RolloutInv
<1>9. CASE ApproveDecided
  <2> USE <1>t, <1>9 DEF ApproveDecided, At, WriteApproval, Leaves, NoRollout
  <2>1. RolloutTypes'
    BY DEF RolloutTypes, RolloutSteps
  <2>2. OwnRecords'
    BY DEF RolloutTypes, OwnRecords, AllRecords, AllAlike
  <2>3. AllRecords'
    BY DEF RolloutTypes, OwnRecords, AllRecords
  <2>4. ReportInv'
    BY DEF RolloutTypes, OwnRecords, AllRecords, ReportInv, Approval, RequestType, Ids
  <2> QED BY <2>1, <2>2, <2>3, <2>4 DEF RolloutInv
<1>10. CASE ApprovalRefused
  <2> USE <1>t, <1>10 DEF ApprovalRefused, At, GivesUp, NoRollout
  <2>1. RolloutTypes'
    BY DEF RolloutTypes, RolloutSteps
  <2>2. OwnRecords'
    BY DEF RolloutTypes, OwnRecords, AllRecords, AllAlike
  <2>3. AllRecords'
    BY DEF RolloutTypes, OwnRecords, AllRecords
  <2>4. ReportInv'
    BY DEF RolloutTypes, OwnRecords, AllRecords, ReportInv, Approval, RequestType, Ids
  <2> QED BY <2>1, <2>2, <2>3, <2>4 DEF RolloutInv
<1>11. CASE ApproveCommand
  <2>0. PICK broker \in Brokers : Begins("auditApproval", FALSE, NoBundle, broker)
    BY <1>11 DEF ApproveCommand
  <2>b. /\ command.step = "idle" /\ runs < MaxRuns /\ runs' = runs + 1
        /\ command' = [step |-> "auditApproval", whole |-> FALSE, bundle |-> NoBundle,
                       broker |-> broker, todo |-> {}, done |-> {}]
    BY <2>0 DEF Begins, At, NoRollout
  <2>u. /\ approvals \subseteq approvals'
        /\ UNCHANGED <<actions, ledger, approvalLog, report, cutOff, fleet>>
    BY <1>11 DEF ApproveCommand, WriteApproval
  <2> USE <1>t, <2>b, <2>u
  <2>1. RolloutTypes'
    BY DEF RolloutTypes, RolloutSteps
  <2>2. OwnRecords'
    BY DEF RolloutTypes, OwnRecords, AllRecords, AllAlike
  <2>3. AllRecords'
    BY DEF RolloutTypes, OwnRecords, AllRecords
  <2>4. ReportInv'
    BY DEF RolloutTypes, OwnRecords, AllRecords, ReportInv, Approval, RequestType, Ids
  <2> QED BY <2>1, <2>2, <2>3, <2>4 DEF RolloutInv
<1>12. CASE AuditApproval
  <2> USE <1>t, <1>12 DEF AuditApproval, At, NoRollout
  <2>1. RolloutTypes'
    BY DEF RolloutTypes, RolloutSteps
  <2>2. OwnRecords'
    BY DEF RolloutTypes, OwnRecords, AllRecords, AllAlike
  <2>3. AllRecords'
    BY DEF RolloutTypes, OwnRecords, AllRecords
  <2>4. ReportInv'
    BY DEF RolloutTypes, OwnRecords, AllRecords, ReportInv, Approval, RequestType, Ids
  <2> QED BY <2>1, <2>2, <2>3, <2>4 DEF RolloutInv
<1>13. CASE WriteReport
  <2> USE <1>t, <1>13 DEF WriteReport, At, NoRollout
  <2>1. RolloutTypes'
    BY DEF RolloutTypes, RolloutSteps
  <2>2. OwnRecords'
    BY DEF RolloutTypes, OwnRecords, AllRecords, AllAlike
  <2>3. AllRecords'
    BY DEF RolloutTypes, OwnRecords, AllRecords
  <2>4. ReportInv'
    <3>1. report' = Approval(runs, command.done)
      BY DEF Approval
    <3>2. command.done = {a \in ledger : a.run = runs} /\ command.done # {}
      BY DEF OwnRecords
    <3>3. AllAlike(command.done)
      BY DEF OwnRecords, AllAlike
    <3>4. Approval(runs, command.done) \in approvalLog
      BY DEF ReportInv
    <3>5. report'.run = runs /\ runs \in Nat
      BY DEF RolloutTypes
    <3>6. {a \in ledger' : a.run = report'.run} = command.done /\ command'.step = "idle"
      BY <3>2, <3>5
    <3>7. runs' = runs /\ approvalLog' = approvalLog
      OBVIOUS
    <3> HIDE <1>13 DEF WriteReport
    <3>8. /\ {a \in ledger' : a.run = report'.run} # {}
          /\ AllAlike({a \in ledger' : a.run = report'.run})
          /\ report' = Approval(report'.run, {a \in ledger' : a.run = report'.run})
          /\ report' \in approvalLog'
      BY <3>1, <3>2, <3>3, <3>4, <3>5, <3>6, <3>7
    <3> QED BY <3>5, <3>6, <3>7, <3>8 DEF ReportInv, Approval, RequestType, Ids, AllAlike
  <2> QED BY <2>1, <2>2, <2>3, <2>4 DEF RolloutInv
<1>14. CASE Interrupted
  <2> USE <1>t, <1>14 DEF Interrupted, At, GivesUp, NoRollout
  <2>1. RolloutTypes'
    BY DEF RolloutTypes, RolloutSteps
  <2>2. OwnRecords'
    BY DEF RolloutTypes, OwnRecords, AllRecords, AllAlike
  <2>3. AllRecords'
    BY DEF RolloutTypes, OwnRecords, AllRecords
  <2>4. ReportInv'
    BY DEF RolloutTypes, OwnRecords, AllRecords, ReportInv, Approval, RequestType, Ids
  <2> QED BY <2>1, <2>2, <2>3, <2>4 DEF RolloutInv
<1>15. CASE UNCHANGED rolloutVars
  <2> USE <1>t, <1>15 DEF rolloutVars, NoRollout
  <2>1. RolloutTypes'
    BY DEF RolloutTypes, RolloutSteps
  <2>2. OwnRecords'
    BY DEF RolloutTypes, OwnRecords, AllRecords, AllAlike
  <2>3. AllRecords'
    BY DEF RolloutTypes, OwnRecords, AllRecords
  <2>4. ReportInv'
    BY DEF RolloutTypes, OwnRecords, AllRecords, ReportInv, Approval, RequestType, Ids
  <2> QED BY <2>1, <2>2, <2>3, <2>4 DEF RolloutInv
<1> QED BY <1>1, <1>2, <1>3, <1>4, <1>6, <1>7, <1>8, <1>9, <1>10, <1>11, <1>12, <1>13, <1>14, <1>15
   DEF RolloutNext

LEMMA RolloutInvSafe == RolloutInv => RolloutSafe
<1> SUFFICES ASSUME RolloutInv PROVE RolloutSafe
  OBVIOUS
<1>1. LedgerMatchesFiles
  BY DEF RolloutInv, AllRecords, LedgerMatchesFiles
<1>2. DecisionsJustified
  BY DEF RolloutInv, AllRecords, DecisionsJustified, Justified
<1>3. ReportIsBacked
  <2> SUFFICES ASSUME report.run # 0 PROVE ReportIsBacked
    BY DEF ReportIsBacked
  <2> DEFINE records == {a \in ledger : a.run = report.run}
  <2>1. /\ records # {} /\ AllAlike(records) /\ report \in approvalLog
        /\ report = Approval(report.run, records)
    BY DEF RolloutInv, ReportInv
  <2> HIDE DEF records
  <2>2. report.ids = Ids(records) /\ report.type = RequestType(records)
    BY <2>1 DEF Approval
  <2>3. /\ report.ids # {}
        /\ (report.type = "rollback") = (\E id \in report.ids : id[3] = "rollback")
        /\ report.type = "rollback" => \A id \in report.ids : id[3] = "rollback"
    BY <2>1, <2>2 DEF RequestType, Ids, AllAlike
  <2>4. [run |-> report.run, type |-> report.type, ids |-> report.ids] = report
    BY <2>1 DEF Approval
  <2> QED BY <2>1, <2>2, <2>3, <2>4 DEF ReportIsBacked, records, Ids
<1> QED BY <1>1, <1>2, <1>3 DEF RolloutSafe
-----------------------------------------------------------------------------
(* What commands do to the files of a client.                              *)

ClientPhases == {"none", "read", "save", "write"}
ClientJobs == [file : ClientFiles, does : {"render", "police", "save", "restore"}]
ClientTypes ==
  /\ clientFiles = [f \in ClientFiles |-> clientFiles[f]]
  /\ clientSecond \in Nat
  /\ clientBackups = [k \in DOMAIN clientBackups |-> clientBackups[k]]
  /\ \A k \in DOMAIN clientBackups : k[2] \in Nat /\ k = <<k[1], k[2], k[3]>>
  /\ client = [jobs |-> client.jobs, phase |-> client.phase, text |-> client.text,
               label |-> client.label, edited |-> client.edited]
  /\ client.jobs \in Seq(ClientJobs)
  /\ client.phase # "none" => client.jobs # <<>>
  /\ client.phase \in ClientPhases /\ client.label \in Nat /\ client.edited \in BOOLEAN
  /\ relabelled \in BOOLEAN

\* What a command is about to replace it has saved, and what was replaced was; the
\* latest backup of the main file's name is the last one, while that is known.
Kept(base, content) ==
  \E k \in DOMAIN clientBackups : k[3] = base /\ clientBackups[k] = content
KeptInv ==
  /\ ~relabelled =>
       /\ \A r \in replaced : Kept(r[1], r[2])
       /\ client.phase = "write" /\ Job.does # "restore" /\ ~client.edited /\ IsText(Content) =>
            Kept(BaseName[Job.file], Content)
  /\ client.phase \in {"none", "read", "save"} => ~client.edited
LatestInv ==
  IsText(lastBackup) =>
    \E k \in MainBackups :
       clientBackups[k] = lastBackup /\ \A j \in MainBackups : j[2] <= k[2]

ClientInv == ClientTypes /\ KeptInv /\ LatestInv

LEMMA ClientInvInit == ClientInit => ClientInv
<1> SUFFICES ASSUME ClientInit PROVE ClientInv
  OBVIOUS
<1>1. ClientTypes
  <2>1. clientFiles = [f \in ClientFiles |-> clientFiles[f]]
    BY DEF ClientInit
  <2>2. clientBackups = [k \in DOMAIN clientBackups |-> clientBackups[k]]
        /\ DOMAIN clientBackups = {}
    BY DEF ClientInit
  <2>3. /\ client = [jobs |-> client.jobs, phase |-> client.phase, text |-> client.text,
                    label |-> client.label, edited |-> client.edited]
        /\ client.jobs \in Seq(ClientJobs) /\ client.label \in Nat
        /\ client.phase = "none" /\ client.edited \in BOOLEAN
    BY DEF ClientInit, NoClient
  <2>4. clientSecond \in Nat /\ relabelled \in BOOLEAN
    BY DEF ClientInit
  <2> QED BY <2>1, <2>2, <2>3, <2>4 DEF ClientTypes, ClientPhases
<1>2. KeptInv
  BY DEF ClientInit, NoClient, KeptInv
<1>3. LatestInv
  BY DEF ClientInit, LatestInv, IsText
<1> QED BY <1>1, <1>2, <1>3 DEF ClientInv

LEMMA JobsFit ==
  ASSUME NEW files \in Seq(ClientFiles), NEW does \in {"render", "police", "save", "restore"}
  PROVE  Jobs(files, does) \in Seq(ClientJobs)
<1>1. Jobs(files, does) \in [1 .. Len(files) -> ClientJobs]
  BY DEF Jobs, ClientJobs
<1> QED BY <1>1

\* A command begins with jobs on the files of the client.
LEMMA CommandBegins ==
  ASSUME ClientTypes,
         \/ \E target \in Targets : RenderClient(target)
         \/ \E label \in Labels \cup {0} : BackUpClient(label) \/ ApplyPolicy(label)
         \/ RollBackClient
  PROVE  \E jobs \in Seq(ClientJobs), label \in Nat : BeginCommand(jobs, label)
<1> USE ClientAssumption
<1>1. Caches \in Seq(ClientFiles) /\ BackupPaths \in Seq(ClientFiles)
      /\ MainFile \in ClientFiles /\ Targets \subseteq ClientFiles
  BY DEF ClientFiles
<1>2. \A file \in ClientFiles : <<file>> \in Seq(ClientFiles)
  OBVIOUS
<1>3. Jobs(Caches, "police") \in Seq(ClientJobs)
  BY <1>1, JobsFit
<1>4. CASE \E target \in Targets : RenderClient(target)
  <2>1. PICK target \in Targets : RenderClient(target)
    BY <1>4
  <2>2. Jobs(<<target>>, "render") \in Seq(ClientJobs)
    BY <1>1, <1>2, JobsFit
  <2>3. Jobs(<<target>>, "render") \o Jobs(Caches, "police") \in Seq(ClientJobs)
    BY <1>3, <2>2
  <2> QED BY <2>1, <2>3 DEF RenderClient
<1>5. ASSUME NEW label \in Labels \cup {0}, BackUpClient(label)
      PROVE  \E jobs \in Seq(ClientJobs), n \in Nat : BeginCommand(jobs, n)
  <2>1. <<MainFile>> \o BackupPaths \in Seq(ClientFiles)
    BY <1>1, <1>2
  <2>2. Jobs(<<MainFile>> \o BackupPaths, "save") \in Seq(ClientJobs)
    BY <2>1, JobsFit
  <2> QED BY <1>5, <2>2 DEF BackUpClient
<1>6. ASSUME NEW label \in Labels \cup {0}, ApplyPolicy(label)
      PROVE  \E jobs \in Seq(ClientJobs), n \in Nat : BeginCommand(jobs, n)
  <2>1. (IF label = 0 THEN clientSecond ELSE label) \in Nat
    BY DEF ClientTypes
  <2> QED BY <1>3, <1>6, <2>1 DEF ApplyPolicy
<1>7. CASE RollBackClient
  <2>1. Jobs(<<MainFile>>, "restore") \in Seq(ClientJobs)
    BY <1>1, <1>2, JobsFit
  <2> QED BY <1>7, <2>1 DEF RollBackClient
<1> QED BY <1>4, <1>5, <1>6, <1>7

\* What is left of a command after its first job
LEMMA OverFits ==
  ASSUME ClientTypes, client.phase # "none"
  PROVE  LET next == Over(Tail(client.jobs))
         IN /\ next.jobs \in Seq(ClientJobs)
            /\ next.phase = IF next.jobs = <<>> THEN "none" ELSE "read"
            /\ next.label \in Nat /\ next.edited = FALSE
            /\ next = [jobs |-> next.jobs, phase |-> next.phase, text |-> next.text,
                       label |-> next.label, edited |-> next.edited]
<1>1. Tail(client.jobs) \in Seq(ClientJobs)
  BY DEF ClientTypes
<1> QED BY <1>1 DEF Over, NoClient, ClientTypes

\* A job, while there is one, is on a file of the client.
LEMMA JobFits ==
  ASSUME ClientTypes, client.phase # "none"
  PROVE  Job \in ClientJobs /\ Job.file \in ClientFiles /\ BackupName[2] \in Nat
<1>1. Job \in ClientJobs
  BY DEF ClientTypes, Job
<1> QED BY <1>1 DEF ClientTypes, ClientJobs, BackupName

LEMMA SaveKeepsTypes ==
  ASSUME ClientTypes, client.phase # "none", NEW content, SaveAs(content)
  PROVE  /\ clientBackups' = [k \in DOMAIN clientBackups' |-> clientBackups'[k]]
         /\ \A k \in DOMAIN clientBackups' : k[2] \in Nat /\ k = <<k[1], k[2], k[3]>>
         /\ relabelled' \in BOOLEAN
<1>1. BackupName = <<BackupName[1], BackupName[2], BackupName[3]>>
  BY DEF BackupName
<1>2. BackupName[2] \in Nat
  BY JobFits
<1> QED BY <1>1, <1>2 DEF SaveAs, ClientTypes

LEMMA ClientTypesStep == ClientTypes /\ [ClientNext]_clientVars => ClientTypes'
<1> SUFFICES ASSUME ClientTypes, [ClientNext]_clientVars PROVE ClientTypes'
  OBVIOUS
<1>1. ASSUME NEW jobs \in Seq(ClientJobs), NEW label \in Nat, BeginCommand(jobs, label)
      PROVE  ClientTypes'
  BY <1>1 DEF BeginCommand, NoClient, ClientTypes, ClientPhases
<1>2. CASE ReadToSave \/ ReadBackup \/ ReadToRender \/ ReadToPolice
  <2>1. /\ UNCHANGED <<clientFiles, strict, clientSecond, clientEvents, clientBackups,
                       replaced, relabelled, lastBackup>>
        /\ client.phase = "read"
    BY <1>2 DEF ReadToSave, ReadBackup, ReadToRender, ReadToPolice, ReadFile
  <2>2. \/ client' = [client EXCEPT !.phase = "save"]
        \/ \E text : \/ client' = [client EXCEPT !.phase = "write", !.text = text]
                     \/ client' = [client EXCEPT !.phase = "save", !.text = text]
        \/ client' = NoClient
        \/ client' = Over(Tail(client.jobs))
    BY <1>2 DEF ReadToSave, ReadBackup, ReadToRender, ReadToPolice, ReadFile
  <2>3. CASE client' = Over(Tail(client.jobs))
    BY <2>1, <2>3, OverFits DEF ClientTypes, ClientPhases
  <2>4. CASE client' = NoClient
    BY <2>1, <2>4 DEF NoClient, ClientTypes, ClientPhases
  <2>5. CASE client' = [client EXCEPT !.phase = "save"]
    BY <2>1, <2>5 DEF ClientTypes, ClientPhases
  <2>6. ASSUME NEW text, \/ client' = [client EXCEPT !.phase = "write", !.text = text]
                         \/ client' = [client EXCEPT !.phase = "save", !.text = text]
        PROVE  ClientTypes'
    <3>1. CASE client' = [client EXCEPT !.phase = "write", !.text = text]
      BY <2>1, <3>1 DEF ClientTypes, ClientPhases
    <3>2. CASE client' = [client EXCEPT !.phase = "save", !.text = text]
      BY <2>1, <3>2 DEF ClientTypes, ClientPhases
    <3> QED BY <2>6, <3>1, <3>2
  <2> QED BY <2>2, <2>3, <2>4, <2>5, <2>6
<1>3. CASE SaveFile
  <2>1. client.phase = "save" /\ SaveAs(ToSave) /\ UNCHANGED <<clientFiles, clientSecond>>
    BY <1>3 DEF SaveFile
  <2>2. client' = Over(Tail(client.jobs)) \/ client' = [client EXCEPT !.phase = "write"]
    BY <1>3 DEF SaveFile
  <2> QED BY <2>1, <2>2, SaveKeepsTypes, OverFits DEF ClientTypes, ClientPhases
<1>4. CASE WriteFile
  <2>1. /\ client.phase = "write" /\ client' = Over(Tail(client.jobs))
        /\ UNCHANGED <<clientSecond, clientBackups, relabelled>>
        /\ clientFiles' = [clientFiles EXCEPT ![Job.file] = client.text]
    BY <1>4 DEF WriteFile, Replaced
  <2> QED BY <2>1, OverFits DEF ClientTypes, ClientPhases
<1>5. CASE ClientCommandDies
  <2>1. client.phase # "none" /\ client' = NoClient /\ UNCHANGED clientSecond
    BY <1>5 DEF ClientCommandDies
  <2>2. clientFiles' = [f \in ClientFiles |-> clientFiles'[f]]
    BY <1>5 DEF ClientCommandDies, Replaced, ClientTypes
  <2>3. SaveAs(Unreadable) \/ UNCHANGED <<clientBackups, relabelled>>
    BY <1>5 DEF ClientCommandDies
  <2> QED BY <2>1, <2>2, <2>3, SaveKeepsTypes DEF NoClient, ClientTypes, ClientPhases
<1>6. ASSUME NEW f, NEW content, UserWrites(f, content) PROVE ClientTypes'
  BY <1>6 DEF UserWrites, ClientTypes, ClientPhases
<1>7. CASE ClientSecondPasses
  BY <1>7 DEF ClientSecondPasses, ClientTypes
<1>8. CASE UNCHANGED clientVars
  BY <1>8 DEF clientVars, ClientTypes
<1> QED BY <1>1, <1>2, <1>3, <1>4, <1>5, <1>6, <1>7, <1>8, CommandBegins DEF ClientNext

\* A backup under a new name, or the same again, keeps what is in the others.
LEMMA SaveKeeps ==
  ASSUME ClientTypes, NEW content, SaveAs(content), ~relabelled'
  PROVE  /\ ~relabelled
         /\ \A base, c : Kept(base, c) => Kept(base, c)'
         /\ \A base : base = BaseName[Job.file] => Kept(base, content)'
<1>1. ~relabelled /\ (BackupName \in DOMAIN clientBackups =>
                        clientBackups[BackupName] = content)
  BY DEF SaveAs, ClientTypes
<1>2. clientBackups' = [k \in DOMAIN clientBackups \cup {BackupName} |->
                           IF k = BackupName THEN content ELSE clientBackups[k]]
  BY DEF SaveAs
<1>3. BackupName[3] = BaseName[Job.file]
  BY DEF BackupName
<1>4. BackupName \in DOMAIN clientBackups' /\ clientBackups'[BackupName] = content
  BY <1>2
<1>5. \A k \in DOMAIN clientBackups :
         k \in DOMAIN clientBackups' /\ clientBackups'[k] = clientBackups[k]
  BY <1>1, <1>2
<1>6. \A base, c : Kept(base, c) => Kept(base, c)'
  BY <1>5 DEF Kept
<1>7. \A base : base = BaseName[Job.file] => Kept(base, content)'
  BY <1>3, <1>4 DEF Kept
<1> QED BY <1>1, <1>6, <1>7

\* What is replaced is kept.
LEMMA ReplacedIsKept ==
  ASSUME KeptInv, client.phase = "write", NEW content, Replaced(content),
         UNCHANGED <<clientBackups, relabelled>>, ~relabelled
  PROVE  \A r \in replaced' : Kept(r[1], r[2])'
<1>1. \A base, c : Kept(base, c)' = Kept(base, c)
  BY DEF Kept
<1> QED BY <1>1 DEF KeptInv, Replaced

LEMMA KeptInvStep == ClientTypes /\ KeptInv /\ [ClientNext]_clientVars => KeptInv'
<1> SUFFICES ASSUME ClientTypes, KeptInv, [ClientNext]_clientVars PROVE KeptInv'
  OBVIOUS
<1>k. UNCHANGED clientBackups => \A base, c : Kept(base, c)' = Kept(base, c)
  BY DEF Kept
<1>1. ASSUME NEW jobs, NEW label, BeginCommand(jobs, label) PROVE KeptInv'
  BY <1>1, <1>k DEF BeginCommand, NoClient, KeptInv
<1>2. CASE ReadToSave \/ ReadBackup \/ ReadToRender \/ ReadToPolice
  <2>1. UNCHANGED <<clientBackups, replaced, relabelled>> /\ client.phase = "read"
    BY <1>2 DEF ReadToSave, ReadBackup, ReadToRender, ReadToPolice, ReadFile
  <2>2. CASE ReadBackup
    <3>1. Job' = Job /\ Job.does = "restore" /\ client'.phase = "write"
      BY <2>2 DEF ReadBackup, ReadFile, Job, ClientTypes
    <3> QED BY <2>1, <3>1, <1>k DEF KeptInv
  <2>3. CASE ReadToSave \/ ReadToRender \/ ReadToPolice
    <3>1. \/ client' = [client EXCEPT !.phase = "save"]
          \/ \E text : client' = [client EXCEPT !.phase = "save", !.text = text]
          \/ client' = NoClient
          \/ client' = Over(Tail(client.jobs))
      BY <2>3 DEF ReadToSave, ReadToRender, ReadToPolice, ReadFile
    <3>2. client'.phase # "write" /\ ~client'.edited
      <4>1. CASE client' = Over(Tail(client.jobs))
        BY <2>1, <4>1, OverFits
      <4>2. CASE client' = NoClient
        BY <4>2 DEF NoClient
      <4>3. ~client.edited
        BY <2>1 DEF KeptInv
      <4>4. CASE client' = [client EXCEPT !.phase = "save"]
        BY <4>3, <4>4 DEF ClientTypes
      <4>5. ASSUME NEW text, client' = [client EXCEPT !.phase = "save", !.text = text]
            PROVE  client'.phase # "write" /\ ~client'.edited
        BY <4>3, <4>5 DEF ClientTypes
      <4> QED BY <3>1, <4>1, <4>2, <4>4, <4>5
    <3> QED BY <2>1, <3>2, <1>k DEF KeptInv
  <2> QED BY <1>2, <2>2, <2>3
<1>3. CASE SaveFile
  <2>1. /\ client.phase = "save" /\ SaveAs(ToSave) /\ UNCHANGED <<clientFiles, replaced>>
        /\ ~client.edited
    BY <1>3 DEF SaveFile, KeptInv
  <2>2. CASE client' = Over(Tail(client.jobs))
    <3>1. client'.phase # "write" /\ ~client'.edited
      BY <2>1, <2>2, OverFits
    <3> QED BY <2>1, <3>1, SaveKeeps DEF KeptInv
  <2>3. CASE client' = [client EXCEPT !.phase = "write"]
    <3>1. Job' = Job /\ Content' = Content /\ client'.phase = "write"
      BY <2>1, <2>3 DEF Job, Content, ClientTypes
    <3>2. IsText(Content) => ToSave = Content
      BY DEF ToSave, IsText
    <3>3. ~relabelled' /\ IsText(Content') => Kept(BaseName[Job.file], Content)'
      BY <2>1, <3>1, <3>2, SaveKeeps DEF IsText
    <3> QED BY <2>1, <3>1, <3>3, SaveKeeps DEF KeptInv
  <2> QED BY <1>3, <2>2, <2>3 DEF SaveFile
<1>4. CASE WriteFile
  <2>1. /\ client.phase = "write" /\ client' = Over(Tail(client.jobs))
        /\ Replaced(client.text) /\ UNCHANGED <<clientBackups, relabelled>>
    BY <1>4 DEF WriteFile
  <2>2. client'.phase # "write" /\ ~client'.edited
    BY <2>1, OverFits
  <2> QED BY <2>1, <2>2, ReplacedIsKept DEF KeptInv
<1>5. CASE ClientCommandDies
  <2>1. client'.phase = "none" /\ ~client'.edited
    BY <1>5 DEF ClientCommandDies, NoClient
  <2>2. CASE UNCHANGED <<replaced, clientBackups, relabelled>>
    BY <2>1, <2>2, <1>k DEF KeptInv
  <2>3. CASE SaveAs(Unreadable) /\ UNCHANGED replaced
    BY <2>1, <2>3, SaveKeeps DEF KeptInv
  <2>4. CASE /\ client.phase = "write" /\ Replaced(Unreadable)
             /\ UNCHANGED <<clientBackups, relabelled>>
    BY <2>1, <2>4, ReplacedIsKept DEF KeptInv
  <2> QED BY <1>5, <2>2, <2>3, <2>4 DEF ClientCommandDies
<1>6. ASSUME NEW f, NEW content, UserWrites(f, content) PROVE KeptInv'
  <2>1. /\ UNCHANGED <<clientBackups, replaced, relabelled>>
        /\ clientFiles' = [clientFiles EXCEPT ![f] = content]
    BY <1>6 DEF UserWrites
  <2>2. CASE client.phase = "write" /\ Job.file = f
    <3>1. client'.edited /\ client'.phase = "write"
      BY <1>6, <2>2 DEF UserWrites, ClientTypes
    <3> QED BY <2>1, <3>1, <1>k DEF KeptInv
  <2>3. CASE ~(client.phase = "write" /\ Job.file = f)
    <3>1. client' = client /\ Job' = Job
      BY <1>6, <2>3 DEF UserWrites, Job
    <3>2. client.phase = "write" => Content' = Content
      BY <2>1, <2>3, <3>1, JobFits DEF Content, ClientTypes
    <3> QED BY <2>1, <3>1, <3>2, <1>k DEF KeptInv, IsText
  <2> QED BY <2>2, <2>3
<1>7. CASE ClientSecondPasses \/ UNCHANGED clientVars
  <2>1. UNCHANGED <<clientFiles, client, clientBackups, replaced, relabelled>>
    BY <1>7 DEF ClientSecondPasses, clientVars
  <2>2. Job' = Job /\ Content' = Content
    BY <2>1 DEF Job, Content
  <2> QED BY <2>1, <2>2, <1>k DEF KeptInv, IsText
<1> QED BY <1>1, <1>2, <1>3, <1>4, <1>5, <1>6, <1>7, CommandBegins DEF ClientNext

LEMMA SaveLatest ==
  ASSUME ClientTypes, LatestInv, client.phase # "none", NEW content, SaveAs(content)
  PROVE  LatestInv'
<1>1. clientBackups' = [k \in DOMAIN clientBackups \cup {BackupName} |->
                           IF k = BackupName THEN content ELSE clientBackups[k]]
  BY DEF SaveAs
<1>2. BackupName[1] \in {"apps", "client"} /\ BackupName[2] \in Nat
  BY JobFits DEF BackupName
<1>3. CASE BackupName[1] = "apps" \/ BackupName[3] # BaseName[MainFile]
  <2>1. lastBackup' = lastBackup
    BY <1>3 DEF SaveAs
  <2>2. BackupName \notin MainBackups'
    BY <1>3 DEF MainBackups
  <2>3. MainBackups' = MainBackups
    BY <1>1, <2>2 DEF MainBackups
  <2>4. \A k \in MainBackups : clientBackups'[k] = clientBackups[k]
    BY <1>1, <2>2, <2>3 DEF MainBackups
  <2> QED BY <2>1, <2>3, <2>4 DEF LatestInv, IsText
<1>4. CASE BackupName[1] = "client" /\ BackupName[3] = BaseName[MainFile]
  <2>1. BackupName \in MainBackups' /\ MainBackups' \subseteq MainBackups \cup {BackupName}
    BY <1>1, <1>4 DEF MainBackups
  <2>2. clientBackups'[BackupName] = content
    BY <1>1
  <2>3. CASE lastBackup' = Absent
    BY <2>3 DEF LatestInv, IsText
  <2>4. CASE lastBackup' = content /\ \A k \in MainBackups : ~(k[2] > BackupName[2])
    <3>1. \A k \in MainBackups : k[2] <= BackupName[2]
      BY <1>2, <2>4 DEF MainBackups, ClientTypes
    <3> HIDE DEF BackupName
    <3> QED BY <1>2, <2>1, <2>2, <2>4, <3>1 DEF LatestInv
  <2> QED BY <1>4, <2>3, <2>4 DEF SaveAs
<1> QED BY <1>2, <1>3, <1>4

LEMMA LatestInvStep == ClientTypes /\ LatestInv /\ [ClientNext]_clientVars => LatestInv'
<1> SUFFICES ASSUME ClientTypes, LatestInv, [ClientNext]_clientVars PROVE LatestInv'
  OBVIOUS
<1>1. CASE UNCHANGED <<clientBackups, lastBackup>>
  BY <1>1 DEF LatestInv, MainBackups, IsText
<1>2. CASE client.phase # "none" /\ \E content : SaveAs(content)
  BY <1>2, SaveLatest
<1>3. ASSUME NEW jobs, NEW label, BeginCommand(jobs, label)
      PROVE  UNCHANGED <<clientBackups, lastBackup>>
  BY <1>3 DEF BeginCommand
<1>4. ASSUME ReadToSave \/ ReadBackup \/ ReadToRender \/ ReadToPolice
      PROVE  UNCHANGED <<clientBackups, lastBackup>>
  BY <1>4 DEF ReadToSave, ReadBackup, ReadToRender, ReadToPolice, ReadFile
<1>5. ASSUME NEW f, NEW content, UserWrites(f, content)
      PROVE  UNCHANGED <<clientBackups, lastBackup>>
  BY <1>5 DEF UserWrites
<1>6. ASSUME WriteFile \/ ClientSecondPasses \/ UNCHANGED clientVars
      PROVE  UNCHANGED <<clientBackups, lastBackup>>
  BY <1>6 DEF WriteFile, ClientSecondPasses, clientVars
<1>7. ASSUME SaveFile \/ ClientCommandDies
      PROVE  \/ UNCHANGED <<clientBackups, lastBackup>>
             \/ client.phase # "none" /\ \E content : SaveAs(content)
  BY <1>7 DEF SaveFile, ClientCommandDies
<1> QED BY <1>1, <1>2, <1>3, <1>4, <1>5, <1>6, <1>7, CommandBegins DEF ClientNext

LEMMA ClientInvStep == ClientInv /\ [ClientNext]_clientVars => ClientInv'
BY ClientTypesStep, KeptInvStep, LatestInvStep DEF ClientInv

LEMMA ClientInvSafe == ClientInv => ClientFilesKept
<1> SUFFICES ASSUME ClientInv PROVE ClientFilesKept
  OBVIOUS
<1>1. NothingVanishes
  BY DEF ClientInv, ClientTypes, KeptInv, Kept, NothingVanishes
<1>2. ASSUME IsText(lastBackup) PROVE LatestBackup = lastBackup
  <2>1. PICK k \in MainBackups :
           clientBackups[k] = lastBackup /\ \A j \in MainBackups : j[2] <= k[2]
    BY <1>2 DEF ClientInv, LatestInv
  <2>2. \A j \in MainBackups : j[2] \in Nat /\ j = <<"client", j[2], BaseName[MainFile]>>
    BY DEF ClientInv, ClientTypes, MainBackups
  <2>3. \A i \in MainBackups : (\A j \in MainBackups : j[2] <= i[2]) => i = k
    <3> SUFFICES ASSUME NEW i \in MainBackups, \A j \in MainBackups : j[2] <= i[2]
                 PROVE  i = k
      OBVIOUS
    <3>1. i[2] = k[2]
      BY <2>1, <2>2
    <3> QED BY <2>2, <3>1
  <2>4. (CHOOSE i \in MainBackups : \A j \in MainBackups : j[2] <= i[2]) = k
    BY <2>1, <2>3
  <2> QED BY <2>1, <2>4 DEF LatestBackup
<1> QED BY <1>1, <1>2 DEF ClientFilesKept, RollbackRestores
-----------------------------------------------------------------------------
(* What an import does to the files of projects.                           *)

ImportPhases == {"none", "append", "validate", "next", "empty"}
IsConfig(c) ==
  /\ c = [covers |-> c.covers, loads |-> c.loads, key |-> c.key]
  /\ c.loads \in BOOLEAN /\ c.key \in {"alone", "commented", "twice"}
ImportTypes ==
  /\ declares = [e \in EntryNames |-> declares[e]]
  /\ IsConfig(brokerConfig)
  /\ importBackups = [name \in DOMAIN importBackups |-> importBackups[name]]
  /\ import = [phase |-> import.phase, scanned |-> import.scanned,
               missing |-> import.missing, original |-> import.original,
               todo |-> import.todo, saved |-> import.saved, edited |-> import.edited]
  /\ import.phase \in ImportPhases
  /\ import.phase \in {"append", "validate"} => IsConfig(import.original)
  /\ import.scanned = [e \in EntryNames |-> import.scanned[e]]
  /\ import.todo \subseteq EntryNames
  /\ import.phase \in {"none", "append", "validate"} => import.saved = {}
  /\ import.phase = "empty" => import.todo # {} /\ PathOf[NextEntry] \in import.saved
  /\ backupReplaced \in BOOLEAN

\* A configuration that loads, with one key, covers what was emptied; what the command
\* goes back to does, and so does what it goes on with.
Covering(c) == c.loads /\ c.key # "twice"
Covered(c) == Covering(c) => \A taken \in emptied : taken[2] \in c.covers
CoverInv ==
  /\ Covered(brokerConfig)
  /\ import.phase = "append" => import.original = brokerConfig
  /\ import.phase = "validate" =>
       /\ Covered(import.original)
       /\ import.original.loads
       /\ brokerConfig.key # "twice" =>
            /\ import.original.key # "twice"
            /\ brokerConfig.covers = import.missing \cup import.original.covers
  /\ import.phase = "append" => brokerConfig.loads
  /\ import.phase \in {"next", "empty"} /\ Covering(brokerConfig) =>
       \A e \in import.todo : import.scanned[e] \subseteq brokerConfig.covers

\* What the scan found in a file that was saved is in a backup; a file that was not
\* still holds what the scan found, but for the entries edited since.
InBackup(e, s) ==
  \E backup \in DOMAIN importBackups :
     backup[2] = PathOf[e] /\ s \in importBackups[backup][e]
BackupInv ==
  /\ \A e \in EntryNames \ import.edited : import.phase # "none" =>
       \/ PathOf[e] \in import.saved
       \/ Declared(declares[e]) = import.scanned[e]
  /\ ~backupReplaced =>
       /\ \A taken \in emptied \cup halfWritten : InBackup(taken[1], taken[2])
       /\ \A e \in EntryNames \ import.edited : PathOf[e] \in import.saved =>
            \A s \in import.scanned[e] : InBackup(e, s)

ImportInv == ImportTypes /\ CoverInv /\ BackupInv

LEMMA ImportInvInit == ImportInit => ImportInv
<1> SUFFICES ASSUME ImportInit PROVE ImportInv
  OBVIOUS
<1> USE DEF ImportInit, NoImport
<1>1. IsConfig(brokerConfig)
  BY DEF IsConfig
<1>2. ImportTypes
  BY <1>1 DEF ImportTypes, ImportPhases
<1>3. CoverInv
  BY DEF CoverInv, Covered
<1>4. BackupInv
  BY DEF BackupInv
<1> QED BY <1>2, <1>3, <1>4 DEF ImportInv

LEMMA NextIsTodo ==
  ASSUME import.todo \subseteq EntryNames, import.todo # {}
  PROVE  NextEntry \in import.todo
<1> DEFINE places == {i \in DOMAIN ProjectEntries : ProjectEntries[i] \in import.todo}
<1>1. DOMAIN ProjectEntries \subseteq Nat
  BY ImportAssumption
<1>2. places # {}
  BY DEF EntryNames, Range
<1>3. Min(places) \in places
  BY <1>1, <1>2, LeastOf
<1> QED BY <1>3 DEF NextEntry

LEMMA ImportTypesStep == ImportTypes /\ [ImportNext]_importVars => ImportTypes'
<1> SUFFICES ASSUME ImportTypes, [ImportNext]_importVars PROVE ImportTypes'
  OBVIOUS
<1> USE DEF clockVars, backupVars, historyVars
<1>1. ASSUME NEW importMissing \in BOOLEAN, Scan(importMissing) PROVE ImportTypes'
  <2> DEFINE scanned == [e \in EntryNames |-> Declared(declares[e])]
             missing == IF importMissing THEN MissingImports(scanned) ELSE {}
             todo == ToEmpty(scanned, brokerConfig.covers)
  <2>1. import' = [phase |-> IF missing # {} THEN "append" ELSE "next", scanned |-> scanned,
                   missing |-> missing, original |-> brokerConfig, todo |-> todo,
                   saved |-> {}, edited |-> {}]
    BY <1>1 DEF Scan, NoImport
  <2>2. todo \subseteq EntryNames
    BY DEF ToEmpty
  <2>3. UNCHANGED <<declares, torn, brokerConfig, clockVars, backupVars, historyVars>>
    BY <1>1 DEF Scan
  <2> HIDE DEF missing, todo
  <2> QED BY <2>1, <2>2, <2>3 DEF ImportTypes, ImportPhases
<1>2. CASE AppendMissing
  BY <1>2 DEF AppendMissing, Inserted, ImportTypes, ImportPhases, IsConfig
<1>3. CASE Validate
  <2>1. UNCHANGED <<declares, torn, clockVars, backupVars, historyVars>>
    BY <1>3 DEF Validate
  <2>2. ToEmpty(import.scanned, import.original.covers \cup import.missing) \subseteq EntryNames
    BY DEF ToEmpty
  <2>3. CASE brokerConfig.loads
    BY <1>3, <2>1, <2>2, <2>3 DEF Validate, ImportTypes, ImportPhases
  <2>4. CASE ~brokerConfig.loads
    BY <1>3, <2>1, <2>4 DEF Validate, NoImport, ImportTypes, ImportPhases, IsConfig
  <2> QED BY <2>3, <2>4
<1>4. CASE BackUp
  <2>1. NextEntry' = NextEntry
    BY <1>4 DEF BackUp, ImportTypes, NextEntry
  <2> QED BY <1>4, <2>1 DEF BackUp, ImportTypes, ImportPhases
<1>5. CASE EmptyEntry
  <2>1. CASE import' = NoImport /\ UNCHANGED declares
    BY <1>5, <2>1 DEF EmptyEntry, NoImport, ImportTypes, ImportPhases
  <2>2. CASE /\ declares' = [declares EXCEPT ![NextEntry] = {}]
             /\ import' = [import EXCEPT !.phase = "next", !.todo = @ \ {NextEntry}]
    BY <1>5, <2>2 DEF EmptyEntry, ImportTypes, ImportPhases
  <2> QED BY <1>5, <2>1, <2>2 DEF EmptyEntry
<1>6. CASE Finish
  BY <1>6 DEF Finish, NoImport, ImportTypes, ImportPhases
<1>7. CASE ImportDies
  BY <1>7 DEF ImportDies, NoImport, Restrict, ImportTypes, ImportPhases, IsConfig
<1>8. CASE SecondPasses
  <2>1. NextEntry' = NextEntry
    BY <1>8 DEF SecondPasses, NextEntry
  <2> QED BY <1>8, <2>1 DEF SecondPasses, ImportTypes
<1>9. ASSUME NEW e \in EntryNames, NEW servers, EditProject(e, servers) PROVE ImportTypes'
  <2>1. NextEntry' = NextEntry
    BY <1>9 DEF EditProject, ImportTypes, NextEntry
  <2> QED BY <1>9, <2>1 DEF EditProject, ImportTypes
<1>10. CASE UNCHANGED importVars
  <2>1. NextEntry' = NextEntry
    BY <1>10 DEF importVars, NextEntry
  <2> QED BY <1>10, <2>1 DEF importVars, ImportTypes
<1> QED BY <1>1, <1>2, <1>3, <1>4, <1>5, <1>6, <1>7, <1>8, <1>9, <1>10 DEF ImportNext

LEMMA CoverInvStep == ImportTypes /\ CoverInv /\ [ImportNext]_importVars => CoverInv'
<1> SUFFICES ASSUME ImportTypes, CoverInv, [ImportNext]_importVars PROVE CoverInv'
  OBVIOUS
<1> USE DEF clockVars, backupVars, historyVars, Covering
<1>1. ASSUME NEW importMissing \in BOOLEAN, Scan(importMissing) PROVE CoverInv'
  <2> DEFINE scanned == [e \in EntryNames |-> Declared(declares[e])]
             missing == IF importMissing THEN MissingImports(scanned) ELSE {}
             todo == ToEmpty(scanned, brokerConfig.covers)
  <2>1. import' = [phase |-> IF missing # {} THEN "append" ELSE "next", scanned |-> scanned,
                   missing |-> missing, original |-> brokerConfig, todo |-> todo,
                   saved |-> {}, edited |-> {}]
    BY <1>1 DEF Scan, NoImport
  <2>2. \A e \in todo : scanned[e] \subseteq brokerConfig.covers
    BY DEF ToEmpty, MayEmpty
  <2>3. brokerConfig.loads /\ UNCHANGED <<brokerConfig, emptied>>
    BY <1>1 DEF Scan
  <2> HIDE DEF missing, todo, scanned
  <2> QED BY <2>1, <2>2, <2>3 DEF CoverInv, Covered
<1>2. CASE AppendMissing
  BY <1>2 DEF AppendMissing, Inserted, ImportTypes, CoverInv, Covered
<1>3. CASE Validate
  <2>1. UNCHANGED emptied /\ import.phase = "validate"
    BY <1>3 DEF Validate
  <2>2. CASE brokerConfig.loads
    <3> DEFINE covers == import.original.covers \cup import.missing
    <3>1. \A e \in ToEmpty(import.scanned, covers) : import.scanned[e] \subseteq covers
      BY DEF ToEmpty, MayEmpty
    <3>2. /\ import'.phase = "next" /\ import'.todo = ToEmpty(import.scanned, covers)
          /\ import'.scanned = import.scanned /\ UNCHANGED brokerConfig
      BY <1>3, <2>2 DEF Validate, ImportTypes
    <3>3. Covering(brokerConfig) => brokerConfig.covers = covers
      BY <2>1 DEF CoverInv
    <3> HIDE DEF covers
    <3> QED BY <2>1, <3>1, <3>2, <3>3 DEF CoverInv, Covered
  <2>3. CASE ~brokerConfig.loads
    BY <1>3, <2>1, <2>3 DEF Validate, NoImport, ImportTypes, CoverInv, Covered
  <2> QED BY <2>2, <2>3
<1>4. CASE BackUp
  BY <1>4 DEF BackUp, ImportTypes, CoverInv, Covered
<1>5. CASE EmptyEntry
  <2>1. CASE import' = NoImport /\ UNCHANGED <<emptied, brokerConfig>>
    BY <2>1 DEF NoImport, CoverInv, Covered
  <2>2. CASE /\ emptied' = emptied \cup Found({NextEntry}) /\ UNCHANGED brokerConfig
             /\ import' = [import EXCEPT !.phase = "next", !.todo = @ \ {NextEntry}]
    <3>1. NextEntry \in import.todo /\ import.phase = "empty"
      BY <1>5, NextIsTodo DEF EmptyEntry, ImportTypes
    <3>2. \A taken \in Found({NextEntry}) : taken[2] \in import.scanned[NextEntry]
      BY DEF Found
    <3> QED BY <2>2, <3>1, <3>2 DEF ImportTypes, CoverInv, Covered
  <2> QED BY <1>5, <2>1, <2>2 DEF EmptyEntry
<1>6. CASE Finish
  BY <1>6 DEF Finish, NoImport, CoverInv, Covered
<1>7. CASE ImportDies
  BY <1>7 DEF ImportDies, NoImport, ImportTypes, CoverInv, Covered, IsConfig
<1>8. CASE SecondPasses
  BY <1>8 DEF SecondPasses, CoverInv, Covered
<1>9. ASSUME NEW e \in EntryNames, NEW servers, EditProject(e, servers) PROVE CoverInv'
  BY <1>9 DEF EditProject, ImportTypes, CoverInv, Covered
<1>10. CASE UNCHANGED importVars
  BY <1>10 DEF importVars, CoverInv, Covered
<1> QED BY <1>1, <1>2, <1>3, <1>4, <1>5, <1>6, <1>7, <1>8, <1>9, <1>10 DEF ImportNext

LEMMA BackupInvStep == ImportTypes /\ BackupInv /\ [ImportNext]_importVars => BackupInv'
<1> SUFFICES ASSUME ImportTypes, BackupInv, [ImportNext]_importVars PROVE BackupInv'
  OBVIOUS
<1> USE DEF clockVars, backupVars, historyVars
<1>1. ASSUME NEW importMissing \in BOOLEAN, Scan(importMissing) PROVE BackupInv'
  <2> DEFINE scanned == [e \in EntryNames |-> Declared(declares[e])]
  <2>1. import'.scanned = scanned /\ import'.saved = {} /\ import'.edited = {}
    BY <1>1 DEF Scan, NoImport
  <2>3. UNCHANGED <<declares, importBackups, backupReplaced, emptied, halfWritten>>
    BY <1>1 DEF Scan
  <2> QED BY <2>1, <2>3 DEF BackupInv, InBackup
<1>2. CASE AppendMissing
  BY <1>2 DEF AppendMissing, ImportTypes, BackupInv, InBackup
<1>3. CASE Validate
  <2>1. /\ UNCHANGED <<declares, importBackups, backupReplaced, emptied, halfWritten>>
        /\ import.phase = "validate"
    BY <1>3 DEF Validate
  <2>2. \A e, s : InBackup(e, s)' = InBackup(e, s)
    BY <2>1 DEF InBackup
  <2>3. CASE import' = NoImport
    BY <2>1, <2>2, <2>3 DEF NoImport, BackupInv
  <2>4. CASE import'.saved = import.saved /\ import'.scanned = import.scanned
              /\ import'.edited = import.edited
    BY <2>1, <2>2, <2>4 DEF ImportTypes, BackupInv
  <2> QED BY <1>3, <2>3, <2>4 DEF Validate, ImportTypes
<1>4. CASE BackUp
  <2> DEFINE path == PathOf[NextEntry]
             backup == <<importSecond, path>>
  <2>1. /\ UNCHANGED <<declares, emptied, halfWritten>>
        /\ import.phase = "next"
        /\ import' = [import EXCEPT !.phase = "empty", !.saved = @ \cup {path}]
        /\ backupReplaced' = (backupReplaced \/ (path \notin import.saved
                                                  /\ backup \in DOMAIN importBackups))
    BY <1>4 DEF BackUp
  <2>2. CASE path \in import.saved
    BY <1>4, <2>1, <2>2 DEF BackUp, ImportTypes, BackupInv, InBackup
  <2>3. CASE path \notin import.saved
    <3>1. importBackups' = [k \in DOMAIN importBackups \cup {backup} |->
                              IF k = backup THEN Contents(path) ELSE importBackups[k]]
      BY <1>4, <2>3 DEF BackUp
    <3>2. \A e, s : ~backupReplaced' /\ InBackup(e, s) => InBackup(e, s)'
      BY <2>1, <2>3, <3>1 DEF InBackup, ImportTypes
    <3>3. \A e \in EntryNames : \A s : PathOf[e] = path /\ s \in Declared(declares[e]) =>
             InBackup(e, s)'
      BY <3>1 DEF InBackup, Contents, EntriesOf
    <3>4. \A e \in EntryNames \ import.edited : PathOf[e] \notin import.saved =>
             Declared(declares[e]) = import.scanned[e]
      BY <2>1 DEF BackupInv
    <3> HIDE DEF path, backup
    <3> QED BY <2>1, <3>2, <3>3, <3>4 DEF BackupInv, ImportTypes
  <2> QED BY <2>2, <2>3
<1>5. CASE EmptyEntry
  <2>1. CASE import' = NoImport /\ UNCHANGED <<declares, emptied, halfWritten, backupVars>>
    BY <2>1 DEF NoImport, BackupInv, InBackup
  <2>2. CASE /\ declares' = [declares EXCEPT ![NextEntry] = {}]
             /\ emptied' = emptied \cup Found({NextEntry})
             /\ import' = [import EXCEPT !.phase = "next", !.todo = @ \ {NextEntry}]
             /\ UNCHANGED <<halfWritten, backupVars>>
    <3>1. /\ NextEntry \in EntryNames /\ import.phase = "empty"
          /\ PathOf[NextEntry] \in import.saved
      BY <1>5, NextIsTodo DEF EmptyEntry, ImportTypes
    <3>2. \A taken \in Found({NextEntry}) :
             taken[1] = NextEntry /\ NextEntry \notin import.edited
             /\ taken[2] \in import.scanned[NextEntry]
      BY DEF Found
    <3>3. \A e, s : InBackup(e, s)' = InBackup(e, s)
      BY <2>2 DEF InBackup
    <3>4. /\ import'.saved = import.saved /\ import'.scanned = import.scanned
          /\ import'.edited = import.edited /\ UNCHANGED backupReplaced
      BY <2>2 DEF ImportTypes
    <3>5. \A e \in EntryNames \ import.edited :
             PathOf[e] \in import.saved \/ Declared(declares'[e]) = import.scanned[e]
      BY <2>2, <3>1 DEF ImportTypes, BackupInv
    <3>6. ~backupReplaced => \A taken \in emptied' \cup halfWritten' :
                                InBackup(taken[1], taken[2])
      BY <2>2, <3>1, <3>2 DEF BackupInv
    <3> QED BY <3>3, <3>4, <3>5, <3>6 DEF BackupInv
  <2> QED BY <1>5, <2>1, <2>2 DEF EmptyEntry
<1>6. CASE Finish
  BY <1>6 DEF Finish, NoImport, BackupInv, InBackup
<1>7. CASE ImportDies
  <2>1. import' = NoImport /\ UNCHANGED <<declares, emptied>>
    BY <1>7 DEF ImportDies
  <2>2. CASE UNCHANGED <<halfWritten, backupVars>>
    BY <2>1, <2>2 DEF NoImport, BackupInv, InBackup
  <2>3. CASE backupReplaced' = TRUE
    BY <2>1, <2>3 DEF NoImport, BackupInv
  <2>4. CASE /\ import.phase = "empty" /\ UNCHANGED backupVars
             /\ halfWritten' = Found(EntriesOf(PathOf[NextEntry]))
    <3>1. PathOf[NextEntry] \in import.saved
      BY <2>4 DEF ImportTypes
    <3>2. \A taken \in halfWritten' :
             /\ taken[1] \in EntryNames \ import.edited /\ PathOf[taken[1]] \in import.saved
             /\ taken[2] \in import.scanned[taken[1]]
      BY <2>4, <3>1 DEF Found, EntriesOf
    <3>3. \A e, s : InBackup(e, s)' = InBackup(e, s)
      BY <2>4 DEF InBackup
    <3> QED BY <2>1, <2>4, <3>2, <3>3 DEF NoImport, BackupInv
  <2> QED BY <1>7, <2>2, <2>3, <2>4 DEF ImportDies
<1>8. CASE SecondPasses
  BY <1>8 DEF SecondPasses, BackupInv, InBackup
<1>9. ASSUME NEW e \in EntryNames, NEW servers, EditProject(e, servers) PROVE BackupInv'
  BY <1>9 DEF EditProject, ImportTypes, BackupInv, InBackup
<1>10. CASE UNCHANGED importVars
  BY <1>10 DEF importVars, BackupInv, InBackup
<1> QED BY <1>1, <1>2, <1>3, <1>4, <1>5, <1>6, <1>7, <1>8, <1>9, <1>10 DEF ImportNext

LEMMA ImportInvStep == ImportInv /\ [ImportNext]_importVars => ImportInv'
BY ImportTypesStep, CoverInvStep, BackupInvStep DEF ImportInv

LEMMA ImportInvSafe == ImportInv => ImportAccounted
BY DEF ImportInv, CoverInv, Covered, Covering, BackupInv, InBackup, ImportAccounted,
   EmptiedIsCovered, TakenIsBackedUp

\* What the ledger, the files and the report say of a rollout agrees, and every audited
\* decision is justified by what its run was told of the fleet (governance_*.py); a
\* break-glass record in force is whole and is audited (break_glass.py); what a command
\* replaces in a client's file is in a backup and the latest one is what a rollback
\* restores (config_render.py, codex_app_policy.py); a server taken out of a project is
\* covered by the broker's configuration and is in a backup (project_mcp.py).
THEOREM RecordsAreKept == RolloutSpec /\ BypassSpec /\ ClientSpec /\ ImportSpec => []RecordsSafe
<1>1. RolloutInv /\ BypassInv /\ ClientInv /\ ImportInv => RecordsSafe
  BY RolloutInvSafe, BypassInvSafe, ClientInvSafe, ImportInvSafe DEF RecordsSafe
<1> QED BY <1>1, RolloutInvInit, RolloutInvStep, BypassInvInit, BypassInvStep,
           ClientInvInit, ClientInvStep, ImportInvInit, ImportInvStep, PTL
        DEF RolloutSpec, BypassSpec, ClientSpec, ImportSpec
-----------------------------------------------------------------------------
(***************************************************************************)
(* What the loader of a configuration accepts.                             *)

LoadedTypes ==
  [env : SUBSET EnvTargets, envFiles : SUBSET EnvTargets, mode : Modes, transport : Transports,
   sessionEnv : BOOLEAN, forwards : BOOLEAN, relay : BOOLEAN, meta : SUBSET EnvTargets,
   callTimeout : 1 .. MaxCallTimeout,
   toolTimeout : UNION {[tools -> {n \in Numbers : n > 0}] : tools \in SUBSET TimedTools},
   repairs : BOOLEAN]

\* The fields read so far fit together, and those still to be read are as they were.
LoadedFits ==
  /\ loaded.env \cap loaded.envFiles = {}
  /\ loaded.meta \subseteq loaded.env \cup loaded.envFiles
  /\ loaded.sessionEnv \/ loaded.relay => loaded.mode \in Isolated
  /\ loaded.relay \/ loaded.forwards \/ loaded.mode = "per_call" => loaded.transport = "stdio"
  /\ section \in {"environment", "modes", "session"} => ~loaded.sessionEnv
  /\ section \in {"environment", "modes", "session", "forwarding"} =>
        ~loaded.forwards /\ ~loaded.relay
  /\ section \in {"environment", "modes", "session", "forwarding", "requestMeta"} =>
        loaded.meta = {}

\* A use is of an accepted configuration, and got what that promises.
UseFits ==
  /\ section # "accepted" => use = NotUsed
  /\ use.outcome # "KeyError"
  /\ use.outcome = "sent" => use.meta = loaded.meta
  /\ use.outcome = "started" => use.env = loaded.env \cup loaded.envFiles
  /\ use.cwd => loaded.mode \in Isolated

LoadInv == loaded \in LoadedTypes /\ LoadedFits /\ UseFits

LEMMA LoadInvInit == LoadInit => LoadInv
<1> SUFFICES ASSUME LoadInit PROVE LoadInv
  OBVIOUS
<1>1. [t \in {} |-> 0] \in [{} -> {n \in Numbers : n > 0}]
  OBVIOUS
<1>2. loaded \in LoadedTypes
  BY <1>1 DEF LoadInit, LoadedTypes, Modes, Transports, MaxCallTimeout
<1> QED BY <1>2 DEF LoadInit, LoadInv, LoadedFits, UseFits, NotUsed

LEMMA LoadInvStep == LoadInv /\ [LoadNext]_loadVars => LoadInv'
<1> SUFFICES ASSUME LoadInv, [LoadNext]_loadVars PROVE LoadInv'
  OBVIOUS
<1> USE DEF LoadInv
<1>f. ASSUME section # "accepted", UNCHANGED use, section' # "accepted" \/ section = "auth"
      PROVE  UseFits'
  BY <1>f DEF UseFits, NotUsed
<1>r. ASSUME section # "accepted", UNCHANGED <<loaded, use>>, section' = "refused"
      PROVE  LoadInv'
  BY <1>r DEF UseFits, NotUsed, LoadedFits
<1>1. CASE ReadEnvironment
  <2>1. PICK env \in SUBSET EnvTargets, files \in SUBSET EnvTargets :
             Reads("environment", "modes", EnvironmentValid(env, files),
                   [loaded EXCEPT !.env = env, !.envFiles = files])
    BY <1>1 DEF ReadEnvironment
  <2>2. CASE EnvironmentValid(env, files) /\ section' = "modes"
             /\ loaded' = [loaded EXCEPT !.env = env, !.envFiles = files]
    <3>1. loaded' \in LoadedTypes
      BY <2>2 DEF LoadedTypes
    <3> QED BY <1>f, <2>1, <2>2, <3>1 DEF Reads, EnvironmentValid, LoadedFits, LoadedTypes
  <2> QED BY <1>r, <2>1, <2>2 DEF Reads
<1>2. CASE ReadModes
  <2>1. PICK mode \in Modes \cup {"unknown"}, transport \in Transports \cup {"unknown"} :
             Reads("modes", "session", TransportFits(mode, transport),
                   [loaded EXCEPT !.mode = mode, !.transport = transport])
    BY <1>2 DEF ReadModes
  <2>2. CASE TransportFits(mode, transport) /\ section' = "session"
             /\ loaded' = [loaded EXCEPT !.mode = mode, !.transport = transport]
    <3>1. loaded' \in LoadedTypes
      BY <2>2 DEF LoadedTypes, TransportFits
    <3> QED BY <1>f, <2>1, <2>2, <3>1 DEF Reads, TransportFits, LoadedFits, LoadedTypes
  <2> QED BY <1>r, <2>1, <2>2 DEF Reads
<1>3. CASE ReadSessionEnv
  <2>1. PICK wanted \in BOOLEAN :
             Reads("session", "forwarding", wanted => loaded.mode \in Isolated,
                   [loaded EXCEPT !.sessionEnv = wanted])
    BY <1>3 DEF ReadSessionEnv
  <2>2. CASE (wanted => loaded.mode \in Isolated) /\ section' = "forwarding"
             /\ loaded' = [loaded EXCEPT !.sessionEnv = wanted]
    <3>1. loaded' \in LoadedTypes
      BY <2>2 DEF LoadedTypes
    <3> QED BY <1>f, <2>1, <2>2, <3>1 DEF Reads, LoadedFits, LoadedTypes
  <2> QED BY <1>r, <2>1, <2>2 DEF Reads
<1>4. CASE ReadForwarding
  <2>1. PICK forwards \in BOOLEAN, relay \in BOOLEAN :
             Reads("forwarding", "requestMeta",
                   /\ forwards => loaded.transport = "stdio"
                   /\ relay => loaded.transport = "stdio" /\ loaded.mode \in Isolated,
                   [loaded EXCEPT !.forwards = forwards, !.relay = relay])
    BY <1>4 DEF ReadForwarding
  <2>2. CASE /\ forwards => loaded.transport = "stdio"
             /\ relay => loaded.transport = "stdio" /\ loaded.mode \in Isolated
             /\ section' = "requestMeta"
             /\ loaded' = [loaded EXCEPT !.forwards = forwards, !.relay = relay]
    <3>1. loaded' \in LoadedTypes
      BY <2>2 DEF LoadedTypes
    <3> QED BY <1>f, <2>1, <2>2, <3>1 DEF Reads, LoadedFits, LoadedTypes
  <2> QED BY <1>r, <2>1, <2>2 DEF Reads
<1>5. CASE ReadRequestMeta
  <2>1. PICK sources \in SUBSET EnvTargets :
             Reads("requestMeta", "policies", MetaSourcesValid(sources),
                   [loaded EXCEPT !.meta = sources])
    BY <1>5 DEF ReadRequestMeta
  <2>2. CASE MetaSourcesValid(sources) /\ section' = "policies"
             /\ loaded' = [loaded EXCEPT !.meta = sources]
    <3>1. loaded' \in LoadedTypes
      BY <2>2 DEF LoadedTypes
    <3> QED BY <1>f, <2>1, <2>2, <3>1 DEF Reads, MetaSourcesValid, LoadedFits, LoadedTypes
  <2> QED BY <1>r, <2>1, <2>2 DEF Reads
<1>6. CASE ReadPolicies
  <2>1. PICK limit \in Numbers, own \in Numbers, tools \in SUBSET TimedTools,
             othersValid \in BOOLEAN :
             Reads("policies", "auth", TimeoutsValid(limit, own, tools) /\ othersValid,
                   [loaded EXCEPT !.callTimeout = limit, !.toolTimeout = [t \in tools |-> own]])
    BY <1>6 DEF ReadPolicies
  <2>2. CASE TimeoutsValid(limit, own, tools) /\ section' = "auth"
             /\ loaded' = [loaded EXCEPT !.callTimeout = limit, !.toolTimeout = [t \in tools |-> own]]
    <3>1. [t \in tools |-> own] \in [tools -> {n \in Numbers : n > 0}]
      BY <2>2 DEF TimeoutsValid
    <3>2. loaded' \in LoadedTypes
      BY <2>2, <3>1 DEF LoadedTypes, TimeoutsValid
    <3> QED BY <1>f, <2>1, <2>2, <3>2 DEF Reads, LoadedFits, LoadedTypes
  <2> QED BY <1>r, <2>1, <2>2 DEF Reads
<1>7. CASE ReadAuthPolicies
  <2>1. PICK repairs \in BOOLEAN, complete \in BOOLEAN, probeValid \in BOOLEAN :
             Reads("auth", "accepted", (repairs => complete) /\ probeValid,
                   [loaded EXCEPT !.repairs = repairs])
    BY <1>7 DEF ReadAuthPolicies
  <2>2. CASE section' = "accepted" /\ loaded' = [loaded EXCEPT !.repairs = repairs]
    <3>1. loaded' \in LoadedTypes
      BY <2>2 DEF LoadedTypes
    <3> QED BY <1>f, <2>1, <2>2, <3>1 DEF Reads, LoadedFits, LoadedTypes
  <2> QED BY <1>r, <2>1, <2>2 DEF Reads
<1>8. ASSUME NEW present, ResolveRequestMeta(present) PROVE LoadInv'
  BY <1>8 DEF ResolveRequestMeta, Missing, Resolved, NotUsed, LoadedFits, UseFits
<1>9. ASSUME NEW present, NEW hasCwd \in BOOLEAN, StartWith(present, hasCwd) PROVE LoadInv'
  <2>1. UNCHANGED <<section, loaded>> /\ section = "accepted"
    BY <1>9 DEF StartWith
  <2>2. use'.outcome = IF Missing(present) # {} \/ (loaded.sessionEnv /\ ~hasCwd)
                       THEN "missing" ELSE "started"
    BY <1>9 DEF StartWith, NotUsed
  <2>3. use'.env = Resolved(present) /\ use'.cwd = (loaded.sessionEnv /\ hasCwd)
    BY <1>9 DEF StartWith, NotUsed
  <2> QED BY <2>1, <2>2, <2>3 DEF Missing, Resolved, LoadedFits, UseFits
<1>10. CASE UNCHANGED loadVars
  BY <1>10 DEF loadVars, LoadedFits, UseFits
<1> QED BY <1>1, <1>2, <1>3, <1>4, <1>5, <1>6, <1>7, <1>8, <1>9, <1>10 DEF LoadNext

LEMMA LoadInvSafe == LoadInv => AcceptedIsUsable
<1> SUFFICES ASSUME LoadInv PROVE AcceptedIsUsable
  OBVIOUS
<1>1. \A tool \in TimedTools : TimeoutFor(tool) > 0
  BY DEF LoadInv, LoadedTypes, TimeoutFor, MaxCallTimeout
<1> QED BY <1>1 DEF LoadInv, LoadedFits, UseFits, AcceptedIsUsable

-----------------------------------------------------------------------------
(***************************************************************************)
(* What the layers of a configuration are accounted to.                    *)

Paths == Seq(LayerKeys)

\* A prefix of a path is the path cut off at its length.
LEMMA CutOff ==
  ASSUME NEW n \in Paths, NEW k \in 0 .. Len(n)
  PROVE  /\ SubSeq(n, 1, k) \in Paths
         /\ Len(SubSeq(n, 1, k)) = k
         /\ \A i \in 1 .. k : SubSeq(n, 1, k)[i] = n[i]
<1>1. Len(n) \in Nat /\ \A i \in 1 .. k : n[i] \in LayerKeys
  BY ElementOfSeq DEF Paths
<1> QED BY <1>1, SubSeqProperties DEF Paths

LEMMA UnderIs ==
  ASSUME NEW p \in Paths, NEW n \in Paths
  PROVE  /\ Under(p, n) <=> Len(p) <= Len(n) /\ p = SubSeq(n, 1, Len(p))
         /\ Under(p, n) <=> Len(p) <= Len(n) /\ \A i \in 1 .. Len(p) : p[i] = n[i]
<1>1. SubSeq(p, 1, Len(p)) = p
  BY SubSeqFull DEF Paths
<1>2. Under(p, n) <=> Len(p) <= Len(n) /\ p = SubSeq(n, 1, Len(p))
  BY <1>1 DEF Under, IsPrefix
<1>3. Len(p) \in Nat /\ Len(n) \in Nat
  BY LenProperties DEF Paths
<1>4. ASSUME Len(p) <= Len(n), \A i \in 1 .. Len(p) : p[i] = n[i] PROVE p = SubSeq(n, 1, Len(p))
  <2>1. Len(p) \in 0 .. Len(n)
    BY <1>3, <1>4
  <2>2. /\ SubSeq(n, 1, Len(p)) \in Paths
        /\ Len(SubSeq(n, 1, Len(p))) = Len(p)
        /\ \A i \in 1 .. Len(p) : SubSeq(n, 1, Len(p))[i] = n[i]
    BY <2>1, CutOff
  <2> QED BY <1>4, <2>2, SeqEqual DEF Paths
<1>5. ASSUME Len(p) <= Len(n), p = SubSeq(n, 1, Len(p)), NEW i \in 1 .. Len(p) PROVE p[i] = n[i]
  <2>1. Len(p) \in 0 .. Len(n)
    BY <1>3, <1>5
  <2>2. \A j \in 1 .. Len(p) : SubSeq(n, 1, Len(p))[j] = n[j]
    BY <2>1, CutOff
  <2> QED BY <1>5, <2>2
<1> QED BY <1>2, <1>4, <1>5

\* Under is an order in which what is above a path is a chain.
LEMMA UnderReflexive == \A p \in Paths : Under(p, p)
BY UnderIs, LenProperties DEF Paths

LEMMA UnderTransitive == \A p, q, n \in Paths : Under(p, q) /\ Under(q, n) => Under(p, n)
<1> SUFFICES ASSUME NEW p \in Paths, NEW q \in Paths, NEW n \in Paths, Under(p, q), Under(q, n)
             PROVE  Under(p, n)
  OBVIOUS
<1>1. Len(p) \in Nat /\ Len(q) \in Nat /\ Len(n) \in Nat
  BY LenProperties DEF Paths
<1> QED BY <1>1, UnderIs

LEMMA UnderAntisymmetric ==
  \A p, q \in Paths : Under(p, q) /\ (Under(q, p) \/ Len(q) <= Len(p)) => p = q
<1> SUFFICES ASSUME NEW p \in Paths, NEW q \in Paths, Under(p, q), Under(q, p) \/ Len(q) <= Len(p)
             PROVE  p = q
  OBVIOUS
<1>1. Len(p) \in Nat /\ Len(q) \in Nat
  BY LenProperties DEF Paths
<1>2. Len(p) = Len(q) /\ \A i \in 1 .. Len(p) : p[i] = q[i]
  BY <1>1, UnderIs
<1> QED BY <1>2, SeqEqual DEF Paths

LEMMA AboveIsChain ==
  \A p, q, n \in Paths : Under(p, n) /\ Under(q, n) => Under(p, q) \/ Under(q, p)
<1> SUFFICES ASSUME NEW p \in Paths, NEW q \in Paths, NEW n \in Paths, Under(p, n), Under(q, n)
             PROVE  Under(p, q) \/ Under(q, p)
  OBVIOUS
<1>1. Len(p) \in Nat /\ Len(q) \in Nat /\ Len(n) \in Nat
  BY LenProperties DEF Paths
<1> QED BY <1>1, UnderIs

LEMMA OnlyRootAboveRoot == Root \in Paths /\ \A p \in Paths : Under(Root, p) /\ (Under(p, Root) => p = Root)
<1>1. Root \in Paths /\ Len(Root) = 0
  BY EmptySeq DEF Root, Paths
<1>2. \A p \in Paths : Len(p) \in Nat
  BY LenProperties DEF Paths
<1>3. \A p \in Paths : Under(Root, p)
  BY <1>1, <1>2, UnderIs
<1> QED BY <1>1, <1>3, UnderAntisymmetric

\* Cutting off: every part of a path is above it, and what is above it is a part.
LEMMA CutIsUnder ==
  ASSUME NEW n \in Paths, NEW k \in 0 .. Len(n)
  PROVE  Under(SubSeq(n, 1, k), n) /\ \A q \in Paths : Under(q, n) /\ Len(q) <= k => Under(q, SubSeq(n, 1, k))
<1> DEFINE c == SubSeq(n, 1, k)
<1>1. c \in Paths /\ Len(c) = k /\ \A i \in 1 .. k : c[i] = n[i]
  BY CutOff
<1> HIDE DEF c
<1>2. Len(n) \in Nat /\ \A q \in Paths : Len(q) \in Nat
  BY LenProperties DEF Paths
<1>3. Under(c, n)
  BY <1>1, <1>2, UnderIs
<1>4. ASSUME NEW q \in Paths, Under(q, n), Len(q) <= k PROVE Under(q, c)
  <2>1. \A i \in 1 .. Len(q) : q[i] = n[i]
    BY <1>4, UnderIs
  <2>2. \A i \in 1 .. Len(q) : i \in 1 .. k
    BY <1>2, <1>4
  <2>3. \A i \in 1 .. Len(q) : q[i] = c[i]
    BY <1>1, <2>1, <2>2
  <2> QED BY <1>1, <1>4, <2>3, UnderIs
<1> QED BY <1>3, <1>4 DEF c

LEMMA ParentIs ==
  ASSUME NEW c \in Paths, c # Root
  PROVE  /\ ParentOf(c) \in Paths
         /\ Under(ParentOf(c), c)
         /\ ParentOf(c) # c
         /\ Len(ParentOf(c)) = Len(c) - 1 /\ Len(c) > 0
         /\ \A q \in Paths : Under(q, c) => q = c \/ Under(q, ParentOf(c))
<1>1. Len(c) \in Nat /\ Len(c) > 0
  BY EmptySeq, LenProperties DEF Paths, Root
<1>2. ParentOf(c) = SubSeq(c, 1, Len(c) - 1) /\ Len(c) - 1 \in 0 .. Len(c)
  BY <1>1 DEF ParentOf, Front
<1>3. ParentOf(c) \in Paths /\ Len(ParentOf(c)) = Len(c) - 1
  BY <1>2, CutOff
<1>4. ASSUME NEW q \in Paths, Under(q, c), ~(q = c) PROVE Under(q, ParentOf(c))
  <2>1. Len(q) \in Nat
    BY LenProperties DEF Paths
  <2>2. ~(Len(c) <= Len(q))
    BY <1>4, UnderAntisymmetric
  <2> QED BY <1>1, <1>2, <1>4, <2>1, <2>2, CutIsUnder
<1>5. Under(ParentOf(c), c)
  BY <1>2, CutIsUnder
<1> QED BY <1>1, <1>3, <1>4, <1>5

\* A path goes on from what is above it by one child of that.
LEMMA TowardChild ==
  ASSUME NEW q \in Paths, NEW n \in Paths, Under(q, n), q # n
  PROVE  \E c \in Paths : c # Root /\ ParentOf(c) = q /\ Under(c, n) /\ Len(c) = Len(q) + 1
<1>1. Len(q) \in Nat /\ Len(n) \in Nat
  BY LenProperties DEF Paths
<1>2. ~(Len(n) <= Len(q))
  BY UnderAntisymmetric
<1> DEFINE c == SubSeq(n, 1, Len(q) + 1)
<1>3. Len(q) + 1 \in 0 .. Len(n)
  BY <1>1, <1>2
<1>4. c \in Paths /\ Len(c) = Len(q) + 1 /\ Under(c, n) /\ Under(q, c)
  BY <1>1, <1>3, CutOff, CutIsUnder
<1> HIDE DEF c
<1>5. c # Root
  BY <1>1, <1>4, EmptySeq DEF Root
<1>6. q # c
  BY <1>1, <1>4
<1>7. ParentOf(c) \in Paths /\ Under(q, ParentOf(c)) /\ Len(ParentOf(c)) = Len(q)
  BY <1>1, <1>4, <1>5, <1>6, ParentIs
<1>8. q = ParentOf(c)
  BY <1>1, <1>7, UnderAntisymmetric
<1> QED BY <1>4, <1>5, <1>8

LEMMA SecretRefPath ==
  ASSUME NEW p \in Paths
  PROVE  /\ Append(p, "secret_ref") \in Paths
         /\ Under(p, Append(p, "secret_ref"))
<1> DEFINE ref == Append(p, "secret_ref")
<1>1. "secret_ref" \in LayerKeys
  BY DocumentsAssumption
<1>2. ref \in Paths /\ Len(ref) = Len(p) + 1 /\ \A i \in 1 .. Len(p) : ref[i] = p[i]
  BY <1>1, AppendProperties DEF Paths
<1> HIDE DEF ref
<1>3. Len(p) \in Nat
  BY LenProperties DEF Paths
<1>4. Len(p) <= Len(ref)
  BY <1>2, <1>3
<1>5. Under(p, ref)
  BY <1>2, <1>4, UnderIs
<1> QED BY <1>2, <1>5 DEF ref

\* Of a set of paths above a path one is above the others.
LEMMA Shallowest ==
  ASSUME NEW S \in SUBSET Paths, NEW n \in Paths, \E p \in S : Under(p, n)
  PROVE  \E p \in S : Under(p, n) /\ \A q \in S : Under(q, p) => q = p
<1> DEFINE lengths == {Len(p) : p \in {p \in S : Under(p, n)}}
<1>1. \A p \in Paths : Len(p) \in Nat
  BY LenProperties DEF Paths
<1>2. lengths \in SUBSET Nat /\ lengths # {}
  BY <1>1
<1>3. Min(lengths) \in lengths /\ \A k \in lengths : Min(lengths) <= k
  BY <1>2, LeastOf
<1>4. PICK p \in S : Under(p, n) /\ Len(p) = Min(lengths)
  BY <1>3
<1>5. ASSUME NEW q \in S, Under(q, p) PROVE q = p
  <2>1. Under(q, n)
    BY <1>4, <1>5, UnderTransitive
  <2>2. Len(p) <= Len(q)
    BY <1>3, <1>4, <2>1
  <2> QED BY <1>5, <2>2, UnderAntisymmetric
<1> QED BY <1>4, <1>5

LEMMA AboveInTree ==
  ASSUME NEW t, IsTree(t), NEW n \in DOMAIN t, NEW q \in Paths, Under(q, n)
  PROVE  n \in Paths /\ q \in DOMAIN t /\ (q # n => t[q] = Mapping)
<1>1. n \in Paths
  BY DEF IsTree, Paths
<1>2. CASE q # n
  <2>1. Len(q) \in Nat /\ Len(n) \in Nat
    BY <1>1, LenProperties DEF Paths
  <2>2. ~(Len(n) <= Len(q))
    BY <1>1, <1>2, UnderAntisymmetric
  <2>3. Len(q) \in 0 .. Len(n) - 1
    BY <2>1, <2>2
  <2>4. q = SubSeq(n, 1, Len(q))
    BY <1>1, UnderIs
  <2>5. SubSeq(n, 1, Len(q)) \in DOMAIN t /\ t[SubSeq(n, 1, Len(q))] = Mapping
    BY <2>3 DEF IsTree
  <2> QED BY <1>1, <2>4, <2>5
<1> QED BY <1>1, <1>2

\* The same of what is right above, which is enough for a tree.
LEMMA TreeByParents ==
  ASSUME NEW t, DOMAIN t \subseteq Paths, Root \in DOMAIN t, t[Root] = Mapping,
         \A n \in DOMAIN t : \A q \in Paths : Under(q, n) /\ q # n => q \in DOMAIN t /\ t[q] = Mapping
  PROVE  IsTree(t)
<1>1. ASSUME NEW n \in DOMAIN t, NEW k \in 0 .. Len(n) - 1
      PROVE  SubSeq(n, 1, k) \in DOMAIN t /\ t[SubSeq(n, 1, k)] = Mapping
  <2>1. n \in Paths /\ Len(n) \in Nat
    BY LenProperties DEF Paths
  <2>2. k \in 0 .. Len(n) /\ k # Len(n)
    BY <2>1
  <2>3. SubSeq(n, 1, k) \in Paths /\ Under(SubSeq(n, 1, k), n) /\ SubSeq(n, 1, k) # n
    BY <2>1, <2>2, CutOff, CutIsUnder
  <2> QED BY <2>3
<1> QED BY <1>1 DEF IsTree, Paths

\* Within a secret reference: one is above
LEMMA WithinIs ==
  ASSUME NEW t, NEW n \in Paths
  PROVE  WithinSecretRef(t, n) <=> \E q \in Paths : Under(q, n) /\ q # n /\ IsSecretRef(t, q)
<1>1. Len(n) \in Nat
  BY LenProperties DEF Paths
<1>2. ASSUME NEW k \in 1 .. Len(n) - 1
      PROVE  /\ SubSeq(n, 1, k) \in Paths /\ Under(SubSeq(n, 1, k), n)
             /\ SubSeq(n, 1, k) # n
  <2>1. k \in 0 .. Len(n) /\ k # Len(n)
    BY <1>1
  <2> QED BY <2>1, CutOff, CutIsUnder
<1>3. ASSUME NEW q \in Paths, Under(q, n), q # n, IsSecretRef(t, q)
      PROVE  \E k \in 1 .. Len(n) - 1 : IsSecretRef(t, SubSeq(n, 1, k))
  <2>1. Len(q) \in Nat /\ Len(q) > 0
    <3>1. q # Root
      BY <1>3 DEF IsSecretRef
    <3> QED BY <3>1, EmptySeq, LenProperties DEF Root, Paths
  <2>2. ~(Len(n) <= Len(q))
    BY <1>3, UnderAntisymmetric
  <2>3. Len(q) \in 1 .. Len(n) - 1
    BY <1>1, <2>1, <2>2
  <2>4. q = SubSeq(n, 1, Len(q))
    BY <1>3, UnderIs
  <2> QED BY <1>3, <2>3, <2>4
<1>4. ASSUME NEW k \in 1 .. Len(n) - 1, IsSecretRef(t, SubSeq(n, 1, k))
      PROVE  \E q \in Paths : Under(q, n) /\ q # n /\ IsSecretRef(t, q)
  BY <1>2, <1>4
<1> QED BY <1>3, <1>4 DEF WithinSecretRef

\* A key at which one layer's mapping is merged into the other's
MergesInto(tree, document, q) ==
  /\ q \in DOMAIN tree /\ tree[q] = Mapping
  /\ document[q] = Mapping /\ ~IsSecretRef(document, q)

LEMMA DescendsIs ==
  ASSUME NEW tree, NEW document, NEW n \in Paths
  PROVE  Descends(tree, document, n) <=>
            \A q \in Paths : Under(q, n) /\ q # Root => MergesInto(tree, document, q)
<1>1. Len(n) \in Nat
  BY LenProperties DEF Paths
<1>2. Descends(tree, document, n) <=>
         \A k \in 1 .. Len(n) : MergesInto(tree, document, SubSeq(n, 1, k))
  BY DEF Descends, MergesInto
<1>3. ASSUME NEW k \in 1 .. Len(n)
      PROVE  SubSeq(n, 1, k) \in Paths /\ Under(SubSeq(n, 1, k), n) /\ SubSeq(n, 1, k) # Root
  <2>1. k \in 0 .. Len(n) /\ k > 0
    BY <1>1
  <2>2. SubSeq(n, 1, k) \in Paths /\ Len(SubSeq(n, 1, k)) = k /\ Under(SubSeq(n, 1, k), n)
    BY <2>1, CutOff, CutIsUnder
  <2>3. Len(Root) = 0
    BY DEF Root
  <2> QED BY <2>1, <2>2, <2>3
<1>4. ASSUME NEW q \in Paths, Under(q, n), q # Root
      PROVE  Len(q) \in 1 .. Len(n) /\ q = SubSeq(n, 1, Len(q))
  <2>1. Len(q) \in Nat /\ Len(q) > 0
    BY <1>4, EmptySeq, LenProperties DEF Root, Paths
  <2> QED BY <1>1, <1>4, <2>1, UnderIs
<1> QED BY <1>2, <1>3, <1>4

\* What a layer puts in place is where the descent ends.
LEMMA PlacedIs ==
  ASSUME NEW tree, NEW document, IsTree(document), NEW p \in DOMAIN document
  PROVE  p \in Placed(tree, document) <=>
            /\ p # Root /\ ~MergesInto(tree, document, p)
            /\ \A q \in Paths : Under(q, p) /\ q # p /\ q # Root => MergesInto(tree, document, q)
<1>1. p \in Paths /\ Len(p) \in Nat
  BY LenProperties DEF IsTree, Paths
<1>2. Len(p) > 0 <=> p # Root
  BY <1>1, EmptySeq DEF Root, Paths
<1>3. CASE p = Root
  BY <1>2, <1>3 DEF Placed
<1>4. CASE p # Root
  <2>1. /\ ParentOf(p) \in Paths
        /\ \A q \in Paths : Under(q, p) /\ q # p => Under(q, ParentOf(p))
        /\ Under(ParentOf(p), p) /\ ParentOf(p) # p
    BY <1>1, <1>4, ParentIs
  <2>2. \A q \in Paths : Under(q, ParentOf(p)) => Under(q, p) /\ q # p
    BY <1>1, <2>1, UnderTransitive, UnderAntisymmetric
  <2>3. Descends(tree, document, ParentOf(p)) <=>
           \A q \in Paths : Under(q, p) /\ q # p /\ q # Root => MergesInto(tree, document, q)
    BY <2>1, <2>2, DescendsIs
  <2>4. Descends(tree, document, p) <=>
           \A q \in Paths : Under(q, p) /\ q # Root => MergesInto(tree, document, q)
    BY <1>1, DescendsIs
  <2>5. Under(p, p)
    BY <1>1, UnderReflexive
  <2> QED BY <1>1, <1>2, <1>4, <2>3, <2>4, <2>5 DEF Placed
<1> QED BY <1>3, <1>4

\* A node that is taken from the layer: it is under one put in place.
Taken(tree, document, n) == \E p \in Placed(tree, document) : Under(p, n)

\* The descent reaches a node of the layer, or the node is under one put in place.
LEMMA TakenOrMerged ==
  ASSUME NEW tree, NEW document, IsTree(document), NEW n \in DOMAIN document,
         ~Taken(tree, document, n), NEW q \in Paths, Under(q, n), q # Root
  PROVE  MergesInto(tree, document, q)
<1>1. n \in Paths
  BY DEF IsTree, Paths
<1> DEFINE S == {r \in Paths : r # Root /\ ~MergesInto(tree, document, r)}
<1>2. ASSUME ~MergesInto(tree, document, q) PROVE FALSE
  <2>1. PICK p \in S : Under(p, n) /\ \A r \in S : Under(r, p) => r = p
    BY <1>1, <1>2, Shallowest
  <2>2. p \in DOMAIN document
    BY <2>1, AboveInTree
  <2>3. p \in Placed(tree, document)
    BY <2>1, <2>2, PlacedIs
  <2> QED BY <2>1, <2>3 DEF Taken
<1> QED BY <1>2

\* What is under a node put in place is the layer's, the rest is what there was.
LEMMA MergedIs ==
  ASSUME NEW tree, NEW document, NEW n
  PROVE  /\ Taken(tree, document, n) =>
               /\ n \in DOMAIN Merged(tree, document) <=> n \in DOMAIN document
               /\ n \in DOMAIN document => Merged(tree, document)[n] = document[n]
         /\ ~Taken(tree, document, n) =>
               /\ n \in DOMAIN Merged(tree, document) <=> n \in DOMAIN tree
               /\ n \in DOMAIN tree => Merged(tree, document)[n] = tree[n]
BY DEF Merged, Taken

\* Everything under a taken node is taken; nothing above one put in place is, and
\* both sides have a mapping there.
LEMMA TakenBelow ==
  ASSUME NEW tree, NEW document, IsTree(document), NEW n \in Paths, NEW m \in Paths,
         Taken(tree, document, n), Under(n, m)
  PROVE  Taken(tree, document, m)
<1>1. Placed(tree, document) \subseteq Paths
  BY DEF Placed, IsTree, Paths
<1> QED BY <1>1, UnderTransitive DEF Taken

LEMMA AbovePlaced ==
  ASSUME NEW tree, NEW document, IsTree(tree), IsTree(document),
         NEW p \in Placed(tree, document), NEW q \in Paths, Under(q, p), q # p
  PROVE  /\ ~Taken(tree, document, q)
         /\ q \in DOMAIN tree /\ tree[q] = Mapping
         /\ q \in DOMAIN document /\ document[q] = Mapping /\ ~IsSecretRef(document, q)
<1>1. p \in DOMAIN document /\ Placed(tree, document) \subseteq DOMAIN document
      /\ DOMAIN document \subseteq Paths
  BY DEF Placed, IsTree, Paths
<1>2. \A r \in Paths : Under(r, p) /\ r # p /\ r # Root => MergesInto(tree, document, r)
  BY <1>1, PlacedIs
<1>3. ASSUME Taken(tree, document, q) PROVE FALSE
  <2>1. PICK r \in Placed(tree, document) : Under(r, q)
    BY <1>3 DEF Taken
  <2>2. r # Root /\ ~MergesInto(tree, document, r) /\ r \in Paths
    BY <1>1, PlacedIs
  <2>3. Under(r, p) /\ r # p
    BY <1>1, <2>1, <2>2, UnderTransitive, UnderAntisymmetric
  <2> QED BY <1>2, <2>2, <2>3
<1>4. q \in DOMAIN document
  BY <1>1, AboveInTree
<1>5. CASE q = Root
  BY <1>3, <1>4, <1>5 DEF IsTree, IsSecretRef
<1>6. CASE q # Root
  BY <1>2, <1>3, <1>4, <1>6 DEF MergesInto
<1> QED BY <1>5, <1>6

\* Nothing of the layer is left out.
LEMMA DocumentIsIn ==
  ASSUME NEW tree, NEW document, IsTree(tree), IsTree(document), NEW n \in DOMAIN document
  PROVE  n \in DOMAIN Merged(tree, document)
<1>1. CASE Taken(tree, document, n)
  BY <1>1, MergedIs
<1>2. CASE ~Taken(tree, document, n)
  <2>1. n \in Paths
    BY DEF IsTree, Paths
  <2>2. n # Root => MergesInto(tree, document, n)
    BY <1>2, <2>1, TakenOrMerged, UnderReflexive
  <2>3. n \in DOMAIN tree
    BY <2>2 DEF MergesInto, IsTree
  <2> QED BY <1>2, <2>3, MergedIs
<1> QED BY <1>1, <1>2

\* Composing trees makes a tree.
LEMMA MergedIsTree ==
  ASSUME NEW tree, NEW document, IsTree(tree), IsTree(document)
  PROVE  IsTree(Merged(tree, document))
<1> DEFINE merged == Merged(tree, document)
<1>1. DOMAIN tree \subseteq Paths /\ DOMAIN document \subseteq Paths
  BY DEF IsTree, Paths
<1>2. DOMAIN merged \subseteq Paths
  BY <1>1 DEF Merged
<1>3. Root \in DOMAIN merged /\ merged[Root] = Mapping
  <2>1. /\ Root \in DOMAIN tree /\ tree[Root] = Mapping
        /\ Root \in DOMAIN document /\ document[Root] = Mapping
    BY DEF IsTree
  <2> QED BY <2>1, MergedIs
<1>4. ASSUME NEW n \in DOMAIN merged, NEW q \in Paths, Under(q, n), q # n
      PROVE  q \in DOMAIN merged /\ merged[q] = Mapping
  <2>1. n \in Paths
    BY <1>2
  <2>2. CASE ~Taken(tree, document, n)
    <3>1. n \in DOMAIN tree /\ ~Taken(tree, document, q)
      BY <1>4, <2>1, <2>2, MergedIs, TakenBelow
    <3>2. q \in DOMAIN tree /\ tree[q] = Mapping
      BY <1>4, <3>1, AboveInTree
    <3> QED BY <3>1, <3>2, MergedIs
  <2>3. CASE Taken(tree, document, q)
    <3>1. Taken(tree, document, n)
      BY <1>4, <2>1, <2>3, TakenBelow
    <3>2. n \in DOMAIN document
      BY <3>1, MergedIs
    <3>3. q \in DOMAIN document /\ document[q] = Mapping
      BY <1>4, <3>2, AboveInTree
    <3> QED BY <2>3, <3>3, MergedIs
  <2>4. CASE Taken(tree, document, n) /\ ~Taken(tree, document, q)
    <3>1. PICK p \in Placed(tree, document) : Under(p, n)
      BY <2>4 DEF Taken
    <3>2. p \in Paths
      BY <1>1 DEF Placed
    <3>3. Under(q, p) /\ q # p
      BY <1>4, <2>1, <2>4, <3>1, <3>2, AboveIsChain, UnderReflexive DEF Taken
    <3>4. q \in DOMAIN tree /\ tree[q] = Mapping
      BY <3>3, AbovePlaced
    <3> QED BY <2>4, <3>4, MergedIs
  <2> QED BY <2>2, <2>3, <2>4
<1> HIDE DEF merged
<1>5. IsTree(merged)
  BY <1>2, <1>3, <1>4, TreeByParents
<1> QED BY <1>5 DEF merged

\* The children of a node: no child of either side is lost, and what is taken has
\* the layer's.
LEMMA ChildIs ==
  ASSUME NEW t, IsTree(t), NEW q \in Paths, NEW c \in Children(t, q)
  PROVE  c \in Paths /\ c \in DOMAIN t /\ c # Root /\ ParentOf(c) = q /\ Under(q, c) /\ q # c
<1>1. c \in Paths /\ c \in DOMAIN t /\ c # Root /\ ParentOf(c) = q
  BY DEF Children, IsTree, Paths
<1> QED BY <1>1, ParentIs

LEMMA ChildrenOfDocument ==
  ASSUME NEW tree, NEW document, IsTree(tree), IsTree(document), NEW q \in Paths
  PROVE  /\ Children(document, q) \subseteq Children(Merged(tree, document), q)
         /\ Taken(tree, document, q) =>
               Children(document, q) = Children(Merged(tree, document), q)
<1>1. Children(document, q) \subseteq Children(Merged(tree, document), q)
  BY DocumentIsIn DEF Children
<1>2. ASSUME Taken(tree, document, q), NEW c \in Children(Merged(tree, document), q)
      PROVE  c \in Children(document, q)
  <2>1. c \in Paths /\ Under(q, c)
    BY MergedIsTree, ChildIs
  <2>2. Taken(tree, document, c)
    BY <1>2, <2>1, TakenBelow
  <2> QED BY <1>2, <2>2, MergedIs DEF Children
<1> QED BY <1>1, <1>2

LEMMA ChildrenKept ==
  ASSUME NEW tree, NEW document, IsTree(tree), IsTree(document), NEW q \in Paths,
         ~Taken(tree, document, q)
  PROVE  Children(tree, q) \subseteq Children(Merged(tree, document), q)
<1> SUFFICES ASSUME NEW c \in Children(tree, q) PROVE c \in DOMAIN Merged(tree, document)
  BY DEF Children
<1>1. c \in Paths /\ c \in DOMAIN tree /\ c # Root /\ ParentOf(c) = q
  BY ChildIs
<1>2. CASE ~Taken(tree, document, c)
  BY <1>1, <1>2, MergedIs
<1>3. CASE Taken(tree, document, c)
  <2>1. PICK p \in Placed(tree, document) : Under(p, c)
    BY <1>3 DEF Taken
  <2>2. p \in Paths /\ p \in DOMAIN document
    BY DEF Placed, IsTree, Paths
  <2>3. p = c
    BY <1>1, <2>1, <2>2, ParentIs DEF Taken
  <2> QED BY <2>2, <2>3, DocumentIsIn
<1> QED BY <1>2, <1>3

LEMMA HasChildToward ==
  ASSUME NEW t, IsTree(t), NEW q \in Paths, NEW n \in DOMAIN t, Under(q, n), q # n
  PROVE  \E c \in Children(t, q) : Under(c, n)
<1>1. n \in Paths
  BY DEF IsTree, Paths
<1>2. PICK c \in Paths : c # Root /\ ParentOf(c) = q /\ Under(c, n)
  BY <1>1, TowardChild
<1>3. c \in DOMAIN t
  BY <1>2, AboveInTree
<1> QED BY <1>2, <1>3 DEF Children

\* Secret references.  Under what is put in place they are the layer's; above it there
\* is none; elsewhere one that is left was one, and nothing is put in place below it.
LEMMA RefTaken ==
  ASSUME NEW tree, NEW document, IsTree(tree), IsTree(document), NEW n \in DOMAIN document,
         Taken(tree, document, n)
  PROVE  IsSecretRef(Merged(tree, document), n) <=> IsSecretRef(document, n)
<1>1. n \in Paths
  BY DEF IsTree, Paths
<1>2. Children(document, n) = Children(Merged(tree, document), n)
  BY <1>1, ChildrenOfDocument
<1>3. Merged(tree, document)[n] = document[n]
  BY MergedIs
<1> QED BY <1>2, <1>3 DEF IsSecretRef

LEMMA NoRefAbovePlaced ==
  ASSUME NEW tree, NEW document, IsTree(tree), IsTree(document),
         NEW p \in Placed(tree, document), NEW q \in Paths, Under(q, p), q # p
  PROVE  ~IsSecretRef(Merged(tree, document), q)
<1> SUFFICES ASSUME IsSecretRef(Merged(tree, document), q) PROVE FALSE
  OBVIOUS
<1>1. q # Root /\ Children(Merged(tree, document), q) = {Append(q, "secret_ref")}
  BY DEF IsSecretRef
<1>2. document[q] = Mapping /\ ~IsSecretRef(document, q)
  BY AbovePlaced
<1>3. p \in DOMAIN document
  BY DEF Placed
<1>4. Children(document, q) # {}
  BY <1>3, HasChildToward
<1>5. Children(document, q) \subseteq Children(Merged(tree, document), q)
  BY ChildrenOfDocument
<1>6. Children(document, q) = {Append(q, "secret_ref")}
  BY <1>1, <1>4, <1>5
<1> QED BY <1>1, <1>2, <1>6 DEF IsSecretRef

LEMMA RefKept ==
  ASSUME NEW tree, NEW document, IsTree(tree), IsTree(document),
         NEW q \in DOMAIN Merged(tree, document), ~Taken(tree, document, q),
         IsSecretRef(Merged(tree, document), q)
  PROVE  /\ IsSecretRef(tree, q)
         /\ \A n \in Paths : Under(q, n) => ~Taken(tree, document, n)
<1> DEFINE merged == Merged(tree, document)
           ref == Append(q, "secret_ref")
<1>1. q \in DOMAIN tree /\ merged[q] = tree[q] /\ q \in Paths
  BY MergedIs DEF IsTree, Paths
<1>2. \A p \in Placed(tree, document) : p \in Paths
  BY DEF Placed, IsTree, Paths
<1>3. ASSUME NEW n \in Paths, Under(q, n), Taken(tree, document, n) PROVE FALSE
  <2>1. PICK p \in Placed(tree, document) : Under(p, n)
    BY <1>3 DEF Taken
  <2>2. Under(q, p) /\ q # p
    BY <1>1, <1>2, <1>3, <2>1, AboveIsChain, UnderReflexive DEF Taken
  <2> QED BY <1>1, <2>2, NoRefAbovePlaced
<1>4. q # Root /\ merged[q] = Mapping /\ Children(merged, q) = {ref}
  BY DEF IsSecretRef
<1>5. ref \in Children(merged, q)
  BY <1>4
<1>6. ref \in Paths /\ ref \in DOMAIN merged /\ ref # Root /\ ParentOf(ref) = q /\ Under(q, ref)
  BY <1>1, <1>5, MergedIsTree, ChildIs
<1>7. ref \in DOMAIN tree
  BY <1>3, <1>6, MergedIs
<1>8. ref \in Children(tree, q)
  BY <1>6, <1>7 DEF Children
<1>9. Children(tree, q) \subseteq Children(merged, q)
  BY <1>1, ChildrenKept
<1>10. Children(tree, q) = {ref}
  BY <1>4, <1>8, <1>9
<1> QED BY <1>1, <1>3, <1>4, <1>10 DEF IsSecretRef

\* Leaves: those that are taken are the layer's, and all the layer's are taken.
LEMMA WithinTaken ==
  ASSUME NEW tree, NEW document, IsTree(tree), IsTree(document), NEW n \in DOMAIN document,
         Taken(tree, document, n)
  PROVE  WithinSecretRef(Merged(tree, document), n) <=> WithinSecretRef(document, n)
<1>1. n \in Paths
  BY DEF IsTree, Paths
<1>2. ASSUME NEW q \in Paths, Under(q, n), q # n
      PROVE  IsSecretRef(Merged(tree, document), q) <=> IsSecretRef(document, q)
  <2>1. q \in DOMAIN document
    BY <1>2, AboveInTree
  <2>2. CASE Taken(tree, document, q)
    BY <2>1, <2>2, RefTaken
  <2>3. CASE ~Taken(tree, document, q)
    <3>1. PICK p \in Placed(tree, document) : Under(p, n)
      BY DEF Taken
    <3>2. p \in Paths
      BY DEF Placed, IsTree, Paths
    <3>3. Under(q, p) /\ q # p
      BY <1>1, <1>2, <2>3, <3>1, <3>2, AboveIsChain, UnderReflexive DEF Taken
    <3> QED BY <3>3, AbovePlaced, NoRefAbovePlaced
  <2> QED BY <2>2, <2>3
<1> QED BY <1>1, <1>2, WithinIs

LEMMA LeavesTaken ==
  ASSUME NEW tree, NEW document, IsTree(tree), IsTree(document), NEW n,
         Taken(tree, document, n)
  PROVE  n \in LeavesOf(Merged(tree, document)) <=> n \in LeavesOf(document)
<1>1. CASE n \in DOMAIN document
  <2>1. Merged(tree, document)[n] = document[n] /\ n \in DOMAIN Merged(tree, document)
    BY <1>1, MergedIs
  <2> QED BY <1>1, <2>1, RefTaken, WithinTaken DEF LeavesOf
<1>2. CASE n \notin DOMAIN document
  BY <1>2, MergedIs DEF LeavesOf
<1> QED BY <1>1, <1>2

\* The same of values outside mappings, within a secret reference or not
LEMMA ValuesAreTaken ==
  ASSUME NEW tree, NEW document, IsTree(document), NEW n \in DOMAIN document,
         document[n] # Mapping \/ IsSecretRef(document, n)
  PROVE  Taken(tree, document, n)
<1>1. n \in Paths /\ n # Root
  BY DEF IsTree, Paths, IsSecretRef
<1>2. ~MergesInto(tree, document, n)
  BY DEF MergesInto
<1> QED BY <1>1, <1>2, TakenOrMerged, UnderReflexive

LEMMA RecordedIs ==
  ASSUME NEW tree, NEW document, IsTree(document)
  PROVE  RecordedPaths(document, Placed(tree, document)) = LeavesOf(document)
<1>1. ASSUME NEW n \in LeavesOf(document) PROVE Taken(tree, document, n)
  BY ValuesAreTaken DEF LeavesOf
<1> QED BY <1>1 DEF RecordedPaths, Taken

LEMMA SubtreeTaken ==
  ASSUME NEW tree, NEW document, IsTree(tree), IsTree(document), NEW n \in Paths,
         Taken(tree, document, n)
  PROVE  Subtree(Merged(tree, document), n) = Subtree(document, n)
<1> DEFINE merged == Merged(tree, document)
<1>1. DOMAIN merged \subseteq Paths /\ DOMAIN document \subseteq Paths
  BY MergedIsTree DEF IsTree, Paths
<1>2. \A m \in Paths : Under(n, m) =>
         /\ m \in DOMAIN merged <=> m \in DOMAIN document
         /\ m \in DOMAIN document => merged[m] = document[m]
  BY TakenBelow, MergedIs
<1> HIDE DEF merged
<1>3. {m \in DOMAIN merged : Under(n, m)} = {m \in DOMAIN document : Under(n, m)}
  BY <1>1, <1>2
<1>4. Subtree(merged, n) = Subtree(document, n)
  BY <1>1, <1>2, <1>3 DEF Subtree
<1> QED BY <1>4 DEF merged

\* A node that is not taken is within a secret reference only if it was, and a leaf
\* that is not taken was the same leaf or was within a reference that is one no more.
LEMMA WithinKept ==
  ASSUME NEW tree, NEW document, IsTree(tree), IsTree(document),
         NEW n \in DOMAIN Merged(tree, document), ~Taken(tree, document, n),
         WithinSecretRef(Merged(tree, document), n)
  PROVE  WithinSecretRef(tree, n)
<1>1. n \in Paths
  BY MergedIsTree DEF IsTree, Paths
<1>2. PICK q \in Paths : Under(q, n) /\ q # n /\ IsSecretRef(Merged(tree, document), q)
  BY <1>1, WithinIs
<1>3. q \in DOMAIN Merged(tree, document)
  BY <1>2, MergedIsTree, AboveInTree
<1>4. ~Taken(tree, document, q)
  BY <1>1, <1>2, TakenBelow
<1>5. IsSecretRef(tree, q)
  BY <1>2, <1>3, <1>4, RefKept
<1> QED BY <1>1, <1>2, <1>5, WithinIs

LEMMA OutermostRef ==
  ASSUME NEW t, IsTree(t), NEW n \in DOMAIN t, WithinSecretRef(t, n)
  PROVE  \E q \in LeavesOf(t) : IsSecretRef(t, q) /\ Under(q, n) /\ q # n
<1>1. n \in Paths
  BY DEF IsTree, Paths
<1> DEFINE refs == {q \in Paths : q # n /\ IsSecretRef(t, q)}
<1>2. \E q \in refs : Under(q, n)
  BY <1>1, WithinIs
<1>3. PICK q \in refs : Under(q, n) /\ \A r \in refs : Under(r, q) => r = q
  BY <1>1, <1>2, Shallowest
<1>4. q \in DOMAIN t
  BY <1>3, AboveInTree
<1>5. ~WithinSecretRef(t, q)
  <2>1. ASSUME NEW r \in Paths, Under(r, q), r # q, IsSecretRef(t, r) PROVE FALSE
    <3>1. r # n
      BY <1>1, <1>3, <2>1, UnderAntisymmetric
    <3> QED BY <1>3, <2>1, <3>1
  <2> QED BY <2>1, WithinIs
<1> QED BY <1>3, <1>4, <1>5 DEF LeavesOf

LEMMA LeafKept ==
  ASSUME NEW tree, NEW document, IsTree(tree), IsTree(document),
         NEW n \in LeavesOf(Merged(tree, document)), ~Taken(tree, document, n)
  PROVE  \/ n \in LeavesOf(tree) /\ Subtree(Merged(tree, document), n) = Subtree(tree, n)
         \/ \E q \in LeavesOf(tree) :
               /\ IsSecretRef(tree, q) /\ ~IsSecretRef(Merged(tree, document), q)
               /\ Under(q, n) /\ q # n
<1> DEFINE merged == Merged(tree, document)
<1>1. n \in DOMAIN merged /\ n \in DOMAIN tree /\ merged[n] = tree[n] /\ n \in Paths
  BY MergedIs DEF LeavesOf, IsTree, Paths
<1>2. CASE WithinSecretRef(tree, n)
  <2>1. PICK q \in LeavesOf(tree) : IsSecretRef(tree, q) /\ Under(q, n) /\ q # n
    BY <1>1, <1>2, OutermostRef
  <2>2. q \in Paths
    BY DEF LeavesOf, IsTree, Paths
  <2>3. ~IsSecretRef(merged, q)
    BY <1>1, <2>1, <2>2, WithinIs DEF LeavesOf
  <2> QED BY <2>1, <2>3
<1>3. CASE ~WithinSecretRef(tree, n)
  <2>1. IsSecretRef(merged, n) => IsSecretRef(tree, n)
    BY <1>1, RefKept
  <2>2. n \in LeavesOf(tree)
    BY <1>1, <1>3, <2>1 DEF LeavesOf
  <2>3. \A m \in Paths : Under(n, m) => ~Taken(tree, document, m)
    <3>1. CASE IsSecretRef(merged, n)
      BY <1>1, <3>1, RefKept
    <3>2. CASE tree[n] # Mapping
      <4>1. ASSUME NEW m \in Paths, Under(n, m), Taken(tree, document, m) PROVE FALSE
        <5>1. PICK p \in Placed(tree, document) : Under(p, m)
          BY <4>1 DEF Taken
        <5>2. p \in Paths
          BY DEF Placed, IsTree, Paths
        <5>3. Under(n, p) /\ n # p
          BY <1>1, <4>1, <5>1, <5>2, AboveIsChain, UnderReflexive DEF Taken
        <5> QED BY <1>1, <3>2, <5>3, AbovePlaced
      <4> QED BY <4>1
    <3> QED BY <1>1, <3>1, <3>2 DEF LeavesOf
  <2>4. \A m \in Paths : Under(n, m) =>
           /\ m \in DOMAIN merged <=> m \in DOMAIN tree
           /\ m \in DOMAIN tree => merged[m] = tree[m]
    BY <2>3, MergedIs
  <2>5. DOMAIN merged \subseteq Paths /\ DOMAIN tree \subseteq Paths
    BY MergedIsTree DEF IsTree, Paths
  <2>6. {m \in DOMAIN merged : Under(n, m)} = {m \in DOMAIN tree : Under(n, m)}
    BY <2>4, <2>5
  <2> HIDE DEF merged
  <2>7. Subtree(merged, n) = Subtree(tree, n)
    BY <2>4, <2>5, <2>6 DEF Subtree
  <2> QED BY <2>2, <2>7 DEF merged
<1> QED BY <1>2, <1>3

\* Nodes with equal parts below agree there, secret references included.
LEMMA EqualBelow ==
  ASSUME NEW t, NEW u, IsTree(t), IsTree(u), NEW p \in Paths, Subtree(t, p) = Subtree(u, p),
         NEW q \in Paths, Under(p, q)
  PROVE  /\ q \in DOMAIN t <=> q \in DOMAIN u
         /\ q \in DOMAIN t => t[q] = u[q]
         /\ q \in DOMAIN t => (IsSecretRef(t, q) <=> IsSecretRef(u, q))
<1>1. ASSUME NEW m \in Paths, Under(p, m)
      PROVE  /\ m \in DOMAIN t <=> m \in DOMAIN u
             /\ m \in DOMAIN t => t[m] = u[m]
  <2>1. \A v : m \in DOMAIN Subtree(v, p) <=> m \in DOMAIN v
    BY <1>1 DEF Subtree
  <2>2. \A v : m \in DOMAIN v => Subtree(v, p)[m] = v[m]
    BY <1>1 DEF Subtree
  <2> QED BY <2>1, <2>2
<1>2. \A c \in Children(t, q) \cup Children(u, q) : c \in Paths /\ Under(p, c)
  BY ChildIs, UnderTransitive
<1>3. Children(t, q) = Children(u, q)
  BY <1>1, <1>2 DEF Children
<1> QED BY <1>1, <1>3 DEF IsSecretRef

\* The composition is a tree; an entry is of one of its nodes, outside the secret
\* references, and names a layer; and the layers are accounted for.
LayersInv ==
  /\ layers \in Seq(LayerDocuments)
  /\ IsTree(effective)
  /\ \A n \in DOMAIN provenance :
        /\ n \in DOMAIN effective /\ ~WithinSecretRef(effective, n)
        /\ provenance[n] \in 1 .. Len(layers)
  /\ LayersAccounted

\* A layer is merged.
Merges(document) ==
  /\ layers' = Append(layers, document)
  /\ effective' = Merged(effective, document)
  /\ provenance' = Provenance(Overridden(effective, document),
                              RecordedPaths(document, Placed(effective, document)),
                              Len(layers) + 1)
  /\ \E previous : conflicts' = conflicts \cup
        {[path |-> path, new |-> Len(layers) + 1, previous |-> previous[path]] :
            path \in Overridden(effective, document)}

LEMMA LayersInvInit == LayersInit => LayersInv
<1> SUFFICES ASSUME LayersInit PROVE LayersInv
  OBVIOUS
<1>1. layers = <<>> /\ layers \in Seq(LayerDocuments) /\ Len(layers) = 0
  BY EmptySeq DEF LayersInit
<1>2. DOMAIN effective = {Root} /\ effective[Root] = Mapping
  BY DEF LayersInit, EmptyDocument
<1>3. IsTree(effective)
  BY <1>2, OnlyRootAboveRoot, TreeByParents
<1>4. LeavesOf(effective) = {}
  BY <1>2 DEF LeavesOf, IsSecretRef
<1>5. DOMAIN provenance = {}
  BY DEF LayersInit
<1>6. OverridesReported
  BY <1>1 DEF OverridesReported
<1>7. ProvenanceIsLast
  BY <1>1, <1>4, <1>5 DEF ProvenanceIsLast
<1> QED BY <1>1, <1>3, <1>5, <1>6, <1>7 DEF LayersInv, LayersAccounted

\* The entries after a merge: the layer's for its own leaves, the old ones elsewhere.
LEMMA EntriesAfter ==
  ASSUME LayersInv, NEW document \in LayerDocuments, Merges(document)
  PROVE  /\ \A n \in LeavesOf(document) :
               n \in DOMAIN provenance' /\ provenance'[n] = Len(layers) + 1
         /\ \A n \in DOMAIN provenance' : n \notin LeavesOf(document) =>
               /\ n \in DOMAIN provenance /\ provenance'[n] = provenance[n]
               /\ \A p \in Overridden(effective, document) : ~Under(p, n)
         /\ \A n \in DOMAIN provenance : ~Taken(effective, document, n) =>
               n \in DOMAIN provenance' /\ provenance'[n] = provenance[n]
<1>1. IsTree(document)
  BY DocumentsAssumption
<1> DEFINE over == Overridden(effective, document)
           kept == {n \in DOMAIN provenance : \A path \in over : ~Under(path, n)}
           leaves == LeavesOf(document)
<1>2. provenance' = [n \in kept \cup leaves |->
                        IF n \in leaves THEN Len(layers) + 1 ELSE provenance[n]]
  BY <1>1, RecordedIs DEF Merges, Provenance
<1>3. over \subseteq Placed(effective, document)
  BY DEF Overridden
<1>4. \A n \in leaves : Taken(effective, document, n)
  BY <1>1, ValuesAreTaken DEF LeavesOf
<1>5. \A n \in DOMAIN provenance : ~Taken(effective, document, n) => n \in kept /\ n \notin leaves
  BY <1>3, <1>4 DEF Taken
<1> HIDE DEF leaves
<1>6. DOMAIN provenance' = kept \cup leaves
  BY <1>2
<1>7. \A n \in leaves : provenance'[n] = Len(layers) + 1
  BY <1>2
<1>8. \A n \in kept : n \notin leaves => provenance'[n] = provenance[n]
  BY <1>2
<1> QED BY <1>5, <1>6, <1>7, <1>8 DEF leaves

\* What is taken but not overridden is there as it was.
LEMMA NotOverridden ==
  ASSUME NEW tree, NEW document, IsTree(tree), IsTree(document), NEW n \in DOMAIN tree,
         Taken(tree, document, n), \A p \in Overridden(tree, document) : ~Under(p, n)
  PROVE  /\ n \in DOMAIN document /\ document[n] = tree[n]
         /\ WithinSecretRef(document, n) => WithinSecretRef(tree, n)
<1>1. n \in Paths
  BY DEF IsTree, Paths
<1>2. PICK p \in Placed(tree, document) : Under(p, n)
  BY DEF Taken
<1>3. p \in Paths /\ p \notin Overridden(tree, document)
  BY <1>2 DEF Placed, IsTree, Paths
<1>4. p \in DOMAIN tree
  BY <1>2, <1>3, AboveInTree
<1>5. Subtree(tree, p) = Subtree(document, p)
  BY <1>2, <1>3, <1>4 DEF Overridden
<1>6. n \in DOMAIN document /\ document[n] = tree[n]
  BY <1>1, <1>2, <1>3, <1>5, EqualBelow
<1>7. ASSUME NEW q \in Paths, Under(q, n), q # n, IsSecretRef(document, q)
      PROVE  IsSecretRef(tree, q)
  <2>1. Under(p, q)
    <3>1. CASE Under(q, p) /\ q # p
      BY <1>2, <1>7, <3>1, AbovePlaced
    <3> QED BY <1>1, <1>2, <1>3, <1>7, <3>1, AboveIsChain, UnderReflexive
  <2>2. q \in DOMAIN tree
    BY <1>7, AboveInTree
  <2> QED BY <1>3, <1>5, <1>7, <2>1, <2>2, EqualBelow
<1> QED BY <1>1, <1>6, <1>7, WithinIs

LEMMA EntriesStep ==
  ASSUME LayersInv, NEW document \in LayerDocuments, Merges(document), NEW n \in DOMAIN provenance'
  PROVE  /\ n \in DOMAIN effective' /\ ~WithinSecretRef(effective', n)
         /\ provenance'[n] \in 1 .. Len(layers) + 1
<1>1. IsTree(document) /\ IsTree(effective) /\ effective' = Merged(effective, document)
  BY DocumentsAssumption DEF LayersInv, Merges
<1>2. Len(layers) \in Nat
  BY LenProperties DEF LayersInv
<1>3. CASE n \in LeavesOf(document)
  <2>1. n \in DOMAIN document /\ Taken(effective, document, n)
    BY <1>1, <1>3, ValuesAreTaken DEF LeavesOf
  <2>2. n \in LeavesOf(effective')
    BY <1>1, <1>3, <2>1, LeavesTaken
  <2> QED BY <1>2, <1>3, <2>2, EntriesAfter DEF LeavesOf
<1>4. CASE n \notin LeavesOf(document)
  <2>1. /\ n \in DOMAIN provenance /\ provenance'[n] = provenance[n]
        /\ \A p \in Overridden(effective, document) : ~Under(p, n)
    BY <1>4, EntriesAfter
  <2>2. /\ n \in DOMAIN effective /\ ~WithinSecretRef(effective, n)
        /\ provenance[n] \in 1 .. Len(layers)
    BY <2>1 DEF LayersInv
  <2>3. CASE ~Taken(effective, document, n)
    <3>1. n \in DOMAIN effective'
      BY <1>1, <2>2, <2>3, MergedIs
    <3>2. ~WithinSecretRef(effective', n)
      BY <1>1, <2>2, <2>3, <3>1, WithinKept
    <3> QED BY <1>2, <2>1, <2>2, <3>1, <3>2
  <2>4. CASE Taken(effective, document, n)
    <3>1. n \in DOMAIN document /\ ~WithinSecretRef(document, n)
      BY <1>1, <2>1, <2>2, <2>4, NotOverridden
    <3>2. n \in DOMAIN effective' /\ ~WithinSecretRef(effective', n)
      BY <1>1, <2>4, <3>1, MergedIs, WithinTaken
    <3> QED BY <1>2, <2>1, <2>2, <3>2
  <2> QED BY <2>3, <2>4
<1> QED BY <1>3, <1>4

\* A reference that was outgrown stays so while a value below it is not taken.
LEMMA OutgrownStays ==
  ASSUME LayersInv, NEW document \in LayerDocuments, Merges(document),
         NEW leaf \in Paths, ~Taken(effective, document, leaf),
         \E path \in Outgrown : Under(Append(path, "secret_ref"), leaf)
  PROVE  \E path \in Outgrown' : Under(Append(path, "secret_ref"), leaf)
<1>1. IsTree(document) /\ IsTree(effective) /\ effective' = Merged(effective, document)
  BY DocumentsAssumption DEF LayersInv, Merges
<1>2. PICK path \in Outgrown : Under(Append(path, "secret_ref"), leaf)
  OBVIOUS
<1>3. /\ path \in DOMAIN provenance /\ path \in DOMAIN effective
      /\ effective[path] = Mapping /\ ~IsSecretRef(effective, path)
  BY <1>2 DEF Outgrown
<1>4. path \in Paths
  BY <1>1, <1>3 DEF IsTree, Paths
<1>5. Under(path, leaf)
  BY <1>2, <1>4, SecretRefPath, UnderTransitive
<1>6. ~Taken(effective, document, path)
  BY <1>1, <1>4, <1>5, TakenBelow
<1>7. path \in DOMAIN effective' /\ effective'[path] = Mapping
  BY <1>1, <1>3, <1>6, MergedIs
<1>8. ~IsSecretRef(effective', path)
  BY <1>1, <1>3, <1>6, <1>7, RefKept
<1>9. path \in DOMAIN provenance'
  BY <1>3, <1>6, EntriesAfter
<1> QED BY <1>2, <1>7, <1>8, <1>9 DEF Outgrown

\* A value has an outgrown reference above it or the entry of the last layer with it.
Accounted(leaf) ==
  \/ \E path \in Outgrown : Under(Append(path, "secret_ref"), leaf)
  \/ /\ leaf \in DOMAIN provenance
     /\ Subtree(layers[provenance[leaf]], leaf) = Subtree(effective, leaf)
     /\ \A later \in provenance[leaf] + 1 .. Len(layers) : leaf \notin LeavesOf(layers[later])

LEMMA LeafStep ==
  ASSUME LayersInv, NEW document \in LayerDocuments, Merges(document),
         NEW leaf \in LeavesOf(effective')
  PROVE  Accounted(leaf)'
<1>1. IsTree(document) /\ IsTree(effective) /\ effective' = Merged(effective, document)
  BY DocumentsAssumption DEF LayersInv, Merges
<1>2. /\ Len(layers) \in Nat /\ Len(layers') = Len(layers) + 1
      /\ layers'[Len(layers) + 1] = document
      /\ \A i \in 1 .. Len(layers) : layers'[i] = layers[i]
  BY LenProperties, AppendProperties DEF LayersInv, Merges
<1>3. leaf \in Paths
  BY <1>1, MergedIsTree DEF LeavesOf, IsTree, Paths
<1>4. \A n \in LeavesOf(effective) : Accounted(n)
  BY DEF LayersInv, LayersAccounted, ProvenanceIsLast, Accounted
<1>5. CASE Taken(effective, document, leaf)
  <2>1. leaf \in LeavesOf(document)
    BY <1>1, <1>5, LeavesTaken
  <2>2. leaf \in DOMAIN provenance' /\ provenance'[leaf] = Len(layers) + 1
    BY <2>1, EntriesAfter
  <2>3. Subtree(document, leaf) = Subtree(effective', leaf)
    BY <1>1, <1>3, <1>5, SubtreeTaken
  <2>4. provenance'[leaf] + 1 .. Len(layers') = {}
    BY <1>2, <2>2
  <2> QED BY <1>2, <2>2, <2>3, <2>4 DEF Accounted
<1>6. CASE ~Taken(effective, document, leaf)
  <2>1. leaf \notin LeavesOf(document)
    BY <1>1, <1>6, ValuesAreTaken DEF LeavesOf
  <2>2. ASSUME leaf \in LeavesOf(effective), Subtree(effective', leaf) = Subtree(effective, leaf)
        PROVE  Accounted(leaf)'
    <3>1. CASE \E path \in Outgrown : Under(Append(path, "secret_ref"), leaf)
      BY <1>3, <1>6, <3>1, OutgrownStays DEF Accounted
    <3>2. CASE ~\E path \in Outgrown : Under(Append(path, "secret_ref"), leaf)
      <4>1. /\ leaf \in DOMAIN provenance
            /\ Subtree(layers[provenance[leaf]], leaf) = Subtree(effective, leaf)
            /\ \A later \in provenance[leaf] + 1 .. Len(layers) :
                  leaf \notin LeavesOf(layers[later])
        BY <1>4, <2>2, <3>2 DEF Accounted
      <4>2. leaf \in DOMAIN provenance' /\ provenance'[leaf] = provenance[leaf]
        BY <1>6, <4>1, EntriesAfter
      <4>3. provenance[leaf] \in 1 .. Len(layers)
        BY <4>1 DEF LayersInv
      <4>4. layers'[provenance[leaf]] = layers[provenance[leaf]]
        BY <1>2, <4>3
      <4>5. ASSUME NEW later \in provenance[leaf] + 1 .. Len(layers')
            PROVE  leaf \notin LeavesOf(layers'[later])
        <5>1. CASE later = Len(layers) + 1
          BY <1>2, <2>1, <5>1
        <5>2. CASE later # Len(layers) + 1
          <6>1. later \in provenance[leaf] + 1 .. Len(layers) /\ later \in 1 .. Len(layers)
            BY <1>2, <4>3, <4>5, <5>2
          <6> QED BY <1>2, <4>1, <6>1
        <5> QED BY <5>1, <5>2
      <4> QED BY <2>2, <4>1, <4>2, <4>4, <4>5 DEF Accounted
    <3> QED BY <3>1, <3>2
  <2>3. ASSUME NEW q \in LeavesOf(effective), IsSecretRef(effective, q),
               ~IsSecretRef(effective', q), Under(q, leaf), q # leaf
        PROVE  Accounted(leaf)'
    <3>1. q \in Paths /\ q \in DOMAIN effective
      BY <1>1 DEF LeavesOf, IsTree, Paths
    <3>2. ~Taken(effective, document, q)
      BY <1>1, <1>3, <1>6, <2>3, <3>1, TakenBelow
    <3>3. CASE \E path \in Outgrown : Under(Append(path, "secret_ref"), q)
      <4>1. PICK path \in Outgrown : Under(Append(path, "secret_ref"), q)
        BY <3>3
      <4>2. path \in Paths
        BY <1>1, <4>1 DEF Outgrown, IsTree, Paths
      <4>3. Under(Append(path, "secret_ref"), leaf)
        BY <1>3, <2>3, <3>1, <4>1, <4>2, SecretRefPath, UnderTransitive
      <4> QED BY <1>3, <1>6, <4>1, <4>3, OutgrownStays DEF Accounted
    <3>4. CASE q \in DOMAIN provenance
      <4>1. q \in DOMAIN effective' /\ effective'[q] = Mapping
        BY <1>1, <2>3, <3>1, <3>2, MergedIs DEF IsSecretRef
      <4>2. q \in DOMAIN provenance'
        BY <3>2, <3>4, EntriesAfter
      <4>3. q \in Outgrown'
        BY <2>3, <4>1, <4>2 DEF Outgrown
      <4>4. leaf \in DOMAIN effective
        BY <1>1, <1>6, MergedIs DEF LeavesOf
      <4>5. PICK c \in Children(effective, q) : Under(c, leaf)
        BY <1>1, <2>3, <3>1, <4>4, HasChildToward
      <4>6. c = Append(q, "secret_ref")
        BY <2>3 DEF IsSecretRef
      <4> QED BY <4>3, <4>5, <4>6 DEF Accounted
    <3> QED BY <1>4, <3>3, <3>4 DEF Accounted
  <2> QED BY <1>1, <1>6, <2>2, <2>3, LeafKept
<1> QED BY <1>5, <1>6

LEMMA ReportedStep ==
  ASSUME LayersInv, NEW document \in LayerDocuments, Merges(document)
  PROVE  OverridesReported'
<1>1. IsTree(document) /\ IsTree(effective) /\ effective' = Merged(effective, document)
  BY DocumentsAssumption DEF LayersInv, Merges
<1>2. /\ Len(layers) \in Nat /\ Len(layers') = Len(layers) + 1
      /\ layers'[Len(layers) + 1] = document
      /\ \A i \in 1 .. Len(layers) : layers'[i] = layers[i]
  BY LenProperties, AppendProperties DEF LayersInv, Merges
<1>3. conflicts \subseteq conflicts'
      /\ \A p \in Overridden(effective, document) :
            \E c \in conflicts' : c.path = p /\ c.new = Len(layers) + 1
  <2>1. PICK previous : conflicts' = conflicts \cup
           {[path |-> path, new |-> Len(layers) + 1, previous |-> previous[path]] :
               path \in Overridden(effective, document)}
    BY DEF Merges
  <2>2. ASSUME NEW p \in Overridden(effective, document)
        PROVE  \E c \in conflicts' : c.path = p /\ c.new = Len(layers) + 1
    <3> DEFINE c == [path |-> p, new |-> Len(layers) + 1, previous |-> previous[p]]
    <3>1. c \in conflicts' /\ c.path = p /\ c.new = Len(layers) + 1
      BY <2>1
    <3> QED BY <3>1
  <2> QED BY <2>1, <2>2
<1>4. ASSUME NEW i \in 1 .. Len(layers), NEW path \in DOMAIN layers[i], layers[i][path] # Mapping
      PROVE  \/ path \in DOMAIN effective' /\ effective'[path] = layers[i][path]
             \/ \E c \in conflicts' : c.new > i /\ Under(c.path, path)
  <2>1. \/ path \in DOMAIN effective /\ effective[path] = layers[i][path]
        \/ \E c \in conflicts : c.new > i /\ Under(c.path, path)
    BY <1>4 DEF LayersInv, LayersAccounted, OverridesReported
  <2>2. CASE \E c \in conflicts : c.new > i /\ Under(c.path, path)
    BY <1>3, <2>2
  <2>3. CASE path \in DOMAIN effective /\ effective[path] = layers[i][path]
    <3>1. CASE ~Taken(effective, document, path)
      BY <1>1, <2>3, <3>1, MergedIs
    <3>2. CASE \E p \in Overridden(effective, document) : Under(p, path)
      <4>1. PICK p \in Overridden(effective, document) : Under(p, path)
        BY <3>2
      <4>2. PICK c \in conflicts' : c.path = p /\ c.new = Len(layers) + 1
        BY <1>3, <4>1
      <4>3. c.new > i
        BY <1>2, <4>2
      <4> QED BY <4>1, <4>2, <4>3
    <3>3. CASE /\ Taken(effective, document, path)
               /\ \A p \in Overridden(effective, document) : ~Under(p, path)
      <4>1. path \in DOMAIN document /\ document[path] = effective[path]
        BY <1>1, <2>3, <3>3, NotOverridden
      <4>2. path \in DOMAIN effective' /\ effective'[path] = document[path]
        BY <1>1, <3>3, <4>1, MergedIs
      <4> QED BY <2>3, <4>1, <4>2
    <3> QED BY <3>1, <3>2, <3>3
  <2> QED BY <2>1, <2>2, <2>3
<1>5. ASSUME NEW path \in DOMAIN document, document[path] # Mapping
      PROVE  path \in DOMAIN effective' /\ effective'[path] = document[path]
  BY <1>1, <1>5, ValuesAreTaken, MergedIs
<1>6. ASSUME NEW i \in 1 .. Len(layers'), NEW path \in DOMAIN layers'[i]
      PROVE  \/ layers'[i][path] = Mapping
             \/ path \in DOMAIN effective' /\ effective'[path] = layers'[i][path]
             \/ \E c \in conflicts' : c.new > i /\ Under(c.path, path)
  <2>1. CASE i = Len(layers) + 1
    BY <1>2, <1>5, <2>1
  <2>2. CASE i # Len(layers) + 1
    <3>1. i \in 1 .. Len(layers)
      BY <1>2, <2>2
    <3> QED BY <1>2, <1>4, <1>6, <3>1
  <2> QED BY <2>1, <2>2
<1> QED BY <1>6 DEF OverridesReported

LEMMA MergeKeepsInv ==
  ASSUME LayersInv, NEW document \in LayerDocuments, Merges(document)
  PROVE  LayersInv'
<1>1. IsTree(document) /\ IsTree(effective) /\ effective' = Merged(effective, document)
  BY DocumentsAssumption DEF LayersInv, Merges
<1>2. /\ layers' \in Seq(LayerDocuments) /\ Len(layers) \in Nat
      /\ Len(layers') = Len(layers) + 1 /\ layers'[Len(layers) + 1] = document
  BY LenProperties, AppendProperties DEF LayersInv, Merges
<1>3. IsTree(effective')
  BY <1>1, MergedIsTree
<1>4. \A n \in DOMAIN provenance' :
         /\ n \in DOMAIN effective' /\ ~WithinSecretRef(effective', n)
         /\ provenance'[n] \in 1 .. Len(layers')
  BY <1>2, EntriesStep
<1>5. DOMAIN provenance' \subseteq LeavesOf(effective') \cup Outgrown'
  BY <1>4 DEF LeavesOf, Outgrown
<1>6. Last(layers') = document
  BY <1>2 DEF Last
<1>7. ASSUME NEW leaf \in LeavesOf(document)
      PROVE  Subtree(document, leaf) = Subtree(effective', leaf)
  <2>1. leaf \in Paths /\ Taken(effective, document, leaf)
    BY <1>1, ValuesAreTaken DEF LeavesOf, IsTree, Paths
  <2> QED BY <1>1, <2>1, SubtreeTaken
<1>8. \A leaf \in LeavesOf(effective') : Accounted(leaf)'
  BY LeafStep
<1>9. ProvenanceIsLast'
  BY <1>5, <1>6, <1>7, <1>8 DEF ProvenanceIsLast, Accounted
<1> QED BY <1>2, <1>3, <1>4, <1>9, ReportedStep DEF LayersInv, LayersAccounted

LEMMA LayersInvStep == LayersInv /\ [LayersNext]_layerVars => LayersInv'
<1> SUFFICES ASSUME LayersInv, [LayersNext]_layerVars PROVE LayersInv'
  OBVIOUS
<1>1. CASE UNCHANGED <<layers, effective, provenance, conflicts>>
  BY <1>1 DEF LayersInv, LayersAccounted, ProvenanceIsLast, OverridesReported, Outgrown
<1>2. ASSUME NEW document \in LayerDocuments, MergeLayer(document),
             ~UNCHANGED <<layers, effective, provenance, conflicts>>
      PROVE  Merges(document)
  <2> DEFINE before(path) == IF Cardinality(PreviousLayers(path)) = 1
                             THEN CHOOSE l \in PreviousLayers(path) : TRUE ELSE 0
  <2>1. /\ layers' = Append(layers, document)
        /\ effective' = Merged(effective, document)
        /\ provenance' = Provenance(Overridden(effective, document),
                                    RecordedPaths(document, Placed(effective, document)),
                                    Len(layers) + 1)
        /\ conflicts' = conflicts \cup
              {[path |-> path, new |-> Len(layers) + 1, previous |-> before(path)] :
                  path \in Overridden(effective, document)}
    BY <1>2 DEF MergeLayer
  <2> DEFINE previous == [path \in Overridden(effective, document) |-> before(path)]
  <2>2. \A path \in Overridden(effective, document) : previous[path] = before(path)
    OBVIOUS
  <2> HIDE DEF previous, before
  <2>3. conflicts' = conflicts \cup
           {[path |-> path, new |-> Len(layers) + 1, previous |-> previous[path]] :
               path \in Overridden(effective, document)}
    BY <2>1, <2>2
  <2> QED BY <2>1, <2>3 DEF Merges
<1>3. CASE LayersNext
  BY <1>1, <1>2, <1>3, MergeKeepsInv DEF LayersNext, Compose
<1> QED BY <1>1, <1>3 DEF layerVars

\* An accepted configuration can be used as it stands: a use fails only by naming what
\* the host lacks, a process gets all its variables, and no shared client gets what is
\* one session's (config.py); and what layers are composed to is accounted to the last
\* layer that gave it, with every override reported (config_layers.py).
THEOREM ConfigurationIsSafe == LoadSpec /\ LayersSpec => []ConfigSafe
<1>1. LoadInv /\ LayersInv => ConfigSafe
  BY LoadInvSafe DEF LayersInv, ConfigSafe
<1> QED BY <1>1, LoadInvInit, LoadInvStep, LayersInvInit, LayersInvStep, PTL
        DEF LoadSpec, LayersSpec
=============================================================================
