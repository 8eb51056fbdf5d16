---------------------- MODULE UpstreamLifecycleProofs ----------------------
(***************************************************************************)
(* Proofs about UpstreamLifecycle for any threads, upstreams, sessions,    *)
(* clients and processes.                                                  *)
(***************************************************************************)
EXTENDS UpstreamLifecycle, TLAPS

\* A frame between calls of the janitor, or no frame at all, refers to no
\* client; every other frame does, and the client is a live object.
FrameInv ==
  /\ \A a \in Actors : pc[a] \notin {"idle", "visit", "sweep"} =>
       held[a] \in Clients /\ ckey[held[a]] # None
  /\ \A a \in Actors : pc[a] = "idle" => calls[a] = 0 /\ op[a] = None /\ held[a] = None
  /\ \A t \in Threads : pc[t] = "got" /\ op[t] = "call" => calls[t] < MaxCalls
  /\ \A t \in Threads : pc[t] = "h_poll" => op[t] = "health"
  /\ \A t \in Threads : pc[t] = "sweep" => Sweeping(t)
  /\ \A t \in Threads : pc[t] = "io" => op[t] = "call" /\ lproc[t] \in Procs

\* From Acquire to Release a thread owns the call lock of its client.
Working == {"start", "spawn", "meta", "io", "release", "failed"}
LockInv == \A t \in Threads : pc[t] \in Working => callLock[held[t]] = t

\* Registered clients are live objects created for the key they are found
\* under, and a call uses the client of the upstream and session it names.
KeyInv ==
  /\ \A k \in Keys : registry[k] # None => ckey[registry[k]] = k
  /\ \A c \in perCall : ckey[c] # None
  /\ \A a \in Actors : \A c \in todo[a] : ckey[c] # None
  /\ \A t \in Threads : op[t] = "call" => ckey[held[t]] = want[t]

\* A process belongs to at most one client, and the process a call talks to
\* to no other client than the call's.
ProcInv ==
  /\ \A c, d \in Clients : c # d /\ proc[c] # None => proc[c] # proc[d]
  /\ \A t \in Threads, c \in Clients : pc[t] = "io" /\ proc[c] = lproc[t] => c = held[t]

IInv == TypeOK /\ FrameInv /\ LockInv /\ KeyInv /\ ProcInv /\ PipeExclusive

USE DEF Actors, Goto, EndRequest, registryVars, clientVars, osVars, stopVars, frameVars,
        Accepting, CallLockFree, CallLockReleased, MayCallAgain, RecordDropped,
        PerCallPopped, Evicted

\* The types are kept.
LEMMA TypeStep ==
  TypeOK /\ FrameInv /\ [Next]_vars => TypeOK'
<1> SUFFICES ASSUME TypeOK, FrameInv, [Next]_vars
             PROVE  TypeOK'
  OBVIOUS
<1> USE LifecycleAssumption DEF TypeOK
<1>1. ASSUME NEW t \in Threads, NEW u \in SharedUp \cup SessionUp, NEW s \in Sessions, GetClient(t, u, s) PROVE TypeOK'
  <2> DEFINE k == ClientKey(u, s)
             Types == /\ registry' \in [Keys -> Clients \cup {None}]
                      /\ ckey' \in [Clients -> Keys \cup CallKeys \cup {None}]
                      /\ idle' \in [Clients -> BOOLEAN]
                      /\ held' \in [Actors -> Clients \cup {None}]
  <2>1. k \in Keys
    BY DEF ClientKey, Keys, SharedKeys, SessionKeys
  <2>2. /\ want' = [want EXCEPT ![t] = k]
        /\ op' = [op EXCEPT ![t] = "call"]
        /\ pc' = [pc EXCEPT ![t] = "got"]
        /\ UNCHANGED <<perCall, shutdown, regLock, proc, callLock, osVars, lproc,
                       todo, calls, stopVars>>
    BY <1>1 DEF GetClient, ClientKey
  <2>3. Types
    <3>1. CASE /\ held' = [held EXCEPT ![t] = registry[k]] /\ registry[k] # None
               /\ UNCHANGED <<registry, ckey, idle>>
      BY <2>1, <3>1
    <3>2. ASSUME NEW c \in Clients, ckey' = [ckey EXCEPT ![c] = k],
                 idle' = [idle EXCEPT ![c] = FALSE],
                 registry' = [registry EXCEPT ![k] = c],
                 held' = [held EXCEPT ![t] = c]
          PROVE  Types
      BY <2>1, <3>2
    <3> QED
      BY <1>1, <3>1, <3>2 DEF GetClient
  <2> QED
    BY <2>1, <2>2, <2>3 DEF RequestKinds, PcLabels
<1>2. ASSUME NEW t \in Threads, NEW u \in PerCallUp, GetPerCallClient(t, u) PROVE TypeOK'
  BY <1>2 DEF GetPerCallClient, FrameInv, PcLabels, RequestKinds, CallKeys
<1>3. ASSUME NEW t \in Threads, NEW s \in Sessions, SessionStop(t, s) PROVE TypeOK'
  BY <1>3 DEF SessionStop, FrameInv, PcLabels, RequestKinds
<1>4. ASSUME NEW t \in Threads, BrokerStop(t) PROVE TypeOK'
  BY <1>4 DEF BrokerStop, FrameInv, PcLabels, RequestKinds
<1>5. ASSUME NEW t \in Threads, HealthSnapshot(t) PROVE TypeOK'
  BY <1>5 DEF HealthSnapshot, FrameInv, PcLabels, RequestKinds
<1>6. ASSUME NEW t \in Threads, Acquire(t) PROVE TypeOK'
  BY <1>6 DEF Acquire, FrameInv, PcLabels
<1>7. ASSUME NEW t \in Threads, CapabilityStop(t) PROVE TypeOK'
  BY <1>7 DEF CapabilityStop, FrameInv, PcLabels
<1>8. ASSUME NEW t \in Threads, StartCheck(t) PROVE TypeOK'
  BY <1>8 DEF StartCheck, FrameInv, PcLabels, Polled
<1>9. ASSUME NEW t \in Threads, Spawn(t) PROVE TypeOK'
  BY <1>9 DEF Spawn, FrameInv, PcLabels
<1>10. ASSUME NEW t \in Threads, RecordProcess(t) PROVE TypeOK'
  BY <1>10 DEF RecordProcess, FrameInv, PcLabels, Polled
<1>11. ASSUME NEW t \in Threads, Roundtrip(t) PROVE TypeOK'
  BY <1>11 DEF Roundtrip, FrameInv, PcLabels, Polled
<1>12. ASSUME NEW t \in Threads, TimeOut(t) PROVE TypeOK'
  BY <1>12 DEF TimeOut, FrameInv, PcLabels
<1>13. ASSUME NEW t \in Threads, Release(t) PROVE TypeOK'
  <2>1. CASE EndRequest(t) /\ UNCHANGED <<registryVars, ckey, proc, idle, osVars, stopVars>>
    BY <1>13, <2>1 DEF Release, FrameInv, PcLabels
  <2>2. CASE /\ Goto(t, "got") \/ Goto(t, "p_lock")
             /\ lproc' = [lproc EXCEPT ![t] = None]
             /\ UNCHANGED <<op, want, held, todo, calls>>
    BY <1>13, <2>2 DEF Release, FrameInv, PcLabels
  <2> QED
    BY <1>13, <2>1, <2>2 DEF Release
<1>14. ASSUME NEW t \in Threads, PerCallStop(t) PROVE TypeOK'
  <2>1. CASE EndRequest(t) /\ UNCHANGED regLock
    BY <1>14, <2>1 DEF PerCallStop, FrameInv, PcLabels
  <2>2. CASE regLock' = t /\ Goto(t, "s_capture") /\ UNCHANGED frameVars
    BY <1>14, <2>2 DEF PerCallStop, FrameInv, PcLabels
  <2> QED
    BY <1>14, <2>1, <2>2 DEF PerCallStop
<1>15. ASSUME NEW t \in Threads, AfterReset(t) PROVE TypeOK'
  BY <1>15 DEF AfterReset, FrameInv, PcLabels, Resetting
<1>16. ASSUME NEW t \in Threads, AfterPerCallStop(t) PROVE TypeOK'
  BY <1>16 DEF AfterPerCallStop, FrameInv, PcLabels
<1>17. ASSUME NEW t \in Threads, SweepNext(t) PROVE TypeOK'
  BY <1>17 DEF SweepNext, FrameInv, PcLabels
<1>18. ASSUME NEW t \in Threads, AfterSweepStop(t) PROVE TypeOK'
  BY <1>18 DEF AfterSweepStop, FrameInv, PcLabels
<1>19. ASSUME NEW t \in Threads, HealthPoll(t) PROVE TypeOK'
  BY <1>19 DEF HealthPoll, FrameInv, PcLabels, Polled
<1>20. ASSUME NEW a \in Actors, StopCapture(a) PROVE TypeOK'
  <2>1. proc[held[a]] \in Procs \cup {None}
    BY <1>20 DEF StopCapture, FrameInv
  <2>2. sgroup' \in [Actors -> BOOLEAN]
    <3>1. sgroup' = [sgroup EXCEPT ![a] = leader[proc[held[a]]] # "gone"] \/ sgroup' = sgroup
      BY <1>20 DEF StopCapture
    <3>2. (leader[proc[held[a]]] # "gone") \in BOOLEAN
      OBVIOUS
    <3> QED
      BY <3>1, <3>2
  <2>3. left' \in [Actors -> BOOLEAN]
    <3>1. left' = [left EXCEPT ![a] = FALSE] \/ left' = left
      BY <1>20 DEF StopCapture
    <3> QED
      BY <3>1
  <2>5. sproc' \in [Actors -> Procs \cup {None}]
    BY <1>20, <2>1 DEF StopCapture
  <2>4. pc' \in [Actors -> PcLabels]
    BY <1>20 DEF StopCapture, PcLabels
  <2> QED
    BY <1>20, <2>2, <2>3, <2>4, <2>5 DEF StopCapture
<1>21. ASSUME NEW a \in Actors, StopKill(a) PROVE TypeOK'
  <2>1. left' \in [Actors -> BOOLEAN]
    <3> DEFINE alive == GroupAlive(sproc[a])
    <3>1. left' = [left EXCEPT ![a] = alive] \/ left' = left
      BY <1>21 DEF StopKill
    <3>2. alive \in BOOLEAN
      BY Zenon DEF GroupAlive
    <3> QED
      BY <3>1, <3>2
  <2>2. leader' \in [Procs -> {"running", "exited", "gone"}] /\ kids' \in [Procs -> BOOLEAN]
    <3>1. CASE Killed(sproc[a])
      BY <3>1 DEF Killed
    <3>2. CASE UNCHANGED <<leader, kids>>
      BY <3>2
    <3> QED
      BY <1>21, <3>1, <3>2 DEF StopKill
  <2> QED
    BY <1>21, <2>1, <2>2 DEF StopKill, PcLabels
<1>22. ASSUME NEW a \in Actors, StopRaises(a) PROVE TypeOK'
  BY <1>22 DEF StopRaises, FrameInv, PcLabels
<1>23. ASSUME NEW a \in Actors, StopClear(a) PROVE TypeOK'
  BY <1>23 DEF StopClear, FrameInv, PcLabels
<1>24. ASSUME NEW a \in Actors, StopForget(a) PROVE TypeOK'
  BY <1>24 DEF StopForget, FrameInv, PcLabels
<1>25. ASSUME JanitorSnapshot PROVE TypeOK'
  BY <1>25 DEF JanitorSnapshot, FrameInv, PcLabels
<1>26. ASSUME JanitorVisit PROVE TypeOK'
  BY <1>26 DEF JanitorVisit, FrameInv, PcLabels, Polled
<1>27. ASSUME JanitorPop PROVE TypeOK'
  BY <1>27 DEF JanitorPop, FrameInv, PcLabels
<1>28. ASSUME JanitorSleep PROVE TypeOK'
  BY <1>28 DEF JanitorSleep, FrameInv, PcLabels
<1>29. ASSUME NEW c \in Clients, Collect(c) PROVE TypeOK'
  <2>1. leader' \in [Procs -> {"running", "exited", "gone"}] /\ kids' \in [Procs -> BOOLEAN]
    BY <1>29 DEF Collect, Killed
  <2>2. files' \in [MetaNames -> Procs \cup {None}]
    BY <1>29 DEF Collect
  <2> QED
    BY <1>29, <2>1, <2>2 DEF Collect
<1>30. ASSUME NEW p \in Procs, LeaderExits(p) PROVE TypeOK'
  BY <1>30 DEF LeaderExits
<1>31. ASSUME NEW p \in Procs, LeaderForks(p) PROVE TypeOK'
  BY <1>31 DEF LeaderForks
<1>32. ASSUME NEW p \in Procs, ChildrenExit(p) PROVE TypeOK'
  BY <1>32 DEF ChildrenExit
<1>33. ASSUME NEW c \in Clients, Age(c) PROVE TypeOK'
  BY <1>33 DEF Age
<1>34. CASE UNCHANGED vars
  BY <1>34 DEF vars
<1> QED
  BY <1>1, <1>2, <1>3, <1>4, <1>5, <1>6, <1>7, <1>8, <1>9, <1>10, <1>11,
     <1>12, <1>13, <1>14, <1>15, <1>16, <1>17, <1>18, <1>19, <1>20, <1>21,
     <1>22, <1>23, <1>24, <1>25, <1>26, <1>27, <1>28, <1>29, <1>30, <1>31,
     <1>32, <1>33, <1>34 DEF Next, Arrive, Serve, Stop, Sweep, Environment

\* Every frame keeps referring to a live client: what an actor refers to is
\* neither collected nor handed out again.
LEMMA FrameStep ==
  TypeOK /\ FrameInv /\ KeyInv /\ [Next]_vars => FrameInv'
<1> SUFFICES ASSUME TypeOK, FrameInv, KeyInv, [Next]_vars
             PROVE  FrameInv'
  OBVIOUS
<1> USE LifecycleAssumption DEF TypeOK, FrameInv, KeyInv, Sweeping, RequestKinds
<1>1. ASSUME NEW t \in Threads, NEW u \in SharedUp \cup SessionUp, NEW s \in Sessions, GetClient(t, u, s) PROVE FrameInv'
  BY <1>1 DEF GetClient, FreshClient, ClientKey, Keys, SharedKeys, SessionKeys
<1>2. ASSUME NEW t \in Threads, NEW u \in PerCallUp, GetPerCallClient(t, u) PROVE FrameInv'
  BY <1>2 DEF GetPerCallClient, FreshClient, CallKeys
<1>3. ASSUME NEW t \in Threads, NEW s \in Sessions, SessionStop(t, s) PROVE FrameInv'
  BY <1>3 DEF SessionStop
<1>4. ASSUME NEW t \in Threads, BrokerStop(t) PROVE FrameInv'
  BY <1>4 DEF BrokerStop, Registered
<1>5. ASSUME NEW t \in Threads, HealthSnapshot(t) PROVE FrameInv'
  BY <1>5 DEF HealthSnapshot, Registered
<1>6. ASSUME NEW t \in Threads, Acquire(t) PROVE FrameInv'
  BY <1>6 DEF Acquire
<1>7. ASSUME NEW t \in Threads, CapabilityStop(t) PROVE FrameInv'
  BY <1>7 DEF CapabilityStop
<1>8. ASSUME NEW t \in Threads, StartCheck(t) PROVE FrameInv'
  BY <1>8 DEF StartCheck
<1>9. ASSUME NEW t \in Threads, Spawn(t) PROVE FrameInv'
  BY <1>9 DEF Spawn
<1>10. ASSUME NEW t \in Threads, RecordProcess(t) PROVE FrameInv'
  BY <1>10 DEF RecordProcess
<1>11. ASSUME NEW t \in Threads, Roundtrip(t) PROVE FrameInv'
  BY <1>11 DEF Roundtrip
<1>12. ASSUME NEW t \in Threads, TimeOut(t) PROVE FrameInv'
  BY <1>12 DEF TimeOut
<1>13. ASSUME NEW t \in Threads, Release(t) PROVE FrameInv'
  BY <1>13 DEF Release
<1>14. ASSUME NEW t \in Threads, PerCallStop(t) PROVE FrameInv'
  BY <1>14 DEF PerCallStop
<1>15. ASSUME NEW t \in Threads, AfterReset(t) PROVE FrameInv'
  BY <1>15 DEF AfterReset
<1>16. ASSUME NEW t \in Threads, AfterPerCallStop(t) PROVE FrameInv'
  BY <1>16 DEF AfterPerCallStop
<1>17. ASSUME NEW t \in Threads, SweepNext(t) PROVE FrameInv'
  BY <1>17 DEF SweepNext
<1>18. ASSUME NEW t \in Threads, AfterSweepStop(t) PROVE FrameInv'
  BY <1>18 DEF AfterSweepStop
<1>19. ASSUME NEW t \in Threads, HealthPoll(t) PROVE FrameInv'
  BY <1>19 DEF HealthPoll
<1>20. ASSUME NEW a \in Actors, StopCapture(a) PROVE FrameInv'
  BY <1>20 DEF StopCapture
<1>21. ASSUME NEW a \in Actors, StopKill(a) PROVE FrameInv'
  BY <1>21 DEF StopKill
<1>22. ASSUME NEW a \in Actors, StopRaises(a) PROVE FrameInv'
  BY <1>22 DEF StopRaises
<1>23. ASSUME NEW a \in Actors, StopClear(a) PROVE FrameInv'
  BY <1>23 DEF StopClear
<1>24. ASSUME NEW a \in Actors, StopForget(a) PROVE FrameInv'
  BY <1>24 DEF StopForget
<1>25. ASSUME JanitorSnapshot PROVE FrameInv'
  BY <1>25 DEF JanitorSnapshot
<1>26. ASSUME JanitorVisit PROVE FrameInv'
  BY <1>26 DEF JanitorVisit
<1>27. ASSUME JanitorPop PROVE FrameInv'
  BY <1>27 DEF JanitorPop
<1>28. ASSUME JanitorSleep PROVE FrameInv'
  BY <1>28 DEF JanitorSleep
<1>29. ASSUME NEW c \in Clients, Collect(c) PROVE FrameInv'
  BY <1>29 DEF Collect, Referenced
<1>30. ASSUME NEW p \in Procs, LeaderExits(p) PROVE FrameInv'
  BY <1>30 DEF LeaderExits
<1>31. ASSUME NEW p \in Procs, LeaderForks(p) PROVE FrameInv'
  BY <1>31 DEF LeaderForks
<1>32. ASSUME NEW p \in Procs, ChildrenExit(p) PROVE FrameInv'
  BY <1>32 DEF ChildrenExit
<1>33. ASSUME NEW c \in Clients, Age(c) PROVE FrameInv'
  BY <1>33 DEF Age
<1>34. CASE UNCHANGED vars
  BY <1>34 DEF vars
<1> QED
  BY <1>1, <1>2, <1>3, <1>4, <1>5, <1>6, <1>7, <1>8, <1>9, <1>10, <1>11,
     <1>12, <1>13, <1>14, <1>15, <1>16, <1>17, <1>18, <1>19, <1>20, <1>21,
     <1>22, <1>23, <1>24, <1>25, <1>26, <1>27, <1>28, <1>29, <1>30, <1>31,
     <1>32, <1>33, <1>34 DEF Next, Arrive, Serve, Stop, Sweep, Environment

\* The call lock of a client is kept by the thread that works on it.
LEMMA LockStep ==
  TypeOK /\ FrameInv /\ LockInv /\ [Next]_vars => LockInv'
<1> SUFFICES ASSUME TypeOK, FrameInv, LockInv, [Next]_vars
             PROVE  LockInv'
  OBVIOUS
<1> USE LifecycleAssumption DEF TypeOK, FrameInv, LockInv, Working
<1>1. ASSUME NEW t \in Threads, NEW u \in SharedUp \cup SessionUp, NEW s \in Sessions, GetClient(t, u, s) PROVE LockInv'
  BY <1>1 DEF GetClient
<1>2. ASSUME NEW t \in Threads, NEW u \in PerCallUp, GetPerCallClient(t, u) PROVE LockInv'
  BY <1>2 DEF GetPerCallClient
<1>3. ASSUME NEW t \in Threads, NEW s \in Sessions, SessionStop(t, s) PROVE LockInv'
  BY <1>3 DEF SessionStop
<1>4. ASSUME NEW t \in Threads, BrokerStop(t) PROVE LockInv'
  BY <1>4 DEF BrokerStop
<1>5. ASSUME NEW t \in Threads, HealthSnapshot(t) PROVE LockInv'
  BY <1>5 DEF HealthSnapshot
<1>6. ASSUME NEW t \in Threads, Acquire(t) PROVE LockInv'
  BY <1>6 DEF Acquire
<1>7. ASSUME NEW t \in Threads, CapabilityStop(t) PROVE LockInv'
  BY <1>7 DEF CapabilityStop
<1>8. ASSUME NEW t \in Threads, StartCheck(t) PROVE LockInv'
  BY <1>8 DEF StartCheck
<1>9. ASSUME NEW t \in Threads, Spawn(t) PROVE LockInv'
  BY <1>9 DEF Spawn
<1>10. ASSUME NEW t \in Threads, RecordProcess(t) PROVE LockInv'
  BY <1>10 DEF RecordProcess
<1>11. ASSUME NEW t \in Threads, Roundtrip(t) PROVE LockInv'
  BY <1>11 DEF Roundtrip
<1>12. ASSUME NEW t \in Threads, TimeOut(t) PROVE LockInv'
  BY <1>12 DEF TimeOut
<1>13. ASSUME NEW t \in Threads, Release(t) PROVE LockInv'
  BY <1>13 DEF Release
<1>14. ASSUME NEW t \in Threads, PerCallStop(t) PROVE LockInv'
  BY <1>14 DEF PerCallStop
<1>15. ASSUME NEW t \in Threads, AfterReset(t) PROVE LockInv'
  BY <1>15 DEF AfterReset, Resetting
<1>16. ASSUME NEW t \in Threads, AfterPerCallStop(t) PROVE LockInv'
  BY <1>16 DEF AfterPerCallStop
<1>17. ASSUME NEW t \in Threads, SweepNext(t) PROVE LockInv'
  BY <1>17 DEF SweepNext
<1>18. ASSUME NEW t \in Threads, AfterSweepStop(t) PROVE LockInv'
  BY <1>18 DEF AfterSweepStop
<1>19. ASSUME NEW t \in Threads, HealthPoll(t) PROVE LockInv'
  BY <1>19 DEF HealthPoll
<1>20. ASSUME NEW a \in Actors, StopCapture(a) PROVE LockInv'
  BY <1>20 DEF StopCapture
<1>21. ASSUME NEW a \in Actors, StopKill(a) PROVE LockInv'
  BY <1>21 DEF StopKill
<1>22. ASSUME NEW a \in Actors, StopRaises(a) PROVE LockInv'
  BY <1>22 DEF StopRaises
<1>23. ASSUME NEW a \in Actors, StopClear(a) PROVE LockInv'
  BY <1>23 DEF StopClear
<1>24. ASSUME NEW a \in Actors, StopForget(a) PROVE LockInv'
  BY <1>24 DEF StopForget
<1>25. ASSUME JanitorSnapshot PROVE LockInv'
  BY <1>25 DEF JanitorSnapshot
<1>26. ASSUME JanitorVisit PROVE LockInv'
  BY <1>26 DEF JanitorVisit
<1>27. ASSUME JanitorPop PROVE LockInv'
  BY <1>27 DEF JanitorPop
<1>28. ASSUME JanitorSleep PROVE LockInv'
  BY <1>28 DEF JanitorSleep
<1>29. ASSUME NEW c \in Clients, Collect(c) PROVE LockInv'
  BY <1>29 DEF Collect
<1>30. ASSUME NEW p \in Procs, LeaderExits(p) PROVE LockInv'
  BY <1>30 DEF LeaderExits
<1>31. ASSUME NEW p \in Procs, LeaderForks(p) PROVE LockInv'
  BY <1>31 DEF LeaderForks
<1>32. ASSUME NEW p \in Procs, ChildrenExit(p) PROVE LockInv'
  BY <1>32 DEF ChildrenExit
<1>33. ASSUME NEW c \in Clients, Age(c) PROVE LockInv'
  BY <1>33 DEF Age
<1>34. CASE UNCHANGED vars
  BY <1>34 DEF vars
<1> QED
  BY <1>1, <1>2, <1>3, <1>4, <1>5, <1>6, <1>7, <1>8, <1>9, <1>10, <1>11,
     <1>12, <1>13, <1>14, <1>15, <1>16, <1>17, <1>18, <1>19, <1>20, <1>21,
     <1>22, <1>23, <1>24, <1>25, <1>26, <1>27, <1>28, <1>29, <1>30, <1>31,
     <1>32, <1>33, <1>34 DEF Next, Arrive, Serve, Stop, Sweep, Environment

\* A client is found only under the key it was created for, so a call uses a
\* client of its own upstream and session.
LEMMA KeyStep ==
  TypeOK /\ FrameInv /\ KeyInv /\ [Next]_vars => KeyInv'
<1> SUFFICES ASSUME TypeOK, FrameInv, KeyInv, [Next]_vars
             PROVE  KeyInv'
  OBVIOUS
<1> USE LifecycleAssumption DEF TypeOK, FrameInv, KeyInv, Sweeping, RequestKinds
<1>1. ASSUME NEW t \in Threads, NEW u \in SharedUp \cup SessionUp, NEW s \in Sessions, GetClient(t, u, s) PROVE KeyInv'
  <2> DEFINE k == ClientKey(u, s)
  <2>1. k \in Keys
    BY DEF ClientKey, Keys, SharedKeys, SessionKeys
  <2>2. /\ want' = [want EXCEPT ![t] = k]
        /\ op' = [op EXCEPT ![t] = "call"]
        /\ UNCHANGED <<perCall, todo>>
    BY <1>1 DEF GetClient, ClientKey
  <2>3. CASE /\ registry[k] # None /\ held' = [held EXCEPT ![t] = registry[k]]
             /\ UNCHANGED <<registry, ckey, idle>>
    BY <2>1, <2>2, <2>3
  <2>4. ASSUME NEW c \in Clients, FreshClient(c), ckey' = [ckey EXCEPT ![c] = k],
               registry' = [registry EXCEPT ![k] = c],
               held' = [held EXCEPT ![t] = c]
        PROVE  KeyInv'
    BY <2>1, <2>2, <2>4 DEF FreshClient, Referenced, Registered
  <2> QED
    BY <1>1, <2>3, <2>4 DEF GetClient
<1>2. ASSUME NEW t \in Threads, NEW u \in PerCallUp, GetPerCallClient(t, u) PROVE KeyInv'
  BY <1>2 DEF GetPerCallClient, FreshClient, Referenced, Registered, CallKeys
<1>3. ASSUME NEW t \in Threads, NEW s \in Sessions, SessionStop(t, s) PROVE KeyInv'
  BY <1>3 DEF SessionStop, Keys, RequestKinds
<1>4. ASSUME NEW t \in Threads, BrokerStop(t) PROVE KeyInv'
  BY <1>4 DEF BrokerStop, Registered, RequestKinds
<1>5. ASSUME NEW t \in Threads, HealthSnapshot(t) PROVE KeyInv'
  BY <1>5 DEF HealthSnapshot, RequestKinds
<1>6. ASSUME NEW t \in Threads, Acquire(t) PROVE KeyInv'
  BY <1>6 DEF Acquire
<1>7. ASSUME NEW t \in Threads, CapabilityStop(t) PROVE KeyInv'
  BY <1>7 DEF CapabilityStop
<1>8. ASSUME NEW t \in Threads, StartCheck(t) PROVE KeyInv'
  BY <1>8 DEF StartCheck
<1>9. ASSUME NEW t \in Threads, Spawn(t) PROVE KeyInv'
  BY <1>9 DEF Spawn
<1>10. ASSUME NEW t \in Threads, RecordProcess(t) PROVE KeyInv'
  BY <1>10 DEF RecordProcess
<1>11. ASSUME NEW t \in Threads, Roundtrip(t) PROVE KeyInv'
  BY <1>11 DEF Roundtrip
<1>12. ASSUME NEW t \in Threads, TimeOut(t) PROVE KeyInv'
  BY <1>12 DEF TimeOut
<1>13. ASSUME NEW t \in Threads, Release(t) PROVE KeyInv'
  BY <1>13 DEF Release
<1>14. ASSUME NEW t \in Threads, PerCallStop(t) PROVE KeyInv'
  BY <1>14 DEF PerCallStop
<1>15. ASSUME NEW t \in Threads, AfterReset(t) PROVE KeyInv'
  BY <1>15 DEF AfterReset
<1>16. ASSUME NEW t \in Threads, AfterPerCallStop(t) PROVE KeyInv'
  BY <1>16 DEF AfterPerCallStop
<1>17. ASSUME NEW t \in Threads, SweepNext(t) PROVE KeyInv'
  BY <1>17 DEF SweepNext
<1>18. ASSUME NEW t \in Threads, AfterSweepStop(t) PROVE KeyInv'
  BY <1>18 DEF AfterSweepStop
<1>19. ASSUME NEW t \in Threads, HealthPoll(t) PROVE KeyInv'
  BY <1>19 DEF HealthPoll
<1>20. ASSUME NEW a \in Actors, StopCapture(a) PROVE KeyInv'
  BY <1>20 DEF StopCapture
<1>21. ASSUME NEW a \in Actors, StopKill(a) PROVE KeyInv'
  BY <1>21 DEF StopKill
<1>22. ASSUME NEW a \in Actors, StopRaises(a) PROVE KeyInv'
  BY <1>22 DEF StopRaises
<1>23. ASSUME NEW a \in Actors, StopClear(a) PROVE KeyInv'
  BY <1>23 DEF StopClear
<1>24. ASSUME NEW a \in Actors, StopForget(a) PROVE KeyInv'
  BY <1>24 DEF StopForget
<1>25. ASSUME JanitorSnapshot PROVE KeyInv'
  BY <1>25 DEF JanitorSnapshot
<1>26. ASSUME JanitorVisit PROVE KeyInv'
  BY <1>26 DEF JanitorVisit
<1>27. ASSUME JanitorPop PROVE KeyInv'
  BY <1>27 DEF JanitorPop
<1>28. ASSUME JanitorSleep PROVE KeyInv'
  BY <1>28 DEF JanitorSleep
<1>29. ASSUME NEW c \in Clients, Collect(c) PROVE KeyInv'
  BY <1>29 DEF Collect, Referenced, Registered
<1>30. ASSUME NEW p \in Procs, LeaderExits(p) PROVE KeyInv'
  BY <1>30 DEF LeaderExits
<1>31. ASSUME NEW p \in Procs, LeaderForks(p) PROVE KeyInv'
  BY <1>31 DEF LeaderForks
<1>32. ASSUME NEW p \in Procs, ChildrenExit(p) PROVE KeyInv'
  BY <1>32 DEF ChildrenExit
<1>33. ASSUME NEW c \in Clients, Age(c) PROVE KeyInv'
  BY <1>33 DEF Age
<1>34. CASE UNCHANGED vars
  BY <1>34 DEF vars
<1> QED
  BY <1>1, <1>2, <1>3, <1>4, <1>5, <1>6, <1>7, <1>8, <1>9, <1>10, <1>11,
     <1>12, <1>13, <1>14, <1>15, <1>16, <1>17, <1>18, <1>19, <1>20, <1>21,
     <1>22, <1>23, <1>24, <1>25, <1>26, <1>27, <1>28, <1>29, <1>30, <1>31,
     <1>32, <1>33, <1>34 DEF Next, Arrive, Serve, Stop, Sweep, Environment

\* A process has one owner, and the owner holds the frame that talks to it.
LEMMA ProcStep ==
  TypeOK /\ FrameInv /\ LockInv /\ ProcInv /\ [Next]_vars => ProcInv'
<1> SUFFICES ASSUME TypeOK, FrameInv, LockInv, ProcInv, [Next]_vars
             PROVE  ProcInv'
  OBVIOUS
<1> USE LifecycleAssumption DEF TypeOK, FrameInv, LockInv, ProcInv, Working
<1>1. ASSUME NEW t \in Threads, NEW u \in SharedUp \cup SessionUp, NEW s \in Sessions, GetClient(t, u, s) PROVE ProcInv'
  BY <1>1 DEF GetClient
<1>2. ASSUME NEW t \in Threads, NEW u \in PerCallUp, GetPerCallClient(t, u) PROVE ProcInv'
  BY <1>2 DEF GetPerCallClient
<1>3. ASSUME NEW t \in Threads, NEW s \in Sessions, SessionStop(t, s) PROVE ProcInv'
  BY <1>3 DEF SessionStop
<1>4. ASSUME NEW t \in Threads, BrokerStop(t) PROVE ProcInv'
  BY <1>4 DEF BrokerStop
<1>5. ASSUME NEW t \in Threads, HealthSnapshot(t) PROVE ProcInv'
  BY <1>5 DEF HealthSnapshot
<1>6. ASSUME NEW t \in Threads, Acquire(t) PROVE ProcInv'
  BY <1>6 DEF Acquire
<1>7. ASSUME NEW t \in Threads, CapabilityStop(t) PROVE ProcInv'
  BY <1>7 DEF CapabilityStop
<1>8. ASSUME NEW t \in Threads, StartCheck(t) PROVE ProcInv'
  BY <1>8 DEF StartCheck
<1>9. ASSUME NEW t \in Threads, Spawn(t) PROVE ProcInv'
  BY <1>9 DEF Spawn, FreshProc
<1>10. ASSUME NEW t \in Threads, RecordProcess(t) PROVE ProcInv'
  BY <1>10 DEF RecordProcess
<1>11. ASSUME NEW t \in Threads, Roundtrip(t) PROVE ProcInv'
  BY <1>11 DEF Roundtrip
<1>12. ASSUME NEW t \in Threads, TimeOut(t) PROVE ProcInv'
  BY <1>12 DEF TimeOut
<1>13. ASSUME NEW t \in Threads, Release(t) PROVE ProcInv'
  BY <1>13 DEF Release
<1>14. ASSUME NEW t \in Threads, PerCallStop(t) PROVE ProcInv'
  BY <1>14 DEF PerCallStop
<1>15. ASSUME NEW t \in Threads, AfterReset(t) PROVE ProcInv'
  BY <1>15 DEF AfterReset
<1>16. ASSUME NEW t \in Threads, AfterPerCallStop(t) PROVE ProcInv'
  BY <1>16 DEF AfterPerCallStop
<1>17. ASSUME NEW t \in Threads, SweepNext(t) PROVE ProcInv'
  BY <1>17 DEF SweepNext
<1>18. ASSUME NEW t \in Threads, AfterSweepStop(t) PROVE ProcInv'
  BY <1>18 DEF AfterSweepStop
<1>19. ASSUME NEW t \in Threads, HealthPoll(t) PROVE ProcInv'
  BY <1>19 DEF HealthPoll
<1>20. ASSUME NEW a \in Actors, StopCapture(a) PROVE ProcInv'
  BY <1>20 DEF StopCapture
<1>21. ASSUME NEW a \in Actors, StopKill(a) PROVE ProcInv'
  BY <1>21 DEF StopKill
<1>22. ASSUME NEW a \in Actors, StopRaises(a) PROVE ProcInv'
  BY <1>22 DEF StopRaises
<1>23. ASSUME NEW a \in Actors, StopClear(a) PROVE ProcInv'
  BY <1>23 DEF StopClear
<1>24. ASSUME NEW a \in Actors, StopForget(a) PROVE ProcInv'
  BY <1>24 DEF StopForget
<1>25. ASSUME JanitorSnapshot PROVE ProcInv'
  BY <1>25 DEF JanitorSnapshot
<1>26. ASSUME JanitorVisit PROVE ProcInv'
  BY <1>26 DEF JanitorVisit
<1>27. ASSUME JanitorPop PROVE ProcInv'
  BY <1>27 DEF JanitorPop
<1>28. ASSUME JanitorSleep PROVE ProcInv'
  BY <1>28 DEF JanitorSleep
<1>29. ASSUME NEW c \in Clients, Collect(c) PROVE ProcInv'
  BY <1>29 DEF Collect
<1>30. ASSUME NEW p \in Procs, LeaderExits(p) PROVE ProcInv'
  BY <1>30 DEF LeaderExits
<1>31. ASSUME NEW p \in Procs, LeaderForks(p) PROVE ProcInv'
  BY <1>31 DEF LeaderForks
<1>32. ASSUME NEW p \in Procs, ChildrenExit(p) PROVE ProcInv'
  BY <1>32 DEF ChildrenExit
<1>33. ASSUME NEW c \in Clients, Age(c) PROVE ProcInv'
  BY <1>33 DEF Age
<1>34. CASE UNCHANGED vars
  BY <1>34 DEF vars
<1> QED
  BY <1>1, <1>2, <1>3, <1>4, <1>5, <1>6, <1>7, <1>8, <1>9, <1>10, <1>11,
     <1>12, <1>13, <1>14, <1>15, <1>16, <1>17, <1>18, <1>19, <1>20, <1>21,
     <1>22, <1>23, <1>24, <1>25, <1>26, <1>27, <1>28, <1>29, <1>30, <1>31,
     <1>32, <1>33, <1>34 DEF Next, Arrive, Serve, Stop, Sweep, Environment

\* Two calls never meet on one process: the process has one owner (ProcInv) and
\* the owner one lock (LockInv).
LEMMA PipeStep ==
  TypeOK /\ FrameInv /\ LockInv /\ ProcInv /\ PipeExclusive /\ [Next]_vars => PipeExclusive'
<1> SUFFICES ASSUME TypeOK, FrameInv, LockInv, ProcInv, PipeExclusive, [Next]_vars
             PROVE  PipeExclusive'
  OBVIOUS
<1> USE LifecycleAssumption DEF TypeOK, FrameInv, LockInv, ProcInv, PipeExclusive, InCall, Working
<1>1. ASSUME NEW t \in Threads, NEW u \in SharedUp \cup SessionUp, NEW s \in Sessions, GetClient(t, u, s) PROVE PipeExclusive'
  BY <1>1 DEF GetClient
<1>2. ASSUME NEW t \in Threads, NEW u \in PerCallUp, GetPerCallClient(t, u) PROVE PipeExclusive'
  BY <1>2 DEF GetPerCallClient
<1>3. ASSUME NEW t \in Threads, NEW s \in Sessions, SessionStop(t, s) PROVE PipeExclusive'
  BY <1>3 DEF SessionStop
<1>4. ASSUME NEW t \in Threads, BrokerStop(t) PROVE PipeExclusive'
  BY <1>4 DEF BrokerStop
<1>5. ASSUME NEW t \in Threads, HealthSnapshot(t) PROVE PipeExclusive'
  BY <1>5 DEF HealthSnapshot
<1>6. ASSUME NEW t \in Threads, Acquire(t) PROVE PipeExclusive'
  BY <1>6 DEF Acquire
<1>7. ASSUME NEW t \in Threads, CapabilityStop(t) PROVE PipeExclusive'
  BY <1>7 DEF CapabilityStop
<1>8. ASSUME NEW t \in Threads, StartCheck(t) PROVE PipeExclusive'
  BY <1>8 DEF StartCheck
<1>9. ASSUME NEW t \in Threads, Spawn(t) PROVE PipeExclusive'
  BY <1>9 DEF Spawn
<1>10. ASSUME NEW t \in Threads, RecordProcess(t) PROVE PipeExclusive'
  BY <1>10 DEF RecordProcess
<1>11. ASSUME NEW t \in Threads, Roundtrip(t) PROVE PipeExclusive'
  BY <1>11 DEF Roundtrip
<1>12. ASSUME NEW t \in Threads, TimeOut(t) PROVE PipeExclusive'
  BY <1>12 DEF TimeOut
<1>13. ASSUME NEW t \in Threads, Release(t) PROVE PipeExclusive'
  BY <1>13 DEF Release
<1>14. ASSUME NEW t \in Threads, PerCallStop(t) PROVE PipeExclusive'
  BY <1>14 DEF PerCallStop
<1>15. ASSUME NEW t \in Threads, AfterReset(t) PROVE PipeExclusive'
  BY <1>15 DEF AfterReset
<1>16. ASSUME NEW t \in Threads, AfterPerCallStop(t) PROVE PipeExclusive'
  BY <1>16 DEF AfterPerCallStop
<1>17. ASSUME NEW t \in Threads, SweepNext(t) PROVE PipeExclusive'
  BY <1>17 DEF SweepNext
<1>18. ASSUME NEW t \in Threads, AfterSweepStop(t) PROVE PipeExclusive'
  BY <1>18 DEF AfterSweepStop
<1>19. ASSUME NEW t \in Threads, HealthPoll(t) PROVE PipeExclusive'
  BY <1>19 DEF HealthPoll
<1>20. ASSUME NEW a \in Actors, StopCapture(a) PROVE PipeExclusive'
  BY <1>20 DEF StopCapture
<1>21. ASSUME NEW a \in Actors, StopKill(a) PROVE PipeExclusive'
  BY <1>21 DEF StopKill
<1>22. ASSUME NEW a \in Actors, StopRaises(a) PROVE PipeExclusive'
  BY <1>22 DEF StopRaises
<1>23. ASSUME NEW a \in Actors, StopClear(a) PROVE PipeExclusive'
  BY <1>23 DEF StopClear
<1>24. ASSUME NEW a \in Actors, StopForget(a) PROVE PipeExclusive'
  BY <1>24 DEF StopForget
<1>25. ASSUME JanitorSnapshot PROVE PipeExclusive'
  BY <1>25 DEF JanitorSnapshot
<1>26. ASSUME JanitorVisit PROVE PipeExclusive'
  BY <1>26 DEF JanitorVisit
<1>27. ASSUME JanitorPop PROVE PipeExclusive'
  BY <1>27 DEF JanitorPop
<1>28. ASSUME JanitorSleep PROVE PipeExclusive'
  BY <1>28 DEF JanitorSleep
<1>29. ASSUME NEW c \in Clients, Collect(c) PROVE PipeExclusive'
  BY <1>29 DEF Collect
<1>30. ASSUME NEW p \in Procs, LeaderExits(p) PROVE PipeExclusive'
  BY <1>30 DEF LeaderExits
<1>31. ASSUME NEW p \in Procs, LeaderForks(p) PROVE PipeExclusive'
  BY <1>31 DEF LeaderForks
<1>32. ASSUME NEW p \in Procs, ChildrenExit(p) PROVE PipeExclusive'
  BY <1>32 DEF ChildrenExit
<1>33. ASSUME NEW c \in Clients, Age(c) PROVE PipeExclusive'
  BY <1>33 DEF Age
<1>34. CASE UNCHANGED vars
  BY <1>34 DEF vars
<1> QED
  BY <1>1, <1>2, <1>3, <1>4, <1>5, <1>6, <1>7, <1>8, <1>9, <1>10, <1>11,
     <1>12, <1>13, <1>14, <1>15, <1>16, <1>17, <1>18, <1>19, <1>20, <1>21,
     <1>22, <1>23, <1>24, <1>25, <1>26, <1>27, <1>28, <1>29, <1>30, <1>31,
     <1>32, <1>33, <1>34 DEF Next, Arrive, Serve, Stop, Sweep, Environment

\* The inductive invariant: types, who holds which lock, which client a key names
\* and which process a client owns agree in every reachable state (daemon.py,
\* upstream_stdio.py).
THEOREM Invariance == Spec => []IInv
<1>1. Init => IInv
  <2> SUFFICES ASSUME Init PROVE IInv
    OBVIOUS
  <2> USE LifecycleAssumption DEF Init
  <2>1. TypeOK
    <3>1. 0 \in 0..MaxCalls
      OBVIOUS
    <3>2. calls \in [Actors -> 0..MaxCalls]
      BY <3>1
    <3>3. pc \in [Actors -> PcLabels]
      BY DEF PcLabels
    <3> QED
      BY <3>2, <3>3 DEF TypeOK
  <2>2. FrameInv /\ LockInv
    BY DEF FrameInv, LockInv, Working
  <2>3. KeyInv
    BY DEF KeyInv, RequestKinds
  <2>4. ProcInv /\ PipeExclusive
    BY DEF ProcInv, PipeExclusive, InCall
  <2> QED
    BY <2>1, <2>2, <2>3, <2>4 DEF IInv
<1>2. IInv /\ [Next]_vars => IInv'
  BY TypeStep, FrameStep, LockStep, KeyStep, ProcStep, PipeStep DEF IInv
<1> QED
  BY <1>1, <1>2, PTL DEF Spec

\* Type correctness, for any number of threads, clients and processes. (daemon.py,
\* upstream_stdio.py)
THEOREM TypeCorrect == Spec => []TypeOK
<1>1. IInv => TypeOK
  BY DEF IInv
<1> QED
  BY <1>1, Invariance, PTL

\* No two connection threads ever talk to one upstream process at the same
\* time, whatever the janitor, a session stop or a broker stop does to the
\* client under them.
THEOREM CallsNeverShareAPipe == Spec => []PipeExclusive
<1>1. IInv => PipeExclusive
  BY DEF IInv
<1> QED
  BY <1>1, Invariance, PTL

\* The process a request talks to belongs to the request's upstream and
\* session.
THEOREM SessionsAreIsolated == Spec => []SessionIsolation
<1>1. IInv => SessionIsolation
  BY DEF IInv, SessionIsolation, InCall, ProcInv, KeyInv, FrameInv
<1> QED
  BY <1>1, Invariance, PTL

\* Nothing is registered once the shutdown flag is up.
LEMMA ClosedStep ==
  TypeOK /\ RegistryClosed /\ [Next]_vars => RegistryClosed'
<1> SUFFICES ASSUME TypeOK, RegistryClosed, [Next]_vars
             PROVE  RegistryClosed'
  OBVIOUS
<1> USE LifecycleAssumption DEF TypeOK, RegistryClosed
<1>1. ASSUME NEW t \in Threads, NEW u \in SharedUp \cup SessionUp, NEW s \in Sessions, GetClient(t, u, s) PROVE RegistryClosed'
  BY <1>1 DEF GetClient
<1>2. ASSUME NEW t \in Threads, NEW u \in PerCallUp, GetPerCallClient(t, u) PROVE RegistryClosed'
  BY <1>2 DEF GetPerCallClient
<1>3. ASSUME NEW t \in Threads, NEW s \in Sessions, SessionStop(t, s) PROVE RegistryClosed'
  BY <1>3 DEF SessionStop
<1>4. ASSUME NEW t \in Threads, BrokerStop(t) PROVE RegistryClosed'
  BY <1>4 DEF BrokerStop
<1>5. ASSUME NEW t \in Threads, HealthSnapshot(t) PROVE RegistryClosed'
  BY <1>5 DEF HealthSnapshot
<1>6. ASSUME NEW t \in Threads, Acquire(t) PROVE RegistryClosed'
  BY <1>6 DEF Acquire
<1>7. ASSUME NEW t \in Threads, CapabilityStop(t) PROVE RegistryClosed'
  BY <1>7 DEF CapabilityStop
<1>8. ASSUME NEW t \in Threads, StartCheck(t) PROVE RegistryClosed'
  BY <1>8 DEF StartCheck
<1>9. ASSUME NEW t \in Threads, Spawn(t) PROVE RegistryClosed'
  BY <1>9 DEF Spawn
<1>10. ASSUME NEW t \in Threads, RecordProcess(t) PROVE RegistryClosed'
  BY <1>10 DEF RecordProcess
<1>11. ASSUME NEW t \in Threads, Roundtrip(t) PROVE RegistryClosed'
  BY <1>11 DEF Roundtrip
<1>12. ASSUME NEW t \in Threads, TimeOut(t) PROVE RegistryClosed'
  BY <1>12 DEF TimeOut
<1>13. ASSUME NEW t \in Threads, Release(t) PROVE RegistryClosed'
  BY <1>13 DEF Release
<1>14. ASSUME NEW t \in Threads, PerCallStop(t) PROVE RegistryClosed'
  BY <1>14 DEF PerCallStop
<1>15. ASSUME NEW t \in Threads, AfterReset(t) PROVE RegistryClosed'
  BY <1>15 DEF AfterReset
<1>16. ASSUME NEW t \in Threads, AfterPerCallStop(t) PROVE RegistryClosed'
  BY <1>16 DEF AfterPerCallStop
<1>17. ASSUME NEW t \in Threads, SweepNext(t) PROVE RegistryClosed'
  BY <1>17 DEF SweepNext
<1>18. ASSUME NEW t \in Threads, AfterSweepStop(t) PROVE RegistryClosed'
  BY <1>18 DEF AfterSweepStop
<1>19. ASSUME NEW t \in Threads, HealthPoll(t) PROVE RegistryClosed'
  BY <1>19 DEF HealthPoll
<1>20. ASSUME NEW a \in Actors, StopCapture(a) PROVE RegistryClosed'
  BY <1>20 DEF StopCapture
<1>21. ASSUME NEW a \in Actors, StopKill(a) PROVE RegistryClosed'
  BY <1>21 DEF StopKill
<1>22. ASSUME NEW a \in Actors, StopRaises(a) PROVE RegistryClosed'
  BY <1>22 DEF StopRaises
<1>23. ASSUME NEW a \in Actors, StopClear(a) PROVE RegistryClosed'
  BY <1>23 DEF StopClear
<1>24. ASSUME NEW a \in Actors, StopForget(a) PROVE RegistryClosed'
  BY <1>24 DEF StopForget
<1>25. ASSUME JanitorSnapshot PROVE RegistryClosed'
  BY <1>25 DEF JanitorSnapshot
<1>26. ASSUME JanitorVisit PROVE RegistryClosed'
  BY <1>26 DEF JanitorVisit
<1>27. ASSUME JanitorPop PROVE RegistryClosed'
  BY <1>27 DEF JanitorPop
<1>28. ASSUME JanitorSleep PROVE RegistryClosed'
  BY <1>28 DEF JanitorSleep
<1>29. ASSUME NEW c \in Clients, Collect(c) PROVE RegistryClosed'
  BY <1>29 DEF Collect
<1>30. ASSUME NEW p \in Procs, LeaderExits(p) PROVE RegistryClosed'
  BY <1>30 DEF LeaderExits
<1>31. ASSUME NEW p \in Procs, LeaderForks(p) PROVE RegistryClosed'
  BY <1>31 DEF LeaderForks
<1>32. ASSUME NEW p \in Procs, ChildrenExit(p) PROVE RegistryClosed'
  BY <1>32 DEF ChildrenExit
<1>33. ASSUME NEW c \in Clients, Age(c) PROVE RegistryClosed'
  BY <1>33 DEF Age
<1>34. CASE UNCHANGED vars
  BY <1>34 DEF vars
<1> QED
  BY <1>1, <1>2, <1>3, <1>4, <1>5, <1>6, <1>7, <1>8, <1>9, <1>10, <1>11,
     <1>12, <1>13, <1>14, <1>15, <1>16, <1>17, <1>18, <1>19, <1>20, <1>21,
     <1>22, <1>23, <1>24, <1>25, <1>26, <1>27, <1>28, <1>29, <1>30, <1>31,
     <1>32, <1>33, <1>34 DEF Next, Arrive, Serve, Stop, Sweep, Environment

\* After broker/stop has begun the registry stays empty for ever.
THEOREM ShutdownIsFinal == Spec => []RegistryClosed
<1>1. Init => RegistryClosed
  BY DEF Init, RegistryClosed
<1>2. TypeOK /\ RegistryClosed /\ [Next]_vars => RegistryClosed'
  BY ClosedStep
<1> QED
  BY <1>1, <1>2, TypeCorrect, PTL DEF Spec

\* An actor answers for client c: it will stop it, or its stop() of c returned.
Answers(c) == \E a \in Actors : c \in todo'[a] \/ (held[a] = c /\ pc[a] = "stopped")
Evictions == \A c \in Clients : Registered(c) /\ ~Registered(c)' => Answers(c)

\* Whatever leaves the registry was stopped or is going to be.
LEMMA EvictionStep ==
  TypeOK /\ FrameInv /\ [Next]_vars => Evictions
<1> SUFFICES ASSUME TypeOK, FrameInv, [Next]_vars
             PROVE  Evictions
  OBVIOUS
<1> USE LifecycleAssumption DEF TypeOK
<1>1. ASSUME NEW t \in Threads, NEW u \in SharedUp \cup SessionUp, NEW s \in Sessions, GetClient(t, u, s) PROVE Evictions
  <2>1. \A k \in Keys : registry[k] # None => registry'[k] = registry[k]
    BY <1>1 DEF GetClient
  <2> QED
    BY <1>1, <2>1 DEF GetClient, Registered, Evictions
<1>2. ASSUME NEW t \in Threads, NEW u \in PerCallUp, GetPerCallClient(t, u) PROVE Evictions
  BY <1>2 DEF GetPerCallClient, Evictions, Registered
<1>3. ASSUME NEW t \in Threads, NEW s \in Sessions, SessionStop(t, s) PROVE Evictions
  <2> SUFFICES ASSUME NEW c \in Clients, Registered(c), ~Registered(c)' PROVE Answers(c)
    BY DEF Evictions
  <2>1. PICK k \in Keys : registry[k] = c /\ registry'[k] = None
    BY <1>3 DEF SessionStop, Registered
  <2>2. c \in todo'[t]
    BY <1>3, <2>1 DEF SessionStop
  <2> QED
    BY <2>2 DEF Answers
<1>4. ASSUME NEW t \in Threads, BrokerStop(t) PROVE Evictions
  <2> SUFFICES ASSUME NEW c \in Clients, Registered(c) PROVE Answers(c)
    BY DEF Evictions
  <2>1. c \in todo'[t]
    BY <1>4 DEF BrokerStop
  <2> QED
    BY <2>1 DEF Answers
<1>5. ASSUME NEW t \in Threads, HealthSnapshot(t) PROVE Evictions
  BY <1>5 DEF HealthSnapshot, Evictions, Registered
<1>6. ASSUME NEW t \in Threads, Acquire(t) PROVE Evictions
  BY <1>6 DEF Acquire, Evictions, Registered
<1>7. ASSUME NEW t \in Threads, CapabilityStop(t) PROVE Evictions
  BY <1>7 DEF CapabilityStop, Evictions, Registered
<1>8. ASSUME NEW t \in Threads, StartCheck(t) PROVE Evictions
  BY <1>8 DEF StartCheck, Evictions, Registered
<1>9. ASSUME NEW t \in Threads, Spawn(t) PROVE Evictions
  BY <1>9 DEF Spawn, Evictions, Registered
<1>10. ASSUME NEW t \in Threads, RecordProcess(t) PROVE Evictions
  BY <1>10 DEF RecordProcess, Evictions, Registered
<1>11. ASSUME NEW t \in Threads, Roundtrip(t) PROVE Evictions
  BY <1>11 DEF Roundtrip, Evictions, Registered
<1>12. ASSUME NEW t \in Threads, TimeOut(t) PROVE Evictions
  BY <1>12 DEF TimeOut, Evictions, Registered
<1>13. ASSUME NEW t \in Threads, Release(t) PROVE Evictions
  BY <1>13 DEF Release, Evictions, Registered
<1>14. ASSUME NEW t \in Threads, PerCallStop(t) PROVE Evictions
  BY <1>14 DEF PerCallStop, Evictions, Registered
<1>15. ASSUME NEW t \in Threads, AfterReset(t) PROVE Evictions
  BY <1>15 DEF AfterReset, Evictions, Registered
<1>16. ASSUME NEW t \in Threads, AfterPerCallStop(t) PROVE Evictions
  <2> SUFFICES ASSUME NEW c \in Clients, Registered(c), ~Registered(c)' PROVE Answers(c)
    BY DEF Evictions
  <2>1. c = held[t] /\ pc[t] = "stopped"
    BY <1>16 DEF AfterPerCallStop, Registered
  <2> QED
    BY <2>1 DEF Answers
<1>17. ASSUME NEW t \in Threads, SweepNext(t) PROVE Evictions
  BY <1>17 DEF SweepNext, Evictions, Registered
<1>18. ASSUME NEW t \in Threads, AfterSweepStop(t) PROVE Evictions
  BY <1>18 DEF AfterSweepStop, Evictions, Registered
<1>19. ASSUME NEW t \in Threads, HealthPoll(t) PROVE Evictions
  BY <1>19 DEF HealthPoll, Evictions, Registered
<1>20. ASSUME NEW a \in Actors, StopCapture(a) PROVE Evictions
  BY <1>20 DEF StopCapture, Evictions, Registered
<1>21. ASSUME NEW a \in Actors, StopKill(a) PROVE Evictions
  BY <1>21 DEF StopKill, Evictions, Registered
<1>22. ASSUME NEW a \in Actors, StopRaises(a) PROVE Evictions
  BY <1>22 DEF StopRaises, Evictions, Registered
<1>23. ASSUME NEW a \in Actors, StopClear(a) PROVE Evictions
  BY <1>23 DEF StopClear, Evictions, Registered
<1>24. ASSUME NEW a \in Actors, StopForget(a) PROVE Evictions
  BY <1>24 DEF StopForget, Evictions, Registered
<1>25. ASSUME JanitorSnapshot PROVE Evictions
  BY <1>25 DEF JanitorSnapshot, Evictions, Registered
<1>26. ASSUME JanitorVisit PROVE Evictions
  BY <1>26 DEF JanitorVisit, Evictions, Registered
<1>27. ASSUME JanitorPop PROVE Evictions
  <2> SUFFICES ASSUME NEW c \in Clients, Registered(c), ~Registered(c)' PROVE Answers(c)
    BY DEF Evictions
  <2>1. c = held[Janitor]
    BY <1>27 DEF JanitorPop, Registered
  <2> QED
    BY <1>27, <2>1 DEF JanitorPop, Answers
<1>28. ASSUME JanitorSleep PROVE Evictions
  BY <1>28 DEF JanitorSleep, Evictions, Registered
<1>29. ASSUME NEW c \in Clients, Collect(c) PROVE Evictions
  BY <1>29 DEF Collect, Evictions, Registered
<1>30. ASSUME NEW p \in Procs, LeaderExits(p) PROVE Evictions
  BY <1>30 DEF LeaderExits, Evictions, Registered
<1>31. ASSUME NEW p \in Procs, LeaderForks(p) PROVE Evictions
  BY <1>31 DEF LeaderForks, Evictions, Registered
<1>32. ASSUME NEW p \in Procs, ChildrenExit(p) PROVE Evictions
  BY <1>32 DEF ChildrenExit, Evictions, Registered
<1>33. ASSUME NEW c \in Clients, Age(c) PROVE Evictions
  BY <1>33 DEF Age, Evictions, Registered
<1>34. CASE UNCHANGED vars
  BY <1>34 DEF vars, Evictions, Registered
<1> QED
  BY <1>1, <1>2, <1>3, <1>4, <1>5, <1>6, <1>7, <1>8, <1>9, <1>10, <1>11,
     <1>12, <1>13, <1>14, <1>15, <1>16, <1>17, <1>18, <1>19, <1>20, <1>21,
     <1>22, <1>23, <1>24, <1>25, <1>26, <1>27, <1>28, <1>29, <1>30, <1>31,
     <1>32, <1>33, <1>34 DEF Next, Arrive, Serve, Stop, Sweep, Environment

\* No client drops out of the registry unstopped: in particular the janitor
\* never evicts the client that replaced the one it stopped.
THEOREM EvictedMeansStopped == Spec => NoEvictionWithoutStop
<1>1. IInv /\ [Next]_vars => [Evictions]_vars
  BY EvictionStep DEF IInv
<1>2. [Evictions]_vars <=>
        [\A c \in Clients :
           Registered(c) /\ ~Registered(c)' =>
             \E a \in Actors : c \in todo'[a] \/ (held[a] = c /\ pc[a] = "stopped")]_vars
  BY DEF Evictions, Answers
<1> QED
  BY <1>1, <1>2, Invariance, PTL DEF Spec, NoEvictionWithoutStop
-----------------------------------------------------------------------------
(* The metadata files of per_call clients.                                 *)

Calling(t, c) == op[t] = "call" /\ held[t] = c
Stopping == {"s_capture", "s_kill", "s_clear", "s_meta", "stopped", "raised"}

\* One connection thread works on a per_call client.  The janitor and the
\* sweeps never see it; a health check only polls it.
OwnerInv ==
  /\ \A a \in Actors : \A c \in todo[a] : ~IsPerCall(c)
  /\ \A c \in Clients : held[Janitor] = c => ~IsPerCall(c)
  /\ \A t \in Threads, c \in Clients :
       IsPerCall(c) /\ held[t] = c => op[t] = "call" \/ pc[t] = "h_poll"
  /\ \A t, u \in Threads, c \in Clients :
       IsPerCall(c) /\ Calling(t, c) /\ Calling(u, c) => t = u

\* The file of a per_call client names its process as long as it has one that
\* runs; only between Popen and the write nothing is recorded.
Named(c) == files[c] # None => proc[c] \in {None, files[c]}
Recorded(c) ==
  proc[c] # None /\ leader[proc[c]] = "running" =>
    files[c] = proc[c] \/ \E t \in Threads : pc[t] = "meta" /\ Calling(t, c)

\* What the calling thread knows: before a start nothing is recorded, during a
\* call its process is the client's, during a stop the file goes only with the
\* process.
StartStage(t, c) ==
  /\ pc[t] \in {"got", "start", "io", "release"} /\ proc[c] = None => files[c] = None
  /\ pc[t] \in {"spawn", "meta"} => files[c] = None
  /\ pc[t] = "spawn" /\ proc[c] # None => leader[proc[c]] # "running"
  /\ pc[t] = "io" => proc[c] = lproc[t]
  /\ pc[t] = "p_lock" => callLock[c] # t
  /\ pc[t] \in Stopping /\ callLock[c] = t => lproc[t] # None
StopStage(t, c) ==
  /\ pc[t] \in {"s_kill", "s_clear"} => sproc[t] # None /\ proc[c] = sproc[t]
  /\ pc[t] = "s_kill" /\ ~sgroup[t] => leader[sproc[t]] = "gone"
  /\ pc[t] = "s_kill" => left[t] = FALSE
  /\ pc[t] = "s_clear" /\ ~left[t] => leader[sproc[t]] # "running"
  /\ pc[t] = "s_meta" => proc[c] = None
  /\ pc[t] = "s_meta" /\ ~left[t] /\ files[c] # None => leader[files[c]] # "running"

Unstarted == \A c \in Clients : ckey[c] = None => proc[c] = None
Naming    == \A c \in Clients : IsPerCall(c) => Named(c)
Recording == \A c \in Clients : IsPerCall(c) => Recorded(c)
Starts    == \A t \in Threads, c \in Clients : IsPerCall(c) /\ Calling(t, c) => StartStage(t, c)
Stops     == \A t \in Threads, c \in Clients : IsPerCall(c) /\ Calling(t, c) => StopStage(t, c)

RecordInv == Unstarted /\ Naming /\ Recording /\ Starts /\ Stops

\* Without children, a process group that lives is recorded or owned.
LiveInv ==
  /\ \A p \in Procs : kids[p] = FALSE
  /\ \A p \in Procs : leader[p] = "running" =>
       \E c \in Clients : proc[c] = p \/ files[c] = p

\* A key of the registry is never the key of a per_call client.
LEMMA KeysApart == \A k \in Keys : k \notin CallKeys /\ k # None
  BY LifecycleAssumption DEF Keys, SharedKeys, SessionKeys, CallKeys

\* Only a live client has a process.
LEMMA UnstartedStep == TypeOK /\ FrameInv /\ Unstarted /\ [Next]_vars => Unstarted'
<1> SUFFICES ASSUME TypeOK, FrameInv, Unstarted, [Next]_vars
             PROVE  Unstarted'
  OBVIOUS
<1> USE LifecycleAssumption, KeysApart DEF TypeOK, FrameInv, Unstarted
<1>1. ASSUME NEW t \in Threads, NEW u \in SharedUp \cup SessionUp, NEW s \in Sessions, GetClient(t, u, s) PROVE Unstarted'
  BY <1>1 DEF GetClient, FreshClient, ClientKey, Keys, SharedKeys, SessionKeys
<1>2. ASSUME NEW t \in Threads, NEW u \in PerCallUp, GetPerCallClient(t, u) PROVE Unstarted'
  BY <1>2 DEF GetPerCallClient, FreshClient, CallKeys
<1>3. ASSUME NEW t \in Threads, NEW s \in Sessions, SessionStop(t, s) PROVE Unstarted'
  BY <1>3 DEF SessionStop
<1>4. ASSUME NEW t \in Threads, BrokerStop(t) PROVE Unstarted'
  BY <1>4 DEF BrokerStop
<1>5. ASSUME NEW t \in Threads, HealthSnapshot(t) PROVE Unstarted'
  BY <1>5 DEF HealthSnapshot
<1>6. ASSUME NEW t \in Threads, Acquire(t) PROVE Unstarted'
  BY <1>6 DEF Acquire
<1>7. ASSUME NEW t \in Threads, CapabilityStop(t) PROVE Unstarted'
  BY <1>7 DEF CapabilityStop
<1>8. ASSUME NEW t \in Threads, StartCheck(t) PROVE Unstarted'
  BY <1>8 DEF StartCheck
<1>9. ASSUME NEW t \in Threads, Spawn(t) PROVE Unstarted'
  BY <1>9 DEF Spawn
<1>10. ASSUME NEW t \in Threads, RecordProcess(t) PROVE Unstarted'
  BY <1>10 DEF RecordProcess
<1>11. ASSUME NEW t \in Threads, Roundtrip(t) PROVE Unstarted'
  BY <1>11 DEF Roundtrip
<1>12. ASSUME NEW t \in Threads, TimeOut(t) PROVE Unstarted'
  BY <1>12 DEF TimeOut
<1>13. ASSUME NEW t \in Threads, Release(t) PROVE Unstarted'
  BY <1>13 DEF Release
<1>14. ASSUME NEW t \in Threads, PerCallStop(t) PROVE Unstarted'
  BY <1>14 DEF PerCallStop
<1>15. ASSUME NEW t \in Threads, AfterReset(t) PROVE Unstarted'
  BY <1>15 DEF AfterReset
<1>16. ASSUME NEW t \in Threads, AfterPerCallStop(t) PROVE Unstarted'
  BY <1>16 DEF AfterPerCallStop
<1>17. ASSUME NEW t \in Threads, SweepNext(t) PROVE Unstarted'
  BY <1>17 DEF SweepNext
<1>18. ASSUME NEW t \in Threads, AfterSweepStop(t) PROVE Unstarted'
  BY <1>18 DEF AfterSweepStop
<1>19. ASSUME NEW t \in Threads, HealthPoll(t) PROVE Unstarted'
  BY <1>19 DEF HealthPoll
<1>20. ASSUME NEW a \in Actors, StopCapture(a) PROVE Unstarted'
  BY <1>20 DEF StopCapture
<1>21. ASSUME NEW a \in Actors, StopKill(a) PROVE Unstarted'
  BY <1>21 DEF StopKill
<1>22. ASSUME NEW a \in Actors, StopRaises(a) PROVE Unstarted'
  BY <1>22 DEF StopRaises
<1>23. ASSUME NEW a \in Actors, StopClear(a) PROVE Unstarted'
  BY <1>23 DEF StopClear
<1>24. ASSUME NEW a \in Actors, StopForget(a) PROVE Unstarted'
  BY <1>24 DEF StopForget
<1>25. ASSUME JanitorSnapshot PROVE Unstarted'
  BY <1>25 DEF JanitorSnapshot
<1>26. ASSUME JanitorVisit PROVE Unstarted'
  BY <1>26 DEF JanitorVisit
<1>27. ASSUME JanitorPop PROVE Unstarted'
  BY <1>27 DEF JanitorPop
<1>28. ASSUME JanitorSleep PROVE Unstarted'
  BY <1>28 DEF JanitorSleep
<1>29. ASSUME NEW c \in Clients, Collect(c) PROVE Unstarted'
  BY <1>29 DEF Collect
<1>30. ASSUME NEW p \in Procs, LeaderExits(p) PROVE Unstarted'
  BY <1>30 DEF LeaderExits
<1>31. ASSUME NEW p \in Procs, LeaderForks(p) PROVE Unstarted'
  BY <1>31 DEF LeaderForks
<1>32. ASSUME NEW p \in Procs, ChildrenExit(p) PROVE Unstarted'
  BY <1>32 DEF ChildrenExit
<1>33. ASSUME NEW c \in Clients, Age(c) PROVE Unstarted'
  BY <1>33 DEF Age
<1>34. CASE UNCHANGED vars
  BY <1>34 DEF vars
<1> QED
  BY <1>1, <1>2, <1>3, <1>4, <1>5, <1>6, <1>7, <1>8, <1>9, <1>10, <1>11,
     <1>12, <1>13, <1>14, <1>15, <1>16, <1>17, <1>18, <1>19, <1>20, <1>21,
     <1>22, <1>23, <1>24, <1>25, <1>26, <1>27, <1>28, <1>29, <1>30, <1>31,
     <1>32, <1>33, <1>34 DEF Next, Arrive, Serve, Stop, Sweep, Environment
\* A client made for a registry key is no per_call client.
LEMMA KeyedClient ==
  ASSUME TypeOK, NEW t \in Threads, NEW u \in SharedUp \cup SessionUp, NEW s \in Sessions,
         GetClient(t, u, s)
  PROVE  \A c \in Clients : IsPerCall(c)' => IsPerCall(c)
<1> DEFINE k == ClientKey(u, s)
<1>1. k \in Keys /\ k \notin CallKeys
  BY KeysApart DEF ClientKey, Keys, SharedKeys, SessionKeys
<1>2. ckey' = ckey \/ \E d \in Clients : ckey' = [ckey EXCEPT ![d] = k]
  BY DEF GetClient
<1> HIDE DEF k
<1> QED
  BY <1>1, <1>2 DEF IsPerCall, TypeOK

\* A per_call client stays with the thread that made it.
LEMMA OwnerStep ==
  ASSUME "broker_stop" \notin Requests
  PROVE  TypeOK /\ FrameInv /\ KeyInv /\ OwnerInv /\ [Next]_vars => OwnerInv'
<1> SUFFICES ASSUME TypeOK, FrameInv, KeyInv, OwnerInv, [Next]_vars
             PROVE  OwnerInv'
  OBVIOUS
<1> USE LifecycleAssumption, KeysApart DEF TypeOK, FrameInv, KeyInv, OwnerInv, Calling,
    IsPerCall, Referenced, Registered
<1>1. ASSUME NEW t \in Threads, NEW u \in SharedUp \cup SessionUp, NEW s \in Sessions, GetClient(t, u, s) PROVE OwnerInv'
  <2> DEFINE k == ClientKey(u, s)
  <2>1. \A c \in Clients : IsPerCall(c)' => IsPerCall(c)
    BY <1>1, KeyedClient
  <2>2. k \in Keys /\ k \notin CallKeys
    BY KeysApart DEF ClientKey, Keys, SharedKeys, SessionKeys
  <2>3. held'[t] \in Clients /\ ~IsPerCall(held[t])'
    <3>1. CASE registry[k] # None /\ held' = [held EXCEPT ![t] = registry[k]] /\ UNCHANGED ckey
      BY <2>2, <3>1
    <3>2. ASSUME NEW c \in Clients, ckey' = [ckey EXCEPT ![c] = k],
                 held' = [held EXCEPT ![t] = c]
          PROVE  held'[t] \in Clients /\ ~IsPerCall(held[t])'
      BY <2>2, <3>2
    <3> QED
      BY <1>1, <3>1, <3>2 DEF GetClient
  <2>4. /\ \A b \in Actors \ {t} : held'[b] = held[b] /\ op'[b] = op[b] /\ pc'[b] = pc[b]
        /\ UNCHANGED todo
    <3> HIDE DEF k, OwnerInv, KeyInv, FrameInv, IsPerCall
    <3> QED
      BY <1>1 DEF GetClient
  <2> HIDE DEF k, IsPerCall, KeyInv, FrameInv
  <2> QED
    BY <2>1, <2>3, <2>4
<1>2. ASSUME NEW t \in Threads, NEW u \in PerCallUp, GetPerCallClient(t, u) PROVE OwnerInv'
  BY <1>2 DEF GetPerCallClient, FreshClient
<1>3. ASSUME NEW t \in Threads, NEW s \in Sessions, SessionStop(t, s) PROVE OwnerInv'
  BY <1>3 DEF SessionStop, SessionKeys, Keys
<1>4. ASSUME NEW t \in Threads, BrokerStop(t) PROVE OwnerInv'
  BY <1>4 DEF BrokerStop
<1>5. ASSUME NEW t \in Threads, HealthSnapshot(t) PROVE OwnerInv'
  BY <1>5 DEF HealthSnapshot
<1>6. ASSUME NEW t \in Threads, Acquire(t) PROVE OwnerInv'
  BY <1>6 DEF Acquire
<1>7. ASSUME NEW t \in Threads, CapabilityStop(t) PROVE OwnerInv'
  BY <1>7 DEF CapabilityStop
<1>8. ASSUME NEW t \in Threads, StartCheck(t) PROVE OwnerInv'
  BY <1>8 DEF StartCheck
<1>9. ASSUME NEW t \in Threads, Spawn(t) PROVE OwnerInv'
  BY <1>9 DEF Spawn
<1>10. ASSUME NEW t \in Threads, RecordProcess(t) PROVE OwnerInv'
  BY <1>10 DEF RecordProcess
<1>11. ASSUME NEW t \in Threads, Roundtrip(t) PROVE OwnerInv'
  BY <1>11 DEF Roundtrip
<1>12. ASSUME NEW t \in Threads, TimeOut(t) PROVE OwnerInv'
  BY <1>12 DEF TimeOut
<1>13. ASSUME NEW t \in Threads, Release(t) PROVE OwnerInv'
  <2>1. CASE EndRequest(t) /\ UNCHANGED ckey
    BY <2>1
  <2>2. CASE UNCHANGED <<op, held, todo, ckey>> /\ (Goto(t, "got") \/ Goto(t, "p_lock"))
    BY <1>13, <2>2 DEF Release
  <2> QED
    BY <1>13, <2>1, <2>2 DEF Release
<1>14. ASSUME NEW t \in Threads, PerCallStop(t) PROVE OwnerInv'
  <2>1. CASE EndRequest(t) /\ UNCHANGED ckey
    BY <2>1
  <2>2. CASE UNCHANGED <<op, held, todo, ckey>> /\ Goto(t, "s_capture")
    BY <1>14, <2>2 DEF PerCallStop
  <2> QED
    BY <1>14, <2>1, <2>2 DEF PerCallStop
<1>15. ASSUME NEW t \in Threads, AfterReset(t) PROVE OwnerInv'
  BY <1>15 DEF AfterReset
<1>16. ASSUME NEW t \in Threads, AfterPerCallStop(t) PROVE OwnerInv'
  BY <1>16 DEF AfterPerCallStop
<1>17. ASSUME NEW t \in Threads, SweepNext(t) PROVE OwnerInv'
  BY <1>17 DEF SweepNext, Sweeping
<1>18. ASSUME NEW t \in Threads, AfterSweepStop(t) PROVE OwnerInv'
  <2>1. CASE EndRequest(t) /\ UNCHANGED ckey
    BY <2>1
  <2>2. CASE /\ todo' = [todo EXCEPT ![t] = @ \ {held[t]}]
             /\ held' = [held EXCEPT ![t] = None]
             /\ Goto(t, "sweep")
             /\ UNCHANGED <<op, ckey>>
    BY <2>2
  <2> QED
    BY <1>18, <2>1, <2>2 DEF AfterSweepStop
<1>19. ASSUME NEW t \in Threads, HealthPoll(t) PROVE OwnerInv'
  <2>1. CASE EndRequest(t) /\ UNCHANGED ckey
    BY <2>1
  <2>2. CASE Goto(t, "got") /\ UNCHANGED <<op, held, todo, ckey>> /\ ~IsPerCall(held[t])
    BY <1>19, <2>2 DEF HealthPoll
  <2> QED
    BY <1>19, <2>1, <2>2 DEF HealthPoll, Keys
<1>20. ASSUME NEW a \in Actors, StopCapture(a) PROVE OwnerInv'
  BY <1>20 DEF StopCapture
<1>21. ASSUME NEW a \in Actors, StopKill(a) PROVE OwnerInv'
  BY <1>21 DEF StopKill
<1>22. ASSUME NEW a \in Actors, StopRaises(a) PROVE OwnerInv'
  BY <1>22 DEF StopRaises
<1>23. ASSUME NEW a \in Actors, StopClear(a) PROVE OwnerInv'
  BY <1>23 DEF StopClear
<1>24. ASSUME NEW a \in Actors, StopForget(a) PROVE OwnerInv'
  BY <1>24 DEF StopForget
<1>25. ASSUME JanitorSnapshot PROVE OwnerInv'
  BY <1>25 DEF JanitorSnapshot
<1>26. ASSUME JanitorVisit PROVE OwnerInv'
  BY <1>26 DEF JanitorVisit
<1>27. ASSUME JanitorPop PROVE OwnerInv'
  BY <1>27 DEF JanitorPop
<1>28. ASSUME JanitorSleep PROVE OwnerInv'
  BY <1>28 DEF JanitorSleep
<1>29. ASSUME NEW c \in Clients, Collect(c) PROVE OwnerInv'
  BY <1>29 DEF Collect
<1>30. ASSUME NEW p \in Procs, LeaderExits(p) PROVE OwnerInv'
  BY <1>30 DEF LeaderExits
<1>31. ASSUME NEW p \in Procs, LeaderForks(p) PROVE OwnerInv'
  BY <1>31 DEF LeaderForks
<1>32. ASSUME NEW p \in Procs, ChildrenExit(p) PROVE OwnerInv'
  BY <1>32 DEF ChildrenExit
<1>33. ASSUME NEW c \in Clients, Age(c) PROVE OwnerInv'
  BY <1>33 DEF Age
<1>34. CASE UNCHANGED vars
  BY <1>34 DEF vars
<1> QED
  BY <1>1, <1>2, <1>3, <1>4, <1>5, <1>6, <1>7, <1>8, <1>9, <1>10, <1>11,
     <1>12, <1>13, <1>14, <1>15, <1>16, <1>17, <1>18, <1>19, <1>20, <1>21,
     <1>22, <1>23, <1>24, <1>25, <1>26, <1>27, <1>28, <1>29, <1>30, <1>31,
     <1>32, <1>33, <1>34 DEF Next, Arrive, Serve, Stop, Sweep, Environment

\* No two clients share the file of a per_call client.
LEMMA OwnFile ==
  ASSUME TypeOK, NEW c \in Clients, NEW d \in Clients, IsPerCall(c), ckey[d] # None
  PROVE  /\ MetaName(d) \in MetaNames
         /\ MetaName(d) = c <=> d = c
<1>1. CASE IsPerCall(d)
  BY <1>1 DEF MetaName, MetaNames
<1>2. CASE ~IsPerCall(d)
  <2>1. ckey[d] \in Keys
    BY <1>2 DEF TypeOK, IsPerCall
  <2>2. ckey[d][1] \in SharedUp \cup SessionUp
    BY <2>1 DEF Keys, SharedKeys, SessionKeys
  <2> QED
    BY <1>2, <2>2, LifecycleAssumption DEF MetaName, MetaNames, IsPerCall
<1> QED
  BY <1>1, <1>2

\* A stop that captures the process knows whether there is a group to signal.
LEMMA CaptureStops ==
  ASSUME TypeOK, FrameInv, OwnerInv, Stops, NEW a \in Actors, StopCapture(a)
  PROVE  Stops'
<1> DEFINE p == proc[held[a]]
           g == leader[p] # "gone"
<1>1. held[a] \in Clients /\ p \in Procs \cup {None}
  BY DEF TypeOK, FrameInv, StopCapture
<1>2. UNCHANGED <<registryVars, clientVars, osVars, frameVars>>
  BY DEF StopCapture
<1>3. \A b \in Actors \ {a} : pc'[b] = pc[b] /\ sproc'[b] = sproc[b] /\ left'[b] = left[b]
  BY DEF StopCapture, TypeOK
<1>4. \A b \in Actors \ {a} : sgroup'[b] = sgroup[b]
  <2>1. sgroup' = sgroup \/ sgroup' = [sgroup EXCEPT ![a] = g]
    BY DEF StopCapture
  <2> QED
    BY <2>1 DEF TypeOK
<1>5. pc'[a] = "stopped"
      \/ /\ pc'[a] = "s_kill" /\ sproc'[a] = p /\ p # None /\ left'[a] = FALSE
         /\ sgroup'[a] <=> leader[p] # "gone"
  <2>1. CASE p = None
    BY <2>1 DEF StopCapture, TypeOK
  <2>2. CASE p # None
    <3>1. sgroup' = [sgroup EXCEPT ![a] = g]
      BY <2>2 DEF StopCapture
    <3>2. sgroup'[a] = g
      BY <3>1 DEF TypeOK
    <3>3. pc'[a] = "s_kill" /\ sproc'[a] = p /\ left'[a] = FALSE
      BY <2>2 DEF StopCapture, TypeOK
    <3> QED
      BY <2>2, <3>2, <3>3
  <2> QED
    BY <2>1, <2>2
<1>6. ASSUME NEW t \in Threads, NEW c \in Clients, IsPerCall(c)', Calling(t, c)'
      PROVE  StopStage(t, c)'
  <2>1. IsPerCall(c) /\ Calling(t, c)
    BY <1>2, <1>6 DEF IsPerCall, Calling
  <2>2. StopStage(t, c) /\ held[t] = c
    BY <2>1 DEF Stops, Calling
  <2>3. CASE t # a
    <3>1. pc'[t] = pc[t] /\ sproc'[t] = sproc[t] /\ left'[t] = left[t] /\ sgroup'[t] = sgroup[t]
      BY <1>3, <1>4, <2>3
    <3>2. leader' = leader /\ proc' = proc /\ files' = files
      BY <1>2
    <3> HIDE DEF Stops
    <3> QED
      BY <2>2, <3>1, <3>2 DEF StopStage
  <2>4. CASE t = a
    BY <1>2, <1>5, <2>2, <2>4 DEF StopStage
  <2> QED
    BY <2>3, <2>4
<1> QED
  BY <1>6 DEF Stops

\* The file of a per_call client names no process but its own.
LEMMA NamingStep ==
  TypeOK /\ FrameInv /\ LockInv /\ KeyInv /\ ProcInv /\ OwnerInv /\ RecordInv /\ [Next]_vars => Naming'
<1> SUFFICES ASSUME TypeOK, FrameInv, LockInv, KeyInv, ProcInv, OwnerInv, RecordInv, [Next]_vars
             PROVE  Naming'
  OBVIOUS
<1> USE LifecycleAssumption, KeysApart, OwnFile DEF TypeOK, FrameInv, LockInv, KeyInv,
    ProcInv, OwnerInv, RecordInv, Working, Unstarted, Naming, Recording, Starts, Stops,
    StartStage, StopStage, Named, Recorded, Stopping, Calling, IsPerCall, Referenced,
    Registered
<1>1. ASSUME NEW t \in Threads, NEW u \in SharedUp \cup SessionUp, NEW s \in Sessions, GetClient(t, u, s) PROVE Naming'
  <2>1. \A c \in Clients : IsPerCall(c)' => IsPerCall(c)
    BY <1>1, KeyedClient
  <2>2. UNCHANGED <<proc, osVars>>
    BY <1>1 DEF GetClient
  <2> QED
    BY <2>1, <2>2
<1>2. ASSUME NEW t \in Threads, NEW u \in PerCallUp, GetPerCallClient(t, u) PROVE Naming'
  BY <1>2 DEF GetPerCallClient, FreshClient, CallKeys
<1>3. ASSUME NEW t \in Threads, NEW s \in Sessions, SessionStop(t, s) PROVE Naming'
  BY <1>3 DEF SessionStop
<1>4. ASSUME NEW t \in Threads, BrokerStop(t) PROVE Naming'
  BY <1>4 DEF BrokerStop
<1>5. ASSUME NEW t \in Threads, HealthSnapshot(t) PROVE Naming'
  BY <1>5 DEF HealthSnapshot
<1>6. ASSUME NEW t \in Threads, Acquire(t) PROVE Naming'
  BY <1>6 DEF Acquire
<1>7. ASSUME NEW t \in Threads, CapabilityStop(t) PROVE Naming'
  BY <1>7 DEF CapabilityStop, CallKeys
<1>8. ASSUME NEW t \in Threads, StartCheck(t) PROVE Naming'
  BY <1>8 DEF StartCheck, Polled
<1>9. ASSUME NEW t \in Threads, Spawn(t) PROVE Naming'
  BY <1>9 DEF Spawn, FreshProc
<1>10. ASSUME NEW t \in Threads, RecordProcess(t) PROVE Naming'
  BY <1>10 DEF RecordProcess, Polled
<1>11. ASSUME NEW t \in Threads, Roundtrip(t) PROVE Naming'
  BY <1>11 DEF Roundtrip, Polled
<1>12. ASSUME NEW t \in Threads, TimeOut(t) PROVE Naming'
  BY <1>12 DEF TimeOut
<1>13. ASSUME NEW t \in Threads, Release(t) PROVE Naming'
  BY <1>13 DEF Release
<1>14. ASSUME NEW t \in Threads, PerCallStop(t) PROVE Naming'
  BY <1>14 DEF PerCallStop
<1>15. ASSUME NEW t \in Threads, AfterReset(t) PROVE Naming'
  BY <1>15 DEF AfterReset, Resetting
<1>16. ASSUME NEW t \in Threads, AfterPerCallStop(t) PROVE Naming'
  BY <1>16 DEF AfterPerCallStop
<1>17. ASSUME NEW t \in Threads, SweepNext(t) PROVE Naming'
  BY <1>17 DEF SweepNext
<1>18. ASSUME NEW t \in Threads, AfterSweepStop(t) PROVE Naming'
  BY <1>18 DEF AfterSweepStop
<1>19. ASSUME NEW t \in Threads, HealthPoll(t) PROVE Naming'
  BY <1>19 DEF HealthPoll, Polled, Keys
<1>20. ASSUME NEW a \in Actors, StopCapture(a) PROVE Naming'
  BY <1>20 DEF StopCapture
<1>21. ASSUME NEW a \in Actors, StopKill(a) PROVE Naming'
  BY <1>21 DEF StopKill, Killed, GroupAlive
<1>22. ASSUME NEW a \in Actors, StopRaises(a) PROVE Naming'
  BY <1>22 DEF StopRaises
<1>23. ASSUME NEW a \in Actors, StopClear(a) PROVE Naming'
  BY <1>23 DEF StopClear
<1>24. ASSUME NEW a \in Actors, StopForget(a) PROVE Naming'
  BY <1>24 DEF StopForget
<1>25. ASSUME JanitorSnapshot PROVE Naming'
  BY <1>25 DEF JanitorSnapshot
<1>26. ASSUME JanitorVisit PROVE Naming'
  BY <1>26 DEF JanitorVisit, Polled
<1>27. ASSUME JanitorPop PROVE Naming'
  BY <1>27 DEF JanitorPop
<1>28. ASSUME JanitorSleep PROVE Naming'
  BY <1>28 DEF JanitorSleep
<1>29. ASSUME NEW c \in Clients, Collect(c) PROVE Naming'
  BY <1>29 DEF Collect, Killed, GroupAlive
<1>30. ASSUME NEW p \in Procs, LeaderExits(p) PROVE Naming'
  BY <1>30 DEF LeaderExits
<1>31. ASSUME NEW p \in Procs, LeaderForks(p) PROVE Naming'
  BY <1>31 DEF LeaderForks
<1>32. ASSUME NEW p \in Procs, ChildrenExit(p) PROVE Naming'
  BY <1>32 DEF ChildrenExit
<1>33. ASSUME NEW c \in Clients, Age(c) PROVE Naming'
  BY <1>33 DEF Age
<1>34. CASE UNCHANGED vars
  BY <1>34 DEF vars
<1> HIDE LifecycleAssumption, KeysApart, OwnFile DEF TypeOK, FrameInv, LockInv, KeyInv,
    ProcInv, OwnerInv, RecordInv, Naming, Recording, Starts, Stops
<1> QED
  BY <1>1, <1>2, <1>3, <1>4, <1>5, <1>6, <1>7, <1>8, <1>9, <1>10, <1>11,
     <1>12, <1>13, <1>14, <1>15, <1>16, <1>17, <1>18, <1>19, <1>20, <1>21,
     <1>22, <1>23, <1>24, <1>25, <1>26, <1>27, <1>28, <1>29, <1>30, <1>31,
     <1>32, <1>33, <1>34 DEF Next, Arrive, Serve, Stop, Sweep, Environment

\* A running process of a per_call client is recorded once its start is over.
LEMMA RecordingStep ==
  TypeOK /\ FrameInv /\ LockInv /\ KeyInv /\ ProcInv /\ OwnerInv /\ RecordInv /\ [Next]_vars => Recording'
<1> SUFFICES ASSUME TypeOK, FrameInv, LockInv, KeyInv, ProcInv, OwnerInv, RecordInv, [Next]_vars
             PROVE  Recording'
  OBVIOUS
<1> USE LifecycleAssumption, KeysApart, OwnFile DEF TypeOK, FrameInv, LockInv, KeyInv,
    ProcInv, OwnerInv, RecordInv, Working, Unstarted, Naming, Recording, Starts, Stops,
    StartStage, StopStage, Named, Recorded, Stopping, Calling, IsPerCall, Referenced,
    Registered
<1>1. ASSUME NEW t \in Threads, NEW u \in SharedUp \cup SessionUp, NEW s \in Sessions, GetClient(t, u, s) PROVE Recording'
  <2>2. \A c \in Clients : IsPerCall(c)' => IsPerCall(c)
    BY <1>1, KeyedClient
  <2>3. \A v \in Threads, c \in Clients :
          pc[v] = "meta" /\ Calling(v, c) => pc'[v] = "meta" /\ Calling(v, c)'
    BY <1>1 DEF GetClient
  <2>4. UNCHANGED <<proc, osVars>>
    BY <1>1 DEF GetClient
  <2> QED
    BY <2>2, <2>3, <2>4
<1>2. ASSUME NEW t \in Threads, NEW u \in PerCallUp, GetPerCallClient(t, u) PROVE Recording'
  BY <1>2 DEF GetPerCallClient, FreshClient, CallKeys
<1>3. ASSUME NEW t \in Threads, NEW s \in Sessions, SessionStop(t, s) PROVE Recording'
  BY <1>3 DEF SessionStop
<1>4. ASSUME NEW t \in Threads, BrokerStop(t) PROVE Recording'
  BY <1>4 DEF BrokerStop
<1>5. ASSUME NEW t \in Threads, HealthSnapshot(t) PROVE Recording'
  BY <1>5 DEF HealthSnapshot
<1>6. ASSUME NEW t \in Threads, Acquire(t) PROVE Recording'
  BY <1>6 DEF Acquire
<1>7. ASSUME NEW t \in Threads, CapabilityStop(t) PROVE Recording'
  BY <1>7 DEF CapabilityStop, CallKeys
<1>8. ASSUME NEW t \in Threads, StartCheck(t) PROVE Recording'
  BY <1>8 DEF StartCheck, Polled
<1>9. ASSUME NEW t \in Threads, Spawn(t) PROVE Recording'
  BY <1>9 DEF Spawn, FreshProc
<1>10. ASSUME NEW t \in Threads, RecordProcess(t) PROVE Recording'
  BY <1>10 DEF RecordProcess, Polled
<1>11. ASSUME NEW t \in Threads, Roundtrip(t) PROVE Recording'
  BY <1>11 DEF Roundtrip, Polled
<1>12. ASSUME NEW t \in Threads, TimeOut(t) PROVE Recording'
  BY <1>12 DEF TimeOut
<1>13. ASSUME NEW t \in Threads, Release(t) PROVE Recording'
  BY <1>13 DEF Release
<1>14. ASSUME NEW t \in Threads, PerCallStop(t) PROVE Recording'
  BY <1>14 DEF PerCallStop
<1>15. ASSUME NEW t \in Threads, AfterReset(t) PROVE Recording'
  BY <1>15 DEF AfterReset, Resetting
<1>16. ASSUME NEW t \in Threads, AfterPerCallStop(t) PROVE Recording'
  BY <1>16 DEF AfterPerCallStop
<1>17. ASSUME NEW t \in Threads, SweepNext(t) PROVE Recording'
  <2>1. UNCHANGED <<ckey, proc, leader, files>>
    BY <1>17 DEF SweepNext
  <2>2. \A v \in Threads, c \in Clients :
          pc[v] = "meta" /\ Calling(v, c) => pc'[v] = "meta" /\ Calling(v, c)'
    BY <1>17 DEF SweepNext
  <2> QED
    BY <2>1, <2>2
<1>18. ASSUME NEW t \in Threads, AfterSweepStop(t) PROVE Recording'
  BY <1>18 DEF AfterSweepStop
<1>19. ASSUME NEW t \in Threads, HealthPoll(t) PROVE Recording'
  BY <1>19 DEF HealthPoll, Polled, Keys
<1>20. ASSUME NEW a \in Actors, StopCapture(a) PROVE Recording'
  BY <1>20 DEF StopCapture
<1>21. ASSUME NEW a \in Actors, StopKill(a) PROVE Recording'
  BY <1>21 DEF StopKill, Killed, GroupAlive
<1>22. ASSUME NEW a \in Actors, StopRaises(a) PROVE Recording'
  BY <1>22 DEF StopRaises
<1>23. ASSUME NEW a \in Actors, StopClear(a) PROVE Recording'
  BY <1>23 DEF StopClear
<1>24. ASSUME NEW a \in Actors, StopForget(a) PROVE Recording'
  BY <1>24 DEF StopForget
<1>25. ASSUME JanitorSnapshot PROVE Recording'
  BY <1>25 DEF JanitorSnapshot
<1>26. ASSUME JanitorVisit PROVE Recording'
  BY <1>26 DEF JanitorVisit, Polled
<1>27. ASSUME JanitorPop PROVE Recording'
  BY <1>27 DEF JanitorPop
<1>28. ASSUME JanitorSleep PROVE Recording'
  BY <1>28 DEF JanitorSleep
<1>29. ASSUME NEW c \in Clients, Collect(c) PROVE Recording'
  BY <1>29 DEF Collect, Killed, GroupAlive
<1>30. ASSUME NEW p \in Procs, LeaderExits(p) PROVE Recording'
  BY <1>30 DEF LeaderExits
<1>31. ASSUME NEW p \in Procs, LeaderForks(p) PROVE Recording'
  BY <1>31 DEF LeaderForks
<1>32. ASSUME NEW p \in Procs, ChildrenExit(p) PROVE Recording'
  BY <1>32 DEF ChildrenExit
<1>33. ASSUME NEW c \in Clients, Age(c) PROVE Recording'
  BY <1>33 DEF Age
<1>34. CASE UNCHANGED vars
  BY <1>34 DEF vars
<1> HIDE LifecycleAssumption, KeysApart, OwnFile DEF TypeOK, FrameInv, LockInv, KeyInv,
    ProcInv, OwnerInv, RecordInv, Naming, Recording, Starts, Stops
<1> QED
  BY <1>1, <1>2, <1>3, <1>4, <1>5, <1>6, <1>7, <1>8, <1>9, <1>10, <1>11,
     <1>12, <1>13, <1>14, <1>15, <1>16, <1>17, <1>18, <1>19, <1>20, <1>21,
     <1>22, <1>23, <1>24, <1>25, <1>26, <1>27, <1>28, <1>29, <1>30, <1>31,
     <1>32, <1>33, <1>34 DEF Next, Arrive, Serve, Stop, Sweep, Environment

\* A call of a per_call client starts with nothing recorded.
LEMMA StartsStep ==
  TypeOK /\ FrameInv /\ LockInv /\ KeyInv /\ ProcInv /\ OwnerInv /\ RecordInv /\ [Next]_vars => Starts'
<1> SUFFICES ASSUME TypeOK, FrameInv, LockInv, KeyInv, ProcInv, OwnerInv, RecordInv, [Next]_vars
             PROVE  Starts'
  OBVIOUS
<1> USE LifecycleAssumption, KeysApart, OwnFile DEF TypeOK, FrameInv, LockInv, KeyInv,
    ProcInv, OwnerInv, RecordInv, Working, Unstarted, Naming, Recording, Starts, Stops,
    StartStage, StopStage, Named, Recorded, Stopping, Calling, IsPerCall, Referenced,
    Registered
<1>1. ASSUME NEW t \in Threads, NEW u \in SharedUp \cup SessionUp, NEW s \in Sessions, GetClient(t, u, s) PROVE Starts'
  BY <1>1 DEF GetClient, FreshClient, ClientKey, Keys, SharedKeys, SessionKeys
<1>2. ASSUME NEW t \in Threads, NEW u \in PerCallUp, GetPerCallClient(t, u) PROVE Starts'
  BY <1>2 DEF GetPerCallClient, FreshClient, CallKeys
<1>3. ASSUME NEW t \in Threads, NEW s \in Sessions, SessionStop(t, s) PROVE Starts'
  BY <1>3 DEF SessionStop
<1>4. ASSUME NEW t \in Threads, BrokerStop(t) PROVE Starts'
  BY <1>4 DEF BrokerStop
<1>5. ASSUME NEW t \in Threads, HealthSnapshot(t) PROVE Starts'
  BY <1>5 DEF HealthSnapshot
<1>6. ASSUME NEW t \in Threads, Acquire(t) PROVE Starts'
  BY <1>6 DEF Acquire
<1>7. ASSUME NEW t \in Threads, CapabilityStop(t) PROVE Starts'
  BY <1>7 DEF CapabilityStop, CallKeys
<1>8. ASSUME NEW t \in Threads, StartCheck(t) PROVE Starts'
  BY <1>8 DEF StartCheck, Polled
<1>9. ASSUME NEW t \in Threads, Spawn(t) PROVE Starts'
  BY <1>9 DEF Spawn, FreshProc
<1>10. ASSUME NEW t \in Threads, RecordProcess(t) PROVE Starts'
  BY <1>10 DEF RecordProcess, Polled
<1>11. ASSUME NEW t \in Threads, Roundtrip(t) PROVE Starts'
  BY <1>11 DEF Roundtrip, Polled
<1>12. ASSUME NEW t \in Threads, TimeOut(t) PROVE Starts'
  BY <1>12 DEF TimeOut
<1>13. ASSUME NEW t \in Threads, Release(t) PROVE Starts'
  BY <1>13 DEF Release
<1>14. ASSUME NEW t \in Threads, PerCallStop(t) PROVE Starts'
  BY <1>14 DEF PerCallStop
<1>15. ASSUME NEW t \in Threads, AfterReset(t) PROVE Starts'
  BY <1>15 DEF AfterReset, Resetting
<1>16. ASSUME NEW t \in Threads, AfterPerCallStop(t) PROVE Starts'
  BY <1>16 DEF AfterPerCallStop
<1>17. ASSUME NEW t \in Threads, SweepNext(t) PROVE Starts'
  BY <1>17 DEF SweepNext
<1>18. ASSUME NEW t \in Threads, AfterSweepStop(t) PROVE Starts'
  BY <1>18 DEF AfterSweepStop
<1>19. ASSUME NEW t \in Threads, HealthPoll(t) PROVE Starts'
  BY <1>19 DEF HealthPoll, Polled, Keys
<1>20. ASSUME NEW a \in Actors, StopCapture(a) PROVE Starts'
  BY <1>20 DEF StopCapture
<1>21. ASSUME NEW a \in Actors, StopKill(a) PROVE Starts'
  BY <1>21 DEF StopKill, Killed, GroupAlive
<1>22. ASSUME NEW a \in Actors, StopRaises(a) PROVE Starts'
  BY <1>22 DEF StopRaises
<1>23. ASSUME NEW a \in Actors, StopClear(a) PROVE Starts'
  BY <1>23 DEF StopClear
<1>24. ASSUME NEW a \in Actors, StopForget(a) PROVE Starts'
  BY <1>24 DEF StopForget
<1>25. ASSUME JanitorSnapshot PROVE Starts'
  BY <1>25 DEF JanitorSnapshot
<1>26. ASSUME JanitorVisit PROVE Starts'
  BY <1>26 DEF JanitorVisit, Polled
<1>27. ASSUME JanitorPop PROVE Starts'
  BY <1>27 DEF JanitorPop
<1>28. ASSUME JanitorSleep PROVE Starts'
  BY <1>28 DEF JanitorSleep
<1>29. ASSUME NEW c \in Clients, Collect(c) PROVE Starts'
  BY <1>29 DEF Collect, Killed, GroupAlive
<1>30. ASSUME NEW p \in Procs, LeaderExits(p) PROVE Starts'
  BY <1>30 DEF LeaderExits
<1>31. ASSUME NEW p \in Procs, LeaderForks(p) PROVE Starts'
  BY <1>31 DEF LeaderForks
<1>32. ASSUME NEW p \in Procs, ChildrenExit(p) PROVE Starts'
  BY <1>32 DEF ChildrenExit
<1>33. ASSUME NEW c \in Clients, Age(c) PROVE Starts'
  BY <1>33 DEF Age
<1>34. CASE UNCHANGED vars
  BY <1>34 DEF vars
<1> HIDE LifecycleAssumption, KeysApart, OwnFile DEF TypeOK, FrameInv, LockInv, KeyInv,
    ProcInv, OwnerInv, RecordInv, Naming, Recording, Starts, Stops
<1> QED
  BY <1>1, <1>2, <1>3, <1>4, <1>5, <1>6, <1>7, <1>8, <1>9, <1>10, <1>11,
     <1>12, <1>13, <1>14, <1>15, <1>16, <1>17, <1>18, <1>19, <1>20, <1>21,
     <1>22, <1>23, <1>24, <1>25, <1>26, <1>27, <1>28, <1>29, <1>30, <1>31,
     <1>32, <1>33, <1>34 DEF Next, Arrive, Serve, Stop, Sweep, Environment

\* A stop of a per_call client drops the record of a process that is gone.
LEMMA StopsStep ==
  TypeOK /\ FrameInv /\ LockInv /\ KeyInv /\ ProcInv /\ OwnerInv /\ RecordInv /\ [Next]_vars => Stops'
<1> SUFFICES ASSUME TypeOK, FrameInv, LockInv, KeyInv, ProcInv, OwnerInv, RecordInv, [Next]_vars
             PROVE  Stops'
  OBVIOUS
<1> USE LifecycleAssumption, KeysApart, OwnFile DEF TypeOK, FrameInv, LockInv, KeyInv,
    ProcInv, OwnerInv, RecordInv, Working, Unstarted, Naming, Recording, Starts, Stops,
    StartStage, StopStage, Named, Recorded, Stopping, Calling, IsPerCall, Referenced,
    Registered
<1>1. ASSUME NEW t \in Threads, NEW u \in SharedUp \cup SessionUp, NEW s \in Sessions, GetClient(t, u, s) PROVE Stops'
  BY <1>1 DEF GetClient, FreshClient, ClientKey, Keys, SharedKeys, SessionKeys
<1>2. ASSUME NEW t \in Threads, NEW u \in PerCallUp, GetPerCallClient(t, u) PROVE Stops'
  BY <1>2 DEF GetPerCallClient, FreshClient, CallKeys
<1>3. ASSUME NEW t \in Threads, NEW s \in Sessions, SessionStop(t, s) PROVE Stops'
  BY <1>3 DEF SessionStop
<1>4. ASSUME NEW t \in Threads, BrokerStop(t) PROVE Stops'
  BY <1>4 DEF BrokerStop
<1>5. ASSUME NEW t \in Threads, HealthSnapshot(t) PROVE Stops'
  BY <1>5 DEF HealthSnapshot
<1>6. ASSUME NEW t \in Threads, Acquire(t) PROVE Stops'
  BY <1>6 DEF Acquire
<1>7. ASSUME NEW t \in Threads, CapabilityStop(t) PROVE Stops'
  BY <1>7 DEF CapabilityStop, CallKeys
<1>8. ASSUME NEW t \in Threads, StartCheck(t) PROVE Stops'
  BY <1>8 DEF StartCheck, Polled
<1>9. ASSUME NEW t \in Threads, Spawn(t) PROVE Stops'
  BY <1>9 DEF Spawn, FreshProc
<1>10. ASSUME NEW t \in Threads, RecordProcess(t) PROVE Stops'
  BY <1>10 DEF RecordProcess, Polled
<1>11. ASSUME NEW t \in Threads, Roundtrip(t) PROVE Stops'
  BY <1>11 DEF Roundtrip, Polled
<1>12. ASSUME NEW t \in Threads, TimeOut(t) PROVE Stops'
  BY <1>12 DEF TimeOut
<1>13. ASSUME NEW t \in Threads, Release(t) PROVE Stops'
  <2>1. UNCHANGED <<ckey, proc, leader, files, stopVars>> /\ pc'[t] \in {"got", "p_lock", "idle"}
    BY <1>13 DEF Release
  <2>2. \A v \in Threads : /\ v # t => pc'[v] = pc[v]
                           /\ \A c \in Clients : Calling(v, c)' => Calling(v, c)
    BY <1>13 DEF Release
  <2> HIDE DEF OwnerInv, FrameInv, LockInv, KeyInv, ProcInv, Starts, Naming, Recording
  <2> QED
    BY <2>1, <2>2
<1>14. ASSUME NEW t \in Threads, PerCallStop(t) PROVE Stops'
  BY <1>14 DEF PerCallStop
<1>15. ASSUME NEW t \in Threads, AfterReset(t) PROVE Stops'
  BY <1>15 DEF AfterReset, Resetting
<1>16. ASSUME NEW t \in Threads, AfterPerCallStop(t) PROVE Stops'
  BY <1>16 DEF AfterPerCallStop
<1>17. ASSUME NEW t \in Threads, SweepNext(t) PROVE Stops'
  BY <1>17 DEF SweepNext
<1>18. ASSUME NEW t \in Threads, AfterSweepStop(t) PROVE Stops'
  BY <1>18 DEF AfterSweepStop
<1>19. ASSUME NEW t \in Threads, HealthPoll(t) PROVE Stops'
  BY <1>19 DEF HealthPoll, Polled, Keys
<1>20. ASSUME NEW a \in Actors, StopCapture(a) PROVE Stops'
  <2>1. TypeOK /\ FrameInv /\ OwnerInv /\ Stops /\ StopCapture(a)
    BY <1>20
  <2> QED
    BY <2>1, CaptureStops
<1>21. ASSUME NEW a \in Actors, StopKill(a) PROVE Stops'
  BY <1>21 DEF StopKill, Killed, GroupAlive
<1>22. ASSUME NEW a \in Actors, StopRaises(a) PROVE Stops'
  BY <1>22 DEF StopRaises
<1>23. ASSUME NEW a \in Actors, StopClear(a) PROVE Stops'
  BY <1>23 DEF StopClear
<1>24. ASSUME NEW a \in Actors, StopForget(a) PROVE Stops'
  BY <1>24 DEF StopForget
<1>25. ASSUME JanitorSnapshot PROVE Stops'
  BY <1>25 DEF JanitorSnapshot
<1>26. ASSUME JanitorVisit PROVE Stops'
  BY <1>26 DEF JanitorVisit, Polled
<1>27. ASSUME JanitorPop PROVE Stops'
  BY <1>27 DEF JanitorPop
<1>28. ASSUME JanitorSleep PROVE Stops'
  BY <1>28 DEF JanitorSleep
<1>29. ASSUME NEW c \in Clients, Collect(c) PROVE Stops'
  BY <1>29 DEF Collect, Killed, GroupAlive
<1>30. ASSUME NEW p \in Procs, LeaderExits(p) PROVE Stops'
  BY <1>30 DEF LeaderExits
<1>31. ASSUME NEW p \in Procs, LeaderForks(p) PROVE Stops'
  BY <1>31 DEF LeaderForks
<1>32. ASSUME NEW p \in Procs, ChildrenExit(p) PROVE Stops'
  BY <1>32 DEF ChildrenExit
<1>33. ASSUME NEW c \in Clients, Age(c) PROVE Stops'
  BY <1>33 DEF Age
<1>34. CASE UNCHANGED vars
  BY <1>34 DEF vars
<1> HIDE LifecycleAssumption, KeysApart, OwnFile DEF TypeOK, FrameInv, LockInv, KeyInv,
    ProcInv, OwnerInv, RecordInv, Naming, Recording, Starts, Stops
<1> QED
  BY <1>1, <1>2, <1>3, <1>4, <1>5, <1>6, <1>7, <1>8, <1>9, <1>10, <1>11,
     <1>12, <1>13, <1>14, <1>15, <1>16, <1>17, <1>18, <1>19, <1>20, <1>21,
     <1>22, <1>23, <1>24, <1>25, <1>26, <1>27, <1>28, <1>29, <1>30, <1>31,
     <1>32, <1>33, <1>34 DEF Next, Arrive, Serve, Stop, Sweep, Environment

LEMMA RecordStep ==
  TypeOK /\ FrameInv /\ LockInv /\ KeyInv /\ ProcInv /\ OwnerInv /\ RecordInv /\ [Next]_vars => RecordInv'
BY UnstartedStep, NamingStep, RecordingStep, StartsStep, StopsStep DEF RecordInv

\* A daemon of per_call upstreams only: every client is a per_call client.
LEMMA AllPerCall ==
  ASSUME SharedUp = {}, SessionUp = {}, TypeOK, NEW c \in Clients, ckey[c] # None
  PROVE  IsPerCall(c)
BY DEF TypeOK, IsPerCall, Keys, SharedKeys, SessionKeys

\* A collected client takes nothing of the others with it.
LEMMA CollectedAlone ==
  ASSUME TypeOK, NEW c \in Clients, MetaName(c) = c, Collect(c)
  PROVE  \A d \in Clients \ {c} : proc'[d] = proc[d] /\ files'[d] = files[d]
<1>1. UNCHANGED files \/ files' = [files EXCEPT ![c] = None]
  BY DEF Collect
<1>2. proc' = [proc EXCEPT ![c] = None]
  BY DEF Collect
<1> QED
  BY <1>1, <1>2 DEF TypeOK, MetaNames

\* No stop, restart or collection loses sight of a process that lives.
LEMMA LiveStep ==
  ASSUME SharedUp = {}, SessionUp = {}, Forking = {}
  PROVE  TypeOK /\ FrameInv /\ LockInv /\ KeyInv /\ ProcInv /\ OwnerInv /\ RecordInv /\ LiveInv /\ [Next]_vars
           => LiveInv'
<1> SUFFICES ASSUME TypeOK, FrameInv, LockInv, KeyInv, ProcInv, OwnerInv, RecordInv, LiveInv, [Next]_vars
             PROVE  LiveInv'
  OBVIOUS
<1> USE LifecycleAssumption, KeysApart, OwnFile, AllPerCall DEF TypeOK, FrameInv, LockInv,
    KeyInv, ProcInv, OwnerInv, RecordInv, LiveInv, Working, Unstarted, Naming, Recording,
    Starts, Stops, StartStage, StopStage, Named, Recorded, Stopping, Calling
<1>1. ASSUME NEW t \in Threads, NEW u \in SharedUp \cup SessionUp, NEW s \in Sessions, GetClient(t, u, s) PROVE LiveInv'
  BY <1>1 DEF GetClient
<1>2. ASSUME NEW t \in Threads, NEW u \in PerCallUp, GetPerCallClient(t, u) PROVE LiveInv'
  BY <1>2 DEF GetPerCallClient
<1>3. ASSUME NEW t \in Threads, NEW s \in Sessions, SessionStop(t, s) PROVE LiveInv'
  BY <1>3 DEF SessionStop
<1>4. ASSUME NEW t \in Threads, BrokerStop(t) PROVE LiveInv'
  BY <1>4 DEF BrokerStop
<1>5. ASSUME NEW t \in Threads, HealthSnapshot(t) PROVE LiveInv'
  BY <1>5 DEF HealthSnapshot
<1>6. ASSUME NEW t \in Threads, Acquire(t) PROVE LiveInv'
  BY <1>6 DEF Acquire
<1>7. ASSUME NEW t \in Threads, CapabilityStop(t) PROVE LiveInv'
  BY <1>7 DEF CapabilityStop
<1>8. ASSUME NEW t \in Threads, StartCheck(t) PROVE LiveInv'
  <2>1. \A q \in Procs : leader'[q] = "running" => leader[q] = "running"
    BY <1>8 DEF StartCheck, Polled
  <2>2. UNCHANGED <<proc, kids>>
    BY <1>8 DEF StartCheck
  <2>3. CASE UNCHANGED files
    BY <2>1, <2>2, <2>3
  <2>4. CASE proc[held[t]] # None /\ leader[proc[held[t]]] # "running"
    <3>1. IsPerCall(held[t])
      BY <1>8 DEF StartCheck
    <3>5. held[t] \in Clients /\ MetaName(held[t]) = held[t]
      <4>1. held[t] \in Clients /\ ckey[held[t]] # None
        BY <1>8 DEF StartCheck
      <4> QED
        BY <3>1, <4>1, OwnFile
    <3>2. \A d \in Clients \ {held[t]} : files'[d] = files[d]
      <4>1. files' = [files EXCEPT ![held[t]] = None]
        BY <1>8, <2>4, <3>5 DEF StartCheck
      <4> QED
        BY <4>1
    <3>3. files[held[t]] # None => files[held[t]] = proc[held[t]]
      BY <1>8, <2>4, <3>1 DEF StartCheck
    <3> QED
      BY <2>1, <2>2, <2>4, <3>2, <3>3
  <2> QED
    BY <1>8, <2>3, <2>4 DEF StartCheck
<1>9. ASSUME NEW t \in Threads, Spawn(t) PROVE LiveInv'
  <2>1. held[t] \in Clients /\ UNCHANGED <<kids, files>>
    BY <1>9 DEF Spawn
  <2>2. CASE UNCHANGED <<leader, proc>>
    BY <2>1, <2>2
  <2>3. ASSUME NEW p \in Procs, leader' = [leader EXCEPT ![p] = "running"],
               proc' = [proc EXCEPT ![held[t]] = p]
        PROVE  LiveInv'
    <3>1. proc[held[t]] # None => leader[proc[held[t]]] # "running"
      BY <1>9 DEF Spawn
    <3>2. \A c \in Clients \ {held[t]} : proc'[c] = proc[c]
      BY <2>1, <2>3
    <3>3. proc'[held[t]] = p
      BY <2>1, <2>3
    <3> QED
      BY <2>1, <2>3, <3>1, <3>2, <3>3
  <2> QED
    BY <1>9, <2>2, <2>3 DEF Spawn
<1>10. ASSUME NEW t \in Threads, RecordProcess(t) PROVE LiveInv'
  <2>1. \A q \in Procs : leader'[q] = "running" => leader[q] = "running"
    BY <1>10 DEF RecordProcess, Polled
  <2>2. UNCHANGED <<proc, kids>>
    BY <1>10 DEF RecordProcess
  <2>3. CASE UNCHANGED files
    BY <2>1, <2>2, <2>3
  <2>4. CASE files' = [files EXCEPT ![MetaName(held[t])] = proc[held[t]]]
    <3>1. IsPerCall(held[t]) /\ Calling(t, held[t])
      <4>1. pc[t] = "meta"
        BY <1>10 DEF RecordProcess
      <4>2. held[t] \in Clients /\ ckey[held[t]] # None
        BY <4>1
      <4> HIDE DEF KeyInv, RecordInv, ProcInv, LiveInv, LockInv
      <4> QED
        BY <4>1, <4>2, AllPerCall
    <3>5. held[t] \in Clients /\ MetaName(held[t]) = held[t]
      <4>1. held[t] \in Clients /\ ckey[held[t]] # None
        BY <1>10 DEF RecordProcess
      <4> QED
        BY <3>1, <4>1, OwnFile
    <3>2. \A d \in Clients \ {held[t]} : files'[d] = files[d]
      BY <1>10, <2>4, <3>5 DEF RecordProcess
    <3>3. files[held[t]] = None
      BY <1>10, <3>1 DEF RecordProcess
    <3> QED
      BY <2>1, <2>2, <3>2, <3>3, <3>5
  <2> QED
    BY <1>10, <2>3, <2>4 DEF RecordProcess
<1>11. ASSUME NEW t \in Threads, Roundtrip(t) PROVE LiveInv'
  BY <1>11 DEF Roundtrip, Polled
<1>12. ASSUME NEW t \in Threads, TimeOut(t) PROVE LiveInv'
  BY <1>12 DEF TimeOut
<1>13. ASSUME NEW t \in Threads, Release(t) PROVE LiveInv'
  BY <1>13 DEF Release
<1>14. ASSUME NEW t \in Threads, PerCallStop(t) PROVE LiveInv'
  BY <1>14 DEF PerCallStop
<1>15. ASSUME NEW t \in Threads, AfterReset(t) PROVE LiveInv'
  BY <1>15 DEF AfterReset
<1>16. ASSUME NEW t \in Threads, AfterPerCallStop(t) PROVE LiveInv'
  BY <1>16 DEF AfterPerCallStop
<1>17. ASSUME NEW t \in Threads, SweepNext(t) PROVE LiveInv'
  BY <1>17 DEF SweepNext
<1>18. ASSUME NEW t \in Threads, AfterSweepStop(t) PROVE LiveInv'
  BY <1>18 DEF AfterSweepStop
<1>19. ASSUME NEW t \in Threads, HealthPoll(t) PROVE LiveInv'
  BY <1>19 DEF HealthPoll, Polled, Keys
<1>20. ASSUME NEW a \in Actors, StopCapture(a) PROVE LiveInv'
  BY <1>20 DEF StopCapture
<1>21. ASSUME NEW a \in Actors, StopKill(a) PROVE LiveInv'
  <2>1. \A q \in Procs : kids'[q] = FALSE /\ (leader'[q] = "running" => leader[q] = "running")
    BY <1>21 DEF StopKill, Killed
  <2>2. UNCHANGED <<proc, files>>
    BY <1>21 DEF StopKill
  <2> QED
    BY <2>1, <2>2
<1>22. ASSUME NEW a \in Actors, StopRaises(a) PROVE LiveInv'
  BY <1>22 DEF StopRaises
<1>23. ASSUME NEW a \in Actors, StopClear(a) PROVE LiveInv'
  BY <1>23 DEF StopClear
<1>24. ASSUME NEW a \in Actors, StopForget(a) PROVE LiveInv'
  BY <1>24 DEF StopForget
<1>25. ASSUME JanitorSnapshot PROVE LiveInv'
  BY <1>25 DEF JanitorSnapshot
<1>26. ASSUME JanitorVisit PROVE LiveInv'
  BY <1>26 DEF JanitorVisit, Polled
<1>27. ASSUME JanitorPop PROVE LiveInv'
  BY <1>27 DEF JanitorPop
<1>28. ASSUME JanitorSleep PROVE LiveInv'
  BY <1>28 DEF JanitorSleep
<1>29. ASSUME NEW c \in Clients, Collect(c) PROVE LiveInv'
  <2>1. \A q \in Procs : kids'[q] = FALSE /\ (leader'[q] = "running" => leader[q] = "running")
    <3>1. proc[c] \in Procs \cup {None}
      OBVIOUS
    <3>2. \/ UNCHANGED <<leader, kids>>
          \/ /\ proc[c] # None /\ leader' = [leader EXCEPT ![proc[c]] = "gone"]
             /\ kids' = kids \/ kids' = [kids EXCEPT ![proc[c]] = FALSE]
      BY <1>29 DEF Collect, Killed
    <3> QED
      BY <3>1, <3>2
  <2>4. MetaName(c) = c
    <3>1. ckey[c] # None /\ IsPerCall(c)
      BY <1>29 DEF Collect
    <3> QED
      BY <3>1, OwnFile
  <2>2. \A d \in Clients \ {c} : proc'[d] = proc[d] /\ files'[d] = files[d]
    BY <1>29, <2>4, CollectedAlone
  <2>3. ASSUME NEW q \in Procs, leader'[q] = "running", proc[c] = q \/ files[c] = q
        PROVE  files'[c] = q
    <3>1. IsPerCall(c) /\ leader[q] = "running"
      BY <1>29, <2>1, <2>3 DEF Collect
    <3>2. proc[c] \in {None, q}
      BY <2>3, <3>1
    <3>3. CASE proc[c] = None
      BY <1>29, <2>3, <3>1, <3>3 DEF Collect
    <3>4. CASE proc[c] = q
      <4>1. files[c] = q
        BY <1>29, <3>1, <3>4 DEF Collect, Referenced
      <4>2. files' = files
        BY <1>29, <2>3, <3>1, <3>4 DEF Collect, Killed, GroupAlive
      <4> QED
        BY <4>1, <4>2
    <3> QED
      BY <3>2, <3>3, <3>4
  <2> QED
    BY <2>1, <2>2, <2>3
<1>30. ASSUME NEW p \in Procs, LeaderExits(p) PROVE LiveInv'
  BY <1>30 DEF LeaderExits
<1>31. ASSUME NEW p \in Procs, LeaderForks(p) PROVE LiveInv'
  BY <1>31 DEF LeaderForks
<1>32. ASSUME NEW p \in Procs, ChildrenExit(p) PROVE LiveInv'
  BY <1>32 DEF ChildrenExit
<1>33. ASSUME NEW c \in Clients, Age(c) PROVE LiveInv'
  BY <1>33 DEF Age
<1>34. CASE UNCHANGED vars
  BY <1>34 DEF vars
<1> QED
  BY <1>1, <1>2, <1>3, <1>4, <1>5, <1>6, <1>7, <1>8, <1>9, <1>10, <1>11,
     <1>12, <1>13, <1>14, <1>15, <1>16, <1>17, <1>18, <1>19, <1>20, <1>21,
     <1>22, <1>23, <1>24, <1>25, <1>26, <1>27, <1>28, <1>29, <1>30, <1>31,
     <1>32, <1>33, <1>34 DEF Next, Arrive, Serve, Stop, Sweep, Environment

LEMMA RecordInit == Init => OwnerInv /\ RecordInv /\ LiveInv
<1> SUFFICES ASSUME Init PROVE OwnerInv /\ RecordInv /\ LiveInv
  OBVIOUS
<1> USE LifecycleAssumption DEF Init, IsPerCall, Calling
<1>1. OwnerInv
  BY DEF OwnerInv
<1>2. \A c \in Clients : ~IsPerCall(c)
  OBVIOUS
<1>3. Unstarted /\ LiveInv
  BY DEF Unstarted, LiveInv
<1>4. RecordInv
  BY <1>2, <1>3 DEF RecordInv, Naming, Recording, Starts, Stops
<1> QED
  BY <1>1, <1>3, <1>4

\* As long as nobody stops the broker, the metadata file of a per_call client
\* names the running process a request talks to, whatever other upstreams do:
\* only the calling thread starts, records and stops that client.  A broker stop
\* drops the file of a client that a late request has started again.
PerCallsRecorded ==
  \A t \in Threads :
    InCall(t) /\ IsPerCall(held[t]) /\ leader[lproc[t]] = "running" => files[held[t]] = lproc[t]

THEOREM PerCallsAreRecorded ==
  ASSUME "broker_stop" \notin Requests
  PROVE  Spec => []PerCallsRecorded
<1>1. Init => OwnerInv /\ RecordInv
  BY RecordInit
<1>2. IInv /\ OwnerInv /\ RecordInv /\ [Next]_vars => OwnerInv' /\ RecordInv'
  BY OwnerStep, RecordStep DEF IInv
<1>3. IInv /\ OwnerInv /\ RecordInv => PerCallsRecorded
  <2> SUFFICES ASSUME IInv, OwnerInv, RecordInv, NEW t \in Threads, InCall(t),
                      IsPerCall(held[t]), leader[lproc[t]] = "running"
               PROVE  files[held[t]] = lproc[t]
    BY DEF PerCallsRecorded
  <2>1. held[t] \in Clients /\ Calling(t, held[t]) /\ lproc[t] \in Procs
    BY DEF IInv, FrameInv, InCall, Calling, Actors
  <2>2. proc[held[t]] = lproc[t]
    BY <2>1 DEF RecordInv, Starts, StartStage, InCall
  <2>3. Recorded(held[t]) /\ proc[held[t]] # None
    BY <2>1, <2>2, LifecycleAssumption DEF RecordInv, Recording
  <2>4. ASSUME NEW u \in Threads, pc[u] = "meta", Calling(u, held[t]) PROVE FALSE
    BY <2>1, <2>4 DEF OwnerInv, InCall
  <2> QED
    BY <2>2, <2>3, <2>4 DEF Recorded
<1> QED
  BY <1>1, <1>2, <1>3, Invariance, PTL DEF Spec

\* A daemon of per_call upstreams: the reaper finds in a metadata file every
\* running process that a request talks to.
THEOREM RequestsAreRecorded ==
  ASSUME "broker_stop" \notin Requests, SharedUp = {}, SessionUp = {}
  PROVE  Spec => []CallsAreRecorded
<1>1. IInv /\ PerCallsRecorded => CallsAreRecorded
  <2> SUFFICES ASSUME IInv, PerCallsRecorded, NEW t \in Threads, InCall(t),
                      leader[lproc[t]] = "running"
               PROVE  \E n \in MetaNames : files[n] = lproc[t]
    BY DEF CallsAreRecorded
  <2>1. held[t] \in Clients /\ ckey[held[t]] # None
    BY DEF IInv, FrameInv, InCall, Actors
  <2>2. IsPerCall(held[t])
    BY <2>1, AllPerCall DEF IInv
  <2> QED
    BY <2>1, <2>2 DEF PerCallsRecorded, MetaNames
<1> QED
  BY <1>1, PerCallsAreRecorded, Invariance, PTL

\* ... and a process group that outlives stop() because it resists SIGKILL, or
\* because stop() raised, still has a client or a metadata file, as long as no
\* leader forks.
THEOREM NoGroupIsForgotten ==
  ASSUME "broker_stop" \notin Requests, SharedUp = {}, SessionUp = {}, Forking = {}
  PROVE  Spec => []LiveGroupsAccounted
<1>1. Init => OwnerInv /\ RecordInv /\ LiveInv
  BY RecordInit
<1>2. IInv /\ OwnerInv /\ RecordInv /\ LiveInv /\ [Next]_vars => OwnerInv' /\ RecordInv' /\ LiveInv'
  BY OwnerStep, RecordStep, LiveStep DEF IInv
<1>3. LiveInv => LiveGroupsAccounted
  BY DEF LiveInv, LiveGroupsAccounted, GroupAlive, MetaNames
<1> QED
  BY <1>1, <1>2, <1>3, Invariance, PTL DEF Spec
-----------------------------------------------------------------------------
(* The process groups of per_call clients beside other upstreams.          *)

\* A per_call client has the group or its file names it.  No other client
\* writes a file of that name.
PerCallGroup(p) ==
  \E c \in Clients : (IsPerCall(c) /\ proc[c] = p) \/ files[c] = p

Childless == \A p \in Procs : kids[p] = FALSE

\* No step of anybody loses a group that lives on.
GroupsKept ==
  \A p \in Procs : PerCallGroup(p) /\ GroupAlive(p)' => PerCallGroup(p)'

LEMMA ChildlessStep ==
  ASSUME Forking = {}, TypeOK, Childless, [Next]_vars
  PROVE  Childless'
<1>1. \A p \in Procs : ~LeaderForks(p)
  BY DEF LeaderForks
<1>2. \A a \in Actors : StopKill(a) => Childless'
  BY DEF StopKill, Killed, Childless, TypeOK
<1>3. \A c \in Clients : Collect(c) => Childless'
  BY DEF Collect, Killed, Childless, TypeOK
<1>4. ASSUME UNCHANGED kids PROVE Childless'
  BY <1>4 DEF Childless
<1>5. \A p \in Procs : ChildrenExit(p) => Childless'
  BY DEF ChildrenExit, Childless
<1>6. \A t \in Threads : Arrive(t) => UNCHANGED kids
  BY DEF Arrive, GetClient, GetPerCallClient, SessionStop, BrokerStop, HealthSnapshot, osVars
<1>7. \A t \in Threads : Serve(t) => UNCHANGED kids \/ StopKill(t)
  BY DEF Serve, Acquire, CapabilityStop, StartCheck, Spawn, RecordProcess, Roundtrip, TimeOut,
         Release, EndRequest, PerCallStop, AfterReset, AfterPerCallStop, SweepNext,
         AfterSweepStop, HealthPoll, Stop, StopCapture, StopRaises, StopClear, StopForget, osVars
<1>8. Sweep => UNCHANGED kids \/ StopKill(Janitor)
  BY DEF Sweep, JanitorSnapshot, JanitorVisit, JanitorPop, JanitorSleep, Stop, StopCapture,
         StopRaises, StopClear, StopForget, osVars
<1>9. (\A p \in Procs : LeaderExits(p) => UNCHANGED kids) /\ (\A c \in Clients : Age(c) => UNCHANGED kids)
  BY DEF LeaderExits, Age, osVars
<1>10. UNCHANGED vars => UNCHANGED kids
  BY DEF vars, osVars
<1> QED
  BY <1>1, <1>2, <1>3, <1>4, <1>5, <1>6, <1>7, <1>8, <1>9, <1>10 DEF Next, Environment, Actors

\* A group lives on from before the step, or has just been started in a slot
\* that nothing named.
LEMMA AliveBefore ==
  ASSUME Forking = {}, TypeOK, FrameInv, Childless, [Next]_vars,
         NEW p \in Procs, GroupAlive(p)', PerCallGroup(p)
  PROVE  leader[p] = "running" /\ leader'[p] = "running"
<1>1. leader'[p] = "running"
  BY ChildlessStep DEF Childless, GroupAlive
<1>2. \A t \in Threads : Spawn(t) => leader[p] = "running"
  <2> SUFFICES ASSUME NEW t \in Threads, Spawn(t), leader[p] # "running" PROVE FALSE
    OBVIOUS
  <2>1. FreshProc(p)
    BY <1>1 DEF Spawn, TypeOK
  <2> QED
    BY <2>1 DEF FreshProc, PerCallGroup, MetaNames
<1>3. \A t \in Threads : Arrive(t) => UNCHANGED leader
  BY DEF Arrive, GetClient, GetPerCallClient, SessionStop, BrokerStop, HealthSnapshot, osVars
<1> DEFINE Dies == \A q \in Procs : leader'[q] = "running" => leader[q] = "running"
<1>4. UNCHANGED leader => Dies
  OBVIOUS
<1>5. \A q : leader' = Polled(q) => Dies
  BY DEF Polled, TypeOK
<1>6. \A a \in Actors : StopKill(a) \/ StopRaises(a) => Dies
  BY DEF StopKill, StopRaises, Killed, TypeOK
<1>7. \A c \in Clients : Collect(c) => Dies
  BY DEF Collect, Killed, osVars, TypeOK
<1>8. \A q \in Procs : LeaderExits(q) \/ LeaderForks(q) \/ ChildrenExit(q) => Dies
  BY DEF LeaderExits, LeaderForks, ChildrenExit, TypeOK
<1> HIDE DEF Dies
<1>9. \A t \in Threads : Serve(t) => Dies \/ Spawn(t)
  <2>1. \A t \in Threads : StartCheck(t) \/ RecordProcess(t) \/ Roundtrip(t) \/ HealthPoll(t) => Dies
    BY <1>4, <1>5 DEF StartCheck, RecordProcess, Roundtrip, HealthPoll, osVars
  <2>2. \A t \in Threads : Acquire(t) \/ CapabilityStop(t) \/ TimeOut(t) \/ Release(t) \/ PerCallStop(t)
          \/ AfterReset(t) \/ AfterPerCallStop(t) \/ SweepNext(t) \/ AfterSweepStop(t)
          \/ StopCapture(t) \/ StopClear(t) \/ StopForget(t) => UNCHANGED leader
    BY DEF Acquire, CapabilityStop, TimeOut, Release, EndRequest, PerCallStop, AfterReset,
           AfterPerCallStop, SweepNext, AfterSweepStop, StopCapture, StopClear, StopForget, osVars
  <2> QED
    BY <1>4, <1>6, <2>1, <2>2 DEF Serve, Stop, Actors
<1>10. Sweep => Dies
  <2>1. JanitorVisit => Dies
    BY <1>4, <1>5 DEF JanitorVisit
  <2>2. JanitorSnapshot \/ JanitorPop \/ JanitorSleep \/ StopCapture(Janitor)
          \/ StopClear(Janitor) \/ StopForget(Janitor) => UNCHANGED leader
    BY DEF JanitorSnapshot, JanitorPop, JanitorSleep, StopCapture, StopClear, StopForget, osVars
  <2> QED
    BY <1>4, <1>6, <2>1, <2>2 DEF Sweep, Stop, Actors
<1>11. \A c \in Clients : Age(c) => UNCHANGED leader
  BY DEF Age, osVars
<1>12. UNCHANGED vars => UNCHANGED leader
  BY DEF vars, osVars
<1>13. Dies => leader[p] = "running"
  BY <1>1 DEF Dies
<1> QED
  BY <1>1, <1>2, <1>3, <1>4, <1>7, <1>8, <1>9, <1>10, <1>11, <1>12, <1>13 DEF Next, Environment

\* A client writes under its own name only if it is a per_call client.
LEMMA FileOwner ==
  ASSUME TypeOK, NEW c \in Clients, NEW d \in Clients, ckey[d] # None
  PROVE  MetaName(d) \in MetaNames /\ (MetaName(d) = c => d = c /\ IsPerCall(c))
<1>1. CASE IsPerCall(d)
  BY <1>1 DEF MetaName, MetaNames
<1>2. CASE ~IsPerCall(d)
  <2>1. ckey[d] \in Keys
    BY <1>2 DEF TypeOK, IsPerCall
  <2>2. ckey[d][1] \in SharedUp \cup SessionUp
    BY <2>1 DEF Keys, SharedKeys, SessionKeys
  <2> QED
    BY <1>2, <2>2, LifecycleAssumption DEF MetaName, MetaNames
<1> QED
  BY <1>1, <1>2

\* If the file names a running process, the client has no other.
LEMMA RunningIsOwned ==
  ASSUME TypeOK, RecordInv, NEW c \in Clients, NEW p \in Procs, leader[p] = "running",
         IsPerCall(c), files[c] = p
  PROVE  proc[c] \in {None, p}
BY LifecycleAssumption DEF RecordInv, Naming, Named

LEMMA GroupStep ==
  ASSUME TypeOK, FrameInv, KeyInv, OwnerInv, RecordInv, [Next]_vars, NEW p \in Procs,
         leader[p] = "running", leader'[p] = "running", PerCallGroup(p)
  PROVE  PerCallGroup(p)'
<1> USE LifecycleAssumption
\* Nothing of the group's client changes, or not what names the group.
<1>k. ASSUME UNCHANGED <<ckey, proc, files>> PROVE PerCallGroup(p)'
  BY <1>k DEF PerCallGroup, IsPerCall
<1>h. \A a \in Actors : pc[a] \in {"start", "spawn", "meta", "s_clear", "s_meta"} =>
        held[a] \in Clients /\ ckey[held[a]] # None
  BY DEF FrameInv, TypeOK
<1>c. \A a \in Actors : pc[a] \in {"start", "spawn", "meta", "s_clear", "s_meta"} /\ IsPerCall(held[a]) =>
        a \in Threads /\ Calling(a, held[a]) /\ StartStage(a, held[a]) /\ StopStage(a, held[a])
  BY <1>h DEF OwnerInv, RecordInv, Starts, Stops, Calling, Actors
<1>1. ASSUME NEW t \in Threads, Arrive(t) PROVE PerCallGroup(p)'
  <2>1. UNCHANGED <<proc, files>>
    BY <1>1 DEF Arrive, GetClient, GetPerCallClient, SessionStop, BrokerStop, HealthSnapshot,
                clientVars, osVars
  <2>2. \A c \in Clients : ckey[c] # None => ckey'[c] = ckey[c]
    BY <1>1 DEF Arrive, GetClient, GetPerCallClient, SessionStop, BrokerStop, HealthSnapshot,
                clientVars, FreshClient, TypeOK
  <2>3. \A c \in Clients : IsPerCall(c) => IsPerCall(c)'
    BY <2>2 DEF IsPerCall
  <2> QED
    BY <2>1, <2>3 DEF PerCallGroup
<1>2. ASSUME NEW t \in Threads, StartCheck(t) PROVE PerCallGroup(p)'
  <2>1. UNCHANGED <<ckey, proc>> /\ held[t] \in Clients /\ ckey[held[t]] # None
        /\ pc[t] = "start"
    BY <1>2, <1>h DEF StartCheck, clientVars, Actors
  <2>2. CASE UNCHANGED files
    BY <1>k, <2>1, <2>2
  <2>3. CASE /\ proc[held[t]] # None /\ leader[proc[held[t]]] # "running"
             /\ files' = [files EXCEPT ![MetaName(held[t])] = None]
    <3>1. \A c \in Clients : files[c] = p => files'[c] = p
      <4> SUFFICES ASSUME NEW c \in Clients, files[c] = p, files'[c] # p PROVE FALSE
        OBVIOUS
      <4>1. MetaName(held[t]) = c
        BY <2>3
      <4>2. held[t] = c /\ IsPerCall(c)
        BY <2>1, <4>1, FileOwner
      <4>3. proc[c] \in {None, p}
        BY <4>2, RunningIsOwned
      <4> QED
        BY <2>3, <4>2, <4>3
    <3> QED
      BY <2>1, <3>1 DEF PerCallGroup, IsPerCall
  <2> QED
    BY <1>2, <2>2, <2>3 DEF StartCheck, osVars
<1>3. ASSUME NEW t \in Threads, Spawn(t) PROVE PerCallGroup(p)'
  <2>1. UNCHANGED <<ckey, files>> /\ pc[t] = "spawn"
    BY <1>3 DEF Spawn
  <2>2. held[t] \in Clients /\ \A c \in Clients \ {held[t]} : proc'[c] = proc[c]
    BY <1>3, <1>h, <2>1 DEF Spawn, TypeOK, Actors
  <2>3. CASE IsPerCall(held[t]) /\ proc[held[t]] = p
    BY <1>c, <2>1, <2>3 DEF StartStage, Actors
  <2>4. CASE ~(IsPerCall(held[t]) /\ proc[held[t]] = p)
    BY <2>1, <2>2, <2>4 DEF PerCallGroup, IsPerCall
  <2> QED
    BY <2>3, <2>4
<1>4. ASSUME NEW t \in Threads, RecordProcess(t) PROVE PerCallGroup(p)'
  <2>1. UNCHANGED <<ckey, proc>> /\ held[t] \in Clients /\ ckey[held[t]] # None
        /\ pc[t] = "meta"
    BY <1>4, <1>h DEF RecordProcess, clientVars, Actors
  <2>2. CASE UNCHANGED files
    BY <1>k, <2>1, <2>2
  <2>3. CASE files' = [files EXCEPT ![MetaName(held[t])] = proc[held[t]]]
    <3>1. \A c \in Clients : files[c] = p => files'[c] = p
      <4> SUFFICES ASSUME NEW c \in Clients, files[c] = p, files'[c] # p PROVE FALSE
        OBVIOUS
      <4>1. MetaName(held[t]) = c
        BY <2>3
      <4>2. held[t] = c /\ IsPerCall(c)
        BY <2>1, <4>1, FileOwner
      <4>3. files[c] = None
        BY <1>c, <2>1, <4>2 DEF StartStage, Actors
      <4> QED
        BY <4>3
    <3> QED
      BY <2>1, <3>1 DEF PerCallGroup, IsPerCall
  <2> QED
    BY <1>4, <2>2, <2>3 DEF RecordProcess
<1>5. ASSUME NEW a \in Actors, StopClear(a) PROVE PerCallGroup(p)'
  <2>1. UNCHANGED <<ckey, files>> /\ pc[a] = "s_clear"
    BY <1>5 DEF StopClear, osVars
  <2>2. held[a] \in Clients /\ \A c \in Clients \ {held[a]} : proc'[c] = proc[c]
    BY <1>5, <1>h, <2>1 DEF StopClear, TypeOK
  <2>3. CASE IsPerCall(held[a]) /\ proc[held[a]] = p
    <3>1. a \in Threads /\ Calling(a, held[a])
      BY <1>c, <2>1, <2>3
    <3>2. Recorded(held[a]) /\ p # None
      BY <2>2, <2>3 DEF RecordInv, Recording
    <3>3. ASSUME NEW t \in Threads, pc[t] = "meta", Calling(t, held[a]) PROVE FALSE
      BY <2>1, <2>2, <2>3, <3>1, <3>3 DEF OwnerInv
    <3>4. files[held[a]] = p
      BY <2>3, <3>2, <3>3 DEF Recorded
    <3> QED
      BY <2>1, <2>2, <3>4 DEF PerCallGroup
  <2>4. CASE ~(IsPerCall(held[a]) /\ proc[held[a]] = p)
    BY <2>1, <2>2, <2>4 DEF PerCallGroup, IsPerCall
  <2> QED
    BY <2>3, <2>4
<1>6. ASSUME NEW a \in Actors, StopForget(a) PROVE PerCallGroup(p)'
  <2>1. UNCHANGED <<ckey, proc>> /\ held[a] \in Clients /\ ckey[held[a]] # None
        /\ pc[a] = "s_meta"
    BY <1>6, <1>h DEF StopForget, clientVars
  <2>2. CASE UNCHANGED files
    BY <1>k, <2>1, <2>2
  <2>3. CASE ~left[a] /\ files' = [files EXCEPT ![MetaName(held[a])] = None]
    <3>1. \A c \in Clients : files[c] = p => files'[c] = p
      <4> SUFFICES ASSUME NEW c \in Clients, files[c] = p, files'[c] # p PROVE FALSE
        OBVIOUS
      <4>1. MetaName(held[a]) = c
        BY <2>3
      <4>2. held[a] = c /\ IsPerCall(c)
        BY <2>1, <4>1, FileOwner
      <4>3. StopStage(a, c)
        BY <1>c, <2>1, <4>2
      <4> QED
        BY <2>1, <2>3, <4>3 DEF StopStage
    <3> QED
      BY <2>1, <3>1 DEF PerCallGroup, IsPerCall
  <2> QED
    BY <1>6, <2>2, <2>3 DEF StopForget, RecordDropped
<1>7. ASSUME NEW c \in Clients, Collect(c) PROVE PerCallGroup(p)'
  <2>1. \A d \in Clients \ {c} : ckey'[d] = ckey[d] /\ proc'[d] = proc[d]
    BY <1>7 DEF Collect, TypeOK
  <2>2. ckey[c] # None /\ ~Referenced(c)
    BY <1>7 DEF Collect
  <2>3. UNCHANGED files \/ files' = [files EXCEPT ![MetaName(c)] = None]
    BY <1>7 DEF Collect, osVars
  <2>n. \A d \in Clients : MetaName(c) # d => files'[d] = files[d]
    BY <2>3 DEF TypeOK, MetaNames
  <2>4. \A d \in Clients \ {c} : files'[d] = files[d]
    <3> SUFFICES ASSUME NEW d \in Clients \ {c} PROVE MetaName(c) # d
      BY <2>n
    <3> QED
      BY <2>2, FileOwner
  <2>5. CASE ~IsPerCall(c)
    <3>1. files'[c] = files[c]
      BY <2>2, <2>5, <2>n, FileOwner
    <3> QED
      BY <2>1, <2>4, <2>5, <3>1 DEF PerCallGroup, IsPerCall
  <2>6. ASSUME IsPerCall(c), proc[c] = p \/ files[c] = p PROVE files'[c] = p
    <3>1. p # None /\ proc[c] \in {None, p}
      BY <2>6, RunningIsOwned
    <3>2. CASE proc[c] = None
      BY <1>7, <2>6, <3>1, <3>2 DEF Collect, osVars
    <3>3. CASE proc[c] = p
      <4>1. files[c] = p
        BY <2>2, <2>6, <3>1, <3>3 DEF RecordInv, Recording, Recorded, Calling, Referenced, Actors
      <4>2. ASSUME Killed(p) PROVE FALSE
        BY <4>2 DEF Killed, TypeOK
      <4>3. files' = files
        BY <1>7, <3>1, <3>3, <4>2 DEF Collect, GroupAlive
      <4> QED
        BY <4>1, <4>3
    <3> QED
      BY <3>1, <3>2, <3>3
  <2> QED
    BY <2>1, <2>4, <2>5, <2>6 DEF PerCallGroup, IsPerCall
<1>8. ASSUME NEW t \in Threads, Serve(t) PROVE PerCallGroup(p)'
  <2>1. Acquire(t) \/ CapabilityStop(t) \/ Roundtrip(t) \/ TimeOut(t) \/ Release(t) \/ PerCallStop(t)
          \/ AfterReset(t) \/ AfterPerCallStop(t) \/ SweepNext(t) \/ AfterSweepStop(t)
          \/ HealthPoll(t) \/ StopCapture(t) \/ StopKill(t) \/ StopRaises(t)
        => UNCHANGED <<ckey, proc, files>>
    BY DEF Acquire, CapabilityStop, Roundtrip, TimeOut, Release, PerCallStop, AfterReset,
           AfterPerCallStop, SweepNext, AfterSweepStop, HealthPoll, StopCapture, StopKill,
           StopRaises, clientVars, osVars
  <2> QED
    BY <1>k, <1>2, <1>3, <1>4, <1>5, <1>6, <1>8, <2>1 DEF Serve, Stop, Actors
<1>9. CASE Sweep
  <2>1. JanitorSnapshot \/ JanitorVisit \/ JanitorPop \/ JanitorSleep \/ StopCapture(Janitor)
          \/ StopKill(Janitor) \/ StopRaises(Janitor)
        => UNCHANGED <<ckey, proc, files>>
    BY DEF JanitorSnapshot, JanitorVisit, JanitorPop, JanitorSleep, StopCapture, StopKill,
           StopRaises, clientVars, osVars
  <2> QED
    BY <1>k, <1>5, <1>6, <1>9, <2>1 DEF Sweep, Stop, Actors
<1>10. CASE Environment \/ UNCHANGED vars
  <2>1. UNCHANGED <<ckey, proc, files>>
    BY <1>10 DEF Environment, LeaderExits, LeaderForks, ChildrenExit, Age, vars, clientVars, osVars
  <2> QED
    BY <1>k, <2>1
<1> QED
  BY <1>1, <1>7, <1>8, <1>9, <1>10 DEF Next

\* Whatever shared and per_session upstreams do beside it, the process group of
\* a per_call client is never forgotten while it lives: from its start on the
\* client has it, or the client's metadata file names it, as long as nobody
\* stops the broker and no leader forks (upstream_stdio.py, stop and _start).
THEOREM PerCallGroupsAreKept ==
  ASSUME "broker_stop" \notin Requests, Forking = {}
  PROVE  Spec => [][GroupsKept]_vars
<1>1. Init => OwnerInv /\ RecordInv /\ Childless
  BY RecordInit DEF LiveInv, Childless
<1>2. IInv /\ OwnerInv /\ RecordInv /\ Childless /\ [Next]_vars
        => OwnerInv' /\ RecordInv' /\ Childless'
  BY OwnerStep, RecordStep, ChildlessStep DEF IInv
<1>3. IInv /\ OwnerInv /\ RecordInv /\ Childless /\ [Next]_vars => GroupsKept
  BY AliveBefore, GroupStep DEF IInv, GroupsKept
<1> QED
  BY <1>1, <1>2, <1>3, Invariance, PTL DEF Spec
=============================================================================
