------------------------- MODULE ServerModelsProofs -------------------------
(***************************************************************************)
(* Proofs about ServerModels, for every set of callers, every server and   *)
(* any number of holds.                                                    *)
(*                                                                         *)
(* What the threads do to each other goes through the model thread's       *)
(* queue, so the invariant is about what is in it and in which order:      *)
(* QueueInv says that an unload is never behind the load that follows it   *)
(* and that a caller whose query is queued is waiting for it; PassInv that *)
(* nobody may start a pass while one is queued or runs; ModelsInv what     *)
(* the phase then says of the memory; HoldInv who may clear the flag of a  *)
(* hold.                                                                   *)
(***************************************************************************)
EXTENDS ServerModels, FiniteSetTheorems, TLAPS

\* The two jobs that drop the models.
Unloads == {"unload", "pressure_unload"}

\* A warm-up pass is on the model thread; a load, an unload waits for it.
PassRuns == mt \in {"refused", "loading", "loaded"}
LoadQueued == \E i \in DOMAIN jobs : jobs[i] = "load"
UnloadQueued == \E i \in DOMAIN jobs : jobs[i] \in Unloads

\* No load and no caller's query is queued twice, unloads come before the load,
\* and a caller whose query is queued waits for it.
QueueInv ==
    /\ \A i, j \in DOMAIN jobs :
           jobs[i] = jobs[j] /\ jobs[i] \in Callers \cup {"load"} => i = j
    /\ \A i, j \in DOMAIN jobs : jobs[i] \in Unloads /\ jobs[j] = "load" => i < j
    /\ \A i \in DOMAIN jobs : jobs[i] \in Callers => at[jobs[i]] = "asking" /\ jobs[i] # mt

\* While a pass is queued or runs the phase keeps everybody from asking for
\* another and from dropping the models.
PassInv ==
    /\ PassRuns => ~LoadQueued /\ ~UnloadQueued
    /\ PassRuns \/ LoadQueued => phase \in {"warming", "failed"}

\* What the phase, the queue and the model thread's place say of the models: a
\* call is served only while they are loaded and no unload is on its way.
ModelsInv ==
    /\ \A c \in Callers : at[c] \in {"serving", "asking"} => phase = "ready"
    /\ phase = "ready" => loaded /\ ~UnloadQueued
    /\ phase \in {"not_started", "memory_busy"} => ~loaded
    /\ phase = "unloaded" \/ LoadQueued => ~loaded \/ UnloadQueued
    /\ mt \in {"refused", "loading", "dropped", "dropped_for_pressure"} => ~loaded
    /\ mt = "loaded" => loaded
    /\ mt \in {"loading", "loaded"} \/ loaded => reserved

\* The flag of a hold stands only between passes, and the watchdog looks at it
\* before its rewarm.
HoldInv ==
    /\ forHold => phase # "not_started" /\ ~PassRuns /\ ~LoadQueued
    /\ wd = "retry" => ~forHold

\* Where the next pass may begin, or is queued, the last reservation is given
\* back or about to be: an unload is queued or just done.
ReservedInv ==
    LoadQueued \/ mt = "refused" \/ phase \in Startable
        => ~reserved \/ UnloadQueued \/ mt \in {"dropped", "dropped_for_pressure"}

IInv ==
    /\ TypeOK
    /\ QueueInv
    /\ PassInv
    /\ ModelsInv
    /\ HoldInv

----------------------------------------------------------------------------
(* Types.                                                                  *)

\* The queue stays a queue of jobs when one is added,
LEMMA Grows ==
    ASSUME jobs \in Seq(Jobs), NEW job \in Jobs
    PROVE  Append(jobs, job) \in Seq(Jobs)
  OBVIOUS

\* and when one is taken.
LEMMA Shrinks ==
    ASSUME jobs \in Seq(Jobs), jobs # << >>
    PROVE  Tail(jobs) \in Seq(Jobs) /\ Head(jobs) \in Jobs
  OBVIOUS

\* So it does in start() and when the models are to be dropped.
LEMMA StartTypes ==
    ASSUME TypeOK, Start
    PROVE  phase' \in Phases /\ jobs' \in Seq(Jobs)
  BY Grows DEF TypeOK, Start, Phases, Jobs

LEMMA DropTypes ==
    ASSUME TypeOK, NEW job \in Unloads, DropModels(job)
    PROVE  phase' \in Phases /\ jobs' \in Seq(Jobs)
  BY Grows DEF TypeOK, DropModels, Phases, Jobs, Unloads

\* No caller is taken for a job of the server's own or for a place of the
\* model thread.
LEMMA CallersApart ==
    /\ "load" \notin Callers
    /\ \A job \in Unloads : job \notin Callers /\ job # "load"
    /\ \A c \in Callers : c \notin {"idle", "refused", "loading", "loaded", "ending",
                                   "dropped", "dropped_for_pressure"}
  BY ConfigAssumption DEF Unloads

\* What may be queued.
LEMMA JobKinds == "load" \in Jobs /\ Unloads \subseteq Jobs /\ Callers \subseteq Jobs
  BY DEF Jobs, Unloads

\* Every action keeps the types.
LEMMA TypeStep ==
    ASSUME TypeOK, QueueInv, [Next]_vars
    PROVE  TypeOK'
  <1> USE CallersApart DEF TypeOK, Phases, ModelThreadPoints, CallPoints,
             WatchdogPoints
  <1>0. CASE UNCHANGED vars
    BY <1>0 DEF vars, warmUp, host, holdVars, unloader
  <1>1. CASE Admit
    BY <1>1, Shrinks, JobKinds, Grows DEF Admit, NextJobIs, holdVars, unloader
  <1>2. CASE Refuse
    BY <1>2, Shrinks, JobKinds, Grows DEF Refuse, NextJobIs, warmUp, holdVars, unloader
  <1>3. CASE PublishRefusal
    <2>1. retryDue' \in BOOLEAN
      BY <1>3, Zenon DEF PublishRefusal, host, holdVars, unloader
    <2> QED
      BY <1>3, <2>1 DEF PublishRefusal, host, holdVars, unloader
  <1>4. CASE Load
    BY <1>4 DEF Load, warmUp, holdVars, unloader
  <1>5. CASE LoadFails
    BY <1>5 DEF LoadFails, holdVars, unloader
  <1>6. CASE PublishReady
    BY <1>6 DEF PublishReady, host, holdVars, unloader
  <1>7. CASE EndPass
    BY <1>7 DEF EndPass, host, holdVars, unloader
  <1>8. ASSUME NEW job \in Unloads, Unload(job) PROVE TypeOK'
    <2>1. loaded' \in BOOLEAN
      BY <1>8, Zenon DEF Unload, NextJobIs, Unloads, warmUp, holdVars, unloader
    <2> QED
      BY <1>8, <2>1, Shrinks DEF Unload, NextJobIs, Unloads, warmUp, holdVars, unloader
  <1>9. CASE AfterUnload
    <2>1. reserved' \in BOOLEAN
      BY <1>9, Zenon DEF AfterUnload, warmUp, holdVars, unloader
    <2> QED
      BY <1>9, <2>1 DEF AfterUnload, warmUp, holdVars, unloader
  <1>10. ASSUME NEW c \in Callers, Query(c) PROVE TypeOK'
    <2>1. 1 \in DOMAIN jobs /\ Head(jobs) = jobs[1]
      BY <1>10 DEF Query, NextJobIs
    <2>2. at[c] = "asking"
      BY <1>10, <2>1 DEF Query, NextJobIs, QueueInv
    <2> QED
      BY <1>10, <2>2, Shrinks DEF Query, NextJobIs, warmUp, host, holdVars, unloader
  <1>11. ASSUME NEW c \in Callers, EndQuery(c) PROVE TypeOK'
    BY <1>11 DEF EndQuery, warmUp, holdVars, unloader
  <1>12. ASSUME NEW c \in Callers, ReadHold(c) PROVE TypeOK'
    BY <1>12 DEF ReadHold, warmUp, host, holdVars
  <1>13. ASSUME NEW c \in Callers, Register(c) PROVE TypeOK'
    <2>1. idle' \in BOOLEAN /\ forHold' \in BOOLEAN
      BY <1>13, Zenon DEF Register, Start, Starts, Startable, host, holdVars
    <2> QED
      BY <1>13, <2>1, StartTypes DEF Register, host, holdVars
  <1>14. ASSUME NEW c \in Callers, SeeReady(c) PROVE TypeOK'
    BY <1>14 DEF SeeReady, warmUp, host, holdVars, unloader
  <1>15. ASSUME NEW c \in Callers, LeaveUnserved(c) PROVE TypeOK'
    <2>1. idle' \in BOOLEAN
      BY <1>15, Zenon DEF LeaveUnserved, warmUp, host, holdVars
    <2> QED
      BY <1>15, <2>1 DEF LeaveUnserved, warmUp, host, holdVars
  <1>16. ASSUME NEW c \in Callers, Ask(c) PROVE TypeOK'
    BY <1>16, Shrinks, JobKinds, Grows DEF Ask, warmUp, host, holdVars, unloader
  <1>17. ASSUME NEW c \in Callers, Answer(c) PROVE TypeOK'
    <2>1. idle' \in BOOLEAN
      BY <1>17, Zenon DEF Answer, warmUp, host, holdVars
    <2> QED
      BY <1>17, <2>1 DEF Answer, warmUp, host, holdVars
  <1>18. CASE LookForHold
    BY <1>18 DEF LookForHold, warmUp, host, holdVars
  <1>19. CASE UnloadIfHeld
    <2>1. reserved' \in BOOLEAN /\ forHold' \in BOOLEAN /\ readySeen' \in BOOLEAN
      BY <1>19, Zenon DEF UnloadIfHeld, DropModels, MayDrop, InFlight, holdVars
    <2> QED
      BY <1>19, <2>1, DropTypes DEF UnloadIfHeld, Unloads, holdVars
  <1>20. CASE LookForHoldEnd
    BY <1>20 DEF LookForHoldEnd, warmUp, host, holdVars
  <1>21. CASE ReloadAfterHold
    <2>1. forHold' \in BOOLEAN
      BY <1>21, Zenon DEF ReloadAfterHold, Start, Starts, Startable, host, holdVars
    <2> QED
      BY <1>21, <2>1, StartTypes DEF ReloadAfterHold, host, holdVars
  <1>22. CASE ReleaseUnderPressure
    <2>1. readySeen' \in BOOLEAN
      BY <1>22, Zenon
         DEF ReleaseUnderPressure, DropModels, MayDrop, InFlight, host, holdVars
    <2> QED
      BY <1>22, <2>1, DropTypes DEF ReleaseUnderPressure, Unloads, host, holdVars
  <1>23. CASE UnloadIfIdle
    <2>1. readySeen' \in BOOLEAN /\ idle' \in BOOLEAN
      BY <1>23, Zenon DEF UnloadIfIdle, DropModels, MayDrop, InFlight, host, holdVars
    <2> QED
      BY <1>23, <2>1, DropTypes DEF UnloadIfIdle, Unloads, host, holdVars
  <1>24. CASE LookForRewarm
    BY <1>24 DEF LookForRewarm, warmUp, host, holdVars, unloader
  <1>25. CASE RewarmIfDue
    BY <1>25, Shrinks, JobKinds, Grows
       DEF RewarmIfDue, Start, Starts, Startable, host, holdVars
  <1>26. CASE Tick
    BY <1>26 DEF Tick, warmUp, holdVars, unloader
  <1>27. CASE RetryComesDue
    BY <1>27 DEF RetryComesDue, host, holdVars, unloader
  <1>28. CASE CooldownEnds
    BY <1>28 DEF CooldownEnds, warmUp, host, holdVars
  <1>29. CASE IdlePeriodPasses
    BY <1>29 DEF IdlePeriodPasses, warmUp, host, holdVars
  <1>30. CASE SetHold
    BY <1>30, ConfigAssumption DEF SetHold, warmUp, host, unloader
  <1>31. CASE EndHold
    <2>1. hold' \in BOOLEAN
      BY <1>31, Zenon DEF EndHold, warmUp, host, unloader
    <2> QED
      BY <1>31, <2>1 DEF EndHold, warmUp, host, unloader
  <1> QED
    BY <1>0, <1>1, <1>2, <1>3, <1>4, <1>5, <1>6, <1>7, <1>8, <1>9,
       <1>10, <1>11, <1>12, <1>13, <1>14, <1>15, <1>16, <1>17, <1>18,
       <1>19, <1>20, <1>21, <1>22, <1>23, <1>24, <1>25, <1>26, <1>27,
       <1>28, <1>29, <1>30, <1>31
       DEF Next, ModelThread, Call, Watchdog, Environment, Unloads

----------------------------------------------------------------------------
(* What a step does to the queue.                                          *)

\* A queue left alone holds what it held.
LEMMA SameQueue ==
    ASSUME UNCHANGED jobs
    PROVE  (LoadQueued' <=> LoadQueued) /\ (UnloadQueued' <=> UnloadQueued)
  BY DEF LoadQueued, UnloadQueued

\* A queued job is found in the queue, and nothing that was there is lost.
LEMMA GrownQueue ==
    ASSUME jobs \in Seq(Jobs), NEW job \in Jobs, jobs' = Append(jobs, job)
    PROVE  /\ LoadQueued' <=> LoadQueued \/ job = "load"
           /\ UnloadQueued' <=> UnloadQueued \/ job \in Unloads
  <1>1. /\ DOMAIN jobs = 1 .. Len(jobs)
        /\ DOMAIN jobs' = 1 .. Len(jobs) + 1
        /\ Len(jobs) \in Nat
        /\ \A i \in 1 .. Len(jobs) : jobs'[i] = jobs[i]
        /\ jobs'[Len(jobs) + 1] = job
    OBVIOUS
  <1>2. \A i \in 1 .. Len(jobs) + 1 : i = Len(jobs) + 1 \/ i \in 1 .. Len(jobs)
    BY <1>1
  <1>3. \A i \in 1 .. Len(jobs) : i \in 1 .. Len(jobs) + 1
    BY <1>1
  <1>4. Len(jobs) + 1 \in 1 .. Len(jobs) + 1
    BY <1>1
  <1> QED
    BY <1>1, <1>2, <1>3, <1>4, Zenon DEF LoadQueued, UnloadQueued

\* Taking the load leaves neither a load nor an unload behind: the one there
\* was is gone, and the unloads were in front of it.
LEMMA ShrunkQueue ==
    ASSUME jobs \in Seq(Jobs), QueueInv, jobs # << >>, jobs' = Tail(jobs)
    PROVE  /\ LoadQueued' => LoadQueued
           /\ UnloadQueued' => UnloadQueued
           /\ UnloadQueued /\ Head(jobs) \notin Unloads => UnloadQueued'
           /\ LoadQueued /\ Head(jobs) # "load" => LoadQueued'
           /\ Head(jobs) = "load" => LoadQueued /\ ~LoadQueued' /\ ~UnloadQueued
           /\ Head(jobs) \in Unloads => UnloadQueued
  <1>1. /\ DOMAIN jobs = 1 .. Len(jobs)
        /\ DOMAIN jobs' = 1 .. Len(jobs) - 1
        /\ Len(jobs) \in Nat \ {0}
        /\ \A i \in 1 .. Len(jobs) - 1 : jobs'[i] = jobs[i + 1]
        /\ Head(jobs) = jobs[1]
    OBVIOUS
  <1>2. \A i \in 1 .. Len(jobs) - 1 : i + 1 \in 1 .. Len(jobs)
    BY <1>1
  <1>3. LoadQueued' => LoadQueued
    BY <1>1, <1>2, Zenon DEF LoadQueued
  <1>4. UnloadQueued' => UnloadQueued
    BY <1>1, <1>2, Zenon DEF UnloadQueued
  <1>5. 1 \in 1 .. Len(jobs)
    BY <1>1
  <1>6. ASSUME NEW i \in 1 .. Len(jobs), i # 1
        PROVE  i - 1 \in 1 .. Len(jobs) - 1 /\ jobs'[i - 1] = jobs[i]
    BY <1>1, <1>6
  <1>7. UnloadQueued /\ Head(jobs) \notin Unloads => UnloadQueued'
    BY <1>1, <1>6, Zenon DEF UnloadQueued
  <1>8. LoadQueued /\ Head(jobs) # "load" => LoadQueued'
    BY <1>1, <1>6, Zenon DEF LoadQueued
  <1>9. ASSUME Head(jobs) = "load" PROVE LoadQueued /\ ~LoadQueued' /\ ~UnloadQueued
    <2>1. LoadQueued
      BY <1>1, <1>5, <1>9 DEF LoadQueued
    <2>2. ~LoadQueued'
      BY <1>1, <1>2, <1>5, <1>9 DEF LoadQueued, QueueInv
    <2>3. ~UnloadQueued
      BY <1>1, <1>5, <1>9 DEF UnloadQueued, QueueInv
    <2> QED
      BY <2>1, <2>2, <2>3
  <1>10. Head(jobs) \in Unloads => UnloadQueued
    BY <1>1, <1>5 DEF UnloadQueued
  <1> QED
    BY <1>3, <1>4, <1>7, <1>8, <1>9, <1>10

\* Whoever calls start(): a load is queued behind what is there, or nothing
\* happens.
LEMMA StartQueue ==
    ASSUME TypeOK, Start
    PROVE  /\ Starts => phase' = "warming" /\ LoadQueued'
           /\ ~Starts => phase' = phase /\ (LoadQueued' <=> LoadQueued)
           /\ UnloadQueued' <=> UnloadQueued
  <1>1. jobs \in Seq(Jobs) /\ "load" \in Jobs /\ "load" \notin Unloads
    BY DEF TypeOK, Jobs, Unloads
  <1>2. CASE Starts
    BY <1>1, <1>2, GrownQueue DEF Start
  <1>3. CASE ~Starts
    BY <1>3, SameQueue DEF Start
  <1> QED
    BY <1>2, <1>3

\* Dropping the models queues an unload and nothing else.
LEMMA DropQueue ==
    ASSUME TypeOK, NEW job \in Unloads, DropModels(job)
    PROVE  phase' = "unloaded" /\ UnloadQueued' /\ (LoadQueued' <=> LoadQueued)
  <1>1. jobs \in Seq(Jobs) /\ job \in Jobs /\ job # "load"
    BY DEF TypeOK, Jobs, Unloads
  <1> QED
    BY <1>1, GrownQueue DEF DropModels

\* The order of the queue survives when it is left alone and no queued caller
\* stops waiting,
LEMMA OrderKept ==
    ASSUME QueueInv, UNCHANGED jobs,
           mt' = mt \/ mt' \notin Callers,
           \A c \in Callers : at[c] = "asking" /\ c # mt => at'[c] = "asking"
    PROVE  QueueInv'
  BY CallersApart DEF QueueInv

\* when its first job is taken,
LEMMA OrderTaken ==
    ASSUME jobs \in Seq(Jobs), QueueInv, jobs # << >>, jobs' = Tail(jobs), at' = at,
           mt' = Head(jobs) \/ mt' \notin Callers
    PROVE  QueueInv'
  <1>1. /\ DOMAIN jobs = 1 .. Len(jobs)
        /\ DOMAIN jobs' = 1 .. Len(jobs) - 1
        /\ Len(jobs) \in Nat \ {0}
        /\ \A i \in 1 .. Len(jobs) - 1 : jobs'[i] = jobs[i + 1]
        /\ Head(jobs) = jobs[1]
    OBVIOUS
  <1>2. \A i \in 1 .. Len(jobs) - 1 : i + 1 \in 1 .. Len(jobs) /\ i \in Nat
    BY <1>1
  <1>3. 1 \in 1 .. Len(jobs)
    BY <1>1
  <1>4. ASSUME NEW i \in DOMAIN jobs', NEW j \in DOMAIN jobs'
        PROVE  /\ jobs'[i] = jobs'[j] /\ jobs'[i] \in Callers \cup {"load"} => i = j
               /\ jobs'[i] \in Unloads /\ jobs'[j] = "load" => i < j
    BY <1>1, <1>2 DEF QueueInv
  <1>5. ASSUME NEW i \in DOMAIN jobs', jobs'[i] \in Callers
        PROVE  at'[jobs'[i]] = "asking" /\ jobs'[i] # mt'
    <2>1. /\ jobs'[i] = jobs[i + 1] /\ i + 1 \in DOMAIN jobs /\ 1 \in DOMAIN jobs
          /\ i + 1 # 1
      BY <1>1, <1>2, <1>3
    <2> QED
      BY <1>1, <1>5, <2>1 DEF QueueInv
  <1> QED
    BY <1>4, <1>5 DEF QueueInv

\* and when a job is added behind: a second load or a second query of the same
\* caller never, an unload only where no load waits.
LEMMA OrderAdded ==
    ASSUME jobs \in Seq(Jobs), QueueInv, NEW job \in Jobs, jobs' = Append(jobs, job),
           mt' = mt,
           \A c \in Callers : at[c] = "asking" => at'[c] = "asking",
           job \in Unloads \cup {"load"} => ~LoadQueued,
           job \in Callers => at[job] # "asking" /\ at'[job] = "asking" /\ job # mt
    PROVE  QueueInv'
  <1>1. /\ DOMAIN jobs = 1 .. Len(jobs)
        /\ DOMAIN jobs' = 1 .. Len(jobs) + 1
        /\ Len(jobs) \in Nat
        /\ \A i \in 1 .. Len(jobs) : jobs'[i] = jobs[i]
        /\ jobs'[Len(jobs) + 1] = job
    OBVIOUS
  <1>2. \A i \in DOMAIN jobs' :
            \/ i \in DOMAIN jobs /\ jobs'[i] = jobs[i] /\ i < Len(jobs) + 1
            \/ i = Len(jobs) + 1 /\ jobs'[i] = job
    BY <1>1
  <1>3. \A i \in DOMAIN jobs : jobs[i] \in Callers => at[jobs[i]] = "asking" /\ jobs[i] # mt
    BY DEF QueueInv
  <1>4. \A i \in DOMAIN jobs : jobs[i] = job => job \notin Callers \cup {"load"}
    BY <1>3 DEF LoadQueued
  <1>5. ASSUME NEW i \in DOMAIN jobs', NEW j \in DOMAIN jobs',
               jobs'[i] = jobs'[j], jobs'[i] \in Callers \cup {"load"}
        PROVE  i = j
    BY <1>2, <1>4, <1>5 DEF QueueInv
  <1>6. ASSUME NEW i \in DOMAIN jobs', NEW j \in DOMAIN jobs',
               jobs'[i] \in Unloads, jobs'[j] = "load"
        PROVE  i < j
    <2>1. CASE job \in Unloads
      BY <1>2, <1>6, <2>1, CallersApart DEF QueueInv, LoadQueued
    <2>2. CASE job \notin Unloads
      BY <1>2, <1>6, <2>2 DEF QueueInv
    <2> QED
      BY <2>1, <2>2
  <1>7. ASSUME NEW i \in DOMAIN jobs', jobs'[i] \in Callers
        PROVE  at'[jobs'[i]] = "asking" /\ jobs'[i] # mt'
    BY <1>2, <1>3, <1>7
  <1> QED
    BY <1>5, <1>6, <1>7 DEF QueueInv

\* start() is only asked where no load waits.
LEMMA StartOrder ==
    ASSUME TypeOK, QueueInv, PassInv, Start, mt' = mt,
           \A c \in Callers : at[c] = "asking" => at'[c] = "asking"
    PROVE  QueueInv'
  <1>1. CASE Starts
    <2>1. ~LoadQueued
      BY <1>1 DEF Starts, Startable, PassInv
    <2> QED
      BY <1>1, <2>1, OrderAdded, CallersApart DEF TypeOK, Start, Jobs
  <1>2. CASE ~Starts
    BY <1>2, OrderKept DEF Start
  <1> QED
    BY <1>1, <1>2

\* Nor are the models dropped behind a load that waits.
LEMMA DropOrder ==
    ASSUME TypeOK, QueueInv, PassInv, NEW job \in Unloads, MayDrop, DropModels(job),
           UNCHANGED << mt, at >>
    PROVE  QueueInv'
  <1>1. ~LoadQueued
    BY DEF MayDrop, PassInv
  <1> QED
    BY <1>1, OrderAdded, CallersApart DEF TypeOK, DropModels, Jobs, Unloads

\* Every action keeps the order of the queue.
LEMMA QueueStep ==
    ASSUME IInv, [Next]_vars
    PROVE  QueueInv'
  <1> USE CallersApart DEF IInv, TypeOK, CallPoints
  <1>0. CASE UNCHANGED vars
    BY <1>0, OrderKept DEF vars
  <1>1. CASE Admit
    BY <1>1, OrderTaken DEF Admit, NextJobIs, holdVars, unloader
  <1>2. CASE Refuse
    BY <1>2, OrderTaken DEF Refuse, NextJobIs, warmUp, holdVars, unloader
  <1>3. CASE PublishRefusal
    BY <1>3, OrderKept DEF PublishRefusal, host, holdVars, unloader
  <1>4. CASE Load
    BY <1>4, OrderKept DEF Load, warmUp, holdVars, unloader
  <1>5. CASE LoadFails
    BY <1>5, OrderKept DEF LoadFails, holdVars, unloader
  <1>6. CASE PublishReady
    BY <1>6, OrderKept DEF PublishReady, host, holdVars, unloader
  <1>7. CASE EndPass
    BY <1>7, OrderKept DEF EndPass, host, holdVars, unloader
  <1>8. ASSUME NEW job \in Unloads, Unload(job) PROVE QueueInv'
    BY <1>8, OrderTaken DEF Unload, NextJobIs, Unloads, warmUp, holdVars, unloader
  <1>9. CASE AfterUnload
    BY <1>9, OrderKept DEF AfterUnload, warmUp, holdVars, unloader
  <1>10. ASSUME NEW c \in Callers, Query(c) PROVE QueueInv'
    BY <1>10, OrderTaken DEF Query, NextJobIs, warmUp, host, holdVars, unloader
  <1>11. ASSUME NEW c \in Callers, EndQuery(c) PROVE QueueInv'
    BY <1>11, OrderKept DEF EndQuery, warmUp, holdVars, unloader
  <1>12. ASSUME NEW c \in Callers, ReadHold(c) PROVE QueueInv'
    BY <1>12, OrderKept DEF ReadHold, warmUp, host, holdVars
  <1>13. ASSUME NEW c \in Callers, Register(c) PROVE QueueInv'
    BY <1>13, StartOrder, OrderKept DEF Register, host, holdVars
  <1>14. ASSUME NEW c \in Callers, SeeReady(c) PROVE QueueInv'
    BY <1>14, OrderKept DEF SeeReady, warmUp, host, holdVars, unloader
  <1>15. ASSUME NEW c \in Callers, LeaveUnserved(c) PROVE QueueInv'
    BY <1>15, OrderKept DEF LeaveUnserved, warmUp, host, holdVars
  <1>16. ASSUME NEW c \in Callers, Ask(c) PROVE QueueInv'
    BY <1>16, OrderAdded, JobKinds, CallersApart
       DEF Ask, warmUp, host, holdVars, unloader, Unloads
  <1>17. ASSUME NEW c \in Callers, Answer(c) PROVE QueueInv'
    BY <1>17, OrderKept DEF Answer, warmUp, host, holdVars
  <1>18. CASE LookForHold
    BY <1>18, OrderKept DEF LookForHold, warmUp, host, holdVars
  <1>19. CASE UnloadIfHeld
    BY <1>19, DropOrder, OrderKept DEF UnloadIfHeld, holdVars, Unloads
  <1>20. CASE LookForHoldEnd
    BY <1>20, OrderKept DEF LookForHoldEnd, warmUp, host, holdVars
  <1>21. CASE ReloadAfterHold
    BY <1>21, StartOrder, OrderKept DEF ReloadAfterHold, host, holdVars
  <1>22. CASE ReleaseUnderPressure
    BY <1>22, DropOrder, OrderKept DEF ReleaseUnderPressure, host, holdVars, Unloads
  <1>23. CASE UnloadIfIdle
    BY <1>23, DropOrder, OrderKept DEF UnloadIfIdle, host, holdVars, Unloads
  <1>24. CASE LookForRewarm
    BY <1>24, OrderKept DEF LookForRewarm, warmUp, host, holdVars, unloader
  <1>25. CASE RewarmIfDue
    BY <1>25, StartOrder, OrderKept DEF RewarmIfDue, host, holdVars
  <1>26. CASE Tick
    BY <1>26, OrderKept DEF Tick, warmUp, holdVars, unloader
  <1>27. CASE RetryComesDue
    BY <1>27, OrderKept DEF RetryComesDue, host, holdVars, unloader
  <1>28. CASE CooldownEnds
    BY <1>28, OrderKept DEF CooldownEnds, warmUp, host, holdVars
  <1>29. CASE IdlePeriodPasses
    BY <1>29, OrderKept DEF IdlePeriodPasses, warmUp, host, holdVars
  <1>30. CASE SetHold
    BY <1>30, OrderKept DEF SetHold, warmUp, host, unloader
  <1>31. CASE EndHold
    BY <1>31, OrderKept DEF EndHold, warmUp, host, unloader
  <1> QED
    BY <1>0, <1>1, <1>2, <1>3, <1>4, <1>5, <1>6, <1>7, <1>8, <1>9,
       <1>10, <1>11, <1>12, <1>13, <1>14, <1>15, <1>16, <1>17, <1>18,
       <1>19, <1>20, <1>21, <1>22, <1>23, <1>24, <1>25, <1>26, <1>27,
       <1>28, <1>29, <1>30, <1>31
       DEF Next, ModelThread, Call, Watchdog, Environment, Unloads

\* Every action keeps the passes apart.
LEMMA PassStep ==
    ASSUME IInv, [Next]_vars
    PROVE  PassInv'
  <1> USE CallersApart DEF IInv, TypeOK, PassRuns, PassInv, HoldInv, ModelsInv
  <1>0. CASE UNCHANGED vars
    BY <1>0, SameQueue DEF vars, warmUp, host, holdVars, unloader
  <1>1. CASE Admit
    BY <1>1, ShrunkQueue DEF Admit, NextJobIs, holdVars, unloader
  <1>2. CASE Refuse
    BY <1>2, ShrunkQueue DEF Refuse, NextJobIs, warmUp, holdVars, unloader
  <1>3. CASE PublishRefusal
    BY <1>3, SameQueue DEF PublishRefusal, host, holdVars, unloader
  <1>4. CASE Load
    BY <1>4, SameQueue DEF Load, warmUp, holdVars, unloader
  <1>5. CASE LoadFails
    BY <1>5, SameQueue DEF LoadFails, holdVars, unloader
  <1>6. CASE PublishReady
    BY <1>6, SameQueue DEF PublishReady, host, holdVars, unloader
  <1>7. CASE EndPass
    BY <1>7, SameQueue DEF EndPass, host, holdVars, unloader
  <1>8. ASSUME NEW job \in Unloads, Unload(job) PROVE PassInv'
    BY <1>8, ShrunkQueue DEF Unload, NextJobIs, Unloads, warmUp, holdVars, unloader
  <1>9. CASE AfterUnload
    BY <1>9, SameQueue DEF AfterUnload, warmUp, holdVars, unloader
  <1>10. ASSUME NEW c \in Callers, Query(c) PROVE PassInv'
    BY <1>10, ShrunkQueue DEF Query, NextJobIs, warmUp, host, holdVars, unloader
  <1>11. ASSUME NEW c \in Callers, EndQuery(c) PROVE PassInv'
    BY <1>11, SameQueue DEF EndQuery, warmUp, holdVars, unloader
  <1>12. ASSUME NEW c \in Callers, ReadHold(c) PROVE PassInv'
    BY <1>12, SameQueue DEF ReadHold, warmUp, host, holdVars
  <1>13. ASSUME NEW c \in Callers, Register(c) PROVE PassInv'
    BY <1>13, StartQueue, SameQueue DEF Register, host, holdVars, Starts, Startable
  <1>14. ASSUME NEW c \in Callers, SeeReady(c) PROVE PassInv'
    BY <1>14, SameQueue DEF SeeReady, warmUp, host, holdVars, unloader
  <1>15. ASSUME NEW c \in Callers, LeaveUnserved(c) PROVE PassInv'
    BY <1>15, SameQueue DEF LeaveUnserved, warmUp, host, holdVars
  <1>16. ASSUME NEW c \in Callers, Ask(c) PROVE PassInv'
    BY <1>16, GrownQueue, JobKinds, CallersApart
       DEF Ask, warmUp, host, holdVars, unloader, Unloads
  <1>17. ASSUME NEW c \in Callers, Answer(c) PROVE PassInv'
    BY <1>17, SameQueue DEF Answer, warmUp, host, holdVars
  <1>18. CASE LookForHold
    BY <1>18, SameQueue DEF LookForHold, warmUp, host, holdVars
  <1>19. CASE UnloadIfHeld
    BY <1>19, DropQueue, SameQueue DEF UnloadIfHeld, holdVars, MayDrop, InFlight, Unloads
  <1>20. CASE LookForHoldEnd
    BY <1>20, SameQueue DEF LookForHoldEnd, warmUp, host, holdVars
  <1>21. CASE ReloadAfterHold
    BY <1>21, StartQueue, SameQueue DEF ReloadAfterHold, host, holdVars, Starts, Startable
  <1>22. CASE ReleaseUnderPressure
    BY <1>22, DropQueue, SameQueue
       DEF ReleaseUnderPressure, host, holdVars, MayDrop, InFlight, Unloads
  <1>23. CASE UnloadIfIdle
    BY <1>23, DropQueue, SameQueue
       DEF UnloadIfIdle, host, holdVars, MayDrop, InFlight, Unloads
  <1>24. CASE LookForRewarm
    BY <1>24, SameQueue DEF LookForRewarm, warmUp, host, holdVars, unloader
  <1>25. CASE RewarmIfDue
    BY <1>25, StartQueue, SameQueue DEF RewarmIfDue, host, holdVars, Starts, Startable
  <1>26. CASE Tick
    BY <1>26, SameQueue DEF Tick, warmUp, holdVars, unloader
  <1>27. CASE RetryComesDue
    BY <1>27, SameQueue DEF RetryComesDue, host, holdVars, unloader
  <1>28. CASE CooldownEnds
    BY <1>28, SameQueue DEF CooldownEnds, warmUp, host, holdVars
  <1>29. CASE IdlePeriodPasses
    BY <1>29, SameQueue DEF IdlePeriodPasses, warmUp, host, holdVars
  <1>30. CASE SetHold
    BY <1>30, SameQueue DEF SetHold, warmUp, host, unloader
  <1>31. CASE EndHold
    BY <1>31, SameQueue DEF EndHold, warmUp, host, unloader
  <1> QED
    BY <1>0, <1>1, <1>2, <1>3, <1>4, <1>5, <1>6, <1>7, <1>8, <1>9,
       <1>10, <1>11, <1>12, <1>13, <1>14, <1>15, <1>16, <1>17, <1>18,
       <1>19, <1>20, <1>21, <1>22, <1>23, <1>24, <1>25, <1>26, <1>27,
       <1>28, <1>29, <1>30, <1>31
       DEF Next, ModelThread, Call, Watchdog, Environment, Unloads

\* Every action keeps the memory as the phase says.
LEMMA ModelsStep ==
    ASSUME IInv, [Next]_vars
    PROVE  ModelsInv'
  <1> USE CallersApart DEF IInv, TypeOK, PassRuns, PassInv, ModelsInv
  <1>0. CASE UNCHANGED vars
    BY <1>0, SameQueue DEF vars, warmUp, host, holdVars, unloader
  <1>1. CASE Admit
    BY <1>1, ShrunkQueue DEF Admit, NextJobIs, holdVars, unloader
  <1>2. CASE Refuse
    BY <1>2, ShrunkQueue DEF Refuse, NextJobIs, warmUp, holdVars, unloader
  <1>3. CASE PublishRefusal
    BY <1>3, SameQueue DEF PublishRefusal, host, holdVars, unloader
  <1>4. CASE Load
    BY <1>4, SameQueue DEF Load, warmUp, holdVars, unloader
  <1>5. CASE LoadFails
    BY <1>5, SameQueue DEF LoadFails, holdVars, unloader
  <1>6. CASE PublishReady
    BY <1>6, SameQueue DEF PublishReady, host, holdVars, unloader
  <1>7. CASE EndPass
    BY <1>7, SameQueue DEF EndPass, host, holdVars, unloader
  <1>8. ASSUME NEW job \in Unloads, Unload(job) PROVE ModelsInv'
    BY <1>8, ShrunkQueue DEF Unload, NextJobIs, Unloads, warmUp, holdVars, unloader
  <1>9. CASE AfterUnload
    BY <1>9, SameQueue DEF AfterUnload, warmUp, holdVars, unloader
  <1>10. ASSUME NEW c \in Callers, Query(c) PROVE ModelsInv'
    BY <1>10, ShrunkQueue DEF Query, NextJobIs, warmUp, host, holdVars, unloader
  <1>11. ASSUME NEW c \in Callers, EndQuery(c) PROVE ModelsInv'
    BY <1>11, SameQueue DEF EndQuery, warmUp, holdVars, unloader
  <1>12. ASSUME NEW c \in Callers, ReadHold(c) PROVE ModelsInv'
    BY <1>12, SameQueue DEF ReadHold, warmUp, host, holdVars
  <1>13. ASSUME NEW c \in Callers, Register(c) PROVE ModelsInv'
    BY <1>13, StartQueue, SameQueue DEF Register, host, holdVars, Starts, Startable
  <1>14. ASSUME NEW c \in Callers, SeeReady(c) PROVE ModelsInv'
    BY <1>14, SameQueue DEF SeeReady, warmUp, host, holdVars, unloader
  <1>15. ASSUME NEW c \in Callers, LeaveUnserved(c) PROVE ModelsInv'
    BY <1>15, SameQueue DEF LeaveUnserved, warmUp, host, holdVars
  <1>16. ASSUME NEW c \in Callers, Ask(c) PROVE ModelsInv'
    BY <1>16, GrownQueue, JobKinds, CallersApart
       DEF Ask, warmUp, host, holdVars, unloader, Unloads
  <1>17. ASSUME NEW c \in Callers, Answer(c) PROVE ModelsInv'
    BY <1>17, SameQueue DEF Answer, warmUp, host, holdVars
  <1>18. CASE LookForHold
    BY <1>18, SameQueue DEF LookForHold, warmUp, host, holdVars
  <1>19. CASE UnloadIfHeld
    BY <1>19, DropQueue, SameQueue DEF UnloadIfHeld, holdVars, MayDrop, InFlight, Unloads
  <1>20. CASE LookForHoldEnd
    BY <1>20, SameQueue DEF LookForHoldEnd, warmUp, host, holdVars
  <1>21. CASE ReloadAfterHold
    BY <1>21, StartQueue, SameQueue DEF ReloadAfterHold, host, holdVars, Starts, Startable
  <1>22. CASE ReleaseUnderPressure
    BY <1>22, DropQueue, SameQueue
       DEF ReleaseUnderPressure, host, holdVars, MayDrop, InFlight, Unloads
  <1>23. CASE UnloadIfIdle
    BY <1>23, DropQueue, SameQueue
       DEF UnloadIfIdle, host, holdVars, MayDrop, InFlight, Unloads
  <1>24. CASE LookForRewarm
    BY <1>24, SameQueue DEF LookForRewarm, warmUp, host, holdVars, unloader
  <1>25. CASE RewarmIfDue
    BY <1>25, StartQueue, SameQueue DEF RewarmIfDue, host, holdVars, Starts, Startable
  <1>26. CASE Tick
    BY <1>26, SameQueue DEF Tick, warmUp, holdVars, unloader
  <1>27. CASE RetryComesDue
    BY <1>27, SameQueue DEF RetryComesDue, host, holdVars, unloader
  <1>28. CASE CooldownEnds
    BY <1>28, SameQueue DEF CooldownEnds, warmUp, host, holdVars
  <1>29. CASE IdlePeriodPasses
    BY <1>29, SameQueue DEF IdlePeriodPasses, warmUp, host, holdVars
  <1>30. CASE SetHold
    BY <1>30, SameQueue DEF SetHold, warmUp, host, unloader
  <1>31. CASE EndHold
    BY <1>31, SameQueue DEF EndHold, warmUp, host, unloader
  <1> QED
    BY <1>0, <1>1, <1>2, <1>3, <1>4, <1>5, <1>6, <1>7, <1>8, <1>9,
       <1>10, <1>11, <1>12, <1>13, <1>14, <1>15, <1>16, <1>17, <1>18,
       <1>19, <1>20, <1>21, <1>22, <1>23, <1>24, <1>25, <1>26, <1>27,
       <1>28, <1>29, <1>30, <1>31
       DEF Next, ModelThread, Call, Watchdog, Environment, Unloads

\* Every action keeps the hold's flag.
LEMMA HoldStep ==
    ASSUME IInv, [Next]_vars
    PROVE  HoldInv'
  <1> USE CallersApart DEF IInv, TypeOK, PassRuns, PassInv, HoldInv
  <1>0. CASE UNCHANGED vars
    BY <1>0, SameQueue DEF vars, warmUp, host, holdVars, unloader
  <1>1. CASE Admit
    BY <1>1, ShrunkQueue DEF Admit, NextJobIs, holdVars, unloader
  <1>2. CASE Refuse
    BY <1>2, ShrunkQueue DEF Refuse, NextJobIs, warmUp, holdVars, unloader
  <1>3. CASE PublishRefusal
    BY <1>3, SameQueue DEF PublishRefusal, host, holdVars, unloader
  <1>4. CASE Load
    BY <1>4, SameQueue DEF Load, warmUp, holdVars, unloader
  <1>5. CASE LoadFails
    BY <1>5, SameQueue DEF LoadFails, holdVars, unloader
  <1>6. CASE PublishReady
    BY <1>6, SameQueue DEF PublishReady, host, holdVars, unloader
  <1>7. CASE EndPass
    BY <1>7, SameQueue DEF EndPass, host, holdVars, unloader
  <1>8. ASSUME NEW job \in Unloads, Unload(job) PROVE HoldInv'
    BY <1>8, ShrunkQueue DEF Unload, NextJobIs, Unloads, warmUp, holdVars, unloader
  <1>9. CASE AfterUnload
    BY <1>9, SameQueue DEF AfterUnload, warmUp, holdVars, unloader
  <1>10. ASSUME NEW c \in Callers, Query(c) PROVE HoldInv'
    BY <1>10, ShrunkQueue DEF Query, NextJobIs, warmUp, host, holdVars, unloader
  <1>11. ASSUME NEW c \in Callers, EndQuery(c) PROVE HoldInv'
    BY <1>11, SameQueue DEF EndQuery, warmUp, holdVars, unloader
  <1>12. ASSUME NEW c \in Callers, ReadHold(c) PROVE HoldInv'
    BY <1>12, SameQueue DEF ReadHold, warmUp, host, holdVars
  <1>13. ASSUME NEW c \in Callers, Register(c) PROVE HoldInv'
    BY <1>13, StartQueue, SameQueue DEF Register, host, holdVars, Starts, Startable
  <1>14. ASSUME NEW c \in Callers, SeeReady(c) PROVE HoldInv'
    BY <1>14, SameQueue DEF SeeReady, warmUp, host, holdVars, unloader
  <1>15. ASSUME NEW c \in Callers, LeaveUnserved(c) PROVE HoldInv'
    BY <1>15, SameQueue DEF LeaveUnserved, warmUp, host, holdVars
  <1>16. ASSUME NEW c \in Callers, Ask(c) PROVE HoldInv'
    BY <1>16, GrownQueue, JobKinds, CallersApart
       DEF Ask, warmUp, host, holdVars, unloader, Unloads
  <1>17. ASSUME NEW c \in Callers, Answer(c) PROVE HoldInv'
    BY <1>17, SameQueue DEF Answer, warmUp, host, holdVars
  <1>18. CASE LookForHold
    BY <1>18, SameQueue DEF LookForHold, warmUp, host, holdVars
  <1>19. CASE UnloadIfHeld
    BY <1>19, DropQueue, SameQueue DEF UnloadIfHeld, holdVars, MayDrop, InFlight, Unloads
  <1>20. CASE LookForHoldEnd
    BY <1>20, SameQueue DEF LookForHoldEnd, warmUp, host, holdVars
  <1>21. CASE ReloadAfterHold
    BY <1>21, StartQueue, SameQueue DEF ReloadAfterHold, host, holdVars, Starts, Startable
  <1>22. CASE ReleaseUnderPressure
    BY <1>22, DropQueue, SameQueue
       DEF ReleaseUnderPressure, host, holdVars, MayDrop, InFlight, Unloads
  <1>23. CASE UnloadIfIdle
    BY <1>23, DropQueue, SameQueue
       DEF UnloadIfIdle, host, holdVars, MayDrop, InFlight, Unloads
  <1>24. CASE LookForRewarm
    BY <1>24, SameQueue DEF LookForRewarm, warmUp, host, holdVars, unloader
  <1>25. CASE RewarmIfDue
    BY <1>25, StartQueue, SameQueue DEF RewarmIfDue, host, holdVars, Starts, Startable
  <1>26. CASE Tick
    BY <1>26, SameQueue DEF Tick, warmUp, holdVars, unloader
  <1>27. CASE RetryComesDue
    BY <1>27, SameQueue DEF RetryComesDue, host, holdVars, unloader
  <1>28. CASE CooldownEnds
    BY <1>28, SameQueue DEF CooldownEnds, warmUp, host, holdVars
  <1>29. CASE IdlePeriodPasses
    BY <1>29, SameQueue DEF IdlePeriodPasses, warmUp, host, holdVars
  <1>30. CASE SetHold
    BY <1>30, SameQueue DEF SetHold, warmUp, host, unloader
  <1>31. CASE EndHold
    BY <1>31, SameQueue DEF EndHold, warmUp, host, unloader
  <1> QED
    BY <1>0, <1>1, <1>2, <1>3, <1>4, <1>5, <1>6, <1>7, <1>8, <1>9,
       <1>10, <1>11, <1>12, <1>13, <1>14, <1>15, <1>16, <1>17, <1>18,
       <1>19, <1>20, <1>21, <1>22, <1>23, <1>24, <1>25, <1>26, <1>27,
       <1>28, <1>29, <1>30, <1>31
       DEF Next, ModelThread, Call, Watchdog, Environment, Unloads

----------------------------------------------------------------------------
(* The contract with the memory admission.                                 *)

\* Every action keeps the reservation out of the next pass's way.
LEMMA ReservedStep ==
    ASSUME IInv, ReservedInv, [Next]_vars
    PROVE  ReservedInv'
  <1> USE CallersApart DEF IInv, TypeOK, PassRuns, PassInv, ReservedInv, Startable
  <1>0. CASE UNCHANGED vars
    BY <1>0, SameQueue DEF vars, warmUp, host, holdVars, unloader
  <1>1. CASE Admit
    BY <1>1, ShrunkQueue DEF Admit, NextJobIs, holdVars, unloader
  <1>2. CASE Refuse
    BY <1>2, ShrunkQueue DEF Refuse, NextJobIs, warmUp, holdVars, unloader
  <1>3. CASE PublishRefusal
    BY <1>3, SameQueue DEF PublishRefusal, host, holdVars, unloader
  <1>4. CASE Load
    BY <1>4, SameQueue DEF Load, warmUp, holdVars, unloader
  <1>5. CASE LoadFails
    BY <1>5, SameQueue DEF LoadFails, holdVars, unloader
  <1>6. CASE PublishReady
    BY <1>6, SameQueue DEF PublishReady, host, holdVars, unloader
  <1>7. CASE EndPass
    BY <1>7, SameQueue DEF EndPass, host, holdVars, unloader
  <1>8. ASSUME NEW job \in Unloads, Unload(job) PROVE ReservedInv'
    BY <1>8, ShrunkQueue DEF Unload, NextJobIs, Unloads, warmUp, holdVars, unloader
  <1>9. CASE AfterUnload
    BY <1>9, SameQueue DEF AfterUnload, warmUp, holdVars, unloader
  <1>10. ASSUME NEW c \in Callers, Query(c) PROVE ReservedInv'
    BY <1>10, ShrunkQueue DEF Query, NextJobIs, warmUp, host, holdVars, unloader
  <1>11. ASSUME NEW c \in Callers, EndQuery(c) PROVE ReservedInv'
    BY <1>11, SameQueue DEF EndQuery, warmUp, holdVars, unloader
  <1>12. ASSUME NEW c \in Callers, ReadHold(c) PROVE ReservedInv'
    BY <1>12, SameQueue DEF ReadHold, warmUp, host, holdVars
  <1>13. ASSUME NEW c \in Callers, Register(c) PROVE ReservedInv'
    BY <1>13, StartQueue, SameQueue DEF Register, host, holdVars, Starts
  <1>14. ASSUME NEW c \in Callers, SeeReady(c) PROVE ReservedInv'
    BY <1>14, SameQueue DEF SeeReady, warmUp, host, holdVars, unloader
  <1>15. ASSUME NEW c \in Callers, LeaveUnserved(c) PROVE ReservedInv'
    BY <1>15, SameQueue DEF LeaveUnserved, warmUp, host, holdVars
  <1>16. ASSUME NEW c \in Callers, Ask(c) PROVE ReservedInv'
    BY <1>16, GrownQueue, JobKinds, CallersApart
       DEF Ask, warmUp, host, holdVars, unloader, Unloads
  <1>17. ASSUME NEW c \in Callers, Answer(c) PROVE ReservedInv'
    BY <1>17, SameQueue DEF Answer, warmUp, host, holdVars
  <1>18. CASE LookForHold
    BY <1>18, SameQueue DEF LookForHold, warmUp, host, holdVars
  <1>19. CASE UnloadIfHeld
    BY <1>19, DropQueue, SameQueue DEF UnloadIfHeld, holdVars, MayDrop, InFlight, Unloads
  <1>20. CASE LookForHoldEnd
    BY <1>20, SameQueue DEF LookForHoldEnd, warmUp, host, holdVars
  <1>21. CASE ReloadAfterHold
    BY <1>21, StartQueue, SameQueue DEF ReloadAfterHold, host, holdVars, Starts
  <1>22. CASE ReleaseUnderPressure
    BY <1>22, DropQueue, SameQueue
       DEF ReleaseUnderPressure, host, holdVars, MayDrop, InFlight, Unloads
  <1>23. CASE UnloadIfIdle
    BY <1>23, DropQueue, SameQueue
       DEF UnloadIfIdle, host, holdVars, MayDrop, InFlight, Unloads
  <1>24. CASE LookForRewarm
    BY <1>24, SameQueue DEF LookForRewarm, warmUp, host, holdVars, unloader
  <1>25. CASE RewarmIfDue
    BY <1>25, StartQueue, SameQueue DEF RewarmIfDue, host, holdVars, Starts
  <1>26. CASE Tick
    BY <1>26, SameQueue DEF Tick, warmUp, holdVars, unloader
  <1>27. CASE RetryComesDue
    BY <1>27, SameQueue DEF RetryComesDue, host, holdVars, unloader
  <1>28. CASE CooldownEnds
    BY <1>28, SameQueue DEF CooldownEnds, warmUp, host, holdVars
  <1>29. CASE IdlePeriodPasses
    BY <1>29, SameQueue DEF IdlePeriodPasses, warmUp, host, holdVars
  <1>30. CASE SetHold
    BY <1>30, SameQueue DEF SetHold, warmUp, host, unloader
  <1>31. CASE EndHold
    BY <1>31, SameQueue DEF EndHold, warmUp, host, unloader
  <1> QED
    BY <1>0, <1>1, <1>2, <1>3, <1>4, <1>5, <1>6, <1>7, <1>8, <1>9,
       <1>10, <1>11, <1>12, <1>13, <1>14, <1>15, <1>16, <1>17, <1>18,
       <1>19, <1>20, <1>21, <1>22, <1>23, <1>24, <1>25, <1>26, <1>27,
       <1>28, <1>29, <1>30, <1>31
       DEF Next, ModelThread, Call, Watchdog, Environment, Unloads

\* A step that leaves models, reservation and notice alone is nothing to the
\* admission.
LEMMA ContractStutter ==
    ASSUME UNCHANGED << loaded, reserved, notice >>
    PROVE  [Contract!Next]_<< loaded, reserved, notice, FALSE >>
  OBVIOUS

\* The load at the head of the queue finds nothing in memory and nothing
\* reserved.
LEMMA NothingBeforeLoad ==
    ASSUME IInv, ReservedInv, NextJobIs("load"), jobs' = Tail(jobs)
    PROVE  ~loaded /\ ~reserved
  BY ShrunkQueue DEF IInv, TypeOK, ModelsInv, ReservedInv, NextJobIs

\* Every action is a step of the contract or nothing to it.
LEMMA ContractStep ==
    ASSUME IInv, ReservedInv, [Next]_vars
    PROVE  [Contract!Next]_<< loaded, reserved, notice, FALSE >>
  <1> USE CallersApart DEF host
  <1>0. CASE UNCHANGED vars
    BY <1>0, ContractStutter DEF vars
  <1>1. CASE Admit
    <2>1. Contract!Admitted
      BY <1>1, NothingBeforeLoad, Zenon DEF Admit, Contract!Admitted, Contract!HasNothing
    <2> QED
      BY <2>1 DEF Contract!Next
  <1>2. CASE Refuse
    <2>1. CASE notice' = notice
      BY <1>2, <2>1, ContractStutter DEF Refuse
    <2>2. CASE notice' = "waiting"
      <3>1. Contract!Refused
        BY <1>2, <2>2, NothingBeforeLoad, Zenon
           DEF Refuse, Contract!Refused, Contract!HasNothing
      <3> QED
        BY <3>1 DEF Contract!Next
    <2> QED
      BY <1>2, <2>1, <2>2 DEF Refuse
  <1>3. CASE PublishRefusal
    BY <1>3, ContractStutter DEF PublishRefusal
  <1>4. CASE Load
    <2>1. reserved
      BY <1>4 DEF Load, IInv, ModelsInv
    <2>2. Contract!Load
      BY <1>4, <2>1, Zenon DEF Load, Contract!Load
    <2> QED
      BY <2>2 DEF Contract!Next
  <1>5. CASE LoadFails
    <2>1. reserved /\ ~loaded
      BY <1>5 DEF LoadFails, IInv, ModelsInv
    <2>2. CASE loaded' = TRUE
      <3>1. Contract!Load
        BY <1>5, <2>1, <2>2, Zenon DEF LoadFails, Contract!Load
      <3> QED
        BY <3>1 DEF Contract!Next
    <2>3. CASE loaded' = FALSE
      <3>1. loaded' = loaded
        BY <2>1, <2>3 DEF IInv, TypeOK
      <3> QED
        BY <1>5, <3>1, ContractStutter DEF LoadFails
    <2> QED
      BY <1>5, <2>2, <2>3 DEF LoadFails
  <1>6. CASE PublishReady
    BY <1>6, ContractStutter DEF PublishReady
  <1>7. CASE EndPass
    BY <1>7, ContractStutter DEF EndPass
  <1>8. ASSUME NEW job \in Unloads, Unload(job)
        PROVE  [Contract!Next]_<< loaded, reserved, notice, FALSE >>
    <2>1. Contract!Unload
      BY <1>8, Zenon DEF Unload, Contract!Unload
    <2> QED
      BY <2>1 DEF Contract!Next
  <1>9. CASE AfterUnload
    <2>1. ~loaded
      BY <1>9 DEF AfterUnload, IInv, ModelsInv
    <2>2. notice' \in {notice, "none", "reload_pending"}
      BY <1>9 DEF AfterUnload
    <2>3. Contract!GiveBack
      BY <1>9, <2>1, <2>2, Zenon DEF AfterUnload, Contract!GiveBack
    <2> QED
      BY <2>3 DEF Contract!Next
  <1>10. ASSUME NEW c \in Callers, Query(c)
        PROVE  [Contract!Next]_<< loaded, reserved, notice, FALSE >>
    BY <1>10, ContractStutter DEF Query
  <1>11. ASSUME NEW c \in Callers, EndQuery(c)
        PROVE  [Contract!Next]_<< loaded, reserved, notice, FALSE >>
    <2>1. loaded
      BY <1>11 DEF EndQuery, IInv, TypeOK, ModelsInv
    <2>2. loaded' = loaded
      BY <1>11, <2>1 DEF EndQuery, IInv, TypeOK
    <2> QED
      BY <1>11, <2>2, ContractStutter DEF EndQuery
  <1>12. ASSUME NEW c \in Callers, ReadHold(c)
        PROVE  [Contract!Next]_<< loaded, reserved, notice, FALSE >>
    BY <1>12, ContractStutter DEF ReadHold
  <1>13. ASSUME NEW c \in Callers, Register(c)
        PROVE  [Contract!Next]_<< loaded, reserved, notice, FALSE >>
    BY <1>13, ContractStutter DEF Register
  <1>14. ASSUME NEW c \in Callers, SeeReady(c)
        PROVE  [Contract!Next]_<< loaded, reserved, notice, FALSE >>
    BY <1>14, ContractStutter DEF SeeReady
  <1>15. ASSUME NEW c \in Callers, LeaveUnserved(c)
        PROVE  [Contract!Next]_<< loaded, reserved, notice, FALSE >>
    BY <1>15, ContractStutter DEF LeaveUnserved
  <1>16. ASSUME NEW c \in Callers, Ask(c)
        PROVE  [Contract!Next]_<< loaded, reserved, notice, FALSE >>
    BY <1>16, ContractStutter DEF Ask
  <1>17. ASSUME NEW c \in Callers, Answer(c)
        PROVE  [Contract!Next]_<< loaded, reserved, notice, FALSE >>
    BY <1>17, ContractStutter DEF Answer
  <1>18. CASE LookForHold
    BY <1>18, ContractStutter DEF LookForHold
  <1>19. CASE UnloadIfHeld
    <2>1. CASE phase = "memory_busy" /\ reserved' = FALSE /\ notice' = "none"
      <3>1. ~loaded
        BY <2>1 DEF IInv, ModelsInv
      <3>2. Contract!GiveBack
        BY <1>19, <2>1, <3>1, Zenon DEF UnloadIfHeld, Contract!GiveBack
      <3> QED
        BY <3>2 DEF Contract!Next
    <2>2. CASE UNCHANGED << reserved, notice >>
      BY <1>19, <2>2, ContractStutter DEF UnloadIfHeld
    <2> QED
      BY <1>19, <2>1, <2>2 DEF UnloadIfHeld
  <1>20. CASE LookForHoldEnd
    BY <1>20, ContractStutter DEF LookForHoldEnd
  <1>21. CASE ReloadAfterHold
    BY <1>21, ContractStutter DEF ReloadAfterHold
  <1>22. CASE ReleaseUnderPressure
    BY <1>22, ContractStutter DEF ReleaseUnderPressure
  <1>23. CASE UnloadIfIdle
    BY <1>23, ContractStutter DEF UnloadIfIdle
  <1>24. CASE LookForRewarm
    BY <1>24, ContractStutter DEF LookForRewarm
  <1>25. CASE RewarmIfDue
    BY <1>25, ContractStutter DEF RewarmIfDue
  <1>26. CASE Tick
    <2>1. CASE notice' = "none"
      <3>1. Contract!Withdraw
        BY <1>26, <2>1 DEF Tick, Contract!Withdraw
      <3> QED
        BY <3>1 DEF Contract!Next
    <2>2. CASE UNCHANGED notice
      BY <1>26, <2>2, ContractStutter DEF Tick
    <2> QED
      BY <1>26, <2>1, <2>2 DEF Tick
  <1>27. CASE RetryComesDue
    BY <1>27, ContractStutter DEF RetryComesDue
  <1>28. CASE CooldownEnds
    BY <1>28, ContractStutter DEF CooldownEnds
  <1>29. CASE IdlePeriodPasses
    BY <1>29, ContractStutter DEF IdlePeriodPasses
  <1>30. CASE SetHold
    BY <1>30, ContractStutter DEF SetHold
  <1>31. CASE EndHold
    BY <1>31, ContractStutter DEF EndHold
  <1> QED
    BY <1>0, <1>1, <1>2, <1>3, <1>4, <1>5, <1>6, <1>7, <1>8, <1>9,
       <1>10, <1>11, <1>12, <1>13, <1>14, <1>15, <1>16, <1>17, <1>18,
       <1>19, <1>20, <1>21, <1>22, <1>23, <1>24, <1>25, <1>26, <1>27,
       <1>28, <1>29, <1>30, <1>31
       DEF Next, ModelThread, Call, Watchdog, Environment, Unloads

----------------------------------------------------------------------------
(* The theorems.                                                           *)

\* The invariant holds at the start: a warm server begins with its one pass.
LEMMA InitHolds ==
    ASSUME Init
    PROVE  IInv
  <1> USE CallersApart, ConfigAssumption DEF Init
  <1>1. \/ phase = "warming" /\ jobs = << "load" >>
        \/ phase = "not_started" /\ jobs = << >>
    OBVIOUS
  <1>2. \A i \in DOMAIN jobs : i = 1 /\ jobs[i] = "load" /\ phase = "warming"
    BY <1>1
  <1>3. jobs \in Seq(Jobs)
    <2>1. "load" \in Jobs
      BY DEF Jobs
    <2>2. << "load" >> \in Seq(Jobs) /\ << >> \in Seq(Jobs)
      BY <2>1
    <2> QED
      BY <1>1, <2>2
  <1>4. TypeOK
    <2>1. /\ retryDue \in BOOLEAN /\ loaded \in BOOLEAN /\ reserved \in BOOLEAN
          /\ hold \in BOOLEAN /\ held \in BOOLEAN /\ forHold \in BOOLEAN
          /\ readySeen \in BOOLEAN /\ idle \in BOOLEAN
      BY Zenon
    <2>2. /\ config \in Configs /\ phase \in Phases /\ mt \in ModelThreadPoints
          /\ at \in [Callers -> CallPoints] /\ holds \in 0 .. MaxHolds
          /\ wd \in WatchdogPoints /\ mt \notin Callers
      BY <1>1 DEF Phases, ModelThreadPoints, CallPoints, WatchdogPoints
    <2> QED
      BY <1>3, <2>1, <2>2 DEF TypeOK
  <1>5. QueueInv
    BY <1>2 DEF QueueInv
  <1>6. ~UnloadQueued /\ (LoadQueued => phase = "warming")
    BY <1>2 DEF UnloadQueued, LoadQueued
  <1>7. PassInv
    BY <1>6 DEF PassInv, PassRuns
  <1>8. ModelsInv
    BY <1>1, <1>6 DEF ModelsInv
  <1>9. HoldInv
    BY DEF HoldInv
  <1> QED
    BY <1>4, <1>5, <1>7, <1>8, <1>9 DEF IInv

\* What the threads keep true together: one pass at a time, unloads in front
\* of the load that follows them, and the memory as the phase says
\* (background_warm_up, idle_unload, model_thread).
THEOREM InductiveInvariant == Spec => []IInv
  <1>1. Init => IInv
    BY InitHolds
  <1>2. IInv /\ [Next]_vars => IInv'
    <2> SUFFICES ASSUME IInv, [Next]_vars PROVE IInv'
      OBVIOUS
    <2>1. TypeOK'
      BY TypeStep DEF IInv
    <2> QED
      BY <2>1, QueueStep, PassStep, ModelsStep, HoldStep DEF IInv
  <1> QED
    BY <1>1, <1>2, PTL DEF Spec

\* The types of the variables, and a caller's query is only on the model
\* thread while the caller waits for it.
THEOREM TypeCorrect == Spec => []TypeOK
  BY InductiveInvariant, PTL DEF IInv

\* A query's model call finds the models loaded, however calls, holds,
\* pressure and idle periods fall (idle_unload.call, _run_unload).
THEOREM QueriesMeetModels == Spec => []QueryMeetsModels
  <1>1. IInv => QueryMeetsModels
    BY DEF IInv, TypeOK, ModelsInv, QueryMeetsModels
  <1> QED
    BY <1>1, InductiveInvariant, PTL

\* Models in memory are always covered by the server's reservation
\* (background_warm_up._admitted, idle_unload._run_unload).
THEOREM ModelsAreReserved == Spec => []LoadedIsReserved
  <1>1. IInv => LoadedIsReserved
    BY DEF IInv, ModelsInv, LoadedIsReserved
  <1> QED
    BY <1>1, InductiveInvariant, PTL

\* Never two warm-up passes, whoever asks for the load
\* (background_warm_up.start).
THEOREM PassesAreSingle == Spec => []OnePassAtATime
  <1>1. ASSUME IInv PROVE OnePassAtATime
    <2> DEFINE Loads == {i \in DOMAIN jobs : jobs[i] = "load"}
    <2>1. CASE PassRuns
      <3>1. Loads = {}
        BY <1>1, <2>1 DEF IInv, PassInv, LoadQueued
      <3>2. Cardinality(Loads) = 0
        BY <3>1, FS_EmptySet
      <3> QED
        BY <2>1, <3>2 DEF OnePassAtATime, PassRuns
    <2>2. CASE ~PassRuns /\ Loads = {}
      <3>1. Cardinality(Loads) = 0
        BY <2>2, FS_EmptySet
      <3> QED
        BY <2>2, <3>1 DEF OnePassAtATime, PassRuns
    <2>3. CASE ~PassRuns /\ Loads # {}
      <3>1. PICK i \in Loads : TRUE
        BY <2>3
      <3>2. Loads = {i}
        BY <1>1, <3>1 DEF IInv, QueueInv
      <3>3. Cardinality(Loads) = 1
        BY <3>2, FS_Singleton
      <3> QED
        BY <2>3, <3>3 DEF OnePassAtATime, PassRuns
    <2> QED
      BY <2>1, <2>2, <2>3
  <1> QED
    BY <1>1, InductiveInvariant, PTL

\* While the models are given up for a hold no load is queued and none runs
\* (idle_unload.unload_if_held, call, rewarm_if_due).
THEOREM HoldStopsLoads == Spec => []HeldMeansNoPass
  <1>1. IInv => HeldMeansNoPass
    BY DEF IInv, HoldInv, PassRuns, LoadQueued, HeldMeansNoPass
  <1> QED
    BY <1>1, InductiveInvariant, PTL

\* The server is one that the memory admission can live with: it asks with
\* nothing in memory and nothing reserved, loads only what was admitted, and
\* gives a reservation back only when the models are gone
\* (background_warm_up._admitted, idle_unload._run_unload, unload_if_held).
THEOREM ServerKeepsContract == Spec => ContractSpec
  <1>1. Init => Contract!Init
    BY DEF Init, Contract!Init
  <1>2. Init => ReservedInv
    BY Zenon DEF Init, ReservedInv
  <1>3. IInv /\ ReservedInv /\ [Next]_vars => ReservedInv'
    BY ReservedStep
  <1>4. IInv /\ ReservedInv /\ [Next]_vars
            => [Contract!Next]_<< loaded, reserved, notice, FALSE >>
    BY ContractStep
  <1> QED
    BY <1>1, <1>2, <1>3, <1>4, InductiveInvariant, PTL
       DEF Spec, ContractSpec, Contract!Spec
=============================================================================
