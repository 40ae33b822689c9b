---------------------------- MODULE ServerModels ----------------------------
(***************************************************************************)
(* The models of one live MCP server: loaded, unloaded and loaded again.   *)
(*                                                                         *)
(* Three kinds of thread share them.  The model thread                     *)
(* (imsg.retrieval.model_thread) runs queued jobs in order: a warm-up pass *)
(* (imsg.retrieval.background_warm_up), an unload, or a model call of a    *)
(* query.  The watchdog (imsg.retrieval.idle_unload) unloads for a hold,   *)
(* for memory pressure or for being idle, and on the public server asks    *)
(* for the load again.  Tool calls register, wait for the warm-up and      *)
(* query.                                                                  *)
(*                                                                         *)
(* Everything one thread does under IdleModelUnloader._lock is one step    *)
(* (only under it does the phase leave ready, unloaded or memory_busy);    *)
(* what is read before that lock is taken, the hold above all, is a step   *)
(* of its own, and so is each section under the warm-up's condition.       *)
(* Memory admission is its answer here; module MemoryAdmission opens it.   *)
(***************************************************************************)
EXTENDS Naturals, Sequences, FiniteSets

CONSTANTS
    Callers,   \* the tool calls that can be inside the server at once
    Configs,   \* the servers considered (see Config)
    MaxHolds,  \* bound: how often the operator sets the hold
    MayFail    \* whether a warm-up step may raise

\* What cli.py builds: the public server is warm at start, rewarms and can be
\* held; a local one never rewarms and cannot be held, and is warm at start only
\* if its configuration says so.  Any of them may unload when idle and may
\* release its models under memory pressure.
Config == [warm_at_start : BOOLEAN, rewarm : BOOLEAN, holdable : BOOLEAN,
           idle_unload : BOOLEAN, release : BOOLEAN]

ASSUME ConfigAssumption ==
    /\ Configs \subseteq Config
    /\ \A c \in Configs : c.holdable => c.rewarm /\ c.warm_at_start
    /\ MaxHolds \in Nat
    /\ MayFail \in BOOLEAN
    /\ Callers \cap {"load", "unload", "pressure_unload"} = {}
    /\ Callers \cap {"idle", "refused", "loading", "loaded", "ending",
                    "dropped", "dropped_for_pressure"} = {}

VARIABLES
    config,    \* the server at hand; never changes
    phase,     \* BackgroundWarmUp._phase
    retryDue,  \* whether a refused load may be asked for again
    jobs,      \* the model thread's queue
    mt,        \* where the model thread is; a caller while its query runs
    loaded,    \* whether models are in memory
    reserved,  \* whether the server's reservation stands
    notice,    \* why its notice holds background work back, or "none"
    at,        \* where each call is
    hold,      \* whether an active hold file exists
    holds,     \* how often one was set
    held,      \* IdleModelUnloader._held: what the last look found
    forHold,   \* _unloaded_for_hold
    cooling,   \* _released_for_pressure_at, and whether the cooldown is over
    readySeen, \* _ready_seen
    idle,      \* whether idle_seconds have passed since the last activity
    wd         \* where the watchdog is in its pass

vars == << config, phase, retryDue, jobs, mt, loaded, reserved, notice, at, hold,
           holds, held, forHold, cooling, readySeen, idle, wd >>

warmUp   == << phase, retryDue >>
host     == << loaded, reserved, notice >>
holdVars == << hold, holds >>
unloader == << held, forHold, cooling, readySeen, idle >>

----------------------------------------------------------------------------

Phases == {"not_started", "warming", "ready", "failed", "unloaded", "memory_busy"}

Startable == {"not_started", "unloaded", "memory_busy"}

Jobs == {"load", "unload", "pressure_unload"} \cup Callers

ModelThreadPoints == {"idle", "refused", "loading", "loaded", "ending",
                      "dropped", "dropped_for_pressure"} \cup Callers

CallPoints == {"out", "entering", "entering_held", "waiting", "serving", "asking"}

WatchdogPoints == {"hold", "held", "hold_end", "reload", "pressure", "idle",
                   "rewarm", "retry", "tick"}

\* (mutant) a call stops counting when its wait is over.
InFlightWaiting == {c \in Callers : at[c] = "waiting"}

\* _in_flight counts these calls.
InFlight == {c \in Callers : at[c] \in {"waiting", "serving", "asking"}}

\* start() does something.
Starts ==
    /\ phase \in Startable
    /\ phase = "memory_busy" => retryDue

\* start(), as its callers see it.
Start ==
    /\ phase' = IF Starts THEN "warming" ELSE phase
    /\ jobs' = IF Starts THEN Append(jobs, "load") ELSE jobs

\* mark_unloaded() and _queue_unload(), under one hold of the lock.
DropModels(job) ==
    /\ phase' = "unloaded"
    /\ jobs' = Append(jobs, job)
    /\ readySeen' = FALSE

\* (mutant) a pass in progress does not stand in the way.
MayDropWarming == phase \in {"ready", "warming"} /\ InFlight = {}

\* Whether the watchdog may drop the models now.
MayDrop == phase = "ready" /\ InFlight = {}

Init ==
    /\ config \in Configs
    /\ phase = IF config.warm_at_start THEN "warming" ELSE "not_started"
    /\ jobs = IF config.warm_at_start THEN << "load" >> ELSE << >>
    /\ retryDue = TRUE
    /\ mt = "idle"
    /\ loaded = FALSE
    /\ reserved = FALSE
    /\ notice = "none"
    /\ at = [c \in Callers |-> "out"]
    /\ hold = FALSE
    /\ holds = 0
    /\ held = FALSE
    /\ forHold = FALSE
    /\ cooling = "none"
    /\ readySeen = FALSE
    /\ idle = FALSE
    /\ wd = "hold"

----------------------------------------------------------------------------
(* The model thread: one warm-up pass.                                     *)

NextJobIs(job) == mt = "idle" /\ jobs # << >> /\ Head(jobs) = job

\* _run asks _admitted, and the admission lets the load through; the notice
\* stays up when background promises were set aside.
Admit ==
    /\ NextJobIs("load")
    /\ jobs' = Tail(jobs)
    /\ mt' = "loading"
    /\ reserved' = TRUE
    /\ notice' \in {"none", "past_background"}
    /\ retryDue' = TRUE
    /\ UNCHANGED << config, phase, loaded, at, holdVars, unloader, wd >>

\* The admission says no and posts the notice; a check that could not measure
\* the host says no and leaves the notice as it is.
Refuse ==
    /\ NextJobIs("load")
    /\ jobs' = Tail(jobs)
    /\ mt' = "refused"
    /\ notice' \in {"waiting", notice}
    /\ UNCHANGED << config, warmUp, loaded, reserved, at, holdVars, unloader, wd >>

PublishRefusal ==
    /\ mt = "refused"
    /\ phase' = "memory_busy"
    /\ retryDue' = FALSE
    /\ mt' = "ending"
    /\ UNCHANGED << config, jobs, host, at, holdVars, unloader, wd >>

Load ==
    /\ mt = "loading"
    /\ loaded' = TRUE
    /\ mt' = "loaded"
    /\ UNCHANGED << config, warmUp, jobs, reserved, notice, at, holdVars, unloader, wd >>

\* A step raises: what it and the steps before it loaded stays.
LoadFails ==
    /\ MayFail
    /\ mt = "loading"
    /\ loaded' \in BOOLEAN
    /\ phase' = IF phase = "warming" THEN "failed" ELSE phase
    /\ mt' = "ending"
    /\ UNCHANGED << config, retryDue, jobs, reserved, notice, at, holdVars, unloader, wd >>

PublishReady ==
    /\ mt = "loaded"
    /\ phase' = "ready"
    /\ mt' = "ending"
    /\ UNCHANGED << config, retryDue, jobs, host, at, holdVars, unloader, wd >>

\* _run's finally: a pass that is still warming here ended unexpectedly.
EndPass ==
    /\ mt = "ending"
    /\ phase' = IF phase = "warming" THEN "failed" ELSE phase
    /\ mt' = "idle"
    /\ UNCHANGED << config, retryDue, jobs, host, at, holdVars, unloader, wd >>

----------------------------------------------------------------------------
(* The model thread: unloads and queries.                                  *)

\* _run_unload drops every provider's weights.
Unload(job) ==
    /\ NextJobIs(job)
    /\ jobs' = Tail(jobs)
    /\ loaded' = FALSE
    /\ mt' = IF job = "unload" THEN "dropped" ELSE "dropped_for_pressure"
    /\ UNCHANGED << config, warmUp, reserved, notice, at, holdVars, unloader, wd >>

\* Then after_unload (release) or, on a server that rewarms,
\* after_pressure_unload (release_for_reload).
AfterUnload ==
    /\ mt \in {"dropped", "dropped_for_pressure"}
    /\ mt' = "idle"
    /\ reserved' = FALSE
    /\ notice' = IF mt = "dropped_for_pressure" /\ config.rewarm
                    THEN "reload_pending" ELSE "none"
    /\ UNCHANGED << config, warmUp, jobs, loaded, at, holdVars, unloader, wd >>

Query(c) ==
    /\ NextJobIs(c)
    /\ jobs' = Tail(jobs)
    /\ mt' = c
    /\ UNCHANGED << config, warmUp, host, at, holdVars, unloader, wd >>

\* A provider whose weights were dropped loads them again, unasked.
EndQuery(c) ==
    /\ mt = c
    /\ mt' = "idle"
    /\ loaded' = TRUE
    /\ at' = [at EXCEPT ![c] = "serving"]
    /\ UNCHANGED << config, warmUp, jobs, reserved, notice, holdVars, unloader, wd >>

----------------------------------------------------------------------------
(* A tool call.                                                            *)

\* call() reads the hold before it takes the lock.
ReadHold(c) ==
    /\ at[c] = "out"
    /\ held' = hold
    /\ at' = [at EXCEPT ![c] = IF hold THEN "entering_held" ELSE "entering"]
    /\ UNCHANGED << config, warmUp, jobs, mt, host, holdVars, forHold, cooling,
                    readySeen, idle, wd >>

\* call() under the lock: register, and start the load unless a hold was seen.
\* On a local server _load_on_first_call follows, whatever the hold.
Register(c) ==
    /\ at[c] \in {"entering", "entering_held"}
    /\ at' = [at EXCEPT ![c] = "waiting"]
    /\ idle' = FALSE
    /\ \/ /\ at[c] = "entering"
          /\ phase \in {"unloaded", "memory_busy"}
          /\ forHold' = FALSE
          /\ Start
       \/ /\ phase = "not_started"
          /\ Start
          /\ UNCHANGED forHold
       \/ /\ phase # "not_started"
          /\ ~(at[c] = "entering" /\ phase \in {"unloaded", "memory_busy"})
          /\ UNCHANGED << phase, jobs, forHold >>
    /\ UNCHANGED << config, retryDue, mt, host, holdVars, held, cooling, readySeen, wd >>

SeeReady(c) ==
    /\ at[c] = "waiting"
    /\ phase = "ready"
    /\ at' = [at EXCEPT ![c] = "serving"]
    /\ UNCHANGED << config, warmUp, jobs, mt, host, holdVars, unloader, wd >>

\* (mutant) a cancelled call abandons its running query.
LeaveMidQuery(c) ==
    /\ at[c] \in {"waiting", "asking"}
    /\ at' = [at EXCEPT ![c] = "out"]
    /\ idle' = FALSE
    /\ UNCHANGED << config, warmUp, jobs, mt, host, holdVars, held, forHold, cooling,
                    readySeen, wd >>

\* The call is told why there are no models, waited long enough, or was
\* cancelled.
LeaveUnserved(c) ==
    /\ at[c] = "waiting"
    /\ at' = [at EXCEPT ![c] = "out"]
    /\ idle' = FALSE
    /\ UNCHANGED << config, warmUp, jobs, mt, host, holdVars, held, forHold, cooling,
                    readySeen, wd >>

\* One model call of the query; a query makes several.
Ask(c) ==
    /\ at[c] = "serving"
    /\ at' = [at EXCEPT ![c] = "asking"]
    /\ jobs' = Append(jobs, c)
    /\ UNCHANGED << config, warmUp, mt, host, holdVars, unloader, wd >>

Answer(c) ==
    /\ at[c] = "serving"
    /\ at' = [at EXCEPT ![c] = "out"]
    /\ idle' = FALSE
    /\ UNCHANGED << config, warmUp, jobs, mt, host, holdVars, held, forHold, cooling,
                    readySeen, wd >>

----------------------------------------------------------------------------
(* The watchdog: one pass of check_once.                                   *)

\* unload_if_held, before the lock.
LookForHold ==
    /\ wd = "hold"
    /\ held' = hold
    /\ wd' = IF hold THEN "held" ELSE "hold_end"
    /\ UNCHANGED << config, warmUp, jobs, mt, host, at, holdVars, forHold, cooling,
                    readySeen, idle >>

\* (mutant) nothing remembers what the models were unloaded for.
UnloadAndForget ==
    /\ wd = "held"
    /\ wd' = "hold_end"
    /\ \/ /\ phase = "memory_busy" /\ ~forHold
          /\ forHold' = TRUE
          /\ reserved' = FALSE
          /\ notice' = "none"
          /\ UNCHANGED << phase, jobs, cooling, readySeen >>
       \/ /\ MayDrop
          /\ DropModels("unload")
          /\ cooling' = "none"
          /\ UNCHANGED << reserved, notice, forHold >>
       \/ /\ ~(phase = "memory_busy" /\ ~forHold)
          /\ ~MayDrop
          /\ UNCHANGED << phase, jobs, reserved, notice, forHold, cooling, readySeen >>
    /\ UNCHANGED << config, retryDue, mt, loaded, at, holdVars, held, idle >>

\* (mutant) the watchdog gives the reservation back before the model thread
\* has dropped the models.
UnloadAndRelease ==
    /\ wd = "held"
    /\ wd' = "hold_end"
    /\ \/ /\ phase = "memory_busy" /\ ~forHold
          /\ forHold' = TRUE
          /\ reserved' = FALSE
          /\ notice' = "none"
          /\ UNCHANGED << phase, jobs, cooling, readySeen >>
       \/ /\ MayDrop
          /\ DropModels("unload")
          /\ cooling' = "none"
          /\ forHold' = TRUE
          /\ reserved' = FALSE
          /\ notice' = "none"
       \/ /\ ~(phase = "memory_busy" /\ ~forHold)
          /\ ~MayDrop
          /\ UNCHANGED << phase, jobs, reserved, notice, forHold, cooling, readySeen >>
    /\ UNCHANGED << config, retryDue, mt, loaded, at, holdVars, held, idle >>

\* unload_if_held, under the lock.
UnloadIfHeld ==
    /\ wd = "held"
    /\ wd' = "hold_end"
    /\ \/ /\ phase = "memory_busy" /\ ~forHold
          /\ forHold' = TRUE
          /\ reserved' = FALSE
          /\ notice' = "none"
          /\ UNCHANGED << phase, jobs, cooling, readySeen >>
       \/ /\ MayDrop
          /\ DropModels("unload")
          /\ cooling' = "none"
          /\ forHold' = TRUE
          /\ UNCHANGED << reserved, notice >>
       \/ /\ ~(phase = "memory_busy" /\ ~forHold)
          /\ ~MayDrop
          /\ UNCHANGED << phase, jobs, reserved, notice, forHold, cooling, readySeen >>
    /\ UNCHANGED << config, retryDue, mt, loaded, at, holdVars, held, idle >>

\* (mutant) the hold is not read again.
ReloadUnasked ==
    /\ wd = "hold_end"
    /\ UNCHANGED held
    /\ wd' = IF forHold THEN "reload" ELSE "pressure"
    /\ UNCHANGED << config, warmUp, jobs, mt, host, at, holdVars, forHold, cooling,
                    readySeen, idle >>

\* reload_after_hold, before the lock.
LookForHoldEnd ==
    /\ wd = "hold_end"
    /\ held' = IF forHold THEN hold ELSE held
    /\ wd' = IF forHold /\ ~hold THEN "reload" ELSE "pressure"
    /\ UNCHANGED << config, warmUp, jobs, mt, host, at, holdVars, forHold, cooling,
                    readySeen, idle >>

ReloadAfterHold ==
    /\ wd = "reload"
    /\ wd' = "pressure"
    /\ forHold' = FALSE
    /\ IF forHold /\ phase \in {"unloaded", "memory_busy"}
          THEN Start
          ELSE UNCHANGED << phase, jobs >>
    /\ UNCHANGED << config, retryDue, mt, host, at, holdVars, held, cooling, readySeen, idle >>

\* release_if_under_pressure.  The level is the kernel's: any, at any time.
ReleaseUnderPressure ==
    /\ wd = "pressure"
    /\ wd' = "idle"
    /\ \/ /\ config.release
          /\ MayDrop
          /\ DropModels("pressure_unload")
          /\ cooling' = "cooling"
       \/ UNCHANGED << phase, jobs, cooling, readySeen >>
    /\ UNCHANGED << config, retryDue, mt, host, at, holdVars, held, forHold, idle >>

UnloadIfIdle ==
    /\ wd = "idle"
    /\ wd' = "rewarm"
    /\ \/ /\ config.idle_unload /\ phase # "ready"
          /\ readySeen' = FALSE
          /\ UNCHANGED << phase, jobs, cooling, idle >>
       \/ /\ config.idle_unload /\ phase = "ready" /\ ~readySeen
          /\ readySeen' = TRUE
          /\ idle' = FALSE
          /\ UNCHANGED << phase, jobs, cooling >>
       \/ /\ config.idle_unload /\ MayDrop /\ readySeen /\ idle
          /\ DropModels("unload")
          /\ cooling' = "none"
          /\ UNCHANGED idle
       \/ /\ ~config.idle_unload \/ (phase = "ready" /\ readySeen /\ ~(MayDrop /\ idle))
          /\ UNCHANGED << phase, jobs, cooling, readySeen, idle >>
    /\ UNCHANGED << config, retryDue, mt, host, at, holdVars, held, forHold >>

\* rewarm_if_due, before the lock.
LookForRewarm ==
    /\ wd = "rewarm"
    /\ wd' = IF config.rewarm /\ ~held /\ ~forHold THEN "retry" ELSE "tick"
    /\ UNCHANGED << config, warmUp, jobs, mt, host, at, holdVars, unloader >>

RewarmIfDue ==
    /\ wd = "retry"
    /\ wd' = "tick"
    /\ cooling' = IF phase = "ready" THEN "none" ELSE cooling
    /\ IF phase = "memory_busy" \/ (phase = "unloaded" /\ cooling = "over")
          THEN Start
          ELSE UNCHANGED << phase, jobs >>
    /\ UNCHANGED << config, retryDue, mt, host, at, holdVars, held, forHold, readySeen, idle >>

\* The admission's tick: a refusal nobody followed up lapses, and the jobs a
\* load went past may have stopped.
Tick ==
    /\ wd = "tick"
    /\ wd' = "hold"
    /\ \/ /\ \/ notice = "past_background"
             \/ notice = "waiting" /\ retryDue
          /\ notice' = "none"
       \/ UNCHANGED notice
    /\ UNCHANGED << config, warmUp, jobs, mt, loaded, reserved, at, holdVars, unloader >>

----------------------------------------------------------------------------
(* Time and the operator.                                                  *)

\* admission_retry_seconds after the refusal; _run has long returned by then.
RetryComesDue ==
    /\ ~retryDue
    /\ mt # "ending"
    /\ retryDue' = TRUE
    /\ UNCHANGED << config, phase, jobs, mt, host, at, holdVars, unloader, wd >>

CooldownEnds ==
    /\ cooling = "cooling"
    /\ cooling' = "over"
    /\ UNCHANGED << config, warmUp, jobs, mt, host, at, holdVars, held, forHold,
                    readySeen, idle, wd >>

IdlePeriodPasses ==
    /\ config.idle_unload
    /\ ~idle
    /\ idle' = TRUE
    /\ UNCHANGED << config, warmUp, jobs, mt, host, at, holdVars, held, forHold,
                    cooling, readySeen, wd >>

\* imsg mcp hold-models.
SetHold ==
    /\ config.holdable
    /\ ~hold
    /\ holds < MaxHolds
    /\ hold' = TRUE
    /\ holds' = holds + 1
    /\ UNCHANGED << config, warmUp, jobs, mt, host, at, unloader, wd >>

\* imsg mcp release-models, or the hold's until has passed.
EndHold ==
    /\ hold
    /\ hold' = FALSE
    /\ UNCHANGED << config, warmUp, jobs, mt, host, at, holds, unloader, wd >>

----------------------------------------------------------------------------

ModelThread ==
    \/ Admit \/ Refuse \/ PublishRefusal
    \/ Load \/ LoadFails \/ PublishReady \/ EndPass
    \/ Unload("unload") \/ Unload("pressure_unload") \/ AfterUnload
    \/ \E c \in Callers : Query(c) \/ EndQuery(c)

Call(c) ==
    \/ ReadHold(c) \/ Register(c) \/ SeeReady(c) \/ LeaveUnserved(c)
    \/ Ask(c) \/ Answer(c)

Watchdog ==
    \/ LookForHold \/ UnloadIfHeld \/ LookForHoldEnd \/ ReloadAfterHold
    \/ ReleaseUnderPressure \/ UnloadIfIdle
    \/ LookForRewarm \/ RewarmIfDue \/ Tick

Environment ==
    RetryComesDue \/ CooldownEnds \/ IdlePeriodPasses \/ SetHold \/ EndHold

Next ==
    \/ ModelThread
    \/ \E c \in Callers : Call(c)
    \/ Watchdog
    \/ Environment

Spec == Init /\ [][Next]_vars

\* The threads run, timers fire, and a load that is asked for again and again
\* is admitted (MemoryAdmission's WaitingServerLoads).  Nothing makes a client
\* call, or the operator end a hold.
Fairness ==
    /\ WF_vars(ModelThread)
    /\ SF_vars(Admit)
    /\ WF_vars(Watchdog)
    /\ WF_vars(RetryComesDue)
    /\ WF_vars(CooldownEnds)

FairSpec == Spec /\ Fairness

----------------------------------------------------------------------------
(* Properties.                                                             *)

\* Type correctness; a call whose query is queued or running is "asking".
TypeOK ==
    /\ config \in Configs
    /\ phase \in Phases
    /\ jobs \in Seq(Jobs)
    /\ mt \in ModelThreadPoints
    /\ retryDue \in BOOLEAN /\ loaded \in BOOLEAN /\ reserved \in BOOLEAN
    /\ hold \in BOOLEAN /\ held \in BOOLEAN /\ forHold \in BOOLEAN
    /\ readySeen \in BOOLEAN /\ idle \in BOOLEAN
    /\ notice \in {"none", "waiting", "past_background", "reload_pending"}
    /\ at \in [Callers -> CallPoints]
    /\ holds \in 0 .. MaxHolds
    /\ cooling \in {"none", "cooling", "over"}
    /\ wd \in WatchdogPoints
    /\ mt \in Callers => at[mt] = "asking"

\* A query's model call always finds the models loaded.  Were they dropped
\* between the call's look at the phase and its turn on the model thread, the
\* providers would load them again past the memory admission
\* (idle_unload.call, _run_unload).
QueryMeetsModels == mt \in Callers => loaded

\* Models in memory are covered by the server's reservation, so that other
\* processes' checks count them (background_warm_up._admitted,
\* idle_unload._run_unload with after_unload).
LoadedIsReserved == loaded => reserved

\* Whoever asks for the load (calls, the watchdog after a hold, its rewarm),
\* one pass at most is queued or running (background_warm_up.start).
OnePassAtATime ==
    Cardinality({i \in DOMAIN jobs : jobs[i] = "load"})
      + (IF mt \in {"refused", "loading", "loaded"} THEN 1 ELSE 0) <= 1

\* While the server has given its models up for a hold, no load is queued and
\* none runs (idle_unload.unload_if_held, call, rewarm_if_due).
HeldMeansNoPass ==
    forHold => /\ \A i \in DOMAIN jobs : jobs[i] # "load"
               /\ mt \notin {"refused", "loading", "loaded"}

\* The server keeps to AdmittedServer, the contract that MemoryAdmission keeps
\* to as well, whichever of its threads loads, drops, releases or asks again
\* (background_warm_up._admitted, idle_unload._run_unload, unload_if_held).
Contract == INSTANCE AdmittedServer WITH stopping <- FALSE

ContractSpec == Contract!Spec

\* A server that must stay warm comes back by itself: once no hold is set any
\* more it is ready again and again, or its warm-up has failed
\* (idle_unload.rewarm_if_due, reload_after_hold).
WarmServerReturns ==
    [](config.rewarm /\ ~config.idle_unload) =>
        (<>[]~hold => []<>(phase \in {"ready", "failed"}))

\* A hold gets the memory: once it stands and no call is inside, the models
\* and the reservation go and stay away, unless the warm-up has failed
\* (idle_unload.unload_if_held).
HoldFreesTheMemory ==
    <>[](hold /\ \A c \in Callers : at[c] = "out")
        => <>[]((~loaded /\ ~reserved) \/ phase = "failed")

\* The module's own words: "A hold that arrives while a refused load is waiting
\* withdraws the server's notice, so the job that set the hold can load"
\* (idle_unload.py, unload_if_held).  The notice of a pressure release stays.
HoldLetsTheJobLoad ==
    <>[](hold /\ \A c \in Callers : at[c] = "out")
        => <>[](notice = "none" \/ phase = "failed")

=============================================================================
