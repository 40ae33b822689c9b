-------------------------- MODULE MemoryAdmission --------------------------
(***************************************************************************)
(* Memory admission on one host: who may load a model set, and when.       *)
(*                                                                         *)
(* Every process that loads models asks the same question under one short  *)
(* host-wide flock (imsg.memory_admission): the live MCP servers through   *)
(* LiveServerAdmission, every background command (segment, embed, enrich,  *)
(* sync, eval) through imsg.background_gate while it holds the heavy-model *)
(* lock (imsg.heavy_lock, here one variable; module HeavyLock opens it).   *)
(* An admitted process leaves a reservation file; a live server that waits *)
(* leaves a notice that holds background work back                         *)
(* (imsg.live_server_notice).                                              *)
(*                                                                         *)
(* A check is several steps, because the code reads the host, the          *)
(* reservations and the notices one after the other while other processes  *)
(* load, unload, post, withdraw and die.  What the admission lock does not *)
(* cover (removing a reservation, posting the reload notice, the watchdog's*)
(* tick, loading itself) interleaves with every step of it.                *)
(*                                                                         *)
(* Memory is counted in whole units; a process never holds more than its   *)
(* role's footprint.  The pause switch and the pressure level seen between *)
(* units are choices of the environment.                                   *)
(***************************************************************************)
EXTENDS Integers, FiniteSets

CONSTANTS
    Live,           \* the MCP server processes
    Retrying,       \* the live servers that try a refused load again by themselves
    Background,     \* the background commands
    Batch,          \* those that never ask between units (eval, segment --rebuild)
    Stepwise,       \* those that give back one step's models and go on (sync)
    Footprint,      \* what each process is admitted for
    Total,          \* the host's memory for models and for the rest
    Reserve,        \* memory.reserve_bytes
    Drift,          \* bound: growth of all loads during one vm_stat run
    PressureLevels, \* the levels the kernel may report to a check
    MaxPressure,    \* memory.admission_max_pressure
    ProbeMayFail,   \* whether a check may fail to measure the host, or a process
    MayCrash,       \* the processes that may be killed
    NoOne           \* no process

Procs == Live \cup Background

Severity == [normal |-> 0, warn |-> 1, critical |-> 2]

ASSUME ProcsAssumption ==
    /\ IsFiniteSet(Live \cup Background)
    /\ Live \cap Background = {}
    /\ NoOne \notin Live \cup Background
    /\ Retrying \subseteq Live
    /\ Batch \subseteq Background
    /\ Stepwise \subseteq Background \ Batch
    /\ MayCrash \subseteq Live \cup Background

ASSUME MemoryAssumption ==
    /\ Footprint \in [Live \cup Background -> Nat \ {0}]
    /\ Total \in Nat
    /\ Reserve \in Nat
    /\ Drift \in Nat
    /\ PressureLevels \subseteq DOMAIN Severity
    /\ MaxPressure \in {"normal", "warn"}
    /\ ProbeMayFail \in BOOLEAN

VARIABLES
    pc,        \* where each process is
    held,      \* the model memory each process holds
    reserved,  \* whether its reservation file exists
    lock,      \* who holds the admission lock
    heavy,     \* who holds the heavy-model lock
    notice,    \* why each live server's notice is up, or "none"
    aged,      \* whether that notice is background_yield_seconds old
    refusal,   \* what became of a waiting server's last refusal
    counting,  \* whether a live check counts background promises
    look,      \* what the check under the lock has read so far
    drift,     \* growth since that check measured the host
    saw,       \* history: the reservations each admission took into account
    past       \* history: background jobs each live admission went past

vars == << pc, held, reserved, lock, heavy, notice, aged, refusal, counting,
           look, drift, saw, past >>

hostVars   == << heavy, drift >>
noticeVars == << notice, aged, refusal >>
history    == << saw, past >>

----------------------------------------------------------------------------
(* Program points.                                                         *)

CheckPoints == {"locked", "measured", "counted", "noticed"}

LivePoints == {"cold", "asking", "locked", "measured", "counted", "busy",
               "loaded", "idled", "pressed", "withdrawing", "posting",
               "closing", "closed", "dead"}

BackgroundPoints == {"idle", "gate", "asking", "locked", "measured", "counted",
                     "noticed", "refused", "unit", "stepping", "dropping",
                     "unlocking", "leaving", "dead"}

Notices == {"none", "waiting", "past_background", "reload_pending"}

NothingRead == [avail |-> 0, level |-> "normal", seen |-> {}, promised |-> 0,
                aside |-> {}, waiting |-> {}]

Running(p) == pc[p] # "dead"

Posted(l) == notice[l] # "none"

\* (mutant) only refused servers' notices are read.
RefusedNotices == {l \in Live : notice[l] = "waiting"}

PostedNotices == {l \in Live : Posted(l)}

----------------------------------------------------------------------------
(* Memory.                                                                 *)

\* The memory units that the processes of S account for, amount[p] each.
\* An amount below zero counts for nothing, as in promised_bytes.
Units(amount, S) == Cardinality(UNION {{p} \X (1 .. amount[p]) : p \in S})

Available == Total - Units(held, Procs)

\* What a process was admitted for and does not hold yet (promised_bytes);
\* one whose footprint cannot be read counts as holding nothing.
Promised(unread) ==
    [q \in Procs |-> Footprint[q] - (IF q \in unread THEN 0 ELSE held[q])]

\* The reservations of running processes other than p.
Others(p) == {q \in Procs \ {p} : reserved[q] /\ Running(q)}

\* Background reservations that a live check no longer counts.
SetAside(p, unread) ==
    IF p \in Live /\ ~counting[p]
    THEN {q \in Others(p) : q \in Background /\ Promised(unread)[q] > 0}
    ELSE {}

----------------------------------------------------------------------------
Init ==
    /\ pc = [p \in Procs |-> IF p \in Live THEN "cold" ELSE "idle"]
    /\ held = [p \in Procs |-> 0]
    /\ reserved = [p \in Procs |-> FALSE]
    /\ lock = NoOne
    /\ heavy = NoOne
    /\ notice = [l \in Live |-> "none"]
    /\ aged = [l \in Live |-> FALSE]
    /\ refusal = [l \in Live |-> "fresh"]
    /\ counting = [l \in Live |-> TRUE]
    /\ look = NothingRead
    /\ drift = 0
    /\ saw = [p \in Procs |-> {}]
    /\ past = [l \in Live |-> {}]

Goto(p, where) == pc' = [pc EXCEPT ![p] = where]

\* The job b no longer holds memory or a reservation: nobody is past it.
NoLongerPast(b) == past' = [l \in Live |-> past[l] \ {b}]

----------------------------------------------------------------------------
(* The check, one step per read (MemoryAdmission.check).                   *)

\* A live server starts a check: at start-up, for a call, or on a retry.
\* background_promises_count is read before the lock is taken.
StartLiveCheck(l) ==
    /\ pc[l] \in {"cold", "busy"}
    /\ Goto(l, "asking")
    /\ counting' = [counting EXCEPT ![l] = ~(Posted(l) /\ aged[l])]
    /\ UNCHANGED << held, reserved, lock, noticeVars, look, hostVars, history >>

\* (mutant) locked() that opens the lock file but does not wait for it.
TakeAdmissionLockUnheld(p) ==
    /\ pc[p] = "asking"
    /\ lock' = p
    /\ Goto(p, "locked")
    /\ UNCHANGED << held, reserved, noticeVars, counting, look, hostVars, history >>

TakeAdmissionLock(p) ==
    /\ pc[p] = "asking"
    /\ lock = NoOne
    /\ lock' = p
    /\ Goto(p, "locked")
    /\ UNCHANGED << held, reserved, noticeVars, counting, look, hostVars, history >>

\* HostMemoryProbe.read: one vm_stat run and the pressure level.
Measure(p) ==
    /\ pc[p] = "locked"
    /\ \E level \in PressureLevels :
           look' = [NothingRead EXCEPT !.avail = Available, !.level = level]
    /\ drift' = 0
    /\ Goto(p, "measured")
    /\ UNCHANGED << held, reserved, lock, heavy, noticeVars, counting, history >>

\* (mutant) a process whose footprint cannot be read is taken for dead.
CountReadableOthers(p) ==
    /\ pc[p] = "measured"
    /\ \E unread \in SUBSET Others(p) :
           /\ unread # {} => ProbeMayFail
           /\ look' = [look EXCEPT
                         !.seen = Others(p) \ unread,
                         !.aside = SetAside(p, unread),
                         !.promised = Units(Promised(unread), Others(p) \ SetAside(p, unread))]
           /\ reserved' = [q \in Procs |-> reserved[q] /\ (q = p \/ Running(q)) /\ q \notin unread]
    /\ drift' = 0
    /\ Goto(p, "counted")
    /\ UNCHANGED << held, lock, heavy, noticeVars, counting, history >>

\* ReservationBook.others: counts the running processes' reservations and
\* reads what they hold, removes the files of the dead.
CountOthers(p) ==
    /\ pc[p] = "measured"
    /\ \E unread \in SUBSET Others(p) :
           /\ unread # {} => ProbeMayFail
           /\ look' = [look EXCEPT
                         !.seen = Others(p),
                         !.aside = SetAside(p, unread),
                         !.promised = Units(Promised(unread), Others(p) \ SetAside(p, unread))]
    /\ reserved' = [q \in Procs |-> reserved[q] /\ (q = p \/ Running(q))]
    /\ drift' = 0
    /\ Goto(p, "counted")
    /\ UNCHANGED << held, lock, heavy, noticeVars, counting, history >>

ReadNotices(b) ==
    /\ pc[b] = "counted"
    /\ look' = [look EXCEPT !.waiting = PostedNotices]
    /\ Goto(b, "noticed")
    /\ UNCHANGED << held, reserved, lock, noticeVars, counting, hostVars, history >>

\* (mutant) decide without what other processes were promised.
AdmitsOnFreeMemory(p) ==
    /\ Severity[look.level] <= Severity[MaxPressure]
    /\ look.level # "critical"
    /\ look.waiting = {}
    /\ look.avail >= Footprint[p] + Reserve

\* decide: the rule, on the numbers already read.
Admits(p) ==
    /\ Severity[look.level] <= Severity[MaxPressure]
    /\ look.level # "critical"
    /\ look.waiting = {}
    /\ look.avail - look.promised >= Footprint[p] + Reserve

\* The lock is released and the reads are dropped.
LeaveCheck == lock' = NoOne /\ look' = NothingRead /\ drift' = 0

\* LiveServerAdmission._post: a notice that is up keeps its age.
Post(l, cause) ==
    /\ notice' = [notice EXCEPT ![l] = cause]
    /\ aged' = [aged EXCEPT ![l] = Posted(l) /\ aged[l]]

Withdraw(l) ==
    /\ notice' = [notice EXCEPT ![l] = "none"]
    /\ aged' = [aged EXCEPT ![l] = FALSE]

\* (mutant) a refusal that is not posted.
SettleSilently(l, admitted) ==
    /\ refusal' = [refusal EXCEPT ![l] = "fresh"]
    /\ \/ admitted /\ look.aside # {} /\ Post(l, "past_background")
       \/ admitted /\ look.aside = {} /\ Withdraw(l)
       \/ ~admitted /\ UNCHANGED << notice, aged >>

\* settle, before the lock is released: the notice follows the decision.
Settle(l, admitted) ==
    /\ refusal' = [refusal EXCEPT ![l] = "fresh"]
    /\ \/ admitted /\ look.aside # {} /\ Post(l, "past_background")
       \/ admitted /\ look.aside = {} /\ Withdraw(l)
       \/ ~admitted /\ Post(l, "waiting")

\* A running process that holds memory or a reservation.
HasClaim(p) == Running(p) /\ (reserved[p] \/ held[p] > 0)

Reservation(p) ==
    /\ reserved' = [reserved EXCEPT ![p] = TRUE]
    /\ saw' = [saw EXCEPT ![p] = look.seen]

AdmitLive(l) ==
    /\ pc[l] = "counted"
    /\ Admits(l)
    /\ Reservation(l)
    /\ past' = [past EXCEPT ![l] = {b \in look.aside : HasClaim(b)}]
    /\ Settle(l, TRUE)
    /\ LeaveCheck
    /\ Goto(l, "loaded")
    /\ counting' = [counting EXCEPT ![l] = TRUE]
    /\ UNCHANGED << held, heavy >>

RefuseLive(l) ==
    /\ pc[l] = "counted"
    /\ ~Admits(l)
    /\ Settle(l, FALSE)
    /\ LeaveCheck
    /\ Goto(l, "busy")
    /\ counting' = [counting EXCEPT ![l] = TRUE]
    /\ UNCHANGED << held, reserved, heavy, history >>

AdmitBackground(b) ==
    /\ pc[b] = "noticed"
    /\ Admits(b)
    /\ Reservation(b)
    /\ LeaveCheck
    /\ Goto(b, "unit")
    /\ UNCHANGED << held, heavy, noticeVars, counting, past >>

RefuseBackground(b) ==
    /\ pc[b] = "noticed"
    /\ ~Admits(b)
    /\ LeaveCheck
    /\ Goto(b, "refused")
    /\ UNCHANGED << held, reserved, heavy, noticeVars, counting, history >>

\* Anything the check raises is a refusal that never reaches settle.
CheckFails(p) ==
    /\ ProbeMayFail
    /\ pc[p] \in CheckPoints
    /\ LeaveCheck
    /\ Goto(p, IF p \in Live THEN "busy" ELSE "refused")
    /\ refusal' = [l \in Live |-> IF l = p /\ notice[l] = "waiting" /\ refusal[l] = "fresh"
                                  THEN "unheard" ELSE refusal[l]]
    /\ counting' = [l \in Live |-> l = p \/ counting[l]]
    /\ UNCHANGED << held, reserved, heavy, notice, aged, history >>

----------------------------------------------------------------------------
(* Loading, and the live servers' ways of giving memory back.              *)

\* An admitted process loads its weights; at most Drift units are loaded
\* while a check is between its two measurements.
Measuring == \E q \in Procs : pc[q] = "measured"

\* (mutant) no limit on what an admitted process loads.
LoadPastFootprint(p) ==
    /\ pc[p] \in {"loaded", "unit"}
    /\ Measuring => drift < Drift
    /\ held' = [held EXCEPT ![p] = @ + 1]
    /\ drift' = IF Measuring THEN drift + 1 ELSE 0
    /\ UNCHANGED << pc, reserved, lock, heavy, noticeVars, counting, look, history >>

Load(p) ==
    /\ pc[p] \in {"loaded", "unit"}
    /\ held[p] < Footprint[p]
    /\ Measuring => drift < Drift
    /\ held' = [held EXCEPT ![p] = @ + 1]
    /\ drift' = IF Measuring THEN drift + 1 ELSE 0
    /\ UNCHANGED << pc, reserved, lock, heavy, noticeVars, counting, look, history >>

\* The models go first (on the model thread), then after_unload runs.
UnloadIdle(l) ==
    /\ pc[l] = "loaded"
    /\ held' = [held EXCEPT ![l] = 0]
    /\ Goto(l, "idled")
    /\ UNCHANGED << reserved, lock, noticeVars, counting, look, hostVars, history >>

\* Only a server that loads again by itself has after_pressure_unload.
UnloadForPressure(l) ==
    /\ l \in Retrying
    /\ pc[l] = "loaded"
    /\ held' = [held EXCEPT ![l] = 0]
    /\ Goto(l, "pressed")
    /\ UNCHANGED << reserved, lock, noticeVars, counting, look, hostVars, history >>

\* A hold finds a refused load waiting: after_unload, with nothing loaded.
StopRetrying(l) ==
    /\ l \in Retrying
    /\ pc[l] = "busy"
    /\ Goto(l, "idled")
    /\ UNCHANGED << held, reserved, lock, noticeVars, counting, look, hostVars, history >>

\* The server is asked to stop: its models stay until the process ends.
Close(l) ==
    /\ pc[l] \in {"cold", "busy", "loaded"}
    /\ Goto(l, "closing")
    /\ UNCHANGED << held, reserved, lock, noticeVars, counting, look, hostVars, history >>

AfterRelease == [idled |-> "withdrawing", pressed |-> "posting", closing |-> "closed"]

\* MemoryAdmission.release: the file goes, outside the admission lock.
RemoveReservation(p) ==
    /\ reserved' = [reserved EXCEPT ![p] = FALSE]
    /\ saw' = [saw EXCEPT ![p] = {}]

ReleaseLive(l) ==
    /\ pc[l] \in DOMAIN AfterRelease
    /\ RemoveReservation(l)
    /\ past' = [past EXCEPT ![l] = IF held[l] = 0 THEN {} ELSE @]
    /\ Goto(l, AfterRelease[pc[l]])
    /\ UNCHANGED << held, lock, noticeVars, counting, look, hostVars >>

\* release: then the notice goes.
WithdrawNotice(l) ==
    /\ pc[l] = "withdrawing"
    /\ Withdraw(l)
    /\ refusal' = [refusal EXCEPT ![l] = "fresh"]
    /\ Goto(l, "cold")
    /\ UNCHANGED << held, reserved, lock, counting, look, hostVars, history >>

\* release_for_reload: then the notice goes up.
PostReloadNotice(l) ==
    /\ pc[l] = "posting"
    /\ Post(l, "reload_pending")
    /\ Goto(l, "cold")
    /\ UNCHANGED << held, reserved, lock, refusal, counting, look, hostVars, history >>

\* LiveServerAdmission.tick, on the watchdog thread, whatever the model
\* thread is doing.
\* (mutant) a job that has loaded nothing yet is not seen as running.
LoadedJobsRunning(l) == \E b \in Others(l) \cap Background : held[b] > 0

BackgroundJobsRunning(l) == Others(l) \cap Background # {}

\* (mutant) a tick that only handles lapsed refusals.
TickLapsedOnly(l) ==
    /\ Running(l)
    /\ notice[l] = "waiting"
    /\ refusal[l] = "lapsed"
    /\ Withdraw(l)
    /\ refusal' = [refusal EXCEPT ![l] = "fresh"]
    /\ UNCHANGED << pc, held, reserved, lock, counting, look, hostVars, history >>

Tick(l) ==
    /\ Running(l)
    /\ \/ notice[l] = "waiting" /\ refusal[l] = "lapsed"
       \/ notice[l] = "past_background" /\ ~BackgroundJobsRunning(l)
    /\ Withdraw(l)
    /\ refusal' = [refusal EXCEPT ![l] = "fresh"]
    /\ UNCHANGED << pc, held, reserved, lock, counting, look, hostVars, history >>

\* Time: a notice reaches background_yield_seconds.
NoticeAges(l) ==
    /\ Posted(l)
    /\ ~aged[l]
    /\ aged' = [aged EXCEPT ![l] = TRUE]
    /\ UNCHANGED << pc, held, reserved, lock, notice, refusal, counting, look, hostVars, history >>

\* Time: NOTICE_LAPSE_SECONDS since the last refusal that reached settle.
\* A server that retries by itself tries several times in that long, so
\* only when its checks fail to measure.
RefusalLapses(l) ==
    /\ notice[l] = "waiting"
    /\ \/ refusal[l] = "fresh" /\ l \notin Retrying
       \/ refusal[l] = "unheard"
    /\ refusal' = [refusal EXCEPT ![l] = "lapsed"]
    /\ UNCHANGED << pc, held, reserved, lock, notice, aged, counting, look, hostVars, history >>

----------------------------------------------------------------------------
(* Background commands.                                                    *)

TakeHeavyLock(b) ==
    /\ pc[b] = "idle"
    /\ heavy = NoOne
    /\ heavy' = b
    /\ Goto(b, "gate")
    /\ UNCHANGED << held, reserved, lock, noticeVars, counting, look, drift, history >>

\* BackgroundGate.admit: not paused, so ask.
PassGate(b) ==
    /\ pc[b] = "gate"
    /\ Goto(b, "asking")
    /\ UNCHANGED << held, reserved, lock, noticeVars, counting, look, hostVars, history >>

\* Paused, or a sync with no step left.
LeaveGate(b) ==
    /\ pc[b] = "gate"
    /\ Goto(b, "unlocking")
    /\ UNCHANGED << held, reserved, lock, noticeVars, counting, look, hostVars, history >>

\* The next poll asks the pause switch again, then checks again.
AskAgain(b) ==
    /\ pc[b] = "refused"
    /\ Goto(b, "gate")
    /\ UNCHANGED << held, reserved, lock, noticeVars, counting, look, hostVars, history >>

\* admission_wait_seconds have passed: deferred.
Defer(b) ==
    /\ pc[b] = "refused"
    /\ Goto(b, "unlocking")
    /\ UNCHANGED << held, reserved, lock, noticeVars, counting, look, hostVars, history >>

\* The eval commands leave the heavy lock first, the others last.
EndOfWork(b) == IF b \in Batch THEN "unlocking" ELSE "dropping"

\* between_units: a posted notice stops the command after its unit.
StopForLiveServer(b) ==
    /\ pc[b] = "unit"
    /\ b \notin Batch
    /\ PostedNotices # {}
    /\ Goto(b, EndOfWork(b))
    /\ UNCHANGED << held, reserved, lock, noticeVars, counting, look, hostVars, history >>

\* No work left, or stopped between units by the pause switch or pressure.
EndWork(b) ==
    /\ pc[b] = "unit"
    /\ Goto(b, EndOfWork(b))
    /\ UNCHANGED << held, reserved, lock, noticeVars, counting, look, hostVars, history >>

\* sync between its two heavy steps: the models are dropped, the heavy
\* lock is kept.
EndStep(b) ==
    /\ b \in Stepwise
    /\ pc[b] = "unit"
    /\ held' = [held EXCEPT ![b] = 0]
    /\ Goto(b, "stepping")
    /\ UNCHANGED << reserved, lock, noticeVars, counting, look, hostVars, history >>

ReleaseStep(b) ==
    /\ pc[b] = "stepping"
    /\ RemoveReservation(b)
    /\ NoLongerPast(b)
    /\ Goto(b, "gate")
    /\ UNCHANGED << held, lock, noticeVars, counting, look, hostVars >>

ReleaseBackground(b) ==
    /\ pc[b] = "dropping"
    /\ RemoveReservation(b)
    /\ Goto(b, IF b \in Batch THEN "leaving" ELSE "unlocking")
    /\ UNCHANGED << held, lock, noticeVars, counting, look, hostVars, past >>

ReleaseHeavyLock(b) ==
    /\ pc[b] = "unlocking"
    /\ heavy' = NoOne
    /\ Goto(b, IF b \in Batch THEN "dropping" ELSE "leaving")
    /\ UNCHANGED << held, reserved, lock, noticeVars, counting, look, drift, history >>

\* The command ends, and its models with it.
LeaveHost(b) ==
    /\ pc[b] = "leaving"
    /\ held' = [held EXCEPT ![b] = 0]
    /\ NoLongerPast(b)
    /\ Goto(b, "idle")
    /\ UNCHANGED << reserved, lock, noticeVars, counting, look, hostVars, saw >>

----------------------------------------------------------------------------
(* Process death.  The kernel drops the memory and every flock; the        *)
(* reservation file stays until another check sweeps it.                   *)

Dies(p) ==
    /\ Goto(p, "dead")
    /\ held' = [held EXCEPT ![p] = 0]
    /\ notice' = [l \in Live |-> IF l = p THEN "none" ELSE notice[l]]
    /\ aged' = [l \in Live |-> l # p /\ aged[l]]
    /\ refusal' = [l \in Live |-> IF l = p THEN "fresh" ELSE refusal[l]]
    /\ counting' = [l \in Live |-> l = p \/ counting[l]]
    /\ heavy' = IF heavy = p THEN NoOne ELSE heavy
    /\ saw' = [saw EXCEPT ![p] = {}]
    /\ past' = [l \in Live |-> IF l = p THEN {} ELSE past[l] \ {p}]
    /\ UNCHANGED reserved

\* The end of a server that was asked to stop.
Exit(l) ==
    /\ pc[l] = "closed"
    /\ Dies(l)
    /\ UNCHANGED << lock, look, drift >>

Crash(p) ==
    /\ p \in MayCrash
    /\ Running(p)
    /\ Dies(p)
    /\ IF lock = p THEN LeaveCheck ELSE UNCHANGED << lock, look, drift >>

\* A new process: its pid names no reservation.
Restart(p) ==
    /\ pc[p] = "dead"
    /\ reserved' = [reserved EXCEPT ![p] = FALSE]
    /\ Goto(p, IF p \in Live THEN "cold" ELSE "idle")
    /\ UNCHANGED << held, lock, noticeVars, counting, look, hostVars, history >>

----------------------------------------------------------------------------
Check(p) ==
    \/ TakeAdmissionLock(p)
    \/ Measure(p)
    \/ CountOthers(p)
    \/ CheckFails(p)

LiveNext(l) ==
    \/ StartLiveCheck(l)
    \/ AdmitLive(l)
    \/ RefuseLive(l)
    \/ UnloadIdle(l)
    \/ UnloadForPressure(l)
    \/ StopRetrying(l)
    \/ Close(l)
    \/ ReleaseLive(l)
    \/ WithdrawNotice(l)
    \/ PostReloadNotice(l)
    \/ Tick(l)
    \/ NoticeAges(l)
    \/ RefusalLapses(l)
    \/ Exit(l)

BackgroundNext(b) ==
    \/ TakeHeavyLock(b)
    \/ PassGate(b)
    \/ LeaveGate(b)
    \/ ReadNotices(b)
    \/ AdmitBackground(b)
    \/ RefuseBackground(b)
    \/ AskAgain(b)
    \/ Defer(b)
    \/ StopForLiveServer(b)
    \/ EndWork(b)
    \/ EndStep(b)
    \/ ReleaseStep(b)
    \/ ReleaseBackground(b)
    \/ ReleaseHeavyLock(b)
    \/ LeaveHost(b)

Next ==
    \/ \E p \in Procs : Check(p) \/ Load(p) \/ Crash(p) \/ Restart(p)
    \/ \E l \in Live : LiveNext(l)
    \/ \E b \in Background : BackgroundNext(b)

Spec == Init /\ [][Next]_vars

----------------------------------------------------------------------------
(* Fairness.  Every process is scheduled and every check runs to its end;  *)
(* flock wakes its waiters in turn (SF); a server that retries by itself   *)
(* asks again; a unit of work ends, and so does a batch command, and a     *)
(* refused command gives up; the watchdog runs and time passes.  Nothing   *)
(* makes a background command start or end its work, a client call, a      *)
(* process die or memory grow.                                             *)

AsksAgain(l) ==
    /\ pc[l] = "busy" \/ notice[l] = "reload_pending"
    /\ StartLiveCheck(l)

Fairness ==
    /\ \A p \in Procs :
           /\ SF_vars(TakeAdmissionLock(p))
           /\ WF_vars(Measure(p))
           /\ WF_vars(CountOthers(p))
    /\ \A l \in Live :
           /\ WF_vars(AdmitLive(l) \/ RefuseLive(l))
           /\ WF_vars(ReleaseLive(l))
           /\ WF_vars(WithdrawNotice(l) \/ PostReloadNotice(l) \/ Exit(l))
           /\ WF_vars(Tick(l))
           /\ WF_vars(NoticeAges(l))
           /\ SF_vars(RefusalLapses(l))
    /\ \A l \in Retrying : WF_vars(AsksAgain(l))
    /\ \A b \in Background :
           /\ WF_vars(PassGate(b) \/ LeaveGate(b))
           /\ WF_vars(ReadNotices(b))
           /\ WF_vars(AdmitBackground(b) \/ RefuseBackground(b))
           /\ WF_vars(Defer(b))
           /\ WF_vars(StopForLiveServer(b))
           /\ WF_vars(ReleaseStep(b))
           /\ WF_vars(ReleaseBackground(b))
           /\ WF_vars(ReleaseHeavyLock(b))
           /\ WF_vars(LeaveHost(b))
    /\ \A b \in Batch : WF_vars(EndWork(b))

FairSpec == Spec /\ Fairness

----------------------------------------------------------------------------
(* Properties.                                                             *)

\* Every variable has its type.
TypeOK ==
    /\ pc \in [Procs -> LivePoints \cup BackgroundPoints]
    /\ \A l \in Live : pc[l] \in LivePoints
    /\ \A b \in Background : pc[b] \in BackgroundPoints
    /\ held \in [Procs -> Nat]
    /\ \A p \in Procs : held[p] <= Footprint[p]
    /\ reserved \in [Procs -> BOOLEAN]
    /\ lock \in Procs \cup {NoOne}
    /\ heavy \in Background \cup {NoOne}
    /\ notice \in [Live -> Notices]
    /\ aged \in [Live -> BOOLEAN]
    /\ refusal \in [Live -> {"fresh", "unheard", "lapsed"}]
    /\ counting \in [Live -> BOOLEAN]
    /\ look \in [avail : Int, level : DOMAIN Severity,
                seen : SUBSET Procs, promised : Nat,
                aside : SUBSET Background, waiting : SUBSET Live]
    /\ drift \in 0 .. Drift
    /\ saw \in [Procs -> SUBSET Procs]
    /\ past \in [Live -> SUBSET Background]

\* "Two processes admitted at once" (memory_admission.py:32): of any two
\* running processes that both hold a reservation, one was admitted with
\* the other's reservation in hand, so no free memory was promised twice.
Granted(p) == reserved[p] /\ Running(p)

NoBlindPair ==
    \A p, q \in Procs :
        p # q /\ Granted(p) /\ Granted(q) => p \in saw[q] \/ q \in saw[p]

\* The rule of memory_admission.py:15: what running processes hold or were
\* promised leaves the reserve free, but for the growth a check cannot see
\* between its two measurements (memory_admission.py:701) and for the jobs
\* a live server was admitted past.
Claim == [p \in Procs |-> IF Granted(p) THEN Footprint[p] ELSE held[p]]

WentPast == UNION {past[l] : l \in Live}

RoomForAll ==
    LET claimed == Units(Claim, Procs \ WentPast)
    IN  claimed > 0 => claimed + Reserve <= Total + Drift

\* "A server admitted past background promises keeps its notice up until
\* those jobs have stopped" (memory_admission.py:69), whatever the tick,
\* the clock and later checks do.
PastNoticeStaysUp ==
    \A l \in Live : \A b \in past[l] :
        Granted(l) /\ Granted(b) => notice[l] = "past_background"

\* A job a server was admitted past is never joined by another one while
\* that server still shields the memory: no background admission is
\* committed while a notice posted by a check is up (memory_admission.py:60).
PostedByCheck(l) == notice[l] \in {"waiting", "past_background"}

BackgroundGivesWay ==
    [][\A b \in Background :
          ~Granted(b) /\ Granted(b)' => \A l \in Live : ~PostedByCheck(l)]_vars

\* Background work really gives way: a server that tries again by itself
\* and was refused ends up loaded, unless a hold or its end stops it
\* (memory_admission.py:46, "Live servers first").
WaitingServerLoads ==
    \A l \in Retrying : pc[l] = "busy" ~> pc[l] \in {"loaded", "idled", "closing", "dead"}

\* Nor is background work held back for ever: every notice comes down,
\* by a load, by the tick or by the end of its server.
NoticeComesDown == \A l \in Live : Posted(l) ~> ~Posted(l)

\* A live server as AdmittedServer sees it.
HasModels(l) == held[l] > 0
Stopping(l) == pc[l] \in {"closing", "closed", "dead"}
View(l) == << HasModels(l), Granted(l), notice[l], Stopping(l) >>

Server(l) == INSTANCE AdmittedServer WITH
                 loaded <- HasModels(l),
                 reserved <- Granted(l),
                 notice <- notice[l],
                 stopping <- Stopping(l)

\* Every live server keeps to AdmittedServer, the contract that ServerModels
\* keeps to as well: it asks when it has nothing, loads under a reservation,
\* and releases only when its models are gone (memory_admission.py:865-911);
\* no check, sweep or tick of anybody's takes that reservation away.
ServersKeepContract ==
    /\ \A l \in Live : Server(l)!Init
    /\ [][\A l \in Live : UNCHANGED View(l) \/ Server(l)!Next]_vars

============================================================================
