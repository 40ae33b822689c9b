------------------------------ MODULE Backfill ------------------------------
(***************************************************************************)
(* Attachment backfill (imsg.backfill): one run of `imsg                   *)
(* backfill-attachments` reads each pending attachment's own path into the *)
(* content-addressed cache and then tries the other places a copy is known *)
(* to be, the rows of attachment_location, best first.  Beside it another  *)
(* host runs `imsg push-attachments`: it fetches a plan, copies files into *)
(* this host's staging directory and, hours later, sends back what became  *)
(* of each candidate.  `imsg locate-attachments` and the extraction add    *)
(* rows and evidence meanwhile, and every one of them may die.             *)
(*                                                                         *)
(* Every statement here commits on its own, and no row is read again       *)
(* before it is written: the candidates and the attempts are those the run *)
(* read when it began.                                                     *)
(***************************************************************************)
EXTENDS Naturals, FiniteSets

CONSTANTS
    Attachments,
    Rows,         \* location_ids: natural numbers, the last word of every order
    AttachmentOf,
    LocationOf,   \* where a row's copy is
    FileOf,       \* and the file it is there: rows may share one
    Flagged,      \* rows matched on name and size, not on identity
    Reach,        \* how a location is read: "local", "push", "pull" or "none"
    OwnFile,      \* the file an attachment's own source_path names
    Contents,     \* what a file can hold
    SizeOf,       \* its size
    FirstDisk,    \* what each file holds in the beginning
    FirstListed,  \* what each row lists of it, or None when there is no row yet
    FirstPath,    \* whether a source_path is recorded and lies below the root
    Pushers,      \* `imsg push-attachments` processes
    MaxAttempts,  \* MAX_MATERIALIZATION_ATTEMPTS
    TrialLimit,   \* the first run's allowance
    MaxRuns,      \* bound: backfill runs
    MaxPlans,     \* bound: push plans
    MaxChanges,   \* bound: changes of files, rows and paths
    MaxFaults,    \* bound: failed reads and copies, killed processes
    None          \* no file, no hash, no row

Locations == DOMAIN Reach
Files == DOMAIN FirstDisk
Held == Contents \cup {None, "irregular"}   \* what a path leads to
Sizes == {SizeOf[c] : c \in Contents}
Listings == [size: Sizes \cup {None}, sha: Contents \cup {None}]
NoListing == [size |-> None, sha |-> None]
Observed == {e \in Listings : e.sha # None => e.size = SizeOf[e.sha]}
Runs == 1 .. MaxRuns

ASSUME BackfillAssumption ==
    /\ Rows \subseteq Nat
    /\ AttachmentOf \in [Rows -> Attachments]
    /\ LocationOf \in [Rows -> Locations]
    /\ FileOf \in [Rows -> Files]
    /\ \A l, k \in Rows : FileOf[l] = FileOf[k] => LocationOf[l] = LocationOf[k]
    /\ Flagged \subseteq Rows
    /\ Reach \in [Locations -> {"local", "push", "pull", "none"}]
    /\ OwnFile \in [Attachments -> Files]
    /\ DOMAIN SizeOf = Contents
    /\ FirstDisk \in [Files -> Held]
    /\ FirstListed \in [Rows -> Listings \cup {None}]
    /\ FirstPath \in [Attachments -> {"none", "inside", "outside"}]
    /\ MaxAttempts \in Nat \ {0}
    /\ {TrialLimit, MaxRuns, MaxPlans, MaxChanges, MaxFaults} \subseteq Nat
    /\ None \notin Contents \cup Sizes \cup Attachments \cup Rows

VARIABLES
    att,      \* attachment: state, source_path, attempts, whether it is due, sha256
    row,      \* attachment_location: what it lists and last_outcome
    disk,     \* the files of this host and of the others
    staging,  \* the staged copy of each file
    cache,    \* the contents in the cache
    queued,   \* attachments with enrichment tasks
    run,      \* the backfill run
    push,     \* each push: its plan, its picks, its results
    runs, plans, changes, faults,
    tries,    \* the runs in which an attachment's attempts were counted
    certain,  \* identity matches the run has yet to try or waits for
    renewed   \* rows opened since the run looked for other open references

vars == << att, row, disk, staging, cache, queued, run, push,
           runs, plans, changes, faults, tries, certain, renewed >>

-----------------------------------------------------------------------------
(* Which rows are still to be tried, and in which order.                    *)

\* What a run compares a copy with: the listing's size and hash, when known.
FitsSize(c, e) == e.size \in {None, SizeOf[c]}
Fits(c, e) == FitsSize(c, e) /\ e.sha \in {None, c}

OpenOutcomes == {"untried", "staged", "unreachable"}

Open(l) == /\ att[AttachmentOf[l]].state # "materialized"
           /\ row[l].outcome \in OpenOutcomes

OpenRows(a) == {l \in Rows : AttachmentOf[l] = a /\ Open(l)}

Tier(l) == LET reach == Reach[LocationOf[l]] IN
    IF reach # "local" /\ staging[FileOf[l]] # None THEN "staged" ELSE reach

Actionable == {"cache", "local", "staged", "pull"}

TierOrder == [cache |-> 0, local |-> 1, staged |-> 2, push |-> 2, pull |-> 3, none |-> 4]

\* _Attempt.sort_key
Before(x, y) ==
    \/ x.row \notin Flagged /\ y.row \in Flagged
    \/ /\ x.row \in Flagged <=> y.row \in Flagged
       /\ \/ TierOrder[x.tier] < TierOrder[y.tier]
          \/ TierOrder[x.tier] = TierOrder[y.tier] /\ x.row < y.row

First(q) == CHOOSE x \in q : \A y \in q \ {x} : Before(x, y)

Attempt(l, tier) == [row |-> l, tier |-> tier, listed |-> row[l].listed]

\* Mutant: nothing is held back for a push.
OrderedAttemptsAtOnce(a) ==
    {Attempt(l, Tier(l)) : l \in OpenRows(a)}
    \cup {Attempt(l, "cache") : l \in {k \in OpenRows(a) : row[k].listed.sha \in cache}}

\* Every open row, once more when the cache has the content it lists; while
\* an identity match waits for its push, the flagged ones are held back.
OrderedAttempts(a) ==
    LET attempts == {Attempt(l, Tier(l)) : l \in OpenRows(a)}
                    \cup {Attempt(l, "cache") : l \in {k \in OpenRows(a) : row[k].listed.sha \in cache}}
        deferred == \E x \in attempts : x.tier = "push" /\ x.row \notin Flagged
    IN  {x \in attempts : x.row \in Flagged => ~deferred}

\* Those this run acts on: pulls may be switched off, and a path that S5a has
\* read moments ago is not read again.
AttemptsFor(a, read, pulls) ==
    {x \in OrderedAttempts(a) :
        /\ x.tier \in Actionable
        /\ x.tier = "pull" => pulls
        /\ x.tier = "local" => ~(a \in read /\ FileOf[x.row] = OwnFile[a])}

\* Mutant: only this attachment's own rows count.
OwnOpenReference(l) ==
    \E k \in Rows \ {l} :
        FileOf[k] = FileOf[l] /\ AttachmentOf[k] = AttachmentOf[l] /\ Open(k)

OtherOpenReference(l) == \E k \in Rows \ {l} : FileOf[k] = FileOf[l] /\ Open(k)

\* The backfill needs no push for these: build_push_plan leaves them out.
SatisfiableHere(a) ==
    \E l \in OpenRows(a) : row[l].listed.sha \in cache \/ Tier(l) = "staged"

-----------------------------------------------------------------------------
Idle == [pc |-> "idle", todo |-> {}, read |-> {}, pulls |-> FALSE, trial |-> FALSE,
         queue |-> [a \in Attachments |-> {}], started |-> {}, arrived |-> {},
         reached |-> FALSE, att |-> None, row |-> None, staged |-> FALSE, found |-> None]
NoPush == [pc |-> "idle", roots |-> {}, plan |-> {}, picks |-> {}, results |-> << >>]

Init ==
    /\ att \in [Attachments -> [state: {"dataless", "missing"}, path: {"none", "inside", "outside"},
                                attempts: {0}, due: {TRUE}, hash: {None}]]
    /\ \A a \in Attachments :
          /\ att[a].path = FirstPath[a]
          /\ att[a].path # "none" => att[a].state = "dataless"
    /\ row = [l \in Rows |->
                 IF FirstListed[l] = None
                 THEN [listed |-> NoListing, outcome |-> "unknown"]
                 ELSE [listed |-> FirstListed[l], outcome |-> "untried"]]
    /\ disk = FirstDisk
    /\ staging = [f \in Files |-> None]
    /\ cache = {}
    /\ queued = {}
    /\ run = Idle
    /\ push = [p \in Pushers |-> NoPush]
    /\ runs = 0
    /\ plans = 0
    /\ changes = 0
    /\ faults = 0
    /\ tries = [a \in Attachments |-> {}]
    /\ certain = {}
    /\ renewed = {}

Fault == faults < MaxFaults /\ faults' = faults + 1

\* These rows are open for reasons a release under way has not seen.
Renew(rows) == renewed' = IF run.pc = "unlink" THEN renewed \cup rows ELSE {}

-----------------------------------------------------------------------------
(* The run: its own paths.                                                  *)

\* _reset_failed_for_retry
Reset(t) == IF t.state \in {"error", "missing"} /\ t.path # "none"
            THEN [t EXCEPT !.state = "error", !.attempts = 0, !.due = TRUE]
            ELSE t

\* _reclassify_no_source_path and _reclassify_out_of_root
Reclassify(t) ==
    CASE t.path = "none" /\ t.state \in {"dataless", "materializing", "error"} ->
            [t EXCEPT !.state = "missing", !.due = TRUE]
      [] t.path = "outside" /\ t.state \in {"error", "missing"} ->
            [t EXCEPT !.state = "unsupported", !.due = TRUE]
      [] OTHER -> t

Pending(t) == t.state \in {"dataless", "materializing", "error"} /\ t.path # "none" /\ t.due

StartRun(retry, full, pulls) ==
    LET healed == [a \in Attachments |-> Reclassify(IF retry THEN Reset(att[a]) ELSE att[a])]
        pending == {a \in Attachments : Pending(healed[a])}
        trial == ~full /\ \A a \in Attachments : att[a].state # "materialized"
    IN
    /\ run.pc = "idle"
    /\ runs < MaxRuns
    /\ runs' = runs + 1
    /\ att' = healed
    /\ \E candidates \in SUBSET pending :
          /\ IF trial /\ Cardinality(pending) > TrialLimit
             THEN Cardinality(candidates) = TrialLimit
             ELSE candidates = pending
          /\ run' = [Idle EXCEPT !.pc = "own", !.todo = candidates, !.read = candidates,
                                 !.pulls = pulls, !.trial = trial]
    /\ tries' = [a \in Attachments |->
                    IF retry /\ Reset(att[a]) # att[a] THEN {} ELSE tries[a]]
    /\ UNCHANGED << row, disk, staging, cache, queued, push, plans, changes, faults,
                    certain, renewed >>

RefuseOwnPath(a) ==
    /\ run.pc = "own"
    /\ a \in run.todo
    /\ att[a].path = "outside"
    /\ att' = [att EXCEPT ![a].state = "unsupported", ![a].due = TRUE]
    /\ run' = [run EXCEPT !.todo = @ \ {a}]
    /\ UNCHANGED << row, disk, staging, cache, queued, push, runs, plans, changes, faults,
                    tries, certain, renewed >>

MarkMaterializing(a) ==
    /\ run.pc = "own"
    /\ a \in run.todo
    /\ att[a].path = "inside"
    /\ att' = [att EXCEPT ![a].state = "materializing"]
    /\ run' = [run EXCEPT !.pc = "reading", !.todo = @ \ {a}, !.att = a]
    /\ UNCHANGED << row, disk, staging, cache, queued, push, runs, plans, changes, faults,
                    tries, certain, renewed >>

ReadOwnPath ==
    LET c == disk[OwnFile[run.att]] IN
    /\ run.pc = "reading"
    /\ c \in Contents
    /\ cache' = cache \cup {c}
    /\ run' = [run EXCEPT !.pc = "mark", !.row = None, !.staged = FALSE, !.found = c]
    /\ UNCHANGED << att, row, disk, staging, queued, push, runs, plans, changes, faults,
                    tries, certain, renewed >>

\* An errno that a retry cannot change.
OwnPathUnsupported ==
    /\ run.pc = "reading"
    /\ disk[OwnFile[run.att]] = "irregular"
    /\ att' = [att EXCEPT ![run.att].state = "unsupported", ![run.att].due = TRUE]
    /\ run' = [run EXCEPT !.pc = "own"]
    /\ UNCHANGED << row, disk, staging, cache, queued, push, runs, plans, changes, faults,
                    tries, certain, renewed >>

\* Mutant: one rung too many.
FailedLate(t) ==
    [t EXCEPT !.attempts = @ + 1, !.due = FALSE,
              !.state = IF t.attempts + 1 > MaxAttempts THEN "missing" ELSE "error"]

\* _mark_failure: one more rung, and not due before its backoff has passed
Failed(t) ==
    [t EXCEPT !.attempts = @ + 1, !.due = FALSE,
              !.state = IF t.attempts + 1 >= MaxAttempts THEN "missing" ELSE "error"]

OwnPathFails ==
    /\ run.pc = "reading"
    /\ \/ disk[OwnFile[run.att]] = None /\ UNCHANGED faults
       \/ disk[OwnFile[run.att]] \in Contents /\ Fault
    /\ att' = [att EXCEPT ![run.att] = Failed(@)]
    /\ run' = [run EXCEPT !.pc = "own"]
    /\ tries' = [tries EXCEPT ![run.att] = @ \cup {runs}]
    /\ UNCHANGED << row, disk, staging, cache, queued, push, runs, plans, changes, certain, renewed >>

-----------------------------------------------------------------------------
(* What follows a good copy, of either phase: the rows, the tasks, and the  *)
(* staged file.                                                             *)

\* Mutant: only attachments that are still pending are updated.
MarkPendingMaterialized ==
    /\ run.pc = "mark"
    /\ att' = IF att[run.att].state \in {"dataless", "materializing", "error"}
              THEN [att EXCEPT ![run.att].state = "materialized", ![run.att].hash = run.found]
              ELSE att
    /\ row' = IF run.row = None THEN row ELSE [row EXCEPT ![run.row].outcome = "fetched"]
    /\ run' = [run EXCEPT !.pc = "enqueue", !.queue[run.att] = {}]
    /\ UNCHANGED << disk, staging, cache, queued, push, runs, plans, changes, faults, tries,
                    certain, renewed >>

\* _mark_materialized, or mark_location_fetched
MarkMaterialized ==
    /\ run.pc = "mark"
    /\ att' = [att EXCEPT ![run.att].state = "materialized", ![run.att].hash = run.found]
    /\ row' = IF run.row = None THEN row ELSE [row EXCEPT ![run.row].outcome = "fetched"]
    /\ run' = [run EXCEPT !.pc = "enqueue", !.queue[run.att] = {}]
    /\ UNCHANGED << disk, staging, cache, queued, push, runs, plans, changes, faults, tries,
                    certain, renewed >>

AfterEnqueue == CASE run.row = None -> "own"
                  [] run.row # None /\ run.staged -> "release"
                  [] OTHER -> "fetch"

EnqueueForMaterialized ==
    /\ run.pc = "enqueue"
    /\ \/ queued' = queued \cup {run.att} /\ UNCHANGED faults
       \/ Fault /\ UNCHANGED queued
    /\ run' = [run EXCEPT !.pc = AfterEnqueue]
    /\ UNCHANGED << att, row, disk, staging, cache, push, runs, plans, changes, tries, certain,
                    renewed >>

\* _release_staged: look for another open row, then delete the file
Release ==
    /\ run.pc = "release"
    /\ run' = [run EXCEPT !.pc = IF OtherOpenReference(run.row) THEN "fetch" ELSE "unlink"]
    /\ UNCHANGED << att, row, disk, staging, cache, queued, push, runs, plans, changes, faults,
                    tries, renewed, certain >>

Unlink ==
    /\ run.pc = "unlink"
    /\ staging' = [staging EXCEPT ![FileOf[run.row]] = None]
    /\ run' = [run EXCEPT !.pc = "fetch"]
    /\ renewed' = {}
    /\ UNCHANGED << att, row, disk, cache, queued, push, runs, plans, changes, faults, tries,
                    certain >>

-----------------------------------------------------------------------------
(* The run: the location phase.                                             *)

StartLocations ==
    LET queues == [a \in Attachments |-> AttemptsFor(a, run.read, run.pulls)]
    IN
    /\ run.pc = "own"
    /\ run.todo = {}
    /\ run' = [run EXCEPT !.pc = "fetch", !.queue = queues]
    /\ certain' = (UNION {{x.row : x \in {y \in OrderedAttempts(a) :
                                             y.tier = "push" \/ y \in queues[a]}}
                          : a \in Attachments}) \ Flagged
    /\ UNCHANGED << att, row, disk, staging, cache, queued, push, runs, plans, changes, faults,
                    tries, renewed >>

Waiting == {a \in Attachments : run.queue[a] # {}}

\* The trial gate: what the candidates left of the first run's allowance.
Allowed(started) ==
    run.trial => Cardinality(started) + Cardinality(run.read) <= TrialLimit

Trying == run.pc = "fetch" /\ run.arrived = {}

\* The attempt x of attachment a ended with this outcome, and its row says so.
Record(l, outcome) == row' = IF row[l].outcome = "fetched" THEN row
                             ELSE [row EXCEPT ![l].outcome = outcome]

Tried(a, x, pc) ==
    /\ run' = [run EXCEPT !.pc = pc, !.queue[a] = @ \ {x}, !.started = @ \cup {a},
                          !.arrived = @ \ {x}, !.att = a, !.row = x.row,
                          !.staged = x.tier \in {"staged", "pull"}]
    /\ certain' = certain \ {x.row}

\* A file that was read and fits what its row listed when the run began.
Accept(a, x, c) ==
    /\ Fits(c, x.listed)
    /\ cache' = cache \cup {c}
    /\ run' = [run EXCEPT !.pc = "mark", !.queue[a] = @ \ {x}, !.started = @ \cup {a},
                          !.arrived = @ \ {x}, !.att = a, !.row = x.row,
                          !.staged = x.tier \in {"staged", "pull"}, !.found = c]
    /\ certain' = certain \ {x.row}
    /\ UNCHANGED << row, faults >>

Reject(a, x, c) ==
    /\ ~Fits(c, x.listed)
    /\ Record(x.row, "rejected")
    /\ Tried(a, x, IF x.tier = "local" THEN "fetch" ELSE "release")
    /\ UNCHANGED << cache, faults >>

ReadFails(a, x) ==
    /\ Fault
    /\ Record(x.row, "unreachable")
    /\ Tried(a, x, "fetch")
    /\ UNCHANGED cache

\* _verify_and_materialize, for the file that was found
Verify(a, x, c) ==
    /\ c \in Contents
    /\ \/ Accept(a, x, c)
       \/ Reject(a, x, c)
       \/ ReadFails(a, x)

Try(a) ==
    LET x == First(run.queue[a]) IN
    /\ Trying
    /\ a \in Waiting
    /\ x.tier # "pull"
    /\ Allowed(run.started \cup {a})
    /\ CASE x.tier = "cache" -> Accept(a, x, x.listed.sha)
         [] x.tier = "local" ->
               \/ Verify(a, x, disk[FileOf[x.row]])
               \/ /\ disk[FileOf[x.row]] \notin Contents
                  /\ Record(x.row, IF disk[FileOf[x.row]] = None THEN "absent" ELSE "refused")
                  /\ Tried(a, x, "fetch")
                  /\ UNCHANGED << cache, faults >>
         [] x.tier = "staged" ->
               \/ Verify(a, x, staging[FileOf[x.row]])
               \/ /\ staging[FileOf[x.row]] = None
                  /\ Tried(a, x, "fetch")
                  /\ UNCHANGED << row, cache, faults >>
    /\ UNCHANGED << att, disk, staging, queued, push, runs, plans, changes, tries, renewed >>

\* What an rsync of these files leaves in staging: all that are there, unless
\* some could not be read (it says so and has still reached the other end) or
\* the copy broke off.
Copy(files, reached) ==
    \E copied \in SUBSET {f \in files : disk[f] \in Contents} :
        /\ \/ reached /\ UNCHANGED faults /\ copied = {f \in files : disk[f] \in Contents}
           \/ Fault
        /\ staging' = [f \in Files |-> IF f \in copied THEN disk[f] ELSE staging[f]]

\* One rsync for all the copies wanted next from a location, once no
\* attachment has another attempt before its pull.
Pull(location) ==
    LET wanted == {First(run.queue[a]) : a \in Waiting}
        here == {x \in wanted : LocationOf[x.row] = location}
    IN
    /\ Trying
    /\ here # {}
    /\ \A x \in wanted : x.tier = "pull"
    /\ Allowed(run.started \cup Waiting)
    /\ \E reached \in BOOLEAN :
          /\ Copy({FileOf[x.row] : x \in here}, reached)
          /\ run' = [run EXCEPT !.arrived = here, !.reached = reached, !.started = @ \cup Waiting]
    /\ UNCHANGED << att, row, disk, cache, queued, push, runs, plans, changes, tries,
                    certain, renewed >>

Arrive(x) ==
    LET a == AttachmentOf[x.row] IN
    /\ run.pc = "fetch"
    /\ x \in run.arrived
    /\ \/ Verify(a, x, staging[FileOf[x.row]])
       \/ /\ staging[FileOf[x.row]] = None
          /\ Record(x.row, IF run.reached THEN "absent" ELSE "unreachable")
          /\ Tried(a, x, "fetch")
          /\ UNCHANGED << cache, faults >>
    /\ UNCHANGED << att, disk, staging, queued, push, runs, plans, changes, tries, renewed >>

\* The end: nothing left to try, the allowance used up, or, between two files,
\* no disk space or a stop.
EndRun ==
    /\ \/ Trying
       \/ run.pc = "own" /\ run.todo # {}
    /\ run' = Idle
    /\ certain' = {}
    /\ UNCHANGED << att, row, disk, staging, cache, queued, push, runs, plans, changes, faults,
                    tries, renewed >>

KillRun ==
    /\ run.pc # "idle"
    /\ Fault
    /\ run' = Idle
    /\ certain' = {}
    /\ renewed' = {}
    /\ UNCHANGED << att, row, disk, staging, cache, queued, push, runs, plans, changes, tries >>

-----------------------------------------------------------------------------
(* The pushing host.                                                        *)

PushLocations == {loc \in Locations : Reach[loc] = "push"}

BuildPushPlan(p, roots) ==
    LET candidates == {l \in Rows : /\ Open(l)
                                    /\ LocationOf[l] \in roots
                                    /\ ~SatisfiableHere(AttachmentOf[l])}
    IN
    /\ push[p].pc = "idle"
    /\ plans < MaxPlans
    /\ candidates # {}
    /\ plans' = plans + 1
    /\ push' = [push EXCEPT ![p] =
                   [NoPush EXCEPT !.pc = "planned", !.roots = roots,
                                  !.plan = {Attempt(l, "push") : l \in candidates}]]
    /\ UNCHANGED << att, row, disk, staging, cache, queued, run, runs, changes, faults, tries,
                    certain, renewed >>

\* check_candidate: why this host cannot send it, or "good"
CheckCandidate(x, mounted) ==
    LET c == disk[FileOf[x.row]] IN
    CASE LocationOf[x.row] \notin mounted -> "unreachable"
      [] LocationOf[x.row] \in mounted /\ c = None -> "absent"
      [] LocationOf[x.row] \in mounted /\ c = "irregular" -> "refused"
      [] LocationOf[x.row] \in mounted /\ c \in Contents ->
            IF FitsSize(c, x.listed) THEN "good" ELSE "rejected"

\* The first good candidate of each attachment is picked; those before it are
\* reported, those after it are not looked at.
CheckCandidates(p, mounted) ==
    LET checked == {x \in push[p].plan :
                       ~\E y \in push[p].plan :
                           /\ AttachmentOf[y.row] = AttachmentOf[x.row]
                           /\ Before(y, x)
                           /\ CheckCandidate(y, mounted) = "good"}
        good == {x.row : x \in {y \in checked : CheckCandidate(y, mounted) = "good"}}
        bad == {x \in checked : x.row \notin good}
    IN
    /\ push[p].pc = "planned"
    /\ push' = [push EXCEPT ![p].pc = "sending", ![p].picks = good,
                            ![p].results = [l \in {x.row : x \in bad} |->
                                CheckCandidate(CHOOSE x \in bad : x.row = l, mounted)]]
    /\ UNCHANGED << att, row, disk, staging, cache, queued, run, runs, plans, changes, faults,
                    tries, certain, renewed >>

Send(p, location) ==
    LET here == {l \in push[p].picks : LocationOf[l] = location}
        before == push[p].results
    IN
    /\ here # {}
    /\ \E reached \in BOOLEAN :
          /\ Copy({FileOf[l] : l \in here}, reached)
          /\ push' = [push EXCEPT ![p].picks = @ \ here,
                                  ![p].results = [l \in here \cup DOMAIN before |->
                                      IF l \in here
                                      THEN IF reached THEN "staged" ELSE "unreachable"
                                      ELSE before[l]]]
    /\ UNCHANGED << att, row, disk, cache, queued, run, runs, plans, changes, tries,
                    certain, renewed >>

\* Mutant: fetched rows are written too.
ReportedAnyway(l, results) ==
    IF l \in DOMAIN results
    THEN [row[l] EXCEPT !.outcome = results[l]]
    ELSE row[l]

\* record_push_results
Reported(l, results) ==
    IF l \in DOMAIN results /\ row[l].outcome # "fetched"
    THEN [row[l] EXCEPT !.outcome = results[l]]
    ELSE row[l]

RecordPushResults(p) ==
    LET results == push[p].results IN
    /\ push[p].pc = "sending"
    /\ push[p].picks = {}
    /\ row' = [l \in Rows |-> Reported(l, results)]
    /\ push' = [push EXCEPT ![p] = NoPush]
    /\ Renew({l \in DOMAIN results : results[l] \in OpenOutcomes})
    /\ UNCHANGED << att, disk, staging, cache, queued, run, runs, plans, changes, faults, tries,
                    certain >>

\* The pushing host dies, or cannot send its results.
KillPush(p) ==
    /\ push[p].pc # "idle"
    /\ Fault
    /\ push' = [push EXCEPT ![p] = NoPush]
    /\ UNCHANGED << att, row, disk, staging, cache, queued, run, runs, plans, changes, tries,
                    certain, renewed >>

-----------------------------------------------------------------------------
(* The world: files, listings, recorded paths, time.                        *)

Changed == changes < MaxChanges /\ changes' = changes + 1

FileChanges(f) ==
    /\ Changed
    /\ \E c \in Held \ {disk[f]} : disk' = [disk EXCEPT ![f] = c]
    /\ UNCHANGED << att, row, staging, cache, queued, run, push, runs, plans, faults, tries,
                    certain, renewed >>

\* observe_location: a new row, or new evidence for one, which opens it again
\* unless it was fetched.
Observe(l, e) ==
    LET old == row[l].listed
        merged == [size |-> IF e.size = None THEN old.size ELSE e.size,
                   sha |-> IF e.sha = None THEN old.sha ELSE e.sha]
    IN
    /\ Changed
    /\ att[AttachmentOf[l]].state # "materialized"
    /\ row[l].outcome = "unknown" \/ merged # old
    /\ row' = [row EXCEPT ![l] = [listed |-> merged,
                                  outcome |-> IF @.outcome = "fetched" THEN "fetched" ELSE "untried"]]
    /\ Renew({l})
    /\ UNCHANGED << att, disk, staging, cache, queued, run, push, runs, plans, faults, tries,
                    certain >>

\* _upsert_attachment: chat.db now has a path for an attachment without one
PathArrives(a) ==
    /\ Changed
    /\ att[a].path = "none"
    /\ \E path \in {"inside", "outside"} :
          att' = [att EXCEPT ![a].path = path,
                             ![a].state = IF @ = "missing" THEN "dataless" ELSE @]
    /\ UNCHANGED << row, disk, staging, cache, queued, run, push, runs, plans, faults, tries,
                    certain, renewed >>

TimePasses(a) ==
    /\ ~att[a].due
    /\ att' = [att EXCEPT ![a].due = TRUE]
    /\ UNCHANGED << row, disk, staging, cache, queued, run, push, runs, plans, changes, faults,
                    tries, certain, renewed >>

-----------------------------------------------------------------------------
OwnPhase ==
    \/ \E retry, full, pulls \in BOOLEAN : StartRun(retry, full, pulls)
    \/ \E a \in Attachments : RefuseOwnPath(a) \/ MarkMaterializing(a)
    \/ ReadOwnPath
    \/ OwnPathUnsupported
    \/ OwnPathFails

AfterCopy == MarkMaterialized \/ EnqueueForMaterialized \/ Release \/ Unlink

LocationPhase ==
    \/ StartLocations
    \/ \E a \in Attachments : Try(a)
    \/ \E location \in Locations : Pull(location)
    \/ \E x \in run.arrived : Arrive(x)

PushingHost(p) ==
    \/ \E roots \in SUBSET PushLocations : BuildPushPlan(p, roots)
    \/ \E mounted \in SUBSET push[p].roots : CheckCandidates(p, mounted)
    \/ \E location \in PushLocations : Send(p, location)
    \/ RecordPushResults(p)
    \/ KillPush(p)

World ==
    \/ \E f \in Files : FileChanges(f)
    \/ \E l \in Rows, e \in Observed : Observe(l, e)
    \/ \E a \in Attachments : PathArrives(a) \/ TimePasses(a)

Next ==
    \/ OwnPhase
    \/ AfterCopy
    \/ LocationPhase
    \/ EndRun
    \/ KillRun
    \/ \E p \in Pushers : PushingHost(p)
    \/ World

Spec == Init /\ [][Next]_vars

-----------------------------------------------------------------------------
(* Properties                                                               *)

\* Types, and what a row's state says of its other columns: a materialized
\* attachment names content that is in the cache, and a fetched row and the
\* enrichment tasks belong to one.
TypeOK ==
    /\ att \in [Attachments ->
                  [state: {"dataless", "materializing", "materialized", "error", "missing",
                           "unsupported"},
                   path: {"none", "inside", "outside"}, attempts: Nat, due: BOOLEAN,
                   hash: Contents \cup {None}]]
    /\ row \in [Rows -> [listed: Listings,
                         outcome: OpenOutcomes \cup {"unknown", "rejected", "absent", "refused",
                                                     "fetched"}]]
    /\ disk \in [Files -> Held]
    /\ staging \in [Files -> Contents \cup {None}]
    /\ cache \subseteq Contents
    /\ \A a \in queued : att[a].state = "materialized"
    /\ run.pc \in {"idle", "own", "reading", "mark", "enqueue", "release", "unlink", "fetch"}
    /\ \A p \in Pushers : /\ push[p].pc \in {"idle", "planned", "sending"}
                          /\ push[p].picks \cup DOMAIN push[p].results \subseteq Rows
    /\ certain \cup renewed \subseteq Rows
    /\ \A a \in Attachments : att[a].state = "materialized" => att[a].hash \in cache
    /\ \A l \in Rows : row[l].outcome = "fetched" => att[AttachmentOf[l]].state = "materialized"

\* A materialized attachment keeps its state and its content, and a fetched
\* row its outcome, whatever a late push result, a listing, a reset or a run
\* that is killed and started again does.
FinalOnceFetched ==
    [][/\ \A a \in Attachments :
             att[a].state = "materialized" =>
                 att'[a].state = "materialized" /\ att'[a].hash = att[a].hash
       /\ \A l \in Rows : row[l].outcome = "fetched" => row'[l].outcome = "fetched"]_vars

\* A staged copy is deleted only when no attachment that still lacks its
\* content has an open row for that file, other than one that was opened
\* after the run had looked.
StagedKeptWhileNeeded ==
    [][\A f \in Files :
          staging[f] # None /\ staging'[f] = None =>
              ~\E l \in Rows \ renewed : FileOf[l] = f /\ Open(l) /\ l # run.row]_vars

\* An attachment that S5a gave up as missing was tried MaxAttempts times, in
\* as many runs, since it was last put back on the ladder.
MissingAfterItsRuns ==
    \A a \in Attachments :
        /\ att[a].attempts = Cardinality(tries[a])
        /\ att[a].state = "missing" /\ att[a].path # "none" => att[a].attempts >= MaxAttempts
        /\ att[a].state \in {"dataless", "materializing", "error"} => att[a].attempts < MaxAttempts

\* A copy that was matched on its name and size becomes an attachment's
\* content only when the run has tried every identity match it knew of and
\* none of them waits for a push.
CertainBeforeProbable ==
    [][\A l \in Flagged :
          row'[l].outcome = "fetched" /\ row[l].outcome # "fetched" =>
              ~\E k \in certain : AttachmentOf[k] = AttachmentOf[l]]_vars

-----------------------------------------------------------------------------
(* What the code's own words promise and the code does not do.              *)

\* build_push_plan leaves an attachment out when a copy of it is staged or its
\* content cached, since "the backfill needs no push for those": the backfill
\* then has an attempt it can make.
LeftOutIsFetchable ==
    run.pc = "idle" /\ (\A p \in Pushers : push[p].pc = "idle") =>
        \A a \in Attachments : SatisfiableHere(a) => AttemptsFor(a, {}, TRUE) # {}

=============================================================================
