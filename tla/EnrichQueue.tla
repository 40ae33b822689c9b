---------------------------- MODULE EnrichQueue ----------------------------
(***************************************************************************)
(* The attachment enrichment queue (imsg.enrich.queue), the worker that    *)
(* drains it (imsg.enrich.worker, imsg.enrich.pipeline) and the planner    *)
(* that fills it (imsg.enrich.planner).                                    *)
(*                                                                         *)
(* A row is claimed under a lease; the statement that records the outcome  *)
(* names the row only, not the lease.  What keeps a worker from writing to *)
(* a row it no longer holds is the host-wide heavy-model lock, held by     *)
(* every run and handed over only between claims (module HeavyLock opens   *)
(* it; here it is one variable).                                           *)
(*                                                                         *)
(* Time is two events per row: its backoff elapses, its lease runs out.    *)
(* What the decoders and models do with a task is its outcome, chosen by   *)
(* the environment.                                                        *)
(***************************************************************************)
EXTENDS Naturals, FiniteSets, FiniteSetsExt

CONSTANTS
    Tasks,        \* the (attachment, kind) pairs
    Routed,       \* those the router names for a sniffed attachment
    FollowUps,    \* task -> the tasks its result may add (a scanned PDF: ocr)
    Rank,         \* task -> its place in the claim order, kinds first
    Workers,      \* runs of imsg enrich
    MaxAttempts,  \* enrichment.max_attempts
    MaxFaults,    \* bound: kills and unexpected exceptions of the workers
    MaxRetries,   \* bound: runs started with --retry-failed
    NoTask,       \* no task
    NoWorker      \* nobody holds the heavy-model lock

ASSUME QueueAssumption ==
    /\ Routed \subseteq Tasks
    /\ FollowUps \in [Tasks -> SUBSET Tasks]
    /\ Rank \in [Tasks -> Nat]
    /\ \A t, u \in Tasks : Rank[t] = Rank[u] => t = u
    /\ MaxAttempts \in Nat \ {0}
    /\ MaxFaults \in Nat
    /\ MaxRetries \in Nat
    /\ NoTask \notin Tasks
    /\ NoWorker \notin Workers

VARIABLES
    state,     \* each row's state, or "absent"
    attempts,  \* failures recorded on it
    due,       \* whether its next_attempt_at has come
    lease,     \* "none", "fresh", or "expired"
    chunks,    \* whether attachment_chunk holds its text
    scanned,   \* whether its result named follow-up kinds
    at,        \* where each worker is
    task,      \* the task it processes
    lock,      \* which worker holds the heavy-model lock
    faults,    \* kills and unexpected exceptions so far
    retries    \* runs with --retry-failed so far

rows == << state, attempts, due, lease, chunks, scanned >>
bounds == << faults, retries >>
vars == << rows, at, task, lock, bounds >>

Settled == {"done", "skipped", "failed"}
RowStates == {"absent", "pending", "running"} \cup Settled

Init ==
    /\ state = [t \in Tasks |-> "absent"]
    /\ attempts = [t \in Tasks |-> 0]
    /\ due = [t \in Tasks |-> TRUE]
    /\ lease = [t \in Tasks |-> "none"]
    /\ chunks = [t \in Tasks |-> FALSE]
    /\ scanned = [t \in Tasks |-> FALSE]
    /\ at = [w \in Workers |-> "out"]
    /\ task = [w \in Workers |-> NoTask]
    /\ lock = NoWorker
    /\ faults = 0
    /\ retries = 0

----------------------------------------------------------------------------
(* Filling the queue, and time.                                            *)

\* Mutant: routing an attachment again resets its row.
EnqueueAgain(t) ==
    /\ t \in Routed
    /\ state' = [state EXCEPT ![t] = "pending"]
    /\ UNCHANGED << attempts, due, lease, chunks, scanned, at, task, lock, bounds >>

\* INSERT ... ON CONFLICT DO NOTHING, from S5a or imsg enrich --plan, neither
\* of which takes the heavy-model lock.
Enqueue(t) ==
    /\ t \in Routed
    /\ state[t] = "absent"
    /\ state' = [state EXCEPT ![t] = "pending"]
    /\ UNCHANGED << attempts, due, lease, chunks, scanned, at, task, lock, bounds >>

BackoffElapses(t) ==
    /\ ~due[t]
    /\ due' = [due EXCEPT ![t] = TRUE]
    /\ UNCHANGED << state, attempts, lease, chunks, scanned, at, task, lock, bounds >>

\* locked_at < now() - lease: the worker may still be at it.
LeaseRunsOut(t) ==
    /\ lease[t] = "fresh"
    /\ lease' = [lease EXCEPT ![t] = "expired"]
    /\ UNCHANGED << state, attempts, due, chunks, scanned, at, task, lock, bounds >>

----------------------------------------------------------------------------
(* A run.                                                                  *)

\* The lock is taken before the first claim or reset; --retry-failed then
\* resets every failed row.
StartRun(w, retryFailed) ==
    /\ at[w] = "out"
    /\ retryFailed => retries < MaxRetries
    /\ retries' = IF retryFailed THEN retries + 1 ELSE retries
    /\ lock = NoWorker
    /\ lock' = w
    /\ at' = [at EXCEPT ![w] = "between"]
    /\ LET reset == {t \in Tasks : retryFailed /\ state[t] = "failed"}
       IN  /\ state' = [t \in Tasks |-> IF t \in reset THEN "pending" ELSE state[t]]
           /\ attempts' = [t \in Tasks |-> IF t \in reset THEN 0 ELSE attempts[t]]
           /\ due' = [t \in Tasks |-> due[t] \/ t \in reset]
    /\ UNCHANGED << lease, chunks, scanned, task, faults >>

\* Mutant: the lock is handed over in the middle of a task.
HandOverMidTask(w) ==
    /\ at[w] \in {"between", "working"}
    /\ lock' = NoWorker
    /\ at' = [at EXCEPT ![w] = IF at[w] = "working" THEN "working" ELSE "away"]
    /\ UNCHANGED << rows, task, bounds >>

\* Right before a claim, holding no lease.
HandOver(w) ==
    /\ at[w] = "between"
    /\ lock' = NoWorker
    /\ at' = [at EXCEPT ![w] = "away"]
    /\ UNCHANGED << rows, task, bounds >>

TakeBack(w) ==
    /\ at[w] = "away"
    /\ lock = NoWorker
    /\ lock' = w
    /\ at' = [at EXCEPT ![w] = "between"]
    /\ UNCHANGED << rows, task, bounds >>

\* Mutant: the claim forgets that an expired lease is claimable.
ClaimablePendingOnly(t) == due[t] /\ state[t] = "pending"

Claimable(t) ==
    /\ due[t]
    /\ state[t] = "pending" \/ (state[t] = "running" /\ lease[t] = "expired")

\* One task, the first in the claim order.
Claim(w) ==
    /\ at[w] = "between"
    /\ \E t \in Tasks :
        /\ Claimable(t)
        /\ \A u \in Tasks : Claimable(u) => Rank[t] <= Rank[u]
        /\ state' = [state EXCEPT ![t] = "running"]
        /\ lease' = [lease EXCEPT ![t] = "fresh"]
        /\ task' = [task EXCEPT ![w] = t]
    /\ at' = [at EXCEPT ![w] = "working"]
    /\ UNCHANGED << attempts, due, chunks, scanned, lock, bounds >>

\* An empty queue, the limit, a pause or memory pressure.
StopRun(w) ==
    /\ at[w] = "between"
    /\ lock' = NoWorker
    /\ at' = [at EXCEPT ![w] = "out"]
    /\ UNCHANGED << rows, task, bounds >>

----------------------------------------------------------------------------
(* Outcomes of process_one_task.                                           *)

\* The row leaves the lease, the worker goes on to the next claim.
Record(w, outcome) ==
    /\ at[w] = "working"
    /\ state' = [state EXCEPT ![task[w]] = outcome]
    /\ lease' = [lease EXCEPT ![task[w]] = "none"]
    /\ at' = [at EXCEPT ![w] = "between"]
    /\ task' = [task EXCEPT ![w] = NoTask]
    /\ UNCHANGED << lock, bounds >>

\* Mutant: the row is committed before its chunks and follow-ups.
CompleteInTwo(w, isScanned) ==
    LET t == task[w]
    IN  /\ at[w] = "working"
        /\ isScanned => FollowUps[t] # {}
        /\ state' = [state EXCEPT ![t] = "done"]
        /\ lease' = [lease EXCEPT ![t] = "none"]
        /\ scanned' = [scanned EXCEPT ![t] = isScanned]
        /\ \/ chunks' = [chunks EXCEPT ![t] = TRUE]
           \/ UNCHANGED chunks
        /\ at' = [at EXCEPT ![w] = "between"]
        /\ task' = [task EXCEPT ![w] = NoTask]
        /\ UNCHANGED << attempts, due, lock, bounds >>

\* One transaction: the row, its chunks, the follow-up rows.
Complete(w, isScanned) ==
    LET t == task[w]
        added == {u \in FollowUps[t] : isScanned /\ state[u] = "absent"}
    IN  /\ at[w] = "working"
        /\ isScanned => FollowUps[t] # {}
        /\ state' = [u \in Tasks |-> IF u = t THEN "done"
                                     ELSE IF u \in added THEN "pending" ELSE state[u]]
        /\ lease' = [lease EXCEPT ![t] = "none"]
        /\ chunks' = [chunks EXCEPT ![t] = TRUE]
        /\ scanned' = [scanned EXCEPT ![t] = isScanned]
        /\ at' = [at EXCEPT ![w] = "between"]
        /\ task' = [task EXCEPT ![w] = NoTask]
        /\ UNCHANGED << attempts, due, lock, bounds >>

Skip(w) ==
    /\ Record(w, "skipped")
    /\ UNCHANGED << attempts, due, chunks, scanned >>

\* Mutant: one attempt too many.
FailLate(w) ==
    LET t == task[w]
        count == attempts[t] + 1
    IN  /\ Record(w, IF count > MaxAttempts THEN "failed" ELSE "pending")
        /\ attempts' = [attempts EXCEPT ![t] = count]
        /\ due' = [due EXCEPT ![t] = due[t] /\ count > MaxAttempts]
        /\ UNCHANGED << chunks, scanned >>

\* A transient failure: back off, or give up once the budget is spent.
Fail(w) ==
    LET t == task[w]
        count == attempts[t] + 1
    IN  /\ Record(w, IF count >= MaxAttempts THEN "failed" ELSE "pending")
        /\ attempts' = [attempts EXCEPT ![t] = count]
        /\ due' = [due EXCEPT ![t] = due[t] /\ count >= MaxAttempts]
        /\ UNCHANGED << chunks, scanned >>

\* A boundary violation is permanent at once.
FailPermanently(w) ==
    /\ Record(w, "failed")
    /\ attempts' = [attempts EXCEPT ![task[w]] = @ + 1]
    /\ UNCHANGED << due, chunks, scanned >>

\* Any other exception ends the run.  release_task hands the row back, its
\* attempt not counted, only if it is still running under a lease; that it
\* fails too is suppressed.
Raise(w) ==
    LET t == task[w]
    IN  /\ at[w] = "working"
        /\ faults < MaxFaults
        /\ faults' = faults + 1
        /\ \/ /\ state[t] = "running"
              /\ state' = [state EXCEPT ![t] = "pending"]
              /\ lease' = [lease EXCEPT ![t] = "none"]
           \/ UNCHANGED << state, lease >>
        /\ at' = [at EXCEPT ![w] = "out"]
        /\ task' = [task EXCEPT ![w] = NoTask]
        /\ lock' = NoWorker
        /\ UNCHANGED << attempts, due, chunks, scanned, retries >>

\* A hung OCR is recorded failed, then ends the process.
HangInOcr(w) ==
    /\ at[w] = "working"
    /\ faults < MaxFaults
    /\ faults' = faults + 1
    /\ state' = [state EXCEPT ![task[w]] = "failed"]
    /\ attempts' = [attempts EXCEPT ![task[w]] = @ + 1]
    /\ lease' = [lease EXCEPT ![task[w]] = "none"]
    /\ at' = [at EXCEPT ![w] = "out"]
    /\ task' = [task EXCEPT ![w] = NoTask]
    /\ lock' = NoWorker
    /\ UNCHANGED << due, chunks, scanned, retries >>

\* Killed: the flock goes with the process, the row keeps its lease.
Crash(w) ==
    /\ at[w] # "out"
    /\ faults < MaxFaults
    /\ faults' = faults + 1
    /\ at' = [at EXCEPT ![w] = "out"]
    /\ task' = [task EXCEPT ![w] = NoTask]
    /\ lock' = IF lock = w THEN NoWorker ELSE lock
    /\ UNCHANGED << rows, retries >>

----------------------------------------------------------------------------
Work(w) ==
    \/ \E isScanned \in BOOLEAN : Complete(w, isScanned)
    \/ Skip(w) \/ Fail(w) \/ FailPermanently(w)

Run(w) ==
    \/ \E retryFailed \in BOOLEAN : StartRun(w, retryFailed)
    \/ HandOver(w) \/ TakeBack(w) \/ Claim(w) \/ StopRun(w)
    \/ Raise(w) \/ HangInOcr(w) \/ Crash(w)

Next ==
    \/ \E t \in Tasks : Enqueue(t) \/ BackoffElapses(t) \/ LeaseRunsOut(t)
    \/ \E w \in Workers : Run(w) \/ Work(w)

Spec == Init /\ [][Next]_vars

\* launchd starts a run every night and a run that gave the lock away takes it
\* back; a claim that is possible again and again happens (a run may always
\* stop or hand over instead); decoders and models are bounded by the task's
\* budget; time passes.
Fairness ==
    /\ WF_vars(\E w \in Workers : StartRun(w, FALSE) \/ TakeBack(w))
    /\ SF_vars(\E w \in Workers : Claim(w))
    /\ \A w \in Workers : WF_vars(HandOver(w) \/ StopRun(w)) /\ WF_vars(Work(w))
    /\ \A t \in Tasks : WF_vars(BackoffElapses(t)) /\ WF_vars(LeaseRunsOut(t))

FairSpec == Spec /\ Fairness

----------------------------------------------------------------------------
(* Properties.                                                             *)

\* The variables keep their types; no row counts more than MaxAttempts.
TypeOK ==
    /\ state \in [Tasks -> RowStates]
    /\ attempts \in [Tasks -> 0 .. MaxAttempts]
    /\ due \in [Tasks -> BOOLEAN]
    /\ lease \in [Tasks -> {"none", "fresh", "expired"}]
    /\ chunks \in [Tasks -> BOOLEAN]
    /\ scanned \in [Tasks -> BOOLEAN]
    /\ at \in [Workers -> {"out", "between", "away", "working"}]
    /\ task \in [Workers -> Tasks \cup {NoTask}]
    /\ lock \in Workers \cup {NoWorker}
    /\ faults \in 0 .. MaxFaults
    /\ retries \in 0 .. MaxRetries

\* Complete, skip and fail name the row and not the lease, so they are right
\* only if whoever records an outcome still holds the row: it is running, and
\* no other worker processes it, even once its lease has run out
\* (queue.py:229-356, worker.py:94-110).
RecordsItsOwnRow ==
    \A w \in Workers : at[w] = "working" =>
        /\ state[task[w]] = "running"
        /\ \A v \in Workers \ {w} : at[v] = "working" => task[v] # task[w]

\* "`done` stays `done`", and what was skipped stays so: no late answer, no new
\* routing and no --retry-failed reopens a row or takes its text away
\* (planner.py:8-11, queue.py:59-63).
DoneStaysDone ==
    [][\A t \in Tasks :
          /\ state[t] \in {"done", "skipped"} => state'[t] = state[t]
          /\ chunks[t] => chunks'[t]]_vars

\* A row says done exactly when its text is in attachment_chunk and, for a
\* scanned PDF, its OCR is queued, whatever was killed in between
\* (pipeline.py:550-563).
DoneMeansPublished ==
    \A t \in Tasks :
        /\ state[t] = "done" <=> chunks[t]
        /\ scanned[t] => \A u \in FollowUps[t] : state[u] # "absent"

\* A row that may still be tried has attempts left, after any mix of failures,
\* interrupted attempts and --retry-failed (queue.py:264-303, 206-221).
OpenRowsHaveAttemptsLeft ==
    \A t \in Tasks : state[t] \in {"pending", "running"} => attempts[t] < MaxAttempts

\* Every queued task is settled in the end: a killed worker's row comes back
\* when its lease runs out, a failed one when its backoff elapses, and one
\* task at the head of the claim order does not starve the rest
\* (queue.py:1-16).
EveryTaskSettles ==
    \A t \in Tasks : state[t] \in {"pending", "running"} ~> state[t] \in Settled

\* What the outside sees of the rows.
Status == [t \in Tasks |-> IF state[t] \in {"pending", "running"} THEN "open" ELSE state[t]]
Searchable == {t \in Tasks : chunks[t]}

\* Claims, leases, backoffs, the lock and its hand-over, kills and runs do not
\* show: the queue implements TaskLedger.  An outcome is recorded once, on a
\* task that is open; what is done or skipped stays so; the failures that count
\* never exceed the budget (queue.py:1-16, 237-356, planner.py:8-11).
Ledger == INSTANCE TaskLedger WITH
              Budget <- MaxAttempts,
              status <- Status,
              tries <- attempts,
              published <- Searchable

LedgerSpec == Ledger!Spec

============================================================================
