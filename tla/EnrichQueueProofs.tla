-------------------------- MODULE EnrichQueueProofs --------------------------
(***************************************************************************)
(* Proofs about EnrichQueue, for every set of tasks and workers, every     *)
(* claim order and every attempt budget.                                   *)
(*                                                                         *)
(* The outcome statements name a row and not a lease, so everything rests  *)
(* on who may be inside a task: LockInv says that it is the worker that    *)
(* holds the heavy-model lock, hence one, and RowInv that the row it works *)
(* on is running, whatever has become of its lease.                        *)
(***************************************************************************)
EXTENDS EnrichQueue, TLAPS

LockInv == \A w \in Workers : at[w] \in {"between", "working"} <=> lock = w

RowInv ==
    \A w \in Workers : at[w] = "working" =>
        task[w] \in Tasks /\ state[task[w]] = "running"

\* A row that is not in the queue yet has no attempts.
FreshInv == \A t \in Tasks : state[t] = "absent" => attempts[t] = 0

IInv ==
    /\ TypeOK
    /\ LockInv
    /\ RowInv
    /\ FreshInv
    /\ OpenRowsHaveAttemptsLeft
    /\ DoneMeansPublished

----------------------------------------------------------------------------
(* Each part of the invariant is kept by every action.                     *)


\* Every action keeps the types; only a row with attempts left counts one more.
LEMMA TypeStep ==
    ASSUME TypeOK, RowInv, OpenRowsHaveAttemptsLeft, [Next]_vars
    PROVE  TypeOK'
  <1> USE QueueAssumption DEF TypeOK, RowStates, Settled, RowInv, OpenRowsHaveAttemptsLeft
  <1>1. CASE UNCHANGED vars
    BY <1>1 DEF vars, rows, bounds
  <1>2. ASSUME NEW t \in Tasks, Enqueue(t) PROVE TypeOK'
    BY <1>2 DEF Enqueue, bounds
  <1>3. ASSUME NEW t \in Tasks, BackoffElapses(t) PROVE TypeOK'
    BY <1>3 DEF BackoffElapses, bounds
  <1>4. ASSUME NEW t \in Tasks, LeaseRunsOut(t) PROVE TypeOK'
    BY <1>4 DEF LeaseRunsOut, bounds
  <1>5. ASSUME NEW w \in Workers, NEW r \in BOOLEAN, StartRun(w, r) PROVE TypeOK'
    BY <1>5 DEF StartRun
  <1>6. ASSUME NEW w \in Workers, HandOver(w) PROVE TypeOK'
    BY <1>6 DEF HandOver, rows, bounds
  <1>7. ASSUME NEW w \in Workers, TakeBack(w) PROVE TypeOK'
    BY <1>7 DEF TakeBack, rows, bounds
  <1>8. ASSUME NEW w \in Workers, Claim(w) PROVE TypeOK'
    BY <1>8 DEF Claim, Claimable, bounds
  <1>9. ASSUME NEW w \in Workers, StopRun(w) PROVE TypeOK'
    BY <1>9 DEF StopRun, rows, bounds
  <1>10. ASSUME NEW w \in Workers, Raise(w) PROVE TypeOK'
    BY <1>10 DEF Raise
  <1>11. ASSUME NEW w \in Workers, HangInOcr(w) PROVE TypeOK'
    BY <1>11 DEF HangInOcr
  <1>12. ASSUME NEW w \in Workers, Crash(w) PROVE TypeOK'
    BY <1>12 DEF Crash, rows
  <1>13. ASSUME NEW w \in Workers, NEW s \in BOOLEAN, Complete(w, s) PROVE TypeOK'
    BY <1>13 DEF Complete, bounds
  <1>14. ASSUME NEW w \in Workers, Skip(w) PROVE TypeOK'
    BY <1>14 DEF Skip, Record, bounds
  <1>15. ASSUME NEW w \in Workers, Fail(w) PROVE TypeOK'
    BY <1>15 DEF Fail, Record, bounds
  <1>16. ASSUME NEW w \in Workers, FailPermanently(w) PROVE TypeOK'
    BY <1>16 DEF FailPermanently, Record, bounds
  <1> QED
    BY <1>1, <1>2, <1>3, <1>4, <1>5, <1>6, <1>7, <1>8, <1>9, <1>10, <1>11, <1>12,
  <1>13, <1>14, <1>15, <1>16 DEF Next, Run, Work

\* The lock is taken only when free and left with the run or the hand-over.
LEMMA LockStep ==
    ASSUME TypeOK, LockInv, [Next]_vars
    PROVE  LockInv'
  <1> USE QueueAssumption DEF TypeOK, LockInv
  <1>1. CASE UNCHANGED vars
    BY <1>1 DEF vars, rows, bounds
  <1>2. ASSUME NEW t \in Tasks, Enqueue(t) PROVE LockInv'
    BY <1>2 DEF Enqueue, bounds
  <1>3. ASSUME NEW t \in Tasks, BackoffElapses(t) PROVE LockInv'
    BY <1>3 DEF BackoffElapses, bounds
  <1>4. ASSUME NEW t \in Tasks, LeaseRunsOut(t) PROVE LockInv'
    BY <1>4 DEF LeaseRunsOut, bounds
  <1>5. ASSUME NEW w \in Workers, NEW r \in BOOLEAN, StartRun(w, r) PROVE LockInv'
    BY <1>5 DEF StartRun
  <1>6. ASSUME NEW w \in Workers, HandOver(w) PROVE LockInv'
    BY <1>6 DEF HandOver, rows, bounds
  <1>7. ASSUME NEW w \in Workers, TakeBack(w) PROVE LockInv'
    BY <1>7 DEF TakeBack, rows, bounds
  <1>8. ASSUME NEW w \in Workers, Claim(w) PROVE LockInv'
    BY <1>8 DEF Claim, Claimable, bounds
  <1>9. ASSUME NEW w \in Workers, StopRun(w) PROVE LockInv'
    BY <1>9 DEF StopRun, rows, bounds
  <1>10. ASSUME NEW w \in Workers, Raise(w) PROVE LockInv'
    BY <1>10 DEF Raise
  <1>11. ASSUME NEW w \in Workers, HangInOcr(w) PROVE LockInv'
    BY <1>11 DEF HangInOcr
  <1>12. ASSUME NEW w \in Workers, Crash(w) PROVE LockInv'
    BY <1>12 DEF Crash, rows
  <1>13. ASSUME NEW w \in Workers, NEW s \in BOOLEAN, Complete(w, s) PROVE LockInv'
    BY <1>13 DEF Complete, bounds
  <1>14. ASSUME NEW w \in Workers, Skip(w) PROVE LockInv'
    BY <1>14 DEF Skip, Record, bounds
  <1>15. ASSUME NEW w \in Workers, Fail(w) PROVE LockInv'
    BY <1>15 DEF Fail, Record, bounds
  <1>16. ASSUME NEW w \in Workers, FailPermanently(w) PROVE LockInv'
    BY <1>16 DEF FailPermanently, Record, bounds
  <1> QED
    BY <1>1, <1>2, <1>3, <1>4, <1>5, <1>6, <1>7, <1>8, <1>9, <1>10, <1>11, <1>12,
  <1>13, <1>14, <1>15, <1>16 DEF Next, Run, Work

\* A row that is worked on is taken from running only by its worker, since the
\* others hold no lock.
LEMMA RowStep ==
    ASSUME TypeOK, LockInv, RowInv, [Next]_vars
    PROVE  RowInv'
  <1> USE QueueAssumption DEF TypeOK, LockInv, RowInv
  <1>1. CASE UNCHANGED vars
    BY <1>1 DEF vars, rows, bounds
  <1>2. ASSUME NEW t \in Tasks, Enqueue(t) PROVE RowInv'
    BY <1>2 DEF Enqueue, bounds
  <1>3. ASSUME NEW t \in Tasks, BackoffElapses(t) PROVE RowInv'
    BY <1>3 DEF BackoffElapses, bounds
  <1>4. ASSUME NEW t \in Tasks, LeaseRunsOut(t) PROVE RowInv'
    BY <1>4 DEF LeaseRunsOut, bounds
  <1>5. ASSUME NEW w \in Workers, NEW r \in BOOLEAN, StartRun(w, r) PROVE RowInv'
    BY <1>5 DEF StartRun
  <1>6. ASSUME NEW w \in Workers, HandOver(w) PROVE RowInv'
    BY <1>6 DEF HandOver, rows, bounds
  <1>7. ASSUME NEW w \in Workers, TakeBack(w) PROVE RowInv'
    BY <1>7 DEF TakeBack, rows, bounds
  <1>8. ASSUME NEW w \in Workers, Claim(w) PROVE RowInv'
    BY <1>8 DEF Claim, Claimable, bounds
  <1>9. ASSUME NEW w \in Workers, StopRun(w) PROVE RowInv'
    BY <1>9 DEF StopRun, rows, bounds
  <1>10. ASSUME NEW w \in Workers, Raise(w) PROVE RowInv'
    BY <1>10 DEF Raise
  <1>11. ASSUME NEW w \in Workers, HangInOcr(w) PROVE RowInv'
    BY <1>11 DEF HangInOcr
  <1>12. ASSUME NEW w \in Workers, Crash(w) PROVE RowInv'
    BY <1>12 DEF Crash, rows
  <1>13. ASSUME NEW w \in Workers, NEW s \in BOOLEAN, Complete(w, s) PROVE RowInv'
    BY <1>13 DEF Complete, bounds
  <1>14. ASSUME NEW w \in Workers, Skip(w) PROVE RowInv'
    BY <1>14 DEF Skip, Record, bounds
  <1>15. ASSUME NEW w \in Workers, Fail(w) PROVE RowInv'
    BY <1>15 DEF Fail, Record, bounds
  <1>16. ASSUME NEW w \in Workers, FailPermanently(w) PROVE RowInv'
    BY <1>16 DEF FailPermanently, Record, bounds
  <1> QED
    BY <1>1, <1>2, <1>3, <1>4, <1>5, <1>6, <1>7, <1>8, <1>9, <1>10, <1>11, <1>12,
  <1>13, <1>14, <1>15, <1>16 DEF Next, Run, Work

\* Only rows that were claimed count attempts.
LEMMA FreshStep ==
    ASSUME TypeOK, RowInv, FreshInv, [Next]_vars
    PROVE  FreshInv'
  <1> USE QueueAssumption DEF TypeOK, RowInv, FreshInv
  <1>1. CASE UNCHANGED vars
    BY <1>1 DEF vars, rows, bounds
  <1>2. ASSUME NEW t \in Tasks, Enqueue(t) PROVE FreshInv'
    BY <1>2 DEF Enqueue, bounds
  <1>3. ASSUME NEW t \in Tasks, BackoffElapses(t) PROVE FreshInv'
    BY <1>3 DEF BackoffElapses, bounds
  <1>4. ASSUME NEW t \in Tasks, LeaseRunsOut(t) PROVE FreshInv'
    BY <1>4 DEF LeaseRunsOut, bounds
  <1>5. ASSUME NEW w \in Workers, NEW r \in BOOLEAN, StartRun(w, r) PROVE FreshInv'
    BY <1>5 DEF StartRun
  <1>6. ASSUME NEW w \in Workers, HandOver(w) PROVE FreshInv'
    BY <1>6 DEF HandOver, rows, bounds
  <1>7. ASSUME NEW w \in Workers, TakeBack(w) PROVE FreshInv'
    BY <1>7 DEF TakeBack, rows, bounds
  <1>8. ASSUME NEW w \in Workers, Claim(w) PROVE FreshInv'
    BY <1>8 DEF Claim, Claimable, bounds
  <1>9. ASSUME NEW w \in Workers, StopRun(w) PROVE FreshInv'
    BY <1>9 DEF StopRun, rows, bounds
  <1>10. ASSUME NEW w \in Workers, Raise(w) PROVE FreshInv'
    BY <1>10 DEF Raise
  <1>11. ASSUME NEW w \in Workers, HangInOcr(w) PROVE FreshInv'
    BY <1>11 DEF HangInOcr
  <1>12. ASSUME NEW w \in Workers, Crash(w) PROVE FreshInv'
    BY <1>12 DEF Crash, rows
  <1>13. ASSUME NEW w \in Workers, NEW s \in BOOLEAN, Complete(w, s) PROVE FreshInv'
    BY <1>13 DEF Complete, bounds
  <1>14. ASSUME NEW w \in Workers, Skip(w) PROVE FreshInv'
    BY <1>14 DEF Skip, Record, bounds
  <1>15. ASSUME NEW w \in Workers, Fail(w) PROVE FreshInv'
    BY <1>15 DEF Fail, Record, bounds
  <1>16. ASSUME NEW w \in Workers, FailPermanently(w) PROVE FreshInv'
    BY <1>16 DEF FailPermanently, Record, bounds
  <1> QED
    BY <1>1, <1>2, <1>3, <1>4, <1>5, <1>6, <1>7, <1>8, <1>9, <1>10, <1>11, <1>12,
  <1>13, <1>14, <1>15, <1>16 DEF Next, Run, Work

\* A row goes back to pending with attempts left, or with none counted.
LEMMA AttemptsStep ==
    ASSUME TypeOK, RowInv, FreshInv, OpenRowsHaveAttemptsLeft, [Next]_vars
    PROVE  OpenRowsHaveAttemptsLeft'
  <1> USE QueueAssumption DEF TypeOK, RowInv, FreshInv, OpenRowsHaveAttemptsLeft
  <1>1. CASE UNCHANGED vars
    BY <1>1 DEF vars, rows, bounds
  <1>2. ASSUME NEW t \in Tasks, Enqueue(t) PROVE OpenRowsHaveAttemptsLeft'
    BY <1>2 DEF Enqueue, bounds
  <1>3. ASSUME NEW t \in Tasks, BackoffElapses(t) PROVE OpenRowsHaveAttemptsLeft'
    BY <1>3 DEF BackoffElapses, bounds
  <1>4. ASSUME NEW t \in Tasks, LeaseRunsOut(t) PROVE OpenRowsHaveAttemptsLeft'
    BY <1>4 DEF LeaseRunsOut, bounds
  <1>5. ASSUME NEW w \in Workers, NEW r \in BOOLEAN, StartRun(w, r) PROVE OpenRowsHaveAttemptsLeft'
    BY <1>5 DEF StartRun
  <1>6. ASSUME NEW w \in Workers, HandOver(w) PROVE OpenRowsHaveAttemptsLeft'
    BY <1>6 DEF HandOver, rows, bounds
  <1>7. ASSUME NEW w \in Workers, TakeBack(w) PROVE OpenRowsHaveAttemptsLeft'
    BY <1>7 DEF TakeBack, rows, bounds
  <1>8. ASSUME NEW w \in Workers, Claim(w) PROVE OpenRowsHaveAttemptsLeft'
    BY <1>8 DEF Claim, Claimable, bounds
  <1>9. ASSUME NEW w \in Workers, StopRun(w) PROVE OpenRowsHaveAttemptsLeft'
    BY <1>9 DEF StopRun, rows, bounds
  <1>10. ASSUME NEW w \in Workers, Raise(w) PROVE OpenRowsHaveAttemptsLeft'
    BY <1>10 DEF Raise
  <1>11. ASSUME NEW w \in Workers, HangInOcr(w) PROVE OpenRowsHaveAttemptsLeft'
    BY <1>11 DEF HangInOcr
  <1>12. ASSUME NEW w \in Workers, Crash(w) PROVE OpenRowsHaveAttemptsLeft'
    BY <1>12 DEF Crash, rows
  <1>13. ASSUME NEW w \in Workers, NEW s \in BOOLEAN, Complete(w, s) PROVE OpenRowsHaveAttemptsLeft'
    BY <1>13 DEF Complete, bounds
  <1>14. ASSUME NEW w \in Workers, Skip(w) PROVE OpenRowsHaveAttemptsLeft'
    BY <1>14 DEF Skip, Record, bounds
  <1>15. ASSUME NEW w \in Workers, Fail(w) PROVE OpenRowsHaveAttemptsLeft'
    BY <1>15 DEF Fail, Record, bounds
  <1>16. ASSUME NEW w \in Workers, FailPermanently(w) PROVE OpenRowsHaveAttemptsLeft'
    BY <1>16 DEF FailPermanently, Record, bounds
  <1> QED
    BY <1>1, <1>2, <1>3, <1>4, <1>5, <1>6, <1>7, <1>8, <1>9, <1>10, <1>11, <1>12,
  <1>13, <1>14, <1>15, <1>16 DEF Next, Run, Work

\* Only Complete makes a row done, with its text and its follow-ups.
LEMMA PublishStep ==
    ASSUME TypeOK, RowInv, DoneMeansPublished, [Next]_vars
    PROVE  DoneMeansPublished'
  <1> USE QueueAssumption DEF TypeOK, RowInv, DoneMeansPublished
  <1>1. CASE UNCHANGED vars
    BY <1>1 DEF vars, rows, bounds
  <1>2. ASSUME NEW t \in Tasks, Enqueue(t) PROVE DoneMeansPublished'
    BY <1>2 DEF Enqueue, bounds
  <1>3. ASSUME NEW t \in Tasks, BackoffElapses(t) PROVE DoneMeansPublished'
    BY <1>3 DEF BackoffElapses, bounds
  <1>4. ASSUME NEW t \in Tasks, LeaseRunsOut(t) PROVE DoneMeansPublished'
    BY <1>4 DEF LeaseRunsOut, bounds
  <1>5. ASSUME NEW w \in Workers, NEW r \in BOOLEAN, StartRun(w, r) PROVE DoneMeansPublished'
    BY <1>5 DEF StartRun
  <1>6. ASSUME NEW w \in Workers, HandOver(w) PROVE DoneMeansPublished'
    BY <1>6 DEF HandOver, rows, bounds
  <1>7. ASSUME NEW w \in Workers, TakeBack(w) PROVE DoneMeansPublished'
    BY <1>7 DEF TakeBack, rows, bounds
  <1>8. ASSUME NEW w \in Workers, Claim(w) PROVE DoneMeansPublished'
    BY <1>8 DEF Claim, Claimable, bounds
  <1>9. ASSUME NEW w \in Workers, StopRun(w) PROVE DoneMeansPublished'
    BY <1>9 DEF StopRun, rows, bounds
  <1>10. ASSUME NEW w \in Workers, Raise(w) PROVE DoneMeansPublished'
    BY <1>10 DEF Raise
  <1>11. ASSUME NEW w \in Workers, HangInOcr(w) PROVE DoneMeansPublished'
    BY <1>11 DEF HangInOcr
  <1>12. ASSUME NEW w \in Workers, Crash(w) PROVE DoneMeansPublished'
    BY <1>12 DEF Crash, rows
  <1>13. ASSUME NEW w \in Workers, NEW s \in BOOLEAN, Complete(w, s) PROVE DoneMeansPublished'
    BY <1>13 DEF Complete, bounds
  <1>14. ASSUME NEW w \in Workers, Skip(w) PROVE DoneMeansPublished'
    BY <1>14 DEF Skip, Record, bounds
  <1>15. ASSUME NEW w \in Workers, Fail(w) PROVE DoneMeansPublished'
    BY <1>15 DEF Fail, Record, bounds
  <1>16. ASSUME NEW w \in Workers, FailPermanently(w) PROVE DoneMeansPublished'
    BY <1>16 DEF FailPermanently, Record, bounds
  <1> QED
    BY <1>1, <1>2, <1>3, <1>4, <1>5, <1>6, <1>7, <1>8, <1>9, <1>10, <1>11, <1>12,
  <1>13, <1>14, <1>15, <1>16 DEF Next, Run, Work

----------------------------------------------------------------------------
(* The theorems.                                                           *)

\* The empty queue satisfies the invariant.
LEMMA InitInv == Init => IInv
  BY QueueAssumption
  DEF Init, IInv, TypeOK, RowStates, Settled, LockInv, RowInv, FreshInv,
      OpenRowsHaveAttemptsLeft, DoneMeansPublished

\* The inductive invariant holds in every reachable state.
THEOREM InductiveInvariant == Spec => []IInv
  <1>1. IInv /\ [Next]_vars => IInv'
    BY TypeStep, LockStep, RowStep, FreshStep, AttemptsStep, PublishStep DEF IInv
  <1> QED BY InitInv, <1>1, PTL DEF Spec

\* Every variable keeps its type in every reachable state, and no row counts
\* more attempts than the budget.
THEOREM TypeCorrect == Spec => []TypeOK
  <1>1. IInv => TypeOK BY DEF IInv
  <1> QED BY InductiveInvariant, <1>1, PTL

\* Whoever records an outcome still holds the row, even once its lease has run
\* out: the lock, not the lease, keeps other workers away.
THEOREM OutcomesAreTheHolders == Spec => []RecordsItsOwnRow
  <1>1. IInv => RecordsItsOwnRow
    BY QueueAssumption DEF IInv, LockInv, RowInv, RecordsItsOwnRow
  <1> QED BY InductiveInvariant, <1>1, PTL

\* A row says done exactly when its text and its follow-ups are there.
THEOREM PublishedWithTheRow == Spec => []DoneMeansPublished
  <1>1. IInv => DoneMeansPublished BY DEF IInv
  <1> QED BY InductiveInvariant, <1>1, PTL

\* A row that may still be tried has attempts left.
THEOREM AttemptBudget == Spec => []OpenRowsHaveAttemptsLeft
  <1>1. IInv => OpenRowsHaveAttemptsLeft BY DEF IInv
  <1> QED BY InductiveInvariant, <1>1, PTL

\* DoneStaysDone, as a property of one step.
SettledNow ==
    \A t \in Tasks :
        /\ state[t] \in {"done", "skipped"} => state'[t] = state[t]
        /\ chunks[t] => chunks'[t]


\* No action reopens a row that is done or skipped, or takes its text away.
LEMMA SettledStep ==
    ASSUME TypeOK, RowInv, [Next]_vars
    PROVE  SettledNow
  <1> USE QueueAssumption DEF TypeOK, RowInv, SettledNow
  <1>1. CASE UNCHANGED vars
    BY <1>1 DEF vars, rows, bounds
  <1>2. ASSUME NEW t \in Tasks, Enqueue(t) PROVE SettledNow
    BY <1>2 DEF Enqueue, bounds
  <1>3. ASSUME NEW t \in Tasks, BackoffElapses(t) PROVE SettledNow
    BY <1>3 DEF BackoffElapses, bounds
  <1>4. ASSUME NEW t \in Tasks, LeaseRunsOut(t) PROVE SettledNow
    BY <1>4 DEF LeaseRunsOut, bounds
  <1>5. ASSUME NEW w \in Workers, NEW r \in BOOLEAN, StartRun(w, r) PROVE SettledNow
    BY <1>5 DEF StartRun
  <1>6. ASSUME NEW w \in Workers, HandOver(w) PROVE SettledNow
    BY <1>6 DEF HandOver, rows, bounds
  <1>7. ASSUME NEW w \in Workers, TakeBack(w) PROVE SettledNow
    BY <1>7 DEF TakeBack, rows, bounds
  <1>8. ASSUME NEW w \in Workers, Claim(w) PROVE SettledNow
    BY <1>8 DEF Claim, Claimable, bounds
  <1>9. ASSUME NEW w \in Workers, StopRun(w) PROVE SettledNow
    BY <1>9 DEF StopRun, rows, bounds
  <1>10. ASSUME NEW w \in Workers, Raise(w) PROVE SettledNow
    BY <1>10 DEF Raise
  <1>11. ASSUME NEW w \in Workers, HangInOcr(w) PROVE SettledNow
    BY <1>11 DEF HangInOcr
  <1>12. ASSUME NEW w \in Workers, Crash(w) PROVE SettledNow
    BY <1>12 DEF Crash, rows
  <1>13. ASSUME NEW w \in Workers, NEW s \in BOOLEAN, Complete(w, s) PROVE SettledNow
    BY <1>13 DEF Complete, bounds
  <1>14. ASSUME NEW w \in Workers, Skip(w) PROVE SettledNow
    BY <1>14 DEF Skip, Record, bounds
  <1>15. ASSUME NEW w \in Workers, Fail(w) PROVE SettledNow
    BY <1>15 DEF Fail, Record, bounds
  <1>16. ASSUME NEW w \in Workers, FailPermanently(w) PROVE SettledNow
    BY <1>16 DEF FailPermanently, Record, bounds
  <1> QED
    BY <1>1, <1>2, <1>3, <1>4, <1>5, <1>6, <1>7, <1>8, <1>9, <1>10, <1>11, <1>12,
  <1>13, <1>14, <1>15, <1>16 DEF Next, Run, Work


\* What is done or skipped stays so: an outcome is only recorded on a running row,
\* and --retry-failed and the planner leave such rows alone.
THEOREM DoneForGood == Spec => DoneStaysDone
  <1>1. IInv /\ [Next]_vars => SettledNow
    BY SettledStep DEF IInv
  <1>2. SettledNow => [\A t \in Tasks :
                          /\ state[t] \in {"done", "skipped"} => state'[t] = state[t]
                          /\ chunks[t] => chunks'[t]]_vars
    BY DEF SettledNow
  <1> QED BY InductiveInvariant, <1>1, <1>2, PTL DEF Spec, DoneStaysDone

----------------------------------------------------------------------------
(* The queue implements the ledger.                                        *)

LedgerStutter == UNCHANGED << Status, attempts, Searchable >>

\* Rows that keep their state, attempts and text keep them in the ledger.
LEMMA SameLedger ==
    ASSUME UNCHANGED << state, attempts, chunks >>
    PROVE  LedgerStutter
  BY DEF LedgerStutter, Status, Searchable

\* The row of a worker's task is open in the ledger, with attempts left.
LEMMA TaskIsOpen ==
    ASSUME IInv, NEW w \in Workers, at[w] = "working"
    PROVE  /\ task[w] \in Tasks
           /\ Status[task[w]] = "open"
           /\ attempts[task[w]] \in Nat
           /\ attempts[task[w]] < MaxAttempts
  BY QueueAssumption DEF IInv, TypeOK, RowInv, OpenRowsHaveAttemptsLeft, Status

\* Every action is a step of the ledger or does not show in it.
LEMMA LedgerStep ==
    ASSUME IInv, [Next]_vars
    PROVE  Ledger!Next \/ LedgerStutter
  <1> USE QueueAssumption
  <1> DEFINE Shows == Ledger!Next \/ LedgerStutter
  <1>0. TypeOK /\ RowInv /\ OpenRowsHaveAttemptsLeft BY DEF IInv
  <1>1. CASE UNCHANGED vars
    BY <1>1, SameLedger DEF vars, rows
  <1>2. ASSUME NEW t \in Tasks, Enqueue(t) PROVE Shows
    <2>1. Ledger!Add(t)
      BY <1>0, <1>2 DEF TypeOK, Enqueue, Ledger!Add, Ledger!Absent, Ledger!Opened, Status, Searchable
    <2> QED BY <2>1 DEF Ledger!Next
  <1>3. ASSUME NEW t \in Tasks, BackoffElapses(t) PROVE Shows
    BY <1>3, SameLedger DEF BackoffElapses
  <1>4. ASSUME NEW t \in Tasks, LeaseRunsOut(t) PROVE Shows
    BY <1>4, SameLedger DEF LeaseRunsOut
  <1>5. ASSUME NEW w \in Workers, NEW r \in BOOLEAN, StartRun(w, r) PROVE Shows
    <2>1. CASE r
      <3>1. Ledger!Revive
        BY <1>0, <1>5, <2>1 DEF TypeOK, StartRun, Ledger!Revive, Ledger!Opened, Status, Searchable
      <3> QED BY <3>1 DEF Ledger!Next
    <2>2. CASE ~r
      BY <1>0, <1>5, <2>2 DEF TypeOK, StartRun, LedgerStutter, Status, Searchable
    <2> QED BY <2>1, <2>2
  <1>6. ASSUME NEW w \in Workers, HandOver(w) PROVE Shows
    BY <1>6, SameLedger DEF HandOver, rows
  <1>7. ASSUME NEW w \in Workers, TakeBack(w) PROVE Shows
    BY <1>7, SameLedger DEF TakeBack, rows
  <1>8. ASSUME NEW w \in Workers, Claim(w) PROVE Shows
    BY <1>0, <1>8 DEF TypeOK, Claim, Claimable, LedgerStutter, Status, Searchable
  <1>9. ASSUME NEW w \in Workers, StopRun(w) PROVE Shows
    BY <1>9, SameLedger DEF StopRun, rows
  <1>10. ASSUME NEW w \in Workers, Raise(w) PROVE Shows
    BY <1>0, <1>10 DEF TypeOK, RowInv, Raise, LedgerStutter, Status, Searchable
  <1>11. ASSUME NEW w \in Workers, HangInOcr(w) PROVE Shows
    <2>1. Ledger!Fail(task[w])
      BY <1>0, <1>11, TaskIsOpen DEF TypeOK, HangInOcr, Ledger!Fail, Status, Searchable
    <2> QED BY <1>11, <2>1, TaskIsOpen DEF Ledger!Next, HangInOcr
  <1>12. ASSUME NEW w \in Workers, Crash(w) PROVE Shows
    BY <1>12, SameLedger DEF Crash, rows
  <1>13. ASSUME NEW w \in Workers, NEW s \in BOOLEAN, Complete(w, s) PROVE Shows
    <2> DEFINE t == task[w]
               added == {u \in FollowUps[t] : s /\ state[u] = "absent"}
    <2>0. t \in Tasks /\ Status[t] = "open" /\ state[t] \in {"pending", "running"}
      BY <1>0, <1>13, TaskIsOpen DEF Complete, RowInv
    <2>1. added \in {{}, FollowUps[t] \cap Ledger!Absent}
      <3>1. \A u \in FollowUps[t] : state[u] = "absent" <=> u \in Ledger!Absent
        BY <1>0, <2>0 DEF TypeOK, RowStates, Settled, Ledger!Absent, Status
      <3>2. CASE s
        BY <3>1, <3>2
      <3>3. CASE ~s
        BY <3>3
      <3> QED BY <3>2, <3>3
    <2>2. Status' = [Ledger!Opened(added) EXCEPT ![t] = "done"]
      BY <1>0, <1>13, <2>0 DEF TypeOK, Complete, Ledger!Opened, Status
    <2>3. Searchable' = Searchable \cup {t}
      BY <1>0, <1>13, <2>0 DEF TypeOK, Complete, Searchable
    <2>4. UNCHANGED attempts BY <1>13 DEF Complete
    <2>5. Ledger!Finish(t)
      <3> HIDE DEF added
      <3> QED BY <2>0, <2>1, <2>2, <2>3, <2>4 DEF Ledger!Finish
    <2> QED BY <2>0, <2>5 DEF Ledger!Next
  <1>14. ASSUME NEW w \in Workers, Skip(w) PROVE Shows
    <2>1. Ledger!Skip(task[w])
      BY <1>0, <1>14, TaskIsOpen DEF TypeOK, Skip, Record, Ledger!Skip, Status, Searchable
    <2> QED BY <1>14, <2>1, TaskIsOpen DEF Ledger!Next, Skip, Record
  <1>15. ASSUME NEW w \in Workers, Fail(w) PROVE Shows
    <2>1. Ledger!Fail(task[w])
      BY <1>0, <1>15, TaskIsOpen DEF TypeOK, Fail, Record, Ledger!Fail, Status, Searchable
    <2> QED BY <1>15, <2>1, TaskIsOpen DEF Ledger!Next, Fail, Record
  <1>16. ASSUME NEW w \in Workers, FailPermanently(w) PROVE Shows
    <2>1. Ledger!Fail(task[w])
      BY <1>0, <1>16, TaskIsOpen DEF TypeOK, FailPermanently, Record, Ledger!Fail, Status, Searchable
    <2> QED BY <1>16, <2>1, TaskIsOpen DEF Ledger!Next, FailPermanently, Record
  <1> QED
    BY <1>1, <1>2, <1>3, <1>4, <1>5, <1>6, <1>7, <1>8, <1>9, <1>10, <1>11, <1>12,
  <1>13, <1>14, <1>15, <1>16 DEF Next, Run, Work

\* The queue implements the ledger, for any tasks, claim order, workers, kills and
\* attempt budget: an outcome is recorded once and on an open task, a result comes
\* with its text and its follow-up tasks, and a failure counts once.
THEOREM ImplementsTaskLedger == Spec => LedgerSpec
  <1>1. Init => Ledger!Init
    BY DEF Init, Ledger!Init, Status, Searchable
  <1>2. IInv /\ [Next]_vars => [Ledger!Next]_<< Status, attempts, Searchable >>
    BY LedgerStep DEF LedgerStutter
  <1> QED BY InductiveInvariant, <1>1, <1>2, PTL DEF Spec, LedgerSpec, Ledger!Spec

=============================================================================
