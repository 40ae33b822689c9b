----------------------------- MODULE TaskLedger -----------------------------
(* What the enrichment queue promises whoever counts on its results: every *)
(* task in it is tried until it succeeds, is skipped or has used up its    *)
(* attempts, its outcome is final, and its text is there from the moment   *)
(* it is done.  Who works on a task, under which lease and how often       *)
(* somebody is killed at it does not show.                                 *)
EXTENDS Naturals

CONSTANTS
    Tasks,     \* everything that may be queued
    FollowUps, \* task -> the tasks that its result may add
    Budget     \* the attempts a task has

VARIABLES
    status,    \* "absent", "open", or how the task ended
    tries,     \* the failed attempts that count
    published  \* the tasks whose text can be searched

Init ==
    /\ status = [t \in Tasks |-> "absent"]
    /\ tries = [t \in Tasks |-> 0]
    /\ published = {}

Absent == {t \in Tasks : status[t] = "absent"}
Opened(S) == [t \in Tasks |-> IF t \in S THEN "open" ELSE status[t]]

Add(t) ==
    /\ t \in Absent
    /\ status' = Opened({t})
    /\ UNCHANGED << tries, published >>

\* The text and all the tasks that follow from it come with the outcome.
Finish(t) ==
    /\ status[t] = "open"
    /\ \E added \in {{}, FollowUps[t] \cap Absent} :
          status' = [Opened(added) EXCEPT ![t] = "done"]
    /\ published' = published \cup {t}
    /\ UNCHANGED tries

Skip(t) ==
    /\ status[t] = "open"
    /\ status' = [status EXCEPT ![t] = "skipped"]
    /\ UNCHANGED << tries, published >>

\* A failure counts once; the last one that fits the budget is final, and a
\* permanent one is so at once.
Fail(t) ==
    /\ status[t] = "open"
    /\ tries' = [tries EXCEPT ![t] = @ + 1]
    /\ \/ status' = [status EXCEPT ![t] = "failed"]
       \/ tries[t] + 1 < Budget /\ UNCHANGED status
    /\ UNCHANGED published

\* An operator gives all that failed a new budget.
Revive ==
    /\ status' = Opened({t \in Tasks : status[t] = "failed"})
    /\ tries' = [t \in Tasks |-> IF status[t] = "failed" THEN 0 ELSE tries[t]]
    /\ UNCHANGED published

Next ==
    \/ \E t \in Tasks : Add(t) \/ Finish(t) \/ Skip(t) \/ Fail(t)
    \/ Revive

Spec == Init /\ [][Next]_<< status, tries, published >>

=============================================================================
