--------------------------- MODULE BackfillProofs ---------------------------
(***************************************************************************)
(* Proofs about Backfill, for any attachments, rows and files, any number  *)
(* of runs, plans, changes and faults, and any number of pushing hosts.    *)
(*                                                                         *)
(* Nothing is read again before it is written, so the invariant says what  *)
(* stays true of the things a run has read: LadderInv of the candidates    *)
(* and their attempts, QueueInv of the attempts at the copies, CertainInv  *)
(* of those that must come first, ReleaseInv of the staged file that is    *)
(* about to be deleted, and RecordInv of what has been fetched.            *)
(***************************************************************************)
EXTENDS Backfill, FiniteSetTheorems, WellFoundedInduction, TLAPS

\* The types that TypeOK leaves open.
Tiers == {"cache", "local", "staged", "push", "pull", "none"}
PendingStates == {"dataless", "materializing", "error"}
AttStates == PendingStates \cup {"materialized", "missing", "unsupported"}
AttColumns == [state: AttStates, path: {"none", "inside", "outside"}, attempts: Nat,
               due: BOOLEAN, hash: Contents \cup {None}]
Reports == {"staged", "unreachable", "absent", "refused", "rejected"}
RowOutcomes == Reports \cup {"unknown", "untried", "fetched"}
RowColumns == [listed: Listings, outcome: RowOutcomes]
Attempts == [row: Rows, tier: Tiers, listed: Listings]
Points == {"idle", "own", "reading", "mark", "enqueue", "release", "unlink", "fetch"}
RunFields == [pc: Points, todo: SUBSET Attachments, read: SUBSET Attachments,
              pulls: BOOLEAN, trial: BOOLEAN, queue: [Attachments -> SUBSET Attempts],
              started: SUBSET Attachments, arrived: SUBSET Attempts, reached: BOOLEAN,
              att: Attachments \cup {None}, row: Rows \cup {None}, staged: BOOLEAN,
              found: Contents \cup {None}]
PushFields == [pc: {"idle", "planned", "sending"}, roots: SUBSET Locations,
               plan: SUBSET Attempts, picks: SUBSET Rows,
               results: UNION {[S -> Reports] : S \in SUBSET Rows}]

\* The run reads the candidates' own paths.
OwnPhaseRuns == \/ run.pc \in {"own", "reading"}
                \/ run.pc \in {"mark", "enqueue"} /\ run.row = None

\* What the fields of a run say of each other.
RunInv ==
    /\ run \in RunFields
    /\ run.pc \in {"reading", "mark", "enqueue"} => run.att \in Attachments \ run.todo
    /\ run.pc \in {"release", "unlink"} => run.row \in Rows
    /\ run.pc \in {"mark", "enqueue"} /\ run.row # None => AttachmentOf[run.row] = run.att
    /\ run.pc = "mark" => run.found \in Contents
    /\ run.todo # {} => OwnPhaseRuns
    /\ run.arrived # {} => ~OwnPhaseRuns

\* The files, the copies and the cache.
FilesInv ==
    /\ disk \in [Files -> Held]
    /\ staging \in [Files -> Contents \cup {None}]
    /\ cache \subseteq Contents

\* A push knows rows and reports nothing that only the run may say.
PushInv == push \in [Pushers -> PushFields]

\* The attempts t counts are these runs, and its state tells whether they were
\* too many.
OnLadder(t, counted) ==
    /\ t.attempts = Cardinality(counted)
    /\ t.path = "none" => t.attempts = 0
    /\ t.state = "missing" /\ t.path # "none" => t.attempts >= MaxAttempts
    /\ t.state \in PendingStates => t.attempts < MaxAttempts

\* An attachment's attempts are the runs that counted one, and a candidate of
\* this run is on the ladder and not counted yet.
LadderInv ==
    /\ att \in [Attachments -> AttColumns]
    /\ runs \in Nat
    /\ tries \in [Attachments -> SUBSET (0 .. runs)]
    /\ \A a \in Attachments : OnLadder(att[a], tries[a])
    /\ \A a \in run.todo :
          att[a].state \in PendingStates /\ att[a].path # "none" /\ runs \notin tries[a]
    /\ run.pc = "reading" =>
          /\ att[run.att].state = "materializing"
          /\ att[run.att].path = "inside"
          /\ runs \notin tries[run.att]

\* The attempts that are left are at rows of attachments that still lack their
\* content, and those whose copies have arrived are the first of theirs.
QueueInv ==
    /\ \A a \in Attachments : \A x \in run.queue[a] :
          /\ AttachmentOf[x.row] = a
          /\ x.tier \in Actionable
          /\ x.tier = "cache" => x.listed.sha \in cache
          /\ att[a].state # "materialized"
          /\ \A y \in run.queue[a] : x.row = y.row /\ x.tier = y.tier => x = y
    /\ \A x \in run.arrived :
          /\ x \in run.queue[AttachmentOf[x.row]]
          /\ \A y \in run.queue[AttachmentOf[x.row]] \ {x} : Before(x, y)
    /\ run.pc = "mark" =>
          /\ att[run.att].state # "materialized"
          /\ \A x \in run.arrived : AttachmentOf[x.row] # run.att

\* What has been fetched: an attachment's content is in the cache, and rows and
\* tasks follow the attachment.
RecordInv ==
    /\ row \in [Rows -> RowColumns]
    /\ \A a \in Attachments : att[a].state = "materialized" => att[a].hash \in cache
    /\ run.pc = "mark" => run.found \in cache
    /\ run.pc = "enqueue" => att[run.att].state = "materialized"
    /\ queued \subseteq Attachments
    /\ \A a \in queued : att[a].state = "materialized"
    /\ \A l \in Rows :
          row[l].outcome = "fetched" => att[AttachmentOf[l]].state = "materialized"

\* What the look before a deletion found is still so, rows opened since aside.
ReleaseInv ==
    /\ renewed \subseteq Rows
    /\ run.pc = "unlink" =>
          \A l \in Rows \ renewed :
              FileOf[l] = FileOf[run.row] /\ l # run.row => ~Open(l)

\* A certain copy is either among the attempts that are left, in front of the
\* probable ones, or no probable one of its attachment is.
CertainInv ==
    /\ certain \subseteq Rows \ Flagged
    /\ \A k \in certain :
          \/ \E y \in run.queue[AttachmentOf[k]] : y.row = k
          \/ \A y \in run.queue[AttachmentOf[k]] : y.row \notin Flagged
    /\ run.pc = "mark" /\ run.row \in Flagged =>
          \A k \in certain : AttachmentOf[k] # run.att

IInv ==
    /\ RunInv
    /\ FilesInv
    /\ PushInv
    /\ LadderInv
    /\ QueueInv
    /\ RecordInv
    /\ ReleaseInv
    /\ CertainInv

----------------------------------------------------------------------------
(* The order of the attempts.                                              *)

\* A set of natural numbers has a least element.
LEMMA Least ==
    ASSUME NEW S \in SUBSET Nat, S # {}
    PROVE  \E m \in S : \A k \in S : m <= k
  <1> DEFINE R == OpToRel(<, Nat)
  <1>1. IsWellFoundedOn(R, Nat)
    BY NatLessThanWellFounded
  <1>2. \E m \in S : \A k \in S : ~(<< k, m >> \in R)
    <2> HIDE DEF R
    <2> QED
      BY <1>1, WFMin
  <1>3. \A k, m \in Nat : k < m => << k, m >> \in R
    BY DEF OpToRel
  <1>4. \A k, m \in Nat : ~(k < m) => m <= k
    OBVIOUS
  <1> HIDE DEF R
  <1> QED
    BY <1>2, <1>3, <1>4

\* The words of the order: kind of match, tier, number.
LEMMA Ranks ==
    /\ \A t \in Tiers : TierOrder[t] \in Nat
    /\ \A x \in Attempts : x.row \in Nat /\ TierOrder[x.tier] \in Nat
  <1>1. \A t \in Tiers : TierOrder[t] \in Nat
    BY DEF Tiers, TierOrder
  <1>2. \A x \in Attempts : x.row \in Rows /\ x.tier \in Tiers
    BY DEF Attempts
  <1>3. Rows \subseteq Nat
    BY BackfillAssumption
  <1> QED
    BY <1>1, <1>2, <1>3

\* The order has no two attempts before each other.
LEMMA BeforeIsAsymmetric ==
    ASSUME NEW x \in Attempts, NEW y \in Attempts, Before(x, y)
    PROVE  ~Before(y, x)
  BY Ranks DEF Before

\* Among attempts that no two share row and tier, one comes before all others.
LEMMA FirstIsFirst ==
    ASSUME NEW q \in SUBSET Attempts, q # {},
           \A x, y \in q : x.row = y.row /\ x.tier = y.tier => x = y,
           \A x \in q : x.tier \in Actionable
    PROVE  First(q) \in q /\ \A y \in q \ {First(q)} : Before(First(q), y)
  <1> DEFINE c == {x \in q : x.row \notin Flagged}
             s == IF c # {} THEN c ELSE q
  <1>1. s # {} /\ s \subseteq q
    OBVIOUS
  <1>2. \A x \in s : \A y \in q \ s : x.row \notin Flagged /\ y.row \in Flagged
    OBVIOUS
  <1>3. \A x, y \in s : x.row \in Flagged <=> y.row \in Flagged
    OBVIOUS
  <1> HIDE DEF s
  <1> DEFINE T == {TierOrder[x.tier] : x \in s}
  <1>4. T \in SUBSET Nat /\ T # {}
    <2>1. \A x \in s : TierOrder[x.tier] \in Nat
      BY <1>1, Ranks
    <2> QED
      BY <1>1, <2>1
  <1>5. PICK x0 \in s : \A y \in s : TierOrder[x0.tier] <= TierOrder[y.tier]
    <2>1. \E m \in T : \A k \in T : m <= k
      <3> HIDE DEF T
      <3> QED
        BY <1>4, Least
    <2> QED
      BY <2>1
  <1> DEFINE u == {x \in s : TierOrder[x.tier] = TierOrder[x0.tier]}
             N == {x.row : x \in u}
  <1>6. N \in SUBSET Nat /\ N # {}
    <2>1. \A x \in s : x.row \in Nat
      BY <1>1, Ranks
    <2> QED
      BY <1>5, <2>1
  <1>7. PICK x1 \in u : \A y \in u : x1.row <= y.row
    <2>1. \E m \in N : \A k \in N : m <= k
      <3> HIDE DEF N
      <3> QED
        BY <1>6, Least
    <2> QED
      BY <2>1
  <1>8. x1 \in q /\ x1 \in s /\ TierOrder[x1.tier] = TierOrder[x0.tier]
    BY <1>1, <1>7
  <1>9. ASSUME NEW y \in q \ {x1}
        PROVE  Before(x1, y)
    <2>1. CASE y \notin s
      BY <1>2, <1>8, <2>1 DEF Before
    <2>2. CASE y \in s /\ y \notin u
      <3>1. TierOrder[x1.tier] < TierOrder[y.tier]
        BY <1>1, <1>5, <1>8, <2>2, Ranks
      <3> QED
        BY <1>3, <1>8, <2>2, <3>1 DEF Before
    <2>3. CASE y \in u
      <3>1. x1.tier \in Tiers /\ y.tier \in Tiers /\ TierOrder[x1.tier] = TierOrder[y.tier]
        BY <1>1, <1>8, <2>3 DEF Attempts
      <3>2. x1.row <= y.row /\ x1.row \in Nat /\ y.row \in Nat
        BY <1>1, <1>7, <1>8, <2>3, Ranks
      <3>3. CASE x1.row # y.row
        <4>1. x1.row < y.row
          BY <3>2, <3>3
        <4> QED
          BY <1>3, <1>8, <2>3, <3>1, <4>1 DEF Before
      <3>4. CASE x1.row = y.row
        <4>1. x1.tier = y.tier
          BY <1>8, <3>1 DEF Actionable, TierOrder
        <4> QED
          BY <1>8, <3>4, <4>1
      <3> QED
        BY <3>3, <3>4
    <2> QED
      BY <2>1, <2>2, <2>3
  <1> QED
    BY <1>8, <1>9 DEF First

----------------------------------------------------------------------------
(* An attempt at a copy, of either kind.                                    *)

\* x is the first of the attempts that attachment a has left.
IsNext(a, x) ==
    /\ a \in Attachments
    /\ x \in run.queue[a]
    /\ \A y \in run.queue[a] \ {x} : Before(x, y)

\* The copy is taken,
Takes(a, x) ==
    /\ \E c \in Contents :
          /\ cache' = cache \cup {c}
          /\ run' = [run EXCEPT !.pc = "mark", !.queue[a] = @ \ {x}, !.started = @ \cup {a},
                                !.arrived = @ \ {x}, !.att = a, !.row = x.row,
                                !.staged = x.tier \in {"staged", "pull"}, !.found = c]
    /\ certain' = certain \ {x.row}
    /\ UNCHANGED row

\* or it is not.
Leaves(a, x) ==
    /\ \E pc \in {"fetch", "release"} : Tried(a, x, pc)
    /\ \/ UNCHANGED row
       \/ \E outcome \in Reports : Record(x.row, outcome)
    /\ UNCHANGED cache

AttemptMade(a, x) ==
    /\ run.pc = "fetch"
    /\ IsNext(a, x)
    /\ Takes(a, x) \/ Leaves(a, x)
    /\ UNCHANGED << att, disk, staging, queued, push, runs, tries, renewed >>

\* What the queues hold.
LEMMA QueueTyped ==
    ASSUME RunInv, NEW a \in Attachments
    PROVE  run.queue[a] \in SUBSET Attempts
  BY DEF RunInv, RunFields

\* The head of a queue is the next attempt.
LEMMA HeadIsNext ==
    ASSUME RunInv, QueueInv, NEW a \in Attachments, run.queue[a] # {}
    PROVE  IsNext(a, First(run.queue[a]))
  <1>1. run.queue[a] \in SUBSET Attempts
    BY QueueTyped
  <1>2. \A x, y \in run.queue[a] : x.row = y.row /\ x.tier = y.tier => x = y
    BY DEF QueueInv
  <1>3. \A x \in run.queue[a] : x.tier \in Actionable
    BY DEF QueueInv
  <1> QED
    BY <1>1, <1>2, <1>3, FirstIsFirst DEF IsNext

\* A copy that is checked is taken or left,
LEMMA VerifyIsAttempt ==
    ASSUME NEW a, NEW x, NEW c, Verify(a, x, c)
    PROVE  Takes(a, x) \/ Leaves(a, x)
  <1>1. CASE Accept(a, x, c)
    BY <1>1 DEF Verify, Accept, Takes
  <1>2. CASE Reject(a, x, c)
    BY <1>2 DEF Reject, Leaves, Reports
  <1>3. CASE ReadFails(a, x)
    BY <1>3 DEF ReadFails, Leaves, Reports
  <1> QED
    BY <1>1, <1>2, <1>3 DEF Verify

\* and so is one that is tried at once,
LEMMA TryIsAttempt ==
    ASSUME RunInv, FilesInv, QueueInv, NEW a \in Attachments, Try(a)
    PROVE  run.arrived = {} /\ \E x : AttemptMade(a, x)
  <1> DEFINE x == First(run.queue[a])
  <1>1. IsNext(a, x)
    BY HeadIsNext DEF Try, Waiting
  <1>2. x.tier \in Actionable /\ (x.tier = "cache" => x.listed.sha \in Contents)
    BY <1>1 DEF IsNext, QueueInv, FilesInv
  <1>3. UNCHANGED << att, disk, staging, queued, push, runs, tries, renewed >>
        /\ run.pc = "fetch" /\ run.arrived = {} /\ x.tier # "pull"
    BY DEF Try, Trying
  <1>4. CASE x.tier = "cache"
    <2>1. Accept(a, x, x.listed.sha)
      BY <1>4 DEF Try
    <2> QED
      BY <1>1, <1>2, <1>3, <1>4, <2>1 DEF Accept, Takes, AttemptMade
  <1>5. CASE x.tier = "local"
    <2>1. \/ Verify(a, x, disk[FileOf[x.row]])
          \/ /\ Record(x.row, IF disk[FileOf[x.row]] = None THEN "absent" ELSE "refused")
             /\ Tried(a, x, "fetch")
             /\ UNCHANGED cache
      BY <1>5 DEF Try
    <2>2. CASE Verify(a, x, disk[FileOf[x.row]])
      BY <1>1, <1>3, <2>2, VerifyIsAttempt DEF AttemptMade
    <2>3. CASE ~Verify(a, x, disk[FileOf[x.row]])
      <3>1. Leaves(a, x)
        BY <2>1, <2>3 DEF Leaves, Reports
      <3> QED
        BY <1>1, <1>3, <3>1 DEF AttemptMade
    <2> QED
      BY <2>2, <2>3
  <1>6. CASE x.tier = "staged"
    <2>1. \/ Verify(a, x, staging[FileOf[x.row]])
          \/ Tried(a, x, "fetch") /\ UNCHANGED << row, cache >>
      BY <1>6 DEF Try
    <2>2. CASE Verify(a, x, staging[FileOf[x.row]])
      BY <1>1, <1>3, <2>2, VerifyIsAttempt DEF AttemptMade
    <2>3. CASE ~Verify(a, x, staging[FileOf[x.row]])
      <3>1. Leaves(a, x)
        BY <2>1, <2>3 DEF Leaves
      <3> QED
        BY <1>1, <1>3, <3>1 DEF AttemptMade
    <2> QED
      BY <2>2, <2>3
  <1> QED
    BY <1>2, <1>3, <1>4, <1>5, <1>6 DEF Actionable

\* and one that has been pulled.
LEMMA ArriveIsAttempt ==
    ASSUME RunInv, QueueInv, NEW x \in run.arrived, Arrive(x)
    PROVE  AttemptMade(AttachmentOf[x.row], x)
  <1> DEFINE a == AttachmentOf[x.row]
  <1>1. x \in Attempts /\ a \in Attachments
    BY BackfillAssumption DEF RunInv, RunFields, Attempts
  <1>2. IsNext(a, x)
    BY <1>1 DEF QueueInv, IsNext
  <1>3. UNCHANGED << att, disk, staging, queued, push, runs, tries, renewed >>
        /\ run.pc = "fetch"
    BY DEF Arrive
  <1>4. \/ Verify(a, x, staging[FileOf[x.row]])
        \/ /\ Record(x.row, IF run.reached THEN "absent" ELSE "unreachable")
           /\ Tried(a, x, "fetch")
           /\ UNCHANGED cache
    BY DEF Arrive
  <1>5. CASE Verify(a, x, staging[FileOf[x.row]])
    BY <1>2, <1>3, <1>5, VerifyIsAttempt DEF AttemptMade
  <1>6. CASE ~Verify(a, x, staging[FileOf[x.row]])
    <2>1. Leaves(a, x)
      BY <1>4, <1>6 DEF Leaves, Reports
    <2> QED
      BY <1>2, <1>3, <2>1 DEF AttemptMade
  <1> QED
    BY <1>5, <1>6

----------------------------------------------------------------------------
(* The run.                                                                 *)

\* None is none of the things it stands in for.
LEMMA NoneIsNothing == None \notin Rows /\ None \notin Attachments /\ None \notin Contents
  BY BackfillAssumption

\* What an attempt that is made is about.
LEMMA AttemptTyped ==
    ASSUME RunInv, QueueInv, NEW a, NEW x, AttemptMade(a, x)
    PROVE  x \in Attempts /\ a \in Attachments /\ x.row \in Rows /\ AttachmentOf[x.row] = a
  <1>1. x \in run.queue[a] /\ a \in Attachments
    BY DEF AttemptMade, IsNext
  <1>2. x \in Attempts /\ AttachmentOf[x.row] = a
    BY <1>1, QueueTyped DEF QueueInv
  <1> QED
    BY <1>1, <1>2 DEF Attempts

\* The fields of a run that has not begun.
LEMMA IdleTyped == Idle \in RunFields
  <1> DEFINE no == FALSE
  <1>1. no \in BOOLEAN
    OBVIOUS
  <1>2. Idle = [pc |-> "idle", todo |-> {}, read |-> {}, pulls |-> no, trial |-> no,
                queue |-> [a \in Attachments |-> {}], started |-> {}, arrived |-> {},
                reached |-> no, att |-> None, row |-> None, staged |-> no, found |-> None]
    BY DEF Idle
  <1> HIDE DEF no
  <1> QED
    BY <1>1, <1>2 DEF RunFields, Points

\* An attempt keeps the fields of the run together.
LEMMA RunAttempt ==
    ASSUME RunInv, QueueInv, NEW a, NEW x, AttemptMade(a, x)
    PROVE  RunInv'
  <1>1. x \in Attempts /\ a \in Attachments /\ x.row \in Rows /\ AttachmentOf[x.row] = a
    BY AttemptTyped
  <1>2. run \in RunFields /\ run.todo = {} /\ run.pc = "fetch"
    BY DEF RunInv, OwnPhaseRuns, AttemptMade
  <1>3. CASE Takes(a, x)
    <2>1. run' \in RunFields
      <3> DEFINE wasStaged == x.tier \in {"staged", "pull"}
      <3>1. PICK c \in Contents :
              run' = [run EXCEPT !.pc = "mark", !.queue[a] = @ \ {x}, !.started = @ \cup {a},
                                 !.arrived = @ \ {x}, !.att = a, !.row = x.row,
                                 !.staged = wasStaged, !.found = c]
        BY <1>3 DEF Takes
      <3>2. wasStaged \in BOOLEAN
        OBVIOUS
      <3> HIDE DEF wasStaged
      <3> QED
        BY <1>1, <1>2, <3>1, <3>2 DEF RunFields, Points
    <2> QED
      BY <1>1, <1>2, <1>3, <2>1, NoneIsNothing DEF Takes, RunInv, OwnPhaseRuns, RunFields
  <1>4. CASE Leaves(a, x)
    <2>1. run' \in RunFields
      <3> DEFINE wasStaged == x.tier \in {"staged", "pull"}
      <3>1. PICK pc \in {"fetch", "release"} :
              run' = [run EXCEPT !.pc = pc, !.queue[a] = @ \ {x}, !.started = @ \cup {a},
                                 !.arrived = @ \ {x}, !.att = a, !.row = x.row,
                                 !.staged = wasStaged]
        BY <1>4 DEF Leaves, Tried
      <3>2. wasStaged \in BOOLEAN
        OBVIOUS
      <3> HIDE DEF wasStaged
      <3> QED
        BY <1>1, <1>2, <3>1, <3>2 DEF RunFields, Points
    <2> QED
      BY <1>1, <1>2, <1>4, <2>1, NoneIsNothing DEF Leaves, Tried, RunInv, OwnPhaseRuns, RunFields
  <1> QED
    BY <1>3, <1>4 DEF AttemptMade

\* What a look at the locations finds.
LEMMA AttemptsTyped ==
    ASSUME RecordInv, NEW a \in Attachments
    PROVE  /\ OrderedAttempts(a) \in SUBSET Attempts
           /\ \A x \in OrderedAttempts(a) : AttachmentOf[x.row] = a
  <1>1. ASSUME NEW l \in Rows, NEW t \in Tiers
        PROVE  Attempt(l, t) \in Attempts
    BY <1>1 DEF RecordInv, RowColumns, Attempt, Attempts
  <1>2. ASSUME NEW l \in Rows
        PROVE  Tier(l) \in Tiers
    BY <1>2, BackfillAssumption DEF Tier, Tiers, Locations
  <1>3. "cache" \in Tiers
    BY DEF Tiers
  <1>4. \A l \in OpenRows(a) : l \in Rows /\ AttachmentOf[l] = a
    BY DEF OpenRows
  <1>5. \A l, t : Attempt(l, t).row = l
    BY DEF Attempt
  <1> HIDE DEF Tiers
  <1> QED
    BY <1>1, <1>2, <1>3, <1>4, <1>5 DEF OrderedAttempts

\* Every action keeps the fields of the run together.
LEMMA RunStep ==
    ASSUME RunInv, FilesInv, QueueInv, RecordInv, [Next]_vars
    PROVE  RunInv'
  <1>0. CASE UNCHANGED vars
    BY <1>0 DEF vars, RunInv, OwnPhaseRuns, RunFields, Points
  <1>1. ASSUME NEW retry \in BOOLEAN, NEW full \in BOOLEAN, NEW pulls \in BOOLEAN,
               StartRun(retry, full, pulls)
        PROVE  RunInv'
    <2> DEFINE trial == ~full /\ \A a \in Attachments : att[a].state # "materialized"
    <2>1. PICK candidates \in SUBSET Attachments :
              run' = [Idle EXCEPT !.pc = "own", !.todo = candidates, !.read = candidates,
                                  !.pulls = pulls, !.trial = trial]
      BY <1>1 DEF StartRun
    <2>2. trial \in BOOLEAN
      OBVIOUS
    <2> HIDE DEF trial
    <2>3. run'.pc = "own" /\ run'.arrived = {} /\ run'.row = None
      BY <2>1 DEF Idle
    <2>4. Idle \in RunFields
      BY IdleTyped
    <2>5. run' \in RunFields
      BY <2>1, <2>2, <2>4 DEF RunFields, Points
    <2> QED
      BY <2>3, <2>5 DEF RunInv, OwnPhaseRuns
  <1>2. ASSUME NEW a \in Attachments, RefuseOwnPath(a) PROVE RunInv'
    BY <1>2, NoneIsNothing DEF RefuseOwnPath, RunInv, OwnPhaseRuns, RunFields, Points
  <1>3. ASSUME NEW a \in Attachments, MarkMaterializing(a) PROVE RunInv'
    BY <1>3, NoneIsNothing DEF MarkMaterializing, RunInv, OwnPhaseRuns, RunFields, Points
  <1>4. CASE ReadOwnPath
    BY <1>4, NoneIsNothing DEF ReadOwnPath, RunInv, OwnPhaseRuns, RunFields, Points
  <1>5. CASE OwnPathUnsupported
    BY <1>5, NoneIsNothing DEF OwnPathUnsupported, RunInv, OwnPhaseRuns, RunFields, Points
  <1>6. CASE OwnPathFails
    BY <1>6, NoneIsNothing DEF OwnPathFails, RunInv, OwnPhaseRuns, RunFields, Points
  <1>7. CASE MarkMaterialized
    BY <1>7, NoneIsNothing DEF MarkMaterialized, RunInv, OwnPhaseRuns, RunFields, Points
  <1>8. CASE EnqueueForMaterialized
    BY <1>8, NoneIsNothing
       DEF EnqueueForMaterialized, AfterEnqueue, RunInv, OwnPhaseRuns, RunFields, Points
  <1>9. CASE Release
    BY <1>9, NoneIsNothing DEF Release, RunInv, OwnPhaseRuns, RunFields, Points
  <1>10. CASE Unlink
    BY <1>10, NoneIsNothing DEF Unlink, RunInv, OwnPhaseRuns, RunFields, Points
  <1>11. CASE StartLocations
    <2>1. run' = [run EXCEPT !.pc = "fetch", !.queue = run'.queue]
          /\ run.pc = "own" /\ run.todo = {}
      BY <1>11 DEF StartLocations, RunInv, RunFields
    <2>2. run'.queue = [a \in Attachments |-> AttemptsFor(a, run.read, run.pulls)]
      BY <1>11 DEF StartLocations, RunInv, RunFields
    <2>3. run'.queue \in [Attachments -> SUBSET Attempts]
      BY <2>2, AttemptsTyped DEF AttemptsFor
    <2> QED
      BY <2>1, <2>3 DEF RunInv, RunFields, Points, OwnPhaseRuns
  <1>12. ASSUME NEW a \in Attachments, Try(a) PROVE RunInv'
    BY <1>12, TryIsAttempt, RunAttempt
  <1>13. ASSUME NEW location \in Locations, Pull(location) PROVE RunInv'
    <2> DEFINE wanted == {First(run.queue[a]) : a \in Waiting}
               here == {x \in wanted : LocationOf[x.row] = location}
    <2>1. /\ \E reached \in BOOLEAN :
                run' = [run EXCEPT !.arrived = here, !.reached = reached,
                                   !.started = @ \cup Waiting]
          /\ run.pc = "fetch"
      BY <1>13 DEF Pull, Trying
    <2>2. \A a \in Waiting : First(run.queue[a]) \in Attempts
      BY HeadIsNext, QueueTyped DEF Waiting, IsNext
    <2>3. here \subseteq Attempts
      BY <2>2
    <2> HIDE DEF here
    <2>4. PICK reached \in BOOLEAN :
              run' = [run EXCEPT !.arrived = here, !.reached = reached,
                                 !.started = @ \cup Waiting]
      BY <2>1
    <2>5. Waiting \subseteq Attachments
      BY DEF Waiting
    <2> QED
      BY <2>1, <2>3, <2>4, <2>5 DEF RunInv, RunFields, Points, OwnPhaseRuns
  <1>14. ASSUME NEW x \in run.arrived, Arrive(x) PROVE RunInv'
    BY <1>14, ArriveIsAttempt, RunAttempt
  <1>15. CASE EndRun
    BY <1>15, NoneIsNothing DEF EndRun, Idle, RunInv, OwnPhaseRuns, RunFields, Points
  <1>16. CASE KillRun
    BY <1>16, NoneIsNothing DEF KillRun, Idle, RunInv, OwnPhaseRuns, RunFields, Points
  <1>17. ASSUME NEW p \in Pushers, NEW roots \in SUBSET PushLocations,
               BuildPushPlan(p, roots)
        PROVE  RunInv'
    BY <1>17 DEF BuildPushPlan, RunInv, OwnPhaseRuns, RunFields, Points
  <1>18. ASSUME NEW p \in Pushers, NEW mounted \in SUBSET push[p].roots,
               CheckCandidates(p, mounted)
        PROVE  RunInv'
    BY <1>18 DEF CheckCandidates, RunInv, OwnPhaseRuns, RunFields, Points
  <1>19. ASSUME NEW p \in Pushers, NEW location \in PushLocations, Send(p, location)
        PROVE  RunInv'
    BY <1>19 DEF Send, RunInv, OwnPhaseRuns, RunFields, Points
  <1>20. ASSUME NEW p \in Pushers, RecordPushResults(p) PROVE RunInv'
    BY <1>20 DEF RecordPushResults, RunInv, OwnPhaseRuns, RunFields, Points
  <1>21. ASSUME NEW p \in Pushers, KillPush(p) PROVE RunInv'
    BY <1>21 DEF KillPush, RunInv, OwnPhaseRuns, RunFields, Points
  <1>22. ASSUME NEW f \in Files, FileChanges(f) PROVE RunInv'
    BY <1>22 DEF FileChanges, RunInv, OwnPhaseRuns, RunFields, Points
  <1>23. ASSUME NEW l \in Rows, NEW e \in Observed, Observe(l, e) PROVE RunInv'
    BY <1>23 DEF Observe, RunInv, OwnPhaseRuns, RunFields, Points
  <1>24. ASSUME NEW a \in Attachments, PathArrives(a) PROVE RunInv'
    BY <1>24 DEF PathArrives, RunInv, OwnPhaseRuns, RunFields, Points
  <1>25. ASSUME NEW a \in Attachments, TimePasses(a) PROVE RunInv'
    BY <1>25 DEF TimePasses, RunInv, OwnPhaseRuns, RunFields, Points
  <1> QED
    BY <1>0, <1>1, <1>2, <1>3, <1>4, <1>5, <1>6, <1>7, <1>8, <1>9, <1>10,
       <1>11, <1>12, <1>13, <1>14, <1>15, <1>16, <1>17, <1>18, <1>19, <1>20,
       <1>21, <1>22, <1>23, <1>24, <1>25
       DEF Next, OwnPhase, AfterCopy, LocationPhase, PushingHost, World

\* Every action keeps files, copies and the cache in their types.
LEMMA FilesStep ==
    ASSUME RunInv, FilesInv, QueueInv, [Next]_vars
    PROVE  FilesInv'
  <1>0. CASE UNCHANGED vars
    BY <1>0 DEF vars, FilesInv
  <1>1. ASSUME NEW retry \in BOOLEAN, NEW full \in BOOLEAN, NEW pulls \in BOOLEAN,
               StartRun(retry, full, pulls)
        PROVE  FilesInv'
    BY <1>1 DEF StartRun, FilesInv
  <1>2. ASSUME NEW a \in Attachments, RefuseOwnPath(a) PROVE FilesInv'
    BY <1>2 DEF RefuseOwnPath, FilesInv
  <1>3. ASSUME NEW a \in Attachments, MarkMaterializing(a) PROVE FilesInv'
    BY <1>3 DEF MarkMaterializing, FilesInv
  <1>4. CASE ReadOwnPath
    BY <1>4 DEF ReadOwnPath, FilesInv
  <1>5. CASE OwnPathUnsupported
    BY <1>5 DEF OwnPathUnsupported, FilesInv
  <1>6. CASE OwnPathFails
    BY <1>6 DEF OwnPathFails, FilesInv
  <1>7. CASE MarkMaterialized
    BY <1>7 DEF MarkMaterialized, FilesInv
  <1>8. CASE EnqueueForMaterialized
    BY <1>8 DEF EnqueueForMaterialized, FilesInv
  <1>9. CASE Release
    BY <1>9 DEF Release, FilesInv
  <1>10. CASE Unlink
    BY <1>10 DEF Unlink, FilesInv
  <1>11. CASE StartLocations
    BY <1>11 DEF StartLocations, FilesInv
  <1>12. ASSUME NEW a \in Attachments, Try(a) PROVE FilesInv'
    BY <1>12, TryIsAttempt DEF AttemptMade, Takes, Leaves, FilesInv
  <1>13. ASSUME NEW location \in Locations, Pull(location) PROVE FilesInv'
    BY <1>13 DEF Pull, Copy, FilesInv
  <1>14. ASSUME NEW x \in run.arrived, Arrive(x) PROVE FilesInv'
    BY <1>14, ArriveIsAttempt DEF AttemptMade, Takes, Leaves, FilesInv
  <1>15. CASE EndRun
    BY <1>15 DEF EndRun, FilesInv
  <1>16. CASE KillRun
    BY <1>16 DEF KillRun, FilesInv
  <1>17. ASSUME NEW p \in Pushers, NEW roots \in SUBSET PushLocations,
               BuildPushPlan(p, roots)
        PROVE  FilesInv'
    BY <1>17 DEF BuildPushPlan, FilesInv
  <1>18. ASSUME NEW p \in Pushers, NEW mounted \in SUBSET push[p].roots,
               CheckCandidates(p, mounted)
        PROVE  FilesInv'
    BY <1>18 DEF CheckCandidates, FilesInv
  <1>19. ASSUME NEW p \in Pushers, NEW location \in PushLocations, Send(p, location)
        PROVE  FilesInv'
    BY <1>19 DEF Send, Copy, FilesInv
  <1>20. ASSUME NEW p \in Pushers, RecordPushResults(p) PROVE FilesInv'
    BY <1>20 DEF RecordPushResults, FilesInv
  <1>21. ASSUME NEW p \in Pushers, KillPush(p) PROVE FilesInv'
    BY <1>21 DEF KillPush, FilesInv
  <1>22. ASSUME NEW f \in Files, FileChanges(f) PROVE FilesInv'
    BY <1>22 DEF FileChanges, FilesInv
  <1>23. ASSUME NEW l \in Rows, NEW e \in Observed, Observe(l, e) PROVE FilesInv'
    BY <1>23 DEF Observe, FilesInv
  <1>24. ASSUME NEW a \in Attachments, PathArrives(a) PROVE FilesInv'
    BY <1>24 DEF PathArrives, FilesInv
  <1>25. ASSUME NEW a \in Attachments, TimePasses(a) PROVE FilesInv'
    BY <1>25 DEF TimePasses, FilesInv
  <1> QED
    BY <1>0, <1>1, <1>2, <1>3, <1>4, <1>5, <1>6, <1>7, <1>8, <1>9, <1>10,
       <1>11, <1>12, <1>13, <1>14, <1>15, <1>16, <1>17, <1>18, <1>19, <1>20,
       <1>21, <1>22, <1>23, <1>24, <1>25
       DEF Next, OwnPhase, AfterCopy, LocationPhase, PushingHost, World

----------------------------------------------------------------------------
(* The pushing hosts.                                                       *)

\* What a pushing host says of a candidate it cannot send.
LEMMA CheckTyped ==
    ASSUME FilesInv, NEW x \in Attempts, NEW mounted
    PROVE  CheckCandidate(x, mounted) # "good" => CheckCandidate(x, mounted) \in Reports
  <1>1. disk[FileOf[x.row]] \in Held
    BY BackfillAssumption DEF FilesInv, Attempts
  <1> QED
    BY <1>1 DEF CheckCandidate, Reports, Held

\* The fields of a push that has not begun.
LEMMA NoPushTyped == NoPush \in PushFields
  <1>1. << >> \in [{} -> Reports]
    OBVIOUS
  <1>2. << >> \in UNION {[S -> Reports] : S \in SUBSET Rows}
    BY <1>1
  <1> QED
    BY <1>2 DEF NoPush, PushFields

\* Every action keeps the plans and the results in their types.
LEMMA PushStep ==
    ASSUME RunInv, FilesInv, PushInv, QueueInv, RecordInv, [Next]_vars
    PROVE  PushInv'
  <1>0. CASE UNCHANGED vars
    BY <1>0 DEF vars, PushInv
  <1>1. ASSUME NEW retry \in BOOLEAN, NEW full \in BOOLEAN, NEW pulls \in BOOLEAN,
               StartRun(retry, full, pulls)
        PROVE  PushInv'
    BY <1>1 DEF StartRun, PushInv
  <1>2. ASSUME NEW a \in Attachments, RefuseOwnPath(a) PROVE PushInv'
    BY <1>2 DEF RefuseOwnPath, PushInv
  <1>3. ASSUME NEW a \in Attachments, MarkMaterializing(a) PROVE PushInv'
    BY <1>3 DEF MarkMaterializing, PushInv
  <1>4. CASE ReadOwnPath
    BY <1>4 DEF ReadOwnPath, PushInv
  <1>5. CASE OwnPathUnsupported
    BY <1>5 DEF OwnPathUnsupported, PushInv
  <1>6. CASE OwnPathFails
    BY <1>6 DEF OwnPathFails, PushInv
  <1>7. CASE MarkMaterialized
    BY <1>7 DEF MarkMaterialized, PushInv
  <1>8. CASE EnqueueForMaterialized
    BY <1>8 DEF EnqueueForMaterialized, PushInv
  <1>9. CASE Release
    BY <1>9 DEF Release, PushInv
  <1>10. CASE Unlink
    BY <1>10 DEF Unlink, PushInv
  <1>11. CASE StartLocations
    BY <1>11 DEF StartLocations, PushInv
  <1>12. ASSUME NEW a \in Attachments, Try(a) PROVE PushInv'
    BY <1>12, TryIsAttempt DEF AttemptMade, PushInv
  <1>13. ASSUME NEW location \in Locations, Pull(location) PROVE PushInv'
    BY <1>13 DEF Pull, PushInv
  <1>14. ASSUME NEW x \in run.arrived, Arrive(x) PROVE PushInv'
    BY <1>14, ArriveIsAttempt DEF AttemptMade, PushInv
  <1>15. CASE EndRun
    BY <1>15 DEF EndRun, PushInv
  <1>16. CASE KillRun
    BY <1>16 DEF KillRun, PushInv
  <1>17. ASSUME NEW p \in Pushers, NEW roots \in SUBSET PushLocations,
               BuildPushPlan(p, roots)
        PROVE  PushInv'
    <2>1. PICK candidates \in SUBSET Rows :
              push' = [push EXCEPT ![p] =
                          [NoPush EXCEPT !.pc = "planned", !.roots = roots,
                                         !.plan = {Attempt(l, "push") : l \in candidates}]]
      BY <1>17 DEF BuildPushPlan
    <2>2. {Attempt(l, "push") : l \in candidates} \in SUBSET Attempts
      BY DEF RecordInv, RowColumns, Attempt, Attempts, Tiers
    <2>3. roots \in SUBSET Locations
      BY DEF PushLocations
    <2>4. [NoPush EXCEPT !.pc = "planned", !.roots = roots,
                         !.plan = {Attempt(l, "push") : l \in candidates}] \in PushFields
      BY <2>2, <2>3, NoPushTyped DEF PushFields
    <2> QED
      BY <2>1, <2>4 DEF PushInv
  <1>18. ASSUME NEW p \in Pushers, NEW mounted \in SUBSET push[p].roots,
               CheckCandidates(p, mounted)
        PROVE  PushInv'
    <2> DEFINE checked == {x \in push[p].plan :
                              ~\E y \in push[p].plan :
                                  /\ AttachmentOf[y.row] = AttachmentOf[x.row]
                                  /\ Before(y, x)
                                  /\ CheckCandidate(y, mounted) = "good"}
               good == {x.row : x \in {y \in checked : CheckCandidate(y, mounted) = "good"}}
               bad == {x \in checked : x.row \notin good}
               results == [l \in {x.row : x \in bad} |->
                              CheckCandidate(CHOOSE x \in bad : x.row = l, mounted)]
    <2>1. push' = [push EXCEPT ![p].pc = "sending", ![p].picks = good, ![p].results = results]
      BY <1>18 DEF CheckCandidates
    <2>2. push[p] \in PushFields
      BY DEF PushInv
    <2>3. checked \subseteq Attempts
      BY <2>2 DEF PushFields
    <2>4. \A x \in bad : CheckCandidate(x, mounted) # "good"
      OBVIOUS
    <2>5. good \subseteq Rows /\ bad \subseteq Attempts /\ {x.row : x \in bad} \subseteq Rows
      BY <2>3 DEF Attempts
    <2> HIDE DEF checked, good, bad
    <2>6. ASSUME NEW l \in {x.row : x \in bad}
          PROVE  CheckCandidate(CHOOSE x \in bad : x.row = l, mounted) \in Reports
      <3> DEFINE chosen == CHOOSE x \in bad : x.row = l
      <3>1. chosen \in bad
        BY <2>6
      <3> QED
        BY <2>4, <2>5, <3>1, CheckTyped
    <2>7. results \in [{x.row : x \in bad} -> Reports]
      BY <2>6
    <2>8. results \in UNION {[S -> Reports] : S \in SUBSET Rows}
      BY <2>5, <2>7
    <2> HIDE DEF results
    <2>9. [push[p] EXCEPT !.pc = "sending", !.picks = good, !.results = results] \in PushFields
      BY <2>2, <2>5, <2>8 DEF PushFields
    <2>10. push' = [push EXCEPT ![p] =
                       [push[p] EXCEPT !.pc = "sending", !.picks = good, !.results = results]]
      BY <2>1 DEF PushInv
    <2> QED
      BY <2>9, <2>10 DEF PushInv
  <1>19. ASSUME NEW p \in Pushers, NEW location \in PushLocations, Send(p, location)
        PROVE  PushInv'
    <2> DEFINE here == {l \in push[p].picks : LocationOf[l] = location}
               before == push[p].results
               After(reached) == [l \in here \cup DOMAIN before |->
                                     IF l \in here
                                     THEN IF reached THEN "staged" ELSE "unreachable"
                                     ELSE before[l]]
    <2>1. PICK reached \in BOOLEAN :
              push' = [push EXCEPT ![p].picks = @ \ here, ![p].results = After(reached)]
      BY <1>19 DEF Send
    <2>2. push[p] \in PushFields
      BY DEF PushInv
    <2>3. here \subseteq Rows
      BY <2>2 DEF PushFields
    <2>4. PICK S \in SUBSET Rows : before \in [S -> Reports]
      BY <2>2 DEF PushFields
    <2>5. After(reached) \in [here \cup S -> Reports]
      <3>1. DOMAIN before = S /\ \A l \in S : before[l] \in Reports
        BY <2>4
      <3> HIDE DEF here, before
      <3> QED
        BY <3>1 DEF Reports
    <2> DEFINE after == After(reached)
    <2>6. after \in UNION {[T -> Reports] : T \in SUBSET Rows}
      BY <2>3, <2>4, <2>5
    <2>7. push' = [push EXCEPT ![p] =
                      [push[p] EXCEPT !.picks = @ \ here, !.results = after]]
      BY <2>1 DEF PushInv
    <2> HIDE DEF after, here
    <2>8. [push[p] EXCEPT !.picks = @ \ here, !.results = after] \in PushFields
      BY <2>2, <2>6 DEF PushFields
    <2> QED
      BY <2>7, <2>8 DEF PushInv
  <1>20. ASSUME NEW p \in Pushers, RecordPushResults(p) PROVE PushInv'
    BY <1>20, NoPushTyped DEF RecordPushResults, PushInv
  <1>21. ASSUME NEW p \in Pushers, KillPush(p) PROVE PushInv'
    BY <1>21, NoPushTyped DEF KillPush, PushInv
  <1>22. ASSUME NEW f \in Files, FileChanges(f) PROVE PushInv'
    BY <1>22 DEF FileChanges, PushInv
  <1>23. ASSUME NEW l \in Rows, NEW e \in Observed, Observe(l, e) PROVE PushInv'
    BY <1>23 DEF Observe, PushInv
  <1>24. ASSUME NEW a \in Attachments, PathArrives(a) PROVE PushInv'
    BY <1>24 DEF PathArrives, PushInv
  <1>25. ASSUME NEW a \in Attachments, TimePasses(a) PROVE PushInv'
    BY <1>25 DEF TimePasses, PushInv
  <1> QED
    BY <1>0, <1>1, <1>2, <1>3, <1>4, <1>5, <1>6, <1>7, <1>8, <1>9, <1>10,
       <1>11, <1>12, <1>13, <1>14, <1>15, <1>16, <1>17, <1>18, <1>19, <1>20,
       <1>21, <1>22, <1>23, <1>24, <1>25
       DEF Next, OwnPhase, AfterCopy, LocationPhase, PushingHost, World

----------------------------------------------------------------------------
(* The ladder of attempts.                                                  *)

\* The top of the ladder.
LEMMA LadderNumbers == MaxAttempts \in Nat /\ MaxAttempts > 0
  BY BackfillAssumption

\* A reset starts the ladder again, or changes nothing.
LEMMA ResetOnLadder ==
    ASSUME NEW t \in AttColumns, NEW counted, OnLadder(t, counted)
    PROVE  /\ Reset(t) \in AttColumns
           /\ OnLadder(Reset(t), IF Reset(t) # t THEN {} ELSE counted)
           /\ Reset(t).state = "materialized" <=> t.state = "materialized"
           /\ Reset(t).state = "materialized" => Reset(t).hash = t.hash
  <1>1. CASE t.state \in {"error", "missing"} /\ t.path # "none"
    <2> DEFINE yes == TRUE
    <2>1. Reset(t) = [t EXCEPT !.state = "error", !.attempts = 0, !.due = yes]
      BY <1>1 DEF Reset
    <2>2. yes \in BOOLEAN
      OBVIOUS
    <2> HIDE DEF yes
    <2>3. Reset(t) = [state |-> "error", path |-> t.path, attempts |-> 0, due |-> yes,
                      hash |-> t.hash]
      BY <2>1 DEF AttColumns
    <2>4. Reset(t) \in AttColumns
      BY <2>2, <2>3 DEF AttColumns, AttStates, PendingStates
    <2>5. Reset(t).state = "error" /\ Reset(t).attempts = 0 /\ Reset(t).path = t.path
      BY <2>1 DEF AttColumns
    <2>6. OnLadder(Reset(t), {})
      BY <2>5, FS_EmptySet, LadderNumbers DEF OnLadder, PendingStates
    <2> QED
      BY <1>1, <2>4, <2>5, <2>6
  <1>2. CASE ~(t.state \in {"error", "missing"} /\ t.path # "none")
    BY <1>2 DEF Reset
  <1> QED
    BY <1>1, <1>2

\* A reclassification leaves the attempts alone.
LEMMA ReclassifyOnLadder ==
    ASSUME NEW t \in AttColumns, NEW counted, OnLadder(t, counted)
    PROVE  /\ Reclassify(t) \in AttColumns
           /\ OnLadder(Reclassify(t), counted)
           /\ Reclassify(t).state = "materialized" <=> t.state = "materialized"
           /\ Reclassify(t).state = "materialized" => Reclassify(t).hash = t.hash
  <1> USE DEF Reclassify, AttColumns, AttStates, PendingStates, OnLadder
  <1>1. CASE t.path = "none" /\ t.state \in {"dataless", "materializing", "error"}
    BY <1>1
  <1>2. CASE t.path = "outside" /\ t.state \in {"error", "missing"}
    BY <1>2
  <1>3. CASE /\ ~(t.path = "none" /\ t.state \in {"dataless", "materializing", "error"})
             /\ ~(t.path = "outside" /\ t.state \in {"error", "missing"})
    BY <1>3
  <1> QED
    BY <1>1, <1>2, <1>3

\* What the beginning of a run makes of an attachment.
Healed(retry, a) == Reclassify(IF retry THEN Reset(att[a]) ELSE att[a])

\* The beginning of a run keeps every attachment on the ladder,
LEMMA HealedOnLadder ==
    ASSUME LadderInv, NEW retry \in BOOLEAN, NEW a \in Attachments
    PROVE  /\ Healed(retry, a) \in AttColumns
           /\ OnLadder(Healed(retry, a),
                       IF retry /\ Reset(att[a]) # att[a] THEN {} ELSE tries[a])
           /\ Healed(retry, a).state = "materialized" <=> att[a].state = "materialized"
           /\ Healed(retry, a).state = "materialized" => Healed(retry, a).hash = att[a].hash
  <1>1. att[a] \in AttColumns /\ OnLadder(att[a], tries[a])
    BY DEF LadderInv
  <1>2. CASE retry
    BY <1>1, <1>2, ResetOnLadder, ReclassifyOnLadder DEF Healed
  <1>3. CASE ~retry
    BY <1>1, <1>3, ReclassifyOnLadder DEF Healed
  <1> QED
    BY <1>2, <1>3

\* and takes as candidates some that are.
LEMMA StartRunHeals ==
    ASSUME NEW retry \in BOOLEAN, NEW full \in BOOLEAN, NEW pulls \in BOOLEAN,
           StartRun(retry, full, pulls)
    PROVE  /\ att' = [a \in Attachments |-> Healed(retry, a)]
           /\ run'.todo \subseteq {a \in Attachments : Pending(att'[a])}
           /\ run'.pc = "own" /\ run.pc = "idle"
           /\ runs' = runs + 1
           /\ tries' = [a \in Attachments |->
                           IF retry /\ Reset(att[a]) # att[a] THEN {} ELSE tries[a]]
  BY DEF StartRun, Healed, Idle

\* A failed attempt is one rung more.
LEMMA FailedOnLadder ==
    ASSUME NEW t \in AttColumns, NEW counted, NEW n,
           IsFiniteSet(counted), n \notin counted, OnLadder(t, counted),
           t.state = "materializing", t.path = "inside"
    PROVE  Failed(t) \in AttColumns /\ OnLadder(Failed(t), counted \cup {n})
  <1> DEFINE no == FALSE
             state == IF t.attempts + 1 >= MaxAttempts THEN "missing" ELSE "error"
  <1>1. Failed(t) = [t EXCEPT !.attempts = @ + 1, !.due = no, !.state = state]
    BY DEF Failed
  <1>2. no \in BOOLEAN
    OBVIOUS
  <1>3. state \in {"missing", "error"}
    OBVIOUS
  <1>4. Cardinality(counted \cup {n}) = Cardinality(counted) + 1 /\ Cardinality(counted) \in Nat
    BY FS_AddElement, FS_CardinalityType
  <1>5. IF t.attempts + 1 >= MaxAttempts THEN state = "missing" ELSE state = "error"
    OBVIOUS
  <1> HIDE DEF no, state
  <1>6. Failed(t) \in AttColumns
    <2>1. t.attempts + 1 \in Nat
      BY DEF AttColumns
    <2>2. state \in AttStates
      BY <1>3 DEF AttStates, PendingStates
    <2>3. Failed(t) = [state |-> state, path |-> t.path, attempts |-> t.attempts + 1,
                       due |-> no, hash |-> t.hash]
      BY <1>1 DEF AttColumns
    <2> QED
      BY <1>2, <2>1, <2>2, <2>3 DEF AttColumns
  <1>7. /\ Failed(t).attempts = t.attempts + 1
        /\ Failed(t).state = state
        /\ Failed(t).path = "inside"
    BY <1>1 DEF AttColumns
  <1> QED
    BY <1>3, <1>4, <1>5, <1>6, <1>7, LadderNumbers DEF OnLadder, PendingStates, AttColumns

\* The runs that counted an attempt are finitely many.
LEMMA TriesFinite ==
    ASSUME LadderInv, NEW a \in Attachments
    PROVE  IsFiniteSet(tries[a])
  <1>1. tries[a] \subseteq 0 .. runs /\ runs \in Nat
    BY DEF LadderInv
  <1>2. IsFiniteSet(0 .. runs)
    BY <1>1, FS_Interval
  <1> QED
    BY <1>1, <1>2, FS_Subset

\* Steps that leave the ladder alone.
LEMMA LadderSame ==
    ASSUME LadderInv, UNCHANGED << att, runs, tries >>,
           run'.todo \subseteq run.todo, run'.pc # "reading"
    PROVE  LadderInv'
  BY DEF LadderInv, OnLadder

\* A new value for one attachment that is not being read.
LEMMA LadderWritten ==
    ASSUME LadderInv, RunInv, NEW a \in Attachments, NEW t \in AttColumns,
           att' = [att EXCEPT ![a] = t], UNCHANGED << runs, tries >>,
           OnLadder(t, tries[a]),
           run'.todo \subseteq run.todo,
           run'.pc = "reading" => run'.pc = run.pc /\ run'.att = run.att,
           a \in run'.todo => t.state \in PendingStates /\ t.path # "none",
           run'.pc = "reading" /\ run'.att = a => t.state = "materializing" /\ t.path = "inside"
    PROVE  LadderInv'
  <1>1. run.todo \subseteq Attachments
    BY DEF RunInv, RunFields
  <1>2. run.pc = "reading" => run.att \in Attachments
    BY DEF RunInv
  <1>3. att' \in [Attachments -> AttColumns] /\ att'[a] = t
        /\ \A b \in Attachments \ {a} : att'[b] = att[b]
    BY DEF LadderInv
  <1>4. \A b \in Attachments : OnLadder(att'[b], tries'[b])
    BY <1>3 DEF LadderInv
  <1> HIDE DEF OnLadder
  <1> QED
    BY <1>1, <1>2, <1>3, <1>4 DEF LadderInv

\* An attempt at a copy is not an attempt on the ladder.
LEMMA AttemptLadder ==
    ASSUME RunInv, LadderInv, NEW a, NEW x, AttemptMade(a, x)
    PROVE  LadderInv'
  <1>1. run'.todo = run.todo /\ run'.pc \in {"mark", "fetch", "release"}
    BY DEF AttemptMade, Takes, Leaves, Tried, RunInv, RunFields
  <1> QED
    BY <1>1, LadderSame DEF AttemptMade

\* Every action keeps the ladder.
LEMMA LadderStep ==
    ASSUME RunInv, FilesInv, QueueInv, LadderInv, [Next]_vars
    PROVE  LadderInv'
  <1>0. CASE UNCHANGED vars
    BY <1>0 DEF vars, LadderInv, OnLadder
  <1>1. ASSUME NEW retry \in BOOLEAN, NEW full \in BOOLEAN, NEW pulls \in BOOLEAN,
               StartRun(retry, full, pulls)
        PROVE  LadderInv'
    <2>1. runs \in Nat /\ runs' = runs + 1 /\ run'.pc = "own"
      BY <1>1, StartRunHeals DEF LadderInv
    <2>2. \A b \in Attachments : att'[b] = Healed(retry, b)
                                 /\ tries'[b] = IF retry /\ Reset(att[b]) # att[b]
                                                THEN {} ELSE tries[b]
      BY <1>1, StartRunHeals
    <2>3. att' \in [Attachments -> AttColumns]
      BY <1>1, StartRunHeals, HealedOnLadder
    <2>4. tries' \in [Attachments -> SUBSET (0 .. runs')]
          /\ \A b \in Attachments : runs' \notin tries'[b]
      <3>1. \A b \in Attachments : tries[b] \subseteq 0 .. runs
        BY DEF LadderInv
      <3>2. 0 .. runs \subseteq 0 .. runs' /\ runs' \notin 0 .. runs
        BY <2>1
      <3> QED
        BY <1>1, <2>2, <3>1, <3>2, StartRunHeals
    <2>5. \A b \in Attachments : OnLadder(att'[b], tries'[b])
      BY <2>2, HealedOnLadder
    <2>6. \A b \in run'.todo :
              b \in Attachments /\ att'[b].state \in PendingStates /\ att'[b].path # "none"
      BY <1>1, StartRunHeals DEF Pending, PendingStates
    <2> QED
      BY <2>1, <2>3, <2>4, <2>5, <2>6 DEF LadderInv
  <1>2. ASSUME NEW a \in Attachments, RefuseOwnPath(a) PROVE LadderInv'
    <2> DEFINE t == [att[a] EXCEPT !.state = "unsupported", !.due = TRUE]
    <2>1. a \in Attachments /\ att[a] \in AttColumns /\ OnLadder(att[a], tries[a])
      BY <1>2 DEF LadderInv, RunInv, RunFields
    <2>2. att' = [att EXCEPT ![a] = t] /\ UNCHANGED << runs, tries >>
      BY <1>2, <2>1 DEF RefuseOwnPath, LadderInv
    <2>3. t \in AttColumns /\ OnLadder(t, tries[a])
      BY <2>1, LadderNumbers DEF AttColumns, AttStates, PendingStates, OnLadder
    <2>4. /\ run'.todo \subseteq run.todo
          /\ run'.pc = "reading" => run'.pc = run.pc /\ run'.att = run.att
          /\ a \in run'.todo => t.state \in PendingStates /\ t.path # "none"
          /\ run'.pc = "reading" /\ run'.att = a => t.state = "materializing" /\ t.path = "inside"
      BY <1>2, <2>1 DEF RefuseOwnPath, RunInv, RunFields, LadderInv, AttColumns
    <2> QED
      BY <2>1, <2>2, <2>3, <2>4, LadderWritten
  <1>3. ASSUME NEW a \in Attachments, MarkMaterializing(a) PROVE LadderInv'
    <2> DEFINE t == [att[a] EXCEPT !.state = "materializing"]
    <2>1. att[a] \in AttColumns /\ OnLadder(att[a], tries[a]) /\ att[a].state \in PendingStates
          /\ runs \notin tries[a] /\ att[a].path = "inside"
      BY <1>3 DEF MarkMaterializing, LadderInv
    <2>2. att' = [att EXCEPT ![a] = t] /\ UNCHANGED << runs, tries >>
      BY <1>3 DEF MarkMaterializing, LadderInv
    <2>3. t \in AttColumns /\ OnLadder(t, tries[a]) /\ t.state = "materializing"
          /\ t.path = "inside"
      BY <2>1 DEF AttColumns, AttStates, PendingStates, OnLadder
    <2>4. run'.todo = run.todo \ {a} /\ run'.pc = "reading" /\ run'.att = a
      BY <1>3 DEF MarkMaterializing, RunInv, RunFields
    <2>5. att' \in [Attachments -> AttColumns] /\ att'[a] = t
          /\ \A b \in Attachments \ {a} : att'[b] = att[b]
      BY <2>2, <2>3 DEF LadderInv
    <2>6. \A b \in Attachments : OnLadder(att'[b], tries'[b])
      BY <2>2, <2>3, <2>5 DEF LadderInv
    <2>7. run.todo \subseteq Attachments
      BY DEF RunInv, RunFields
    <2> HIDE DEF t, OnLadder
    <2> QED
      BY <2>1, <2>2, <2>3, <2>4, <2>5, <2>6, <2>7 DEF LadderInv
  <1>4. CASE ReadOwnPath
    <2>1. UNCHANGED << att, runs, tries >> /\ run'.todo \subseteq run.todo /\ run'.pc # "reading"
      BY <1>4 DEF ReadOwnPath, RunInv, RunFields
    <2> QED
      BY <2>1, LadderSame
  <1>5. CASE OwnPathUnsupported
    <2> DEFINE t == [att[run.att] EXCEPT !.state = "unsupported", !.due = TRUE]
    <2>1. run.att \in Attachments /\ att[run.att] \in AttColumns /\ OnLadder(att[run.att], tries[run.att])
      BY <1>5 DEF OwnPathUnsupported, LadderInv, RunInv, RunFields
    <2>2. att' = [att EXCEPT ![run.att] = t] /\ UNCHANGED << runs, tries >>
      BY <1>5, <2>1 DEF OwnPathUnsupported, LadderInv
    <2>3. t \in AttColumns /\ OnLadder(t, tries[run.att])
      BY <2>1, LadderNumbers DEF AttColumns, AttStates, PendingStates, OnLadder
    <2>4. /\ run'.todo \subseteq run.todo
          /\ run'.pc = "reading" => run'.pc = run.pc /\ run'.att = run.att
          /\ run.att \in run'.todo => t.state \in PendingStates /\ t.path # "none"
          /\ run'.pc = "reading" /\ run'.att = run.att => t.state = "materializing" /\ t.path = "inside"
      BY <1>5, <2>1 DEF OwnPathUnsupported, RunInv, RunFields, LadderInv, AttColumns
    <2> QED
      BY <2>1, <2>2, <2>3, <2>4, LadderWritten
  <1>6. CASE OwnPathFails
    <2> DEFINE b == run.att
    <2>1. b \in Attachments /\ b \notin run.todo /\ att[b] \in AttColumns
          /\ OnLadder(att[b], tries[b]) /\ runs \notin tries[b]
          /\ att[b].state = "materializing" /\ att[b].path = "inside"
      BY <1>6 DEF OwnPathFails, RunInv, LadderInv
    <2>2. Failed(att[b]) \in AttColumns /\ OnLadder(Failed(att[b]), tries[b] \cup {runs})
      BY <2>1, TriesFinite, FailedOnLadder
    <2>3. /\ att' = [att EXCEPT ![b] = Failed(att[b])]
          /\ tries' = [tries EXCEPT ![b] = tries[b] \cup {runs}]
          /\ runs' = runs /\ run'.todo = run.todo /\ run'.pc = "own"
      BY <1>6 DEF OwnPathFails, LadderInv, RunInv, RunFields
    <2> HIDE DEF b
    <2>4. /\ att' \in [Attachments -> AttColumns]
          /\ att'[b] = Failed(att[b]) /\ tries'[b] = tries[b] \cup {runs}
          /\ \A d \in Attachments \ {b} : att'[d] = att[d] /\ tries'[d] = tries[d]
      BY <2>1, <2>2, <2>3 DEF LadderInv
    <2>5. tries' \in [Attachments -> SUBSET (0 .. runs')]
      BY <2>1, <2>3 DEF LadderInv
    <2>6. \A d \in Attachments : OnLadder(att'[d], tries'[d])
      BY <2>2, <2>4 DEF LadderInv
    <2>7. run.todo \subseteq Attachments
      BY DEF RunInv, RunFields
    <2> QED
      BY <2>1, <2>3, <2>4, <2>5, <2>6, <2>7 DEF LadderInv
  <1>7. CASE MarkMaterialized
    <2> DEFINE t == [att[run.att] EXCEPT !.state = "materialized", !.hash = run.found]
    <2>1. run.att \in Attachments /\ att[run.att] \in AttColumns /\ OnLadder(att[run.att], tries[run.att]) /\ run.found \in Contents
      BY <1>7 DEF MarkMaterialized, LadderInv, RunInv, RunFields
    <2>2. att' = [att EXCEPT ![run.att] = t] /\ UNCHANGED << runs, tries >>
      BY <1>7, <2>1 DEF MarkMaterialized, LadderInv
    <2>3. t \in AttColumns /\ OnLadder(t, tries[run.att])
      BY <2>1, LadderNumbers DEF AttColumns, AttStates, PendingStates, OnLadder
    <2>4. /\ run'.todo \subseteq run.todo
          /\ run'.pc = "reading" => run'.pc = run.pc /\ run'.att = run.att
          /\ run.att \in run'.todo => t.state \in PendingStates /\ t.path # "none"
          /\ run'.pc = "reading" /\ run'.att = run.att => t.state = "materializing" /\ t.path = "inside"
      BY <1>7, <2>1 DEF MarkMaterialized, RunInv, RunFields, LadderInv, AttColumns
    <2> QED
      BY <2>1, <2>2, <2>3, <2>4, LadderWritten
  <1>8. CASE EnqueueForMaterialized
    <2>1. UNCHANGED << att, runs, tries >> /\ run'.todo \subseteq run.todo /\ run'.pc # "reading"
      BY <1>8 DEF EnqueueForMaterialized, AfterEnqueue, RunInv, RunFields
    <2> QED
      BY <2>1, LadderSame
  <1>9. CASE Release
    <2>1. UNCHANGED << att, runs, tries >> /\ run'.todo \subseteq run.todo /\ run'.pc # "reading"
      BY <1>9 DEF Release, RunInv, RunFields
    <2> QED
      BY <2>1, LadderSame
  <1>10. CASE Unlink
    <2>1. UNCHANGED << att, runs, tries >> /\ run'.todo \subseteq run.todo /\ run'.pc # "reading"
      BY <1>10 DEF Unlink, RunInv, RunFields
    <2> QED
      BY <2>1, LadderSame
  <1>11. CASE StartLocations
    <2>1. UNCHANGED << att, runs, tries >> /\ run'.todo \subseteq run.todo /\ run'.pc # "reading"
      BY <1>11 DEF StartLocations, RunInv, RunFields
    <2> QED
      BY <2>1, LadderSame
  <1>12. ASSUME NEW a \in Attachments, Try(a) PROVE LadderInv'
    BY <1>12, TryIsAttempt, AttemptLadder
  <1>13. ASSUME NEW location \in Locations, Pull(location) PROVE LadderInv'
    <2>1. UNCHANGED << att, runs, tries >> /\ run'.todo \subseteq run.todo /\ run'.pc # "reading"
      BY <1>13 DEF Pull, Trying, RunInv, RunFields
    <2> QED
      BY <2>1, LadderSame
  <1>14. ASSUME NEW x \in run.arrived, Arrive(x) PROVE LadderInv'
    BY <1>14, ArriveIsAttempt, AttemptLadder
  <1>15. CASE EndRun
    <2>1. UNCHANGED << att, runs, tries >> /\ run'.todo \subseteq run.todo /\ run'.pc # "reading"
      BY <1>15 DEF EndRun, Idle, RunInv, RunFields
    <2> QED
      BY <2>1, LadderSame
  <1>16. CASE KillRun
    <2>1. UNCHANGED << att, runs, tries >> /\ run'.todo \subseteq run.todo /\ run'.pc # "reading"
      BY <1>16 DEF KillRun, Idle, RunInv, RunFields
    <2> QED
      BY <2>1, LadderSame
  <1>17. ASSUME NEW p \in Pushers, NEW roots \in SUBSET PushLocations,
               BuildPushPlan(p, roots)
        PROVE  LadderInv'
    BY <1>17 DEF BuildPushPlan, LadderInv, OnLadder
  <1>18. ASSUME NEW p \in Pushers, NEW mounted \in SUBSET push[p].roots,
               CheckCandidates(p, mounted)
        PROVE  LadderInv'
    BY <1>18 DEF CheckCandidates, LadderInv, OnLadder
  <1>19. ASSUME NEW p \in Pushers, NEW location \in PushLocations, Send(p, location)
        PROVE  LadderInv'
    BY <1>19 DEF Send, LadderInv, OnLadder
  <1>20. ASSUME NEW p \in Pushers, RecordPushResults(p) PROVE LadderInv'
    BY <1>20 DEF RecordPushResults, LadderInv, OnLadder
  <1>21. ASSUME NEW p \in Pushers, KillPush(p) PROVE LadderInv'
    BY <1>21 DEF KillPush, LadderInv, OnLadder
  <1>22. ASSUME NEW f \in Files, FileChanges(f) PROVE LadderInv'
    BY <1>22 DEF FileChanges, LadderInv, OnLadder
  <1>23. ASSUME NEW l \in Rows, NEW e \in Observed, Observe(l, e) PROVE LadderInv'
    BY <1>23 DEF Observe, LadderInv, OnLadder
  <1>24. ASSUME NEW a \in Attachments, PathArrives(a) PROVE LadderInv'
    <2>1. PICK path \in {"inside", "outside"} :
              att' = [att EXCEPT ![a].path = path,
                                 ![a].state = IF @ = "missing" THEN "dataless" ELSE @]
      BY <1>24 DEF PathArrives
    <2> DEFINE t == [att[a] EXCEPT !.path = path,
                                   !.state = IF @ = "missing" THEN "dataless" ELSE @]
    <2>2. att[a] \in AttColumns /\ OnLadder(att[a], tries[a]) /\ att[a].path = "none"
      BY <1>24 DEF PathArrives, LadderInv
    <2>3. att' = [att EXCEPT ![a] = t] /\ UNCHANGED << run, runs, tries >>
      BY <1>24, <2>1 DEF PathArrives, LadderInv
    <2>4. t \in AttColumns /\ OnLadder(t, tries[a])
      BY <2>2, LadderNumbers DEF AttColumns, AttStates, PendingStates, OnLadder
    <2>5. a \notin run.todo /\ (run.pc = "reading" => run.att # a)
      BY <2>2 DEF LadderInv
    <2> QED
      BY <2>3, <2>4, <2>5, LadderWritten
  <1>25. ASSUME NEW a \in Attachments, TimePasses(a) PROVE LadderInv'
    <2> DEFINE t == [att[a] EXCEPT !.due = TRUE]
    <2>1. a \in Attachments /\ att[a] \in AttColumns /\ OnLadder(att[a], tries[a])
      BY <1>25 DEF LadderInv, RunInv, RunFields
    <2>2. att' = [att EXCEPT ![a] = t] /\ UNCHANGED << runs, tries >>
      BY <1>25, <2>1 DEF TimePasses, LadderInv
    <2>3. t \in AttColumns /\ OnLadder(t, tries[a])
      BY <2>1, LadderNumbers DEF AttColumns, AttStates, PendingStates, OnLadder
    <2>4. /\ run'.todo \subseteq run.todo
          /\ run'.pc = "reading" => run'.pc = run.pc /\ run'.att = run.att
          /\ a \in run'.todo => t.state \in PendingStates /\ t.path # "none"
          /\ run'.pc = "reading" /\ run'.att = a => t.state = "materializing" /\ t.path = "inside"
      BY <1>25, <2>1 DEF TimePasses, RunInv, RunFields, LadderInv, AttColumns
    <2> QED
      BY <2>1, <2>2, <2>3, <2>4, LadderWritten
  <1> QED
    BY <1>0, <1>1, <1>2, <1>3, <1>4, <1>5, <1>6, <1>7, <1>8, <1>9, <1>10,
       <1>11, <1>12, <1>13, <1>14, <1>15, <1>16, <1>17, <1>18, <1>19, <1>20,
       <1>21, <1>22, <1>23, <1>24, <1>25
       DEF Next, OwnPhase, AfterCopy, LocationPhase, PushingHost, World

----------------------------------------------------------------------------
(* Contents, attempts and rows.                                             *)

\* An attachment that has its content keeps it,
ContentKept ==
    \A a \in Attachments :
        att[a].state = "materialized" =>
            att'[a].state = "materialized" /\ att'[a].hash = att[a].hash

\* and no other has one now.
NoneMade == \A a \in Attachments : att'[a].state = "materialized" => att[a].state = "materialized"

Marking == run.pc = "mark" /\ run'.pc = "enqueue"

\* Only the marking of an attachment gives it a content, and nothing takes it away.
LEMMA ContentStep ==
    ASSUME RunInv, FilesInv, LadderInv, QueueInv, [Next]_vars
    PROVE  ContentKept /\ (NoneMade \/ Marking)
  <1>0. CASE UNCHANGED vars
    BY <1>0 DEF vars, ContentKept, NoneMade
  <1>1. ASSUME NEW retry \in BOOLEAN, NEW full \in BOOLEAN, NEW pulls \in BOOLEAN,
               StartRun(retry, full, pulls)
        PROVE  ContentKept /\ (NoneMade \/ Marking)
    BY <1>1, StartRunHeals, HealedOnLadder DEF ContentKept, NoneMade
  <1>2. ASSUME NEW a \in Attachments, RefuseOwnPath(a)
        PROVE  ContentKept /\ (NoneMade \/ Marking)
    BY <1>2 DEF RefuseOwnPath, LadderInv, AttColumns, PendingStates, ContentKept, NoneMade
  <1>3. ASSUME NEW a \in Attachments, MarkMaterializing(a)
        PROVE  ContentKept /\ (NoneMade \/ Marking)
    BY <1>3
       DEF MarkMaterializing, LadderInv, AttColumns, PendingStates, ContentKept, NoneMade
  <1>4. CASE ReadOwnPath
    BY <1>4 DEF ReadOwnPath, ContentKept, NoneMade
  <1>5. CASE OwnPathUnsupported
    BY <1>5
       DEF OwnPathUnsupported, RunInv, LadderInv, AttColumns, PendingStates, ContentKept,
           NoneMade
  <1>6. CASE OwnPathFails
    BY <1>6 DEF OwnPathFails, RunInv, LadderInv, AttColumns, Failed, ContentKept, NoneMade
  <1>7. CASE MarkMaterialized
    BY <1>7
       DEF MarkMaterialized, RunInv, RunFields, LadderInv, AttColumns, QueueInv,
           ContentKept, Marking
  <1>8. CASE EnqueueForMaterialized
    BY <1>8 DEF EnqueueForMaterialized, ContentKept, NoneMade
  <1>9. CASE Release
    BY <1>9 DEF Release, ContentKept, NoneMade
  <1>10. CASE Unlink
    BY <1>10 DEF Unlink, ContentKept, NoneMade
  <1>11. CASE StartLocations
    BY <1>11 DEF StartLocations, ContentKept, NoneMade
  <1>12. ASSUME NEW a \in Attachments, Try(a) PROVE ContentKept /\ (NoneMade \/ Marking)
    BY <1>12, TryIsAttempt DEF AttemptMade, ContentKept, NoneMade
  <1>13. ASSUME NEW location \in Locations, Pull(location)
        PROVE  ContentKept /\ (NoneMade \/ Marking)
    BY <1>13 DEF Pull, ContentKept, NoneMade
  <1>14. ASSUME NEW x \in run.arrived, Arrive(x)
        PROVE  ContentKept /\ (NoneMade \/ Marking)
    BY <1>14, ArriveIsAttempt DEF AttemptMade, ContentKept, NoneMade
  <1>15. CASE EndRun
    BY <1>15 DEF EndRun, ContentKept, NoneMade
  <1>16. CASE KillRun
    BY <1>16 DEF KillRun, ContentKept, NoneMade
  <1>17. ASSUME NEW p \in Pushers, NEW roots \in SUBSET PushLocations,
               BuildPushPlan(p, roots)
        PROVE  ContentKept /\ (NoneMade \/ Marking)
    BY <1>17 DEF BuildPushPlan, ContentKept, NoneMade
  <1>18. ASSUME NEW p \in Pushers, NEW mounted \in SUBSET push[p].roots,
               CheckCandidates(p, mounted)
        PROVE  ContentKept /\ (NoneMade \/ Marking)
    BY <1>18 DEF CheckCandidates, ContentKept, NoneMade
  <1>19. ASSUME NEW p \in Pushers, NEW location \in PushLocations, Send(p, location)
        PROVE  ContentKept /\ (NoneMade \/ Marking)
    BY <1>19 DEF Send, ContentKept, NoneMade
  <1>20. ASSUME NEW p \in Pushers, RecordPushResults(p)
        PROVE  ContentKept /\ (NoneMade \/ Marking)
    BY <1>20 DEF RecordPushResults, ContentKept, NoneMade
  <1>21. ASSUME NEW p \in Pushers, KillPush(p) PROVE ContentKept /\ (NoneMade \/ Marking)
    BY <1>21 DEF KillPush, ContentKept, NoneMade
  <1>22. ASSUME NEW f \in Files, FileChanges(f) PROVE ContentKept /\ (NoneMade \/ Marking)
    BY <1>22 DEF FileChanges, ContentKept, NoneMade
  <1>23. ASSUME NEW l \in Rows, NEW e \in Observed, Observe(l, e)
        PROVE  ContentKept /\ (NoneMade \/ Marking)
    BY <1>23 DEF Observe, ContentKept, NoneMade
  <1>24. ASSUME NEW a \in Attachments, PathArrives(a)
        PROVE  ContentKept /\ (NoneMade \/ Marking)
    BY <1>24 DEF PathArrives, LadderInv, AttColumns, ContentKept, NoneMade
  <1>25. ASSUME NEW a \in Attachments, TimePasses(a)
        PROVE  ContentKept /\ (NoneMade \/ Marking)
    BY <1>25 DEF TimePasses, LadderInv, AttColumns, ContentKept, NoneMade
  <1> QED
    BY <1>0, <1>1, <1>2, <1>3, <1>4, <1>5, <1>6, <1>7, <1>8, <1>9, <1>10,
       <1>11, <1>12, <1>13, <1>14, <1>15, <1>16, <1>17, <1>18, <1>19, <1>20,
       <1>21, <1>22, <1>23, <1>24, <1>25
       DEF Next, OwnPhase, AfterCopy, LocationPhase, PushingHost, World

\* Steps that leave the attempts alone.
LEMMA QueueSame ==
    ASSUME RunInv, QueueInv, NoneMade, cache \subseteq cache',
           run'.queue = run.queue, run'.arrived = run.arrived,
           run'.pc = "mark" => UNCHANGED run
    PROVE  QueueInv'
  <1>1. run.arrived \subseteq Attempts /\ (run.pc = "mark" => run.att \in Attachments)
    BY DEF RunInv, RunFields
  <1>2. \A x \in Attempts : AttachmentOf[x.row] \in Attachments
    BY BackfillAssumption DEF Attempts
  <1> QED
    BY <1>1, <1>2 DEF QueueInv, NoneMade

\* An attempt leaves the queue of its attachment shorter.
LEMMA AttemptQueue ==
    ASSUME RunInv, QueueInv, NEW a, NEW x, AttemptMade(a, x)
    PROVE  QueueInv'
  <1>1. x \in Attempts /\ a \in Attachments /\ x.row \in Rows /\ AttachmentOf[x.row] = a
    BY AttemptTyped
  <1>2. /\ run'.queue = [run.queue EXCEPT ![a] = @ \ {x}]
        /\ run'.arrived = run.arrived \ {x}
        /\ run'.att = a
        /\ cache \subseteq cache' /\ UNCHANGED att
    BY DEF AttemptMade, Takes, Leaves, Tried, RunInv, RunFields
  <1>3. /\ run'.queue[a] = run.queue[a] \ {x}
        /\ \A b \in Attachments \ {a} : run'.queue[b] = run.queue[b]
    BY <1>1, <1>2 DEF RunInv, RunFields
  <1>4. x \in run.queue[a] /\ \A y \in run.queue[a] \ {x} : Before(x, y)
    BY DEF AttemptMade, IsNext
  <1>5. ASSUME NEW y \in run'.arrived
        PROVE  y \in Attempts /\ AttachmentOf[y.row] \in Attachments \ {a}
    <2>1. y \in run.arrived /\ y # x /\ y \in Attempts
      BY <1>2, <1>5 DEF RunInv, RunFields
    <2>2. AttachmentOf[y.row] \in Attachments
      BY <2>1, BackfillAssumption DEF Attempts
    <2>3. CASE AttachmentOf[y.row] = a
      <3>1. y \in run.queue[a] /\ Before(y, x)
        BY <1>4, <2>1, <2>3 DEF QueueInv
      <3>2. Before(x, y)
        BY <1>4, <2>1, <3>1
      <3> QED
        BY <1>1, <2>1, <3>1, <3>2, BeforeIsAsymmetric
    <2> QED
      BY <2>1, <2>2, <2>3
  <1>6. a \in Attachments /\ att[a].state # "materialized"
    BY <1>1, <1>4 DEF QueueInv
  <1>7. ASSUME NEW b \in Attachments, NEW y \in run'.queue[b]
        PROVE  /\ AttachmentOf[y.row] = b
               /\ y.tier \in Actionable
               /\ y.tier = "cache" => y.listed.sha \in cache'
               /\ att'[b].state # "materialized"
               /\ \A z \in run'.queue[b] : y.row = z.row /\ y.tier = z.tier => y = z
    <2>1. run'.queue[b] \subseteq run.queue[b]
      BY <1>1, <1>3
    <2> QED
      BY <1>2, <1>7, <2>1 DEF QueueInv
  <1>8. ASSUME NEW y \in run'.arrived
        PROVE  /\ y \in run'.queue[AttachmentOf[y.row]]
               /\ \A z \in run'.queue[AttachmentOf[y.row]] \ {y} : Before(y, z)
    <2>1. y \in run.arrived
      BY <1>2, <1>8
    <2> QED
      BY <1>3, <1>5, <1>8, <2>1 DEF QueueInv
  <1> QED
    BY <1>2, <1>5, <1>6, <1>7, <1>8 DEF QueueInv

\* What the attempts found in a look at the locations are.
LEMMA OrderedAttemptsMean ==
    ASSUME NEW a \in Attachments, NEW x \in OrderedAttempts(a)
    PROVE  /\ x = Attempt(x.row, x.tier) /\ x.row \in OpenRows(a)
           /\ AttachmentOf[x.row] = a /\ att[a].state # "materialized"
           /\ x.tier = "cache" => x.listed.sha \in cache
           /\ \A y \in OrderedAttempts(a) : x.row = y.row /\ x.tier = y.tier => x = y
  <1>1. \A l, t : Attempt(l, t).row = l /\ Attempt(l, t).tier = t
                  /\ Attempt(l, t).listed = row[l].listed
    BY DEF Attempt
  <1>2. \A l \in Rows : Tier(l) # "cache"
    BY BackfillAssumption DEF Tier, Locations
  <1>3. \A y \in OrderedAttempts(a) :
            /\ y = Attempt(y.row, y.tier) /\ y.row \in OpenRows(a)
            /\ y.tier = "cache" => row[y.row].listed.sha \in cache
    <2>1. OpenRows(a) \subseteq Rows
      BY DEF OpenRows
    <2> QED
      BY <1>1, <1>2, <2>1 DEF OrderedAttempts
  <1>4. AttachmentOf[x.row] = a /\ att[a].state # "materialized"
    BY <1>3 DEF OpenRows, Open
  <1>5. x.listed = row[x.row].listed
    BY <1>1, <1>3
  <1> QED
    BY <1>3, <1>4, <1>5

\* Every action keeps what is said of the attempts.
LEMMA QueueStep ==
    ASSUME RunInv, FilesInv, LadderInv, QueueInv, RecordInv, [Next]_vars
    PROVE  QueueInv'
  <1>0. CASE UNCHANGED vars
    BY <1>0 DEF vars, QueueInv
  <1>1. ASSUME NEW retry \in BOOLEAN, NEW full \in BOOLEAN, NEW pulls \in BOOLEAN,
               StartRun(retry, full, pulls)
        PROVE  QueueInv'
    <2>1. run'.arrived = {} /\ run'.pc # "mark" /\ \A b \in Attachments : run'.queue[b] = {}
      BY <1>1 DEF StartRun, Idle
    <2> QED
      BY <2>1 DEF QueueInv
  <1>2. ASSUME NEW a \in Attachments, RefuseOwnPath(a) PROVE QueueInv'
    <2>1. NoneMade
      BY <1>2, ContentStep DEF RefuseOwnPath, Marking
    <2> QED
      BY <1>2, <2>1, QueueSame DEF RefuseOwnPath, RunInv, RunFields
  <1>3. ASSUME NEW a \in Attachments, MarkMaterializing(a) PROVE QueueInv'
    <2>1. NoneMade
      BY <1>3, ContentStep DEF MarkMaterializing, Marking
    <2> QED
      BY <1>3, <2>1, QueueSame DEF MarkMaterializing, RunInv, RunFields
  <1>4. CASE ReadOwnPath
    <2>1. run.arrived = {} /\ run.att \in Attachments /\ att[run.att].state = "materializing"
      BY <1>4 DEF ReadOwnPath, RunInv, OwnPhaseRuns, LadderInv
    <2>2. /\ run'.queue = run.queue /\ run'.arrived = {} /\ run'.att = run.att
          /\ cache \subseteq cache' /\ UNCHANGED att
      BY <1>4, <2>1 DEF ReadOwnPath, RunInv, RunFields
    <2> QED
      BY <2>1, <2>2 DEF QueueInv
  <1>5. CASE OwnPathUnsupported
    <2>1. NoneMade
      BY <1>5, ContentStep DEF OwnPathUnsupported, Marking
    <2> QED
      BY <1>5, <2>1, QueueSame DEF OwnPathUnsupported, RunInv, RunFields
  <1>6. CASE OwnPathFails
    <2>1. NoneMade
      BY <1>6, ContentStep DEF OwnPathFails, Marking
    <2> QED
      BY <1>6, <2>1, QueueSame DEF OwnPathFails, RunInv, RunFields
  <1>7. CASE MarkMaterialized
    <2>1. /\ run'.queue = [run.queue EXCEPT ![run.att] = {}] /\ run'.arrived = run.arrived
          /\ run'.pc = "enqueue" /\ UNCHANGED cache /\ run.pc = "mark"
          /\ att' = [att EXCEPT ![run.att].state = "materialized", ![run.att].hash = run.found]
      BY <1>7 DEF MarkMaterialized, RunInv, RunFields
    <2>2. /\ run'.queue[run.att] = {}
          /\ \A b \in Attachments \ {run.att} :
                run'.queue[b] = run.queue[b] /\ att'[b] = att[b]
      BY <2>1 DEF RunInv, RunFields, LadderInv
    <2>3. \A x \in run.arrived : AttachmentOf[x.row] \in Attachments \ {run.att}
      BY <2>1, BackfillAssumption DEF RunInv, RunFields, Attempts, QueueInv
    <2>4. ASSUME NEW b \in Attachments, NEW y \in run'.queue[b]
          PROVE  /\ AttachmentOf[y.row] = b
                 /\ y.tier \in Actionable
                 /\ y.tier = "cache" => y.listed.sha \in cache'
                 /\ att'[b].state # "materialized"
                 /\ \A z \in run'.queue[b] : y.row = z.row /\ y.tier = z.tier => y = z
      BY <2>1, <2>2, <2>4 DEF QueueInv
    <2>5. ASSUME NEW y \in run'.arrived
          PROVE  /\ y \in run'.queue[AttachmentOf[y.row]]
                 /\ \A z \in run'.queue[AttachmentOf[y.row]] \ {y} : Before(y, z)
      BY <2>1, <2>2, <2>3, <2>5 DEF QueueInv
    <2> QED
      BY <2>1, <2>4, <2>5 DEF QueueInv
  <1>8. CASE EnqueueForMaterialized
    <2>1. NoneMade
      BY <1>8 DEF EnqueueForMaterialized, NoneMade
    <2> QED
      BY <1>8, <2>1, QueueSame DEF EnqueueForMaterialized, AfterEnqueue, RunInv, RunFields
  <1>9. CASE Release
    <2>1. NoneMade
      BY <1>9, ContentStep DEF Release, Marking
    <2> QED
      BY <1>9, <2>1, QueueSame DEF Release, RunInv, RunFields
  <1>10. CASE Unlink
    <2>1. NoneMade
      BY <1>10, ContentStep DEF Unlink, Marking
    <2> QED
      BY <1>10, <2>1, QueueSame DEF Unlink, RunInv, RunFields
  <1>11. CASE StartLocations
    <2>1. /\ run.arrived = {} /\ run'.arrived = {} /\ run'.pc = "fetch"
          /\ run'.queue = [b \in Attachments |-> AttemptsFor(b, run.read, run.pulls)]
          /\ UNCHANGED << att, cache >>
      BY <1>11 DEF StartLocations, RunInv, RunFields, OwnPhaseRuns
    <2>2. ASSUME NEW b \in Attachments, NEW y \in run'.queue[b]
          PROVE  y \in OrderedAttempts(b) /\ y.tier \in Actionable
      BY <2>1, <2>2 DEF AttemptsFor
    <2>3. ASSUME NEW b \in Attachments, NEW y \in run'.queue[b]
          PROVE  /\ AttachmentOf[y.row] = b
                 /\ y.tier \in Actionable
                 /\ y.tier = "cache" => y.listed.sha \in cache'
                 /\ att'[b].state # "materialized"
                 /\ \A z \in run'.queue[b] : y.row = z.row /\ y.tier = z.tier => y = z
      BY <2>1, <2>2, <2>3, OrderedAttemptsMean
    <2> QED
      BY <2>1, <2>3 DEF QueueInv
  <1>12. ASSUME NEW a \in Attachments, Try(a) PROVE QueueInv'
    BY <1>12, TryIsAttempt, AttemptQueue
  <1>13. ASSUME NEW location \in Locations, Pull(location) PROVE QueueInv'
    <2> DEFINE wanted == {First(run.queue[a]) : a \in Waiting}
               here == {x \in wanted : LocationOf[x.row] = location}
    <2>1. /\ run'.queue = run.queue /\ run'.arrived = here /\ run'.pc = "fetch"
          /\ UNCHANGED << att, cache >>
      BY <1>13 DEF Pull, Trying, RunInv, RunFields
    <2>2. ASSUME NEW x \in here
          PROVE  /\ x \in run.queue[AttachmentOf[x.row]]
                 /\ \A y \in run.queue[AttachmentOf[x.row]] \ {x} : Before(x, y)
      <3>1. PICK a \in Waiting : x = First(run.queue[a])
        BY <2>2
      <3>2. IsNext(a, x)
        BY <3>1, HeadIsNext DEF Waiting
      <3> QED
        BY <3>2 DEF IsNext, QueueInv
    <2> HIDE DEF here
    <2> QED
      BY <2>1, <2>2 DEF QueueInv
  <1>14. ASSUME NEW x \in run.arrived, Arrive(x) PROVE QueueInv'
    BY <1>14, ArriveIsAttempt, AttemptQueue
  <1>15. CASE EndRun
    <2>1. run'.arrived = {} /\ run'.pc # "mark" /\ \A b \in Attachments : run'.queue[b] = {}
      BY <1>15 DEF EndRun, Idle
    <2> QED
      BY <2>1 DEF QueueInv
  <1>16. CASE KillRun
    <2>1. run'.arrived = {} /\ run'.pc # "mark" /\ \A b \in Attachments : run'.queue[b] = {}
      BY <1>16 DEF KillRun, Idle
    <2> QED
      BY <2>1 DEF QueueInv
  <1>17. ASSUME NEW p \in Pushers, NEW roots \in SUBSET PushLocations,
               BuildPushPlan(p, roots)
        PROVE  QueueInv'
    <2>1. NoneMade
      BY <1>17 DEF BuildPushPlan, NoneMade
    <2> QED
      BY <1>17, <2>1, QueueSame DEF BuildPushPlan
  <1>18. ASSUME NEW p \in Pushers, NEW mounted \in SUBSET push[p].roots,
               CheckCandidates(p, mounted)
        PROVE  QueueInv'
    <2>1. NoneMade
      BY <1>18 DEF CheckCandidates, NoneMade
    <2> QED
      BY <1>18, <2>1, QueueSame DEF CheckCandidates
  <1>19. ASSUME NEW p \in Pushers, NEW location \in PushLocations, Send(p, location)
        PROVE  QueueInv'
    <2>1. NoneMade
      BY <1>19 DEF Send, NoneMade
    <2> QED
      BY <1>19, <2>1, QueueSame DEF Send
  <1>20. ASSUME NEW p \in Pushers, RecordPushResults(p) PROVE QueueInv'
    <2>1. NoneMade
      BY <1>20 DEF RecordPushResults, NoneMade
    <2> QED
      BY <1>20, <2>1, QueueSame DEF RecordPushResults
  <1>21. ASSUME NEW p \in Pushers, KillPush(p) PROVE QueueInv'
    <2>1. NoneMade
      BY <1>21 DEF KillPush, NoneMade
    <2> QED
      BY <1>21, <2>1, QueueSame DEF KillPush
  <1>22. ASSUME NEW f \in Files, FileChanges(f) PROVE QueueInv'
    <2>1. NoneMade
      BY <1>22 DEF FileChanges, NoneMade
    <2> QED
      BY <1>22, <2>1, QueueSame DEF FileChanges
  <1>23. ASSUME NEW l \in Rows, NEW e \in Observed, Observe(l, e) PROVE QueueInv'
    <2>1. NoneMade
      BY <1>23 DEF Observe, NoneMade
    <2> QED
      BY <1>23, <2>1, QueueSame DEF Observe
  <1>24. ASSUME NEW a \in Attachments, PathArrives(a) PROVE QueueInv'
    <2>1. NoneMade
      BY <1>24, ContentStep DEF PathArrives, Marking
    <2> QED
      BY <1>24, <2>1, QueueSame DEF PathArrives
  <1>25. ASSUME NEW a \in Attachments, TimePasses(a) PROVE QueueInv'
    <2>1. NoneMade
      BY <1>25, ContentStep DEF TimePasses, Marking
    <2> QED
      BY <1>25, <2>1, QueueSame DEF TimePasses
  <1> QED
    BY <1>0, <1>1, <1>2, <1>3, <1>4, <1>5, <1>6, <1>7, <1>8, <1>9, <1>10,
       <1>11, <1>12, <1>13, <1>14, <1>15, <1>16, <1>17, <1>18, <1>19, <1>20,
       <1>21, <1>22, <1>23, <1>24, <1>25
       DEF Next, OwnPhase, AfterCopy, LocationPhase, PushingHost, World

\* Steps that fetch nothing.
LEMMA RecordSame ==
    ASSUME RunInv, RecordInv, ContentKept, NoneMade, cache \subseteq cache', UNCHANGED queued,
           row' \in [Rows -> RowColumns],
           \A l \in Rows : row'[l].outcome = "fetched" => row[l].outcome = "fetched",
           run'.pc = "mark" => run'.found \in cache',
           run'.pc = "enqueue" => run'.pc = run.pc /\ run'.att = run.att
    PROVE  RecordInv'
  <1>1. run.pc = "enqueue" => run.att \in Attachments
    BY DEF RunInv
  <1>2. \A l \in Rows : AttachmentOf[l] \in Attachments
    BY BackfillAssumption
  <1>3. \A a \in Attachments : att'[a].state = "materialized" => att'[a].hash \in cache'
    BY DEF RecordInv, ContentKept, NoneMade
  <1>4. run'.pc = "enqueue" => att'[run'.att].state = "materialized"
    BY <1>1 DEF RecordInv, ContentKept
  <1>5. queued' \subseteq Attachments /\ \A a \in queued' : att'[a].state = "materialized"
    BY DEF RecordInv, ContentKept
  <1>6. \A l \in Rows : row'[l].outcome = "fetched" => att'[AttachmentOf[l]].state = "materialized"
    BY <1>2 DEF RecordInv, ContentKept
  <1> QED
    BY <1>3, <1>4, <1>5, <1>6 DEF RecordInv

\* An attempt alone fetches nothing: the marking does.
LEMMA AttemptRecord ==
    ASSUME RunInv, QueueInv, RecordInv, NEW a, NEW x, AttemptMade(a, x)
    PROVE  RecordInv'
  <1>1. x.row \in Rows
    BY AttemptTyped
  <1>2. UNCHANGED << att, queued >> /\ cache \subseteq cache'
    BY DEF AttemptMade, Takes, Leaves
  <1>3. row' \in [Rows -> RowColumns]
        /\ \A l \in Rows : row'[l].outcome = "fetched" => row[l].outcome = "fetched"
    <2>1. CASE UNCHANGED row
      BY <2>1 DEF RecordInv
    <2>2. CASE \E outcome \in Reports : Record(x.row, outcome)
      BY <1>1, <2>2 DEF RecordInv, Record, RowColumns, RowOutcomes, Reports
    <2> QED
      BY <2>1, <2>2 DEF AttemptMade, Takes, Leaves
  <1>4. /\ run'.pc # "enqueue"
        /\ run'.pc = "mark" => run'.found \in cache'
    BY DEF AttemptMade, Takes, Leaves, Tried, RunInv, RunFields
  <1> QED
    BY <1>2, <1>3, <1>4, RecordSame DEF ContentKept, NoneMade

\* Every action keeps rows, tasks and contents together.
LEMMA RecordStep ==
    ASSUME RunInv, FilesInv, PushInv, LadderInv, QueueInv, RecordInv, [Next]_vars
    PROVE  RecordInv'
  <1>0. CASE UNCHANGED vars
    BY <1>0 DEF vars, RecordInv
  <1>1. ASSUME NEW retry \in BOOLEAN, NEW full \in BOOLEAN, NEW pulls \in BOOLEAN,
               StartRun(retry, full, pulls)
        PROVE  RecordInv'
    <2>1. UNCHANGED << row, queued >> /\ cache \subseteq cache'
          /\ run'.pc # "enqueue" /\ (run'.pc = "mark" => run'.found \in cache')
      BY <1>1 DEF StartRun, RunInv, RunFields, Idle
    <2>2. ContentKept /\ NoneMade
      BY <2>1, ContentStep DEF Marking
    <2> QED
      BY <2>1, <2>2, RecordSame DEF RecordInv
  <1>2. ASSUME NEW a \in Attachments, RefuseOwnPath(a) PROVE RecordInv'
    <2>1. UNCHANGED << row, queued >> /\ cache \subseteq cache'
          /\ run'.pc # "enqueue" /\ (run'.pc = "mark" => run'.found \in cache')
      BY <1>2 DEF RefuseOwnPath, RunInv, RunFields
    <2>2. ContentKept /\ NoneMade
      BY <2>1, ContentStep DEF Marking
    <2> QED
      BY <2>1, <2>2, RecordSame DEF RecordInv
  <1>3. ASSUME NEW a \in Attachments, MarkMaterializing(a) PROVE RecordInv'
    <2>1. UNCHANGED << row, queued >> /\ cache \subseteq cache'
          /\ run'.pc # "enqueue" /\ (run'.pc = "mark" => run'.found \in cache')
      BY <1>3 DEF MarkMaterializing, RunInv, RunFields
    <2>2. ContentKept /\ NoneMade
      BY <2>1, ContentStep DEF Marking
    <2> QED
      BY <2>1, <2>2, RecordSame DEF RecordInv
  <1>4. CASE ReadOwnPath
    <2>1. UNCHANGED << row, queued >> /\ cache \subseteq cache'
          /\ run'.pc # "enqueue" /\ (run'.pc = "mark" => run'.found \in cache')
      BY <1>4 DEF ReadOwnPath, RunInv, RunFields
    <2>2. ContentKept /\ NoneMade
      BY <2>1, ContentStep DEF Marking
    <2> QED
      BY <2>1, <2>2, RecordSame DEF RecordInv
  <1>5. CASE OwnPathUnsupported
    <2>1. UNCHANGED << row, queued >> /\ cache \subseteq cache'
          /\ run'.pc # "enqueue" /\ (run'.pc = "mark" => run'.found \in cache')
      BY <1>5 DEF OwnPathUnsupported, RunInv, RunFields
    <2>2. ContentKept /\ NoneMade
      BY <2>1, ContentStep DEF Marking
    <2> QED
      BY <2>1, <2>2, RecordSame DEF RecordInv
  <1>6. CASE OwnPathFails
    <2>1. UNCHANGED << row, queued >> /\ cache \subseteq cache'
          /\ run'.pc # "enqueue" /\ (run'.pc = "mark" => run'.found \in cache')
      BY <1>6 DEF OwnPathFails, RunInv, RunFields
    <2>2. ContentKept /\ NoneMade
      BY <2>1, ContentStep DEF Marking
    <2> QED
      BY <2>1, <2>2, RecordSame DEF RecordInv
  <1>7. CASE MarkMaterialized
    <2>1. /\ att' = [att EXCEPT ![run.att].state = "materialized", ![run.att].hash = run.found]
          /\ row' = IF run.row = None THEN row ELSE [row EXCEPT ![run.row].outcome = "fetched"]
          /\ run'.pc = "enqueue" /\ run'.att = run.att /\ UNCHANGED << cache, queued >>
          /\ run.att \in Attachments /\ run.found \in cache /\ run.row \in Rows \cup {None}
          /\ run.row # None => AttachmentOf[run.row] = run.att
      BY <1>7 DEF MarkMaterialized, RunInv, RunFields, RecordInv
    <2>2. /\ att'[run.att].state = "materialized" /\ att'[run.att].hash = run.found
          /\ \A b \in Attachments \ {run.att} : att'[b] = att[b]
      BY <2>1 DEF LadderInv, AttColumns
    <2>3. row' \in [Rows -> RowColumns]
          /\ \A l \in Rows : row'[l].outcome = "fetched" => row[l].outcome = "fetched" \/ l = run.row
      BY <2>1 DEF RecordInv, RowColumns, RowOutcomes
    <2>4. \A l \in Rows : AttachmentOf[l] \in Attachments
      BY BackfillAssumption
    <2>5. \A b \in Attachments : att'[b].state = "materialized" => att'[b].hash \in cache'
      <3>1. cache' = cache /\ run.found \in cache
        BY <2>1
      <3>2. \A b \in Attachments : att[b].state = "materialized" => att[b].hash \in cache
        BY DEF RecordInv
      <3> QED
        BY <2>2, <3>1, <3>2
    <2>6. \A b \in queued' : att'[b].state = "materialized"
      BY <2>1, <2>2 DEF RecordInv
    <2>7. \A l \in Rows :
              row'[l].outcome = "fetched" => att'[AttachmentOf[l]].state = "materialized"
      BY <2>1, <2>2, <2>3, <2>4, NoneIsNothing DEF RecordInv
    <2> QED
      BY <2>1, <2>2, <2>3, <2>5, <2>6, <2>7 DEF RecordInv
  <1>8. CASE EnqueueForMaterialized
    <2>1. /\ queued' \subseteq queued \cup {run.att} /\ UNCHANGED << att, row, cache >>
          /\ run'.pc \in {"own", "release", "fetch"} /\ run.att \in Attachments
          /\ att[run.att].state = "materialized"
      BY <1>8 DEF EnqueueForMaterialized, AfterEnqueue, RunInv, RunFields, RecordInv
    <2> QED
      BY <2>1 DEF RecordInv
  <1>9. CASE Release
    <2>1. UNCHANGED << row, queued >> /\ cache \subseteq cache'
          /\ run'.pc # "enqueue" /\ (run'.pc = "mark" => run'.found \in cache')
      BY <1>9 DEF Release, RunInv, RunFields
    <2>2. ContentKept /\ NoneMade
      BY <2>1, ContentStep DEF Marking
    <2> QED
      BY <2>1, <2>2, RecordSame DEF RecordInv
  <1>10. CASE Unlink
    <2>1. UNCHANGED << row, queued >> /\ cache \subseteq cache'
          /\ run'.pc # "enqueue" /\ (run'.pc = "mark" => run'.found \in cache')
      BY <1>10 DEF Unlink, RunInv, RunFields
    <2>2. ContentKept /\ NoneMade
      BY <2>1, ContentStep DEF Marking
    <2> QED
      BY <2>1, <2>2, RecordSame DEF RecordInv
  <1>11. CASE StartLocations
    <2>1. UNCHANGED << row, queued >> /\ cache \subseteq cache'
          /\ run'.pc # "enqueue" /\ (run'.pc = "mark" => run'.found \in cache')
      BY <1>11 DEF StartLocations, RunInv, RunFields
    <2>2. ContentKept /\ NoneMade
      BY <2>1, ContentStep DEF Marking
    <2> QED
      BY <2>1, <2>2, RecordSame DEF RecordInv
  <1>12. ASSUME NEW a \in Attachments, Try(a) PROVE RecordInv'
    BY <1>12, TryIsAttempt, AttemptRecord
  <1>13. ASSUME NEW location \in Locations, Pull(location) PROVE RecordInv'
    <2>1. UNCHANGED << row, queued >> /\ cache \subseteq cache'
          /\ run'.pc # "enqueue" /\ (run'.pc = "mark" => run'.found \in cache')
      BY <1>13 DEF Pull, RunInv, RunFields, Trying
    <2>2. ContentKept /\ NoneMade
      BY <2>1, ContentStep DEF Marking
    <2> QED
      BY <2>1, <2>2, RecordSame DEF RecordInv
  <1>14. ASSUME NEW x \in run.arrived, Arrive(x) PROVE RecordInv'
    BY <1>14, ArriveIsAttempt, AttemptRecord
  <1>15. CASE EndRun
    <2>1. UNCHANGED << row, queued >> /\ cache \subseteq cache'
          /\ run'.pc # "enqueue" /\ (run'.pc = "mark" => run'.found \in cache')
      BY <1>15 DEF EndRun, RunInv, RunFields, Idle
    <2>2. ContentKept /\ NoneMade
      BY <2>1, ContentStep DEF Marking
    <2> QED
      BY <2>1, <2>2, RecordSame DEF RecordInv
  <1>16. CASE KillRun
    <2>1. UNCHANGED << row, queued >> /\ cache \subseteq cache'
          /\ run'.pc # "enqueue" /\ (run'.pc = "mark" => run'.found \in cache')
      BY <1>16 DEF KillRun, RunInv, RunFields, Idle
    <2>2. ContentKept /\ NoneMade
      BY <2>1, ContentStep DEF Marking
    <2> QED
      BY <2>1, <2>2, RecordSame DEF RecordInv
  <1>17. ASSUME NEW p \in Pushers, NEW roots \in SUBSET PushLocations,
               BuildPushPlan(p, roots)
        PROVE  RecordInv'
    <2>1. UNCHANGED << row, queued, cache, run >>
      BY <1>17 DEF BuildPushPlan
    <2>2. ContentKept /\ NoneMade
      BY <2>1, ContentStep DEF Marking
    <2> QED
      BY <2>1, <2>2, RecordSame DEF RecordInv
  <1>18. ASSUME NEW p \in Pushers, NEW mounted \in SUBSET push[p].roots,
               CheckCandidates(p, mounted)
        PROVE  RecordInv'
    <2>1. UNCHANGED << row, queued, cache, run >>
      BY <1>18 DEF CheckCandidates
    <2>2. ContentKept /\ NoneMade
      BY <2>1, ContentStep DEF Marking
    <2> QED
      BY <2>1, <2>2, RecordSame DEF RecordInv
  <1>19. ASSUME NEW p \in Pushers, NEW location \in PushLocations, Send(p, location)
        PROVE  RecordInv'
    <2>1. UNCHANGED << row, queued, cache, run >>
      BY <1>19 DEF Send
    <2>2. ContentKept /\ NoneMade
      BY <2>1, ContentStep DEF Marking
    <2> QED
      BY <2>1, <2>2, RecordSame DEF RecordInv
  <1>20. ASSUME NEW p \in Pushers, RecordPushResults(p) PROVE RecordInv'
    <2>1. UNCHANGED << att, queued, cache, run >> /\ row' = [l \in Rows |-> Reported(l, push[p].results)]
      BY <1>20 DEF RecordPushResults
    <2>2. push[p] \in PushFields
      BY DEF PushInv
    <2>3. PICK S \in SUBSET Rows : push[p].results \in [S -> Reports]
      BY <2>2 DEF PushFields
    <2>4. ASSUME NEW l \in Rows
          PROVE  /\ row'[l] \in RowColumns
                 /\ row'[l].outcome = "fetched" => row[l].outcome = "fetched"
      BY <2>1, <2>3, <2>4 DEF Reported, RecordInv, RowColumns, RowOutcomes, Reports
    <2>5. row' \in [Rows -> RowColumns]
      BY <2>1, <2>4
    <2> QED
      BY <2>1, <2>4, <2>5, RecordSame DEF ContentKept, NoneMade, RecordInv
  <1>21. ASSUME NEW p \in Pushers, KillPush(p) PROVE RecordInv'
    <2>1. UNCHANGED << row, queued, cache, run >>
      BY <1>21 DEF KillPush
    <2>2. ContentKept /\ NoneMade
      BY <2>1, ContentStep DEF Marking
    <2> QED
      BY <2>1, <2>2, RecordSame DEF RecordInv
  <1>22. ASSUME NEW f \in Files, FileChanges(f) PROVE RecordInv'
    <2>1. UNCHANGED << row, queued, cache, run >>
      BY <1>22 DEF FileChanges
    <2>2. ContentKept /\ NoneMade
      BY <2>1, ContentStep DEF Marking
    <2> QED
      BY <2>1, <2>2, RecordSame DEF RecordInv
  <1>23. ASSUME NEW l \in Rows, NEW e \in Observed, Observe(l, e) PROVE RecordInv'
    <2> DEFINE old == row[l].listed
               merged == [size |-> IF e.size = None THEN old.size ELSE e.size,
                          sha |-> IF e.sha = None THEN old.sha ELSE e.sha]
    <2>1. UNCHANGED << att, queued, cache, run >>
          /\ row' = [row EXCEPT ![l] = [listed |-> merged,
                        outcome |-> IF @.outcome = "fetched" THEN "fetched" ELSE "untried"]]
      BY <1>23 DEF Observe
    <2>2. merged \in Listings
      BY DEF Observed, Listings, RecordInv, RowColumns
    <2> HIDE DEF merged
    <2>3. row' \in [Rows -> RowColumns]
          /\ \A k \in Rows : row'[k].outcome = "fetched" => row[k].outcome = "fetched"
      BY <2>1, <2>2 DEF RecordInv, RowColumns, RowOutcomes
    <2> QED
      BY <2>1, <2>3, RecordSame DEF ContentKept, NoneMade, RecordInv
  <1>24. ASSUME NEW a \in Attachments, PathArrives(a) PROVE RecordInv'
    <2>1. UNCHANGED << row, queued, cache, run >>
      BY <1>24 DEF PathArrives
    <2>2. ContentKept /\ NoneMade
      BY <2>1, ContentStep DEF Marking
    <2> QED
      BY <2>1, <2>2, RecordSame DEF RecordInv
  <1>25. ASSUME NEW a \in Attachments, TimePasses(a) PROVE RecordInv'
    <2>1. UNCHANGED << row, queued, cache, run >>
      BY <1>25 DEF TimePasses
    <2>2. ContentKept /\ NoneMade
      BY <2>1, ContentStep DEF Marking
    <2> QED
      BY <2>1, <2>2, RecordSame DEF RecordInv
  <1> QED
    BY <1>0, <1>1, <1>2, <1>3, <1>4, <1>5, <1>6, <1>7, <1>8, <1>9, <1>10,
       <1>11, <1>12, <1>13, <1>14, <1>15, <1>16, <1>17, <1>18, <1>19, <1>20,
       <1>21, <1>22, <1>23, <1>24, <1>25
       DEF Next, OwnPhase, AfterCopy, LocationPhase, PushingHost, World

----------------------------------------------------------------------------
(* The file about to be deleted.                                            *)

\* Steps that open no row unseen.
LEMMA ReleaseSame ==
    ASSUME ReleaseInv, UNCHANGED run, renewed' \subseteq Rows,
           run.pc = "unlink" => renewed \subseteq renewed',
           \A l \in Rows \ renewed' : Open(l)' => Open(l)
    PROVE  ReleaseInv'
  <1>1. ASSUME run'.pc = "unlink", NEW l \in Rows \ renewed',
               FileOf[l] = FileOf[run'.row], l # run'.row
        PROVE  ~Open(l)'
    BY <1>1 DEF ReleaseInv
  <1> QED
    BY <1>1 DEF ReleaseInv

\* An attempt looks at nothing yet.
LEMMA AttemptRelease ==
    ASSUME RunInv, ReleaseInv, NEW a, NEW x, AttemptMade(a, x)
    PROVE  ReleaseInv'
  <1>1. run'.pc \in {"mark", "fetch", "release"} /\ UNCHANGED renewed
    BY DEF AttemptMade, Takes, Leaves, Tried, RunInv, RunFields
  <1> QED
    BY <1>1 DEF ReleaseInv

\* Every action keeps what the look before a deletion found.
LEMMA ReleaseStep ==
    ASSUME RunInv, FilesInv, PushInv, LadderInv, QueueInv, RecordInv, ReleaseInv, [Next]_vars
    PROVE  ReleaseInv'
  <1>0. CASE UNCHANGED vars
    BY <1>0 DEF vars, ReleaseInv, Open
  <1>1. ASSUME NEW retry \in BOOLEAN, NEW full \in BOOLEAN, NEW pulls \in BOOLEAN,
               StartRun(retry, full, pulls)
        PROVE  ReleaseInv'
    BY <1>1 DEF StartRun, Idle, RunInv, RunFields, ReleaseInv
  <1>2. ASSUME NEW a \in Attachments, RefuseOwnPath(a) PROVE ReleaseInv'
    BY <1>2 DEF RefuseOwnPath, RunInv, RunFields, ReleaseInv
  <1>3. ASSUME NEW a \in Attachments, MarkMaterializing(a) PROVE ReleaseInv'
    BY <1>3 DEF MarkMaterializing, RunInv, RunFields, ReleaseInv
  <1>4. CASE ReadOwnPath
    BY <1>4 DEF ReadOwnPath, RunInv, RunFields, ReleaseInv
  <1>5. CASE OwnPathUnsupported
    BY <1>5 DEF OwnPathUnsupported, RunInv, RunFields, ReleaseInv
  <1>6. CASE OwnPathFails
    BY <1>6 DEF OwnPathFails, RunInv, RunFields, ReleaseInv
  <1>7. CASE MarkMaterialized
    BY <1>7 DEF MarkMaterialized, RunInv, RunFields, ReleaseInv
  <1>8. CASE EnqueueForMaterialized
    BY <1>8 DEF EnqueueForMaterialized, AfterEnqueue, RunInv, RunFields, ReleaseInv
  <1>9. CASE Release
    <2>1. UNCHANGED << row, att, renewed >> /\ run'.row = run.row
          /\ (run'.pc = "unlink" => ~OtherOpenReference(run.row))
      BY <1>9 DEF Release, RunInv, RunFields
    <2>2. \A l \in Rows : Open(l)' <=> Open(l)
      BY <2>1 DEF Open
    <2> QED
      BY <2>1, <2>2 DEF OtherOpenReference, ReleaseInv
  <1>10. CASE Unlink
    BY <1>10 DEF Unlink, RunInv, RunFields, ReleaseInv
  <1>11. CASE StartLocations
    <2>1. run'.pc = "fetch" /\ UNCHANGED renewed
      BY <1>11 DEF StartLocations, RunInv, RunFields
    <2> QED
      BY <2>1 DEF ReleaseInv
  <1>12. ASSUME NEW a \in Attachments, Try(a) PROVE ReleaseInv'
    BY <1>12, TryIsAttempt, AttemptRelease
  <1>13. ASSUME NEW location \in Locations, Pull(location) PROVE ReleaseInv'
    <2>1. run'.pc = "fetch" /\ UNCHANGED renewed
      BY <1>13 DEF Pull, Trying, RunInv, RunFields
    <2> QED
      BY <2>1 DEF ReleaseInv
  <1>14. ASSUME NEW x \in run.arrived, Arrive(x) PROVE ReleaseInv'
    BY <1>14, ArriveIsAttempt, AttemptRelease
  <1>15. CASE EndRun
    BY <1>15 DEF EndRun, Idle, RunInv, RunFields, ReleaseInv
  <1>16. CASE KillRun
    BY <1>16 DEF KillRun, Idle, RunInv, RunFields, ReleaseInv
  <1>17. ASSUME NEW p \in Pushers, NEW roots \in SUBSET PushLocations,
               BuildPushPlan(p, roots)
        PROVE  ReleaseInv'
    <2>1. UNCHANGED << run, row, att, renewed >>
      BY <1>17 DEF BuildPushPlan
    <2>2. \A l \in Rows : Open(l)' <=> Open(l)
      BY <2>1 DEF Open
    <2> QED
      BY <2>1, <2>2, ReleaseSame DEF ReleaseInv
  <1>18. ASSUME NEW p \in Pushers, NEW mounted \in SUBSET push[p].roots,
               CheckCandidates(p, mounted)
        PROVE  ReleaseInv'
    <2>1. UNCHANGED << run, row, att, renewed >>
      BY <1>18 DEF CheckCandidates
    <2>2. \A l \in Rows : Open(l)' <=> Open(l)
      BY <2>1 DEF Open
    <2> QED
      BY <2>1, <2>2, ReleaseSame DEF ReleaseInv
  <1>19. ASSUME NEW p \in Pushers, NEW location \in PushLocations, Send(p, location)
        PROVE  ReleaseInv'
    <2>1. UNCHANGED << run, row, att, renewed >>
      BY <1>19 DEF Send
    <2>2. \A l \in Rows : Open(l)' <=> Open(l)
      BY <2>1 DEF Open
    <2> QED
      BY <2>1, <2>2, ReleaseSame DEF ReleaseInv
  <1>20. ASSUME NEW p \in Pushers, RecordPushResults(p) PROVE ReleaseInv'
    <2> DEFINE results == push[p].results
               opened == {l \in DOMAIN results : results[l] \in OpenOutcomes}
    <2>1. UNCHANGED << run, att >> /\ row' = [l \in Rows |-> Reported(l, results)]
          /\ renewed' = IF run.pc = "unlink" THEN renewed \cup opened ELSE {}
      BY <1>20 DEF RecordPushResults, Renew
    <2>2. push[p] \in PushFields
      BY DEF PushInv
    <2>3. PICK S \in SUBSET Rows : results \in [S -> Reports]
      BY <2>2 DEF PushFields
    <2>4. opened \subseteq Rows
      BY <2>3
    <2>5. ASSUME NEW l \in Rows, run.pc = "unlink", l \notin renewed', Open(l)'
          PROVE  Open(l)
      <3>1. att[AttachmentOf[l]].state # "materialized" /\ row'[l].outcome \in OpenOutcomes
        BY <2>1, <2>5 DEF Open
      <3>2. row'[l] = Reported(l, results)
        BY <2>1
      <3>3. CASE l \in DOMAIN results /\ row[l].outcome # "fetched"
        <4>1. row'[l].outcome = results[l]
          BY <3>2, <3>3 DEF Reported, RecordInv, RowColumns
        <4> QED
          BY <2>1, <2>5, <3>1, <3>3, <4>1
      <3>4. CASE ~(l \in DOMAIN results /\ row[l].outcome # "fetched")
        BY <3>1, <3>2, <3>4 DEF Reported, Open
      <3> QED
        BY <3>3, <3>4
    <2> HIDE DEF opened
    <2> QED
      BY <2>1, <2>4, <2>5 DEF ReleaseInv
  <1>21. ASSUME NEW p \in Pushers, KillPush(p) PROVE ReleaseInv'
    <2>1. UNCHANGED << run, row, att, renewed >>
      BY <1>21 DEF KillPush
    <2>2. \A l \in Rows : Open(l)' <=> Open(l)
      BY <2>1 DEF Open
    <2> QED
      BY <2>1, <2>2, ReleaseSame DEF ReleaseInv
  <1>22. ASSUME NEW f \in Files, FileChanges(f) PROVE ReleaseInv'
    <2>1. UNCHANGED << run, row, att, renewed >>
      BY <1>22 DEF FileChanges
    <2>2. \A l \in Rows : Open(l)' <=> Open(l)
      BY <2>1 DEF Open
    <2> QED
      BY <2>1, <2>2, ReleaseSame DEF ReleaseInv
  <1>23. ASSUME NEW l \in Rows, NEW e \in Observed, Observe(l, e) PROVE ReleaseInv'
    <2> DEFINE old == row[l].listed
               merged == [size |-> IF e.size = None THEN old.size ELSE e.size,
                          sha |-> IF e.sha = None THEN old.sha ELSE e.sha]
    <2>1. UNCHANGED << run, att >>
          /\ row' = [row EXCEPT ![l] = [listed |-> merged,
                        outcome |-> IF @.outcome = "fetched" THEN "fetched" ELSE "untried"]]
      BY <1>23 DEF Observe
    <2>2. renewed' = IF run.pc = "unlink" THEN renewed \cup {l} ELSE {}
      BY <1>23 DEF Observe, Renew
    <2> HIDE DEF merged
    <2>3. \A k \in Rows \ {l} : row'[k] = row[k]
      BY <2>1 DEF RecordInv
    <2>4. \A k \in Rows \ {l} : Open(k)' => Open(k)
      BY <2>1, <2>3 DEF Open
    <2>5. ASSUME run.pc = "unlink", NEW k \in Rows \ renewed',
                 FileOf[k] = FileOf[run.row], k # run.row
          PROVE  ~Open(k)'
      <3>1. k # l /\ k \notin renewed
        BY <2>2, <2>5
      <3> QED
        BY <2>4, <2>5, <3>1 DEF ReleaseInv
    <2>6. renewed' \subseteq Rows
      BY <2>2 DEF ReleaseInv
    <2> QED
      BY <2>1, <2>5, <2>6 DEF ReleaseInv
  <1>24. ASSUME NEW a \in Attachments, PathArrives(a) PROVE ReleaseInv'
    <2>1. UNCHANGED << run, row, renewed >>
      BY <1>24 DEF PathArrives
    <2>2. \A l \in Rows : Open(l)' => Open(l)
      BY <2>1, ContentStep, BackfillAssumption DEF Open, ContentKept
    <2> QED
      BY <2>1, <2>2, ReleaseSame DEF ReleaseInv
  <1>25. ASSUME NEW a \in Attachments, TimePasses(a) PROVE ReleaseInv'
    <2>1. UNCHANGED << run, row, renewed >>
      BY <1>25 DEF TimePasses
    <2>2. \A l \in Rows : Open(l)' => Open(l)
      BY <2>1, ContentStep, BackfillAssumption DEF Open, ContentKept
    <2> QED
      BY <2>1, <2>2, ReleaseSame DEF ReleaseInv
  <1> QED
    BY <1>0, <1>1, <1>2, <1>3, <1>4, <1>5, <1>6, <1>7, <1>8, <1>9, <1>10,
       <1>11, <1>12, <1>13, <1>14, <1>15, <1>16, <1>17, <1>18, <1>19, <1>20,
       <1>21, <1>22, <1>23, <1>24, <1>25
       DEF Next, OwnPhase, AfterCopy, LocationPhase, PushingHost, World

----------------------------------------------------------------------------
(* Certain before probable.                                                 *)

\* Steps that leave attempts and certain copies alone.
LEMMA CertainSame ==
    ASSUME CertainInv, UNCHANGED certain, run'.queue = run.queue,
           run'.pc = "mark" /\ run'.row \in Flagged => UNCHANGED run
    PROVE  CertainInv'
  BY DEF CertainInv

\* A probable copy is taken when no certain one is left.
LEMMA AttemptCertain ==
    ASSUME RunInv, QueueInv, CertainInv, NEW a, NEW x, AttemptMade(a, x)
    PROVE  CertainInv'
  <1>1. x \in Attempts /\ a \in Attachments /\ x.row \in Rows /\ AttachmentOf[x.row] = a
    BY AttemptTyped
  <1>2. /\ run'.queue = [run.queue EXCEPT ![a] = @ \ {x}]
        /\ run'.att = a /\ run'.row = x.row /\ certain' = certain \ {x.row}
    BY DEF AttemptMade, Takes, Leaves, Tried, RunInv, RunFields
  <1>3. /\ run'.queue[a] = run.queue[a] \ {x}
        /\ \A b \in Attachments \ {a} : run'.queue[b] = run.queue[b]
    BY <1>1, <1>2 DEF RunInv, RunFields
  <1>4. x \in run.queue[a] /\ \A y \in run.queue[a] \ {x} : Before(x, y)
    BY DEF AttemptMade, IsNext
  <1>5. certain' \subseteq certain /\ certain' \subseteq Rows \ Flagged
    BY <1>2 DEF CertainInv
  <1>6. ASSUME NEW k \in certain'
        PROVE  \/ \E y \in run'.queue[AttachmentOf[k]] : y.row = k
               \/ \A y \in run'.queue[AttachmentOf[k]] : y.row \notin Flagged
    <2>1. AttachmentOf[k] \in Attachments
      BY <1>5, BackfillAssumption
    <2>2. CASE \E y \in run.queue[AttachmentOf[k]] : y.row = k
      BY <1>2, <1>3, <2>1, <2>2
    <2>3. CASE \A y \in run.queue[AttachmentOf[k]] : y.row \notin Flagged
      BY <1>3, <2>1, <2>3
    <2> QED
      BY <1>5, <2>2, <2>3 DEF CertainInv
  <1>7. ASSUME x.row \in Flagged, NEW k \in certain', AttachmentOf[k] = a
        PROVE  FALSE
    <2>1. k \in certain /\ k \notin Flagged
      BY <1>5
    <2>2. CASE \E y \in run.queue[a] : y.row = k
      BY <1>4, <1>7, <2>1, <2>2 DEF Before
    <2>3. CASE \A y \in run.queue[a] : y.row \notin Flagged
      BY <1>4, <1>7, <2>3
    <2> QED
      BY <1>7, <2>1, <2>2, <2>3 DEF CertainInv
  <1> QED
    BY <1>2, <1>5, <1>6, <1>7 DEF CertainInv

\* While a certain copy waits for a push, no probable one is an attempt.
LEMMA ProbableHeldBack ==
    ASSUME NEW a, NEW y \in OrderedAttempts(a), y.tier = "push", y.row \notin Flagged
    PROVE  \A x \in OrderedAttempts(a) : x.row \notin Flagged
  BY DEF OrderedAttempts

\* Every action keeps what must come first.
LEMMA CertainStep ==
    ASSUME RunInv, FilesInv, QueueInv, RecordInv, CertainInv, [Next]_vars
    PROVE  CertainInv'
  <1>0. CASE UNCHANGED vars
    BY <1>0 DEF vars, CertainInv
  <1>1. ASSUME NEW retry \in BOOLEAN, NEW full \in BOOLEAN, NEW pulls \in BOOLEAN,
               StartRun(retry, full, pulls)
        PROVE  CertainInv'
    <2>1. UNCHANGED certain /\ run'.pc = "own" /\ \A b \in Attachments : run'.queue[b] = {}
      BY <1>1 DEF StartRun, Idle
    <2>2. \A k \in certain : AttachmentOf[k] \in Attachments
      BY BackfillAssumption DEF CertainInv
    <2> QED
      BY <2>1, <2>2 DEF CertainInv
  <1>2. ASSUME NEW a \in Attachments, RefuseOwnPath(a) PROVE CertainInv'
    <2>1. UNCHANGED certain /\ run'.queue = run.queue /\ run'.pc # "mark"
      BY <1>2 DEF RefuseOwnPath, AfterEnqueue, Trying, RunInv, RunFields
    <2> QED
      BY <2>1, CertainSame
  <1>3. ASSUME NEW a \in Attachments, MarkMaterializing(a) PROVE CertainInv'
    <2>1. UNCHANGED certain /\ run'.queue = run.queue /\ run'.pc # "mark"
      BY <1>3 DEF MarkMaterializing, AfterEnqueue, Trying, RunInv, RunFields
    <2> QED
      BY <2>1, CertainSame
  <1>4. CASE ReadOwnPath
    <2>1. UNCHANGED certain /\ run'.queue = run.queue /\ run'.row = None
      BY <1>4 DEF ReadOwnPath, RunInv, RunFields
    <2>2. None \notin Flagged
      BY BackfillAssumption
    <2> QED
      BY <2>1, <2>2, CertainSame
  <1>5. CASE OwnPathUnsupported
    <2>1. UNCHANGED certain /\ run'.queue = run.queue /\ run'.pc # "mark"
      BY <1>5 DEF OwnPathUnsupported, AfterEnqueue, Trying, RunInv, RunFields
    <2> QED
      BY <2>1, CertainSame
  <1>6. CASE OwnPathFails
    <2>1. UNCHANGED certain /\ run'.queue = run.queue /\ run'.pc # "mark"
      BY <1>6 DEF OwnPathFails, AfterEnqueue, Trying, RunInv, RunFields
    <2> QED
      BY <2>1, CertainSame
  <1>7. CASE MarkMaterialized
    <2>1. /\ run'.queue = [run.queue EXCEPT ![run.att] = {}]
          /\ run'.pc = "enqueue" /\ UNCHANGED certain
      BY <1>7 DEF MarkMaterialized, RunInv, RunFields
    <2>2. \A k \in certain : AttachmentOf[k] \in Attachments
      BY BackfillAssumption DEF CertainInv
    <2>3. \A b \in Attachments : run'.queue[b] \in {run.queue[b], {}}
      BY <2>1 DEF RunInv, RunFields
    <2>4. \A k \in certain : run'.queue[AttachmentOf[k]] \in {run.queue[AttachmentOf[k]], {}}
      BY <2>2, <2>3
    <2> QED
      BY <2>1, <2>4 DEF CertainInv
  <1>8. CASE EnqueueForMaterialized
    <2>1. UNCHANGED certain /\ run'.queue = run.queue /\ run'.pc # "mark"
      BY <1>8 DEF EnqueueForMaterialized, AfterEnqueue, Trying, RunInv, RunFields
    <2> QED
      BY <2>1, CertainSame
  <1>9. CASE Release
    <2>1. UNCHANGED certain /\ run'.queue = run.queue /\ run'.pc # "mark"
      BY <1>9 DEF Release, AfterEnqueue, Trying, RunInv, RunFields
    <2> QED
      BY <2>1, CertainSame
  <1>10. CASE Unlink
    <2>1. UNCHANGED certain /\ run'.queue = run.queue /\ run'.pc # "mark"
      BY <1>10 DEF Unlink, AfterEnqueue, Trying, RunInv, RunFields
    <2> QED
      BY <2>1, CertainSame
  <1>11. CASE StartLocations
    <2>1. run'.queue = [a \in Attachments |-> AttemptsFor(a, run.read, run.pulls)]
          /\ run'.pc = "fetch"
      BY <1>11 DEF StartLocations, RunInv, RunFields
    <2>2. \A k \in certain' :
              /\ k \notin Flagged
              /\ \E a \in Attachments : \E y \in OrderedAttempts(a) :
                    y.row = k /\ (y.tier = "push" \/ y \in AttemptsFor(a, run.read, run.pulls))
      BY <1>11 DEF StartLocations
    <2>3. ASSUME NEW k \in certain'
          PROVE  /\ k \in Rows \ Flagged
                 /\ \/ \E y \in run'.queue[AttachmentOf[k]] : y.row = k
                    \/ \A y \in run'.queue[AttachmentOf[k]] : y.row \notin Flagged
      <3>1. PICK b \in Attachments : \E y \in OrderedAttempts(b) :
                y.row = k /\ (y.tier = "push" \/ y \in AttemptsFor(b, run.read, run.pulls))
        BY <2>2, <2>3
      <3>2. PICK y \in OrderedAttempts(b) :
                y.row = k /\ (y.tier = "push" \/ y \in AttemptsFor(b, run.read, run.pulls))
        BY <3>1
      <3>3. AttachmentOf[k] = b /\ k \in Rows /\ k \notin Flagged
        <4>1. y \in Attempts /\ AttachmentOf[y.row] = b
          BY <3>2, AttemptsTyped
        <4>2. k \notin Flagged
          BY <2>2, <2>3
        <4> QED
          BY <3>2, <4>1, <4>2 DEF Attempts
      <3>4. CASE y \in AttemptsFor(b, run.read, run.pulls)
        BY <2>1, <3>2, <3>3, <3>4
      <3>5. CASE y.tier = "push"
        <4>1. \A x \in OrderedAttempts(b) : x.row \notin Flagged
          BY <3>2, <3>3, <3>5, ProbableHeldBack
        <4>2. run'.queue[b] \subseteq OrderedAttempts(b)
          BY <2>1 DEF AttemptsFor
        <4> QED
          BY <3>3, <4>1, <4>2
      <3> QED
        BY <3>2, <3>3, <3>4, <3>5
    <2> QED
      BY <2>1, <2>3 DEF CertainInv
  <1>12. ASSUME NEW a \in Attachments, Try(a) PROVE CertainInv'
    BY <1>12, TryIsAttempt, AttemptCertain
  <1>13. ASSUME NEW location \in Locations, Pull(location) PROVE CertainInv'
    <2>1. UNCHANGED certain /\ run'.queue = run.queue /\ run'.pc # "mark"
      BY <1>13 DEF Pull, AfterEnqueue, Trying, RunInv, RunFields
    <2> QED
      BY <2>1, CertainSame
  <1>14. ASSUME NEW x \in run.arrived, Arrive(x) PROVE CertainInv'
    BY <1>14, ArriveIsAttempt, AttemptCertain
  <1>15. CASE EndRun
    BY <1>15 DEF EndRun, CertainInv, Idle
  <1>16. CASE KillRun
    BY <1>16 DEF KillRun, CertainInv, Idle
  <1>17. ASSUME NEW p \in Pushers, NEW roots \in SUBSET PushLocations,
               BuildPushPlan(p, roots)
        PROVE  CertainInv'
    BY <1>17, CertainSame DEF BuildPushPlan
  <1>18. ASSUME NEW p \in Pushers, NEW mounted \in SUBSET push[p].roots,
               CheckCandidates(p, mounted)
        PROVE  CertainInv'
    BY <1>18, CertainSame DEF CheckCandidates
  <1>19. ASSUME NEW p \in Pushers, NEW location \in PushLocations, Send(p, location)
        PROVE  CertainInv'
    BY <1>19, CertainSame DEF Send
  <1>20. ASSUME NEW p \in Pushers, RecordPushResults(p) PROVE CertainInv'
    BY <1>20, CertainSame DEF RecordPushResults
  <1>21. ASSUME NEW p \in Pushers, KillPush(p) PROVE CertainInv'
    BY <1>21, CertainSame DEF KillPush
  <1>22. ASSUME NEW f \in Files, FileChanges(f) PROVE CertainInv'
    BY <1>22, CertainSame DEF FileChanges
  <1>23. ASSUME NEW l \in Rows, NEW e \in Observed, Observe(l, e) PROVE CertainInv'
    BY <1>23, CertainSame DEF Observe
  <1>24. ASSUME NEW a \in Attachments, PathArrives(a) PROVE CertainInv'
    BY <1>24, CertainSame DEF PathArrives
  <1>25. ASSUME NEW a \in Attachments, TimePasses(a) PROVE CertainInv'
    BY <1>25, CertainSame DEF TimePasses
  <1> QED
    BY <1>0, <1>1, <1>2, <1>3, <1>4, <1>5, <1>6, <1>7, <1>8, <1>9, <1>10,
       <1>11, <1>12, <1>13, <1>14, <1>15, <1>16, <1>17, <1>18, <1>19, <1>20,
       <1>21, <1>22, <1>23, <1>24, <1>25
       DEF Next, OwnPhase, AfterCopy, LocationPhase, PushingHost, World

----------------------------------------------------------------------------
(* What a step may not do.                                                  *)

\* A fetched row stays so, and only the marking of its attachment fetches one.
FetchedKept == \A l \in Rows : row[l].outcome = "fetched" => row'[l].outcome = "fetched"

OnlyMarked ==
    \A l \in Rows :
        row'[l].outcome = "fetched" /\ row[l].outcome # "fetched" =>
            run.pc = "mark" /\ l = run.row

\* An attempt takes no fetched row back.
LEMMA AttemptFetches ==
    ASSUME RunInv, QueueInv, RecordInv, NEW a, NEW x, AttemptMade(a, x)
    PROVE  FetchedKept /\ OnlyMarked
  <1>1. x.row \in Rows
    BY AttemptTyped
  <1>2. CASE UNCHANGED row
    BY <1>2 DEF FetchedKept, OnlyMarked
  <1>3. CASE \E outcome \in Reports : Record(x.row, outcome)
    BY <1>1, <1>3 DEF RecordInv, Record, RowColumns, Reports, FetchedKept, OnlyMarked
  <1> QED
    BY <1>2, <1>3 DEF AttemptMade, Takes, Leaves

\* No step takes a fetched row back, and one kind of step fetches.
LEMMA FetchedStep ==
    ASSUME RunInv, FilesInv, PushInv, QueueInv, RecordInv, [Next]_vars
    PROVE  FetchedKept /\ OnlyMarked
  <1>0. CASE UNCHANGED vars
    BY <1>0 DEF vars, FetchedKept, OnlyMarked
  <1>1. ASSUME NEW retry \in BOOLEAN, NEW full \in BOOLEAN, NEW pulls \in BOOLEAN,
               StartRun(retry, full, pulls)
        PROVE  FetchedKept /\ OnlyMarked
    BY <1>1 DEF StartRun, FetchedKept, OnlyMarked
  <1>2. ASSUME NEW a \in Attachments, RefuseOwnPath(a) PROVE FetchedKept /\ OnlyMarked
    BY <1>2 DEF RefuseOwnPath, FetchedKept, OnlyMarked
  <1>3. ASSUME NEW a \in Attachments, MarkMaterializing(a) PROVE FetchedKept /\ OnlyMarked
    BY <1>3 DEF MarkMaterializing, FetchedKept, OnlyMarked
  <1>4. CASE ReadOwnPath
    BY <1>4 DEF ReadOwnPath, FetchedKept, OnlyMarked
  <1>5. CASE OwnPathUnsupported
    BY <1>5 DEF OwnPathUnsupported, FetchedKept, OnlyMarked
  <1>6. CASE OwnPathFails
    BY <1>6 DEF OwnPathFails, FetchedKept, OnlyMarked
  <1>7. CASE MarkMaterialized
    BY <1>7
       DEF MarkMaterialized, RunInv, RunFields, RecordInv, RowColumns, FetchedKept,
           OnlyMarked
  <1>8. CASE EnqueueForMaterialized
    BY <1>8 DEF EnqueueForMaterialized, FetchedKept, OnlyMarked
  <1>9. CASE Release
    BY <1>9 DEF Release, FetchedKept, OnlyMarked
  <1>10. CASE Unlink
    BY <1>10 DEF Unlink, FetchedKept, OnlyMarked
  <1>11. CASE StartLocations
    BY <1>11 DEF StartLocations, FetchedKept, OnlyMarked
  <1>12. ASSUME NEW a \in Attachments, Try(a) PROVE FetchedKept /\ OnlyMarked
    BY <1>12, TryIsAttempt, AttemptFetches
  <1>13. ASSUME NEW location \in Locations, Pull(location) PROVE FetchedKept /\ OnlyMarked
    BY <1>13 DEF Pull, FetchedKept, OnlyMarked
  <1>14. ASSUME NEW x \in run.arrived, Arrive(x) PROVE FetchedKept /\ OnlyMarked
    BY <1>14, ArriveIsAttempt, AttemptFetches
  <1>15. CASE EndRun
    BY <1>15 DEF EndRun, FetchedKept, OnlyMarked
  <1>16. CASE KillRun
    BY <1>16 DEF KillRun, FetchedKept, OnlyMarked
  <1>17. ASSUME NEW p \in Pushers, NEW roots \in SUBSET PushLocations,
               BuildPushPlan(p, roots)
        PROVE  FetchedKept /\ OnlyMarked
    BY <1>17 DEF BuildPushPlan, FetchedKept, OnlyMarked
  <1>18. ASSUME NEW p \in Pushers, NEW mounted \in SUBSET push[p].roots,
               CheckCandidates(p, mounted)
        PROVE  FetchedKept /\ OnlyMarked
    BY <1>18 DEF CheckCandidates, FetchedKept, OnlyMarked
  <1>19. ASSUME NEW p \in Pushers, NEW location \in PushLocations, Send(p, location)
        PROVE  FetchedKept /\ OnlyMarked
    BY <1>19 DEF Send, FetchedKept, OnlyMarked
  <1>20. ASSUME NEW p \in Pushers, RecordPushResults(p) PROVE FetchedKept /\ OnlyMarked
    <2> DEFINE results == push[p].results
    <2>1. row' = [l \in Rows |-> Reported(l, results)]
      BY <1>20 DEF RecordPushResults
    <2>2. push[p] \in PushFields
      BY DEF PushInv
    <2>3. PICK S \in SUBSET Rows : results \in [S -> Reports]
      BY <2>2 DEF PushFields
    <2> QED
      BY <2>1, <2>3 DEF Reported, RecordInv, RowColumns, Reports, FetchedKept, OnlyMarked
  <1>21. ASSUME NEW p \in Pushers, KillPush(p) PROVE FetchedKept /\ OnlyMarked
    BY <1>21 DEF KillPush, FetchedKept, OnlyMarked
  <1>22. ASSUME NEW f \in Files, FileChanges(f) PROVE FetchedKept /\ OnlyMarked
    BY <1>22 DEF FileChanges, FetchedKept, OnlyMarked
  <1>23. ASSUME NEW l \in Rows, NEW e \in Observed, Observe(l, e)
        PROVE  FetchedKept /\ OnlyMarked
    <2> DEFINE old == row[l].listed
               merged == [size |-> IF e.size = None THEN old.size ELSE e.size,
                          sha |-> IF e.sha = None THEN old.sha ELSE e.sha]
    <2>1. row' = [row EXCEPT ![l] = [listed |-> merged,
                     outcome |-> IF @.outcome = "fetched" THEN "fetched" ELSE "untried"]]
      BY <1>23 DEF Observe
    <2> HIDE DEF merged
    <2> QED
      BY <2>1 DEF RecordInv, FetchedKept, OnlyMarked
  <1>24. ASSUME NEW a \in Attachments, PathArrives(a) PROVE FetchedKept /\ OnlyMarked
    BY <1>24 DEF PathArrives, FetchedKept, OnlyMarked
  <1>25. ASSUME NEW a \in Attachments, TimePasses(a) PROVE FetchedKept /\ OnlyMarked
    BY <1>25 DEF TimePasses, FetchedKept, OnlyMarked
  <1> QED
    BY <1>0, <1>1, <1>2, <1>3, <1>4, <1>5, <1>6, <1>7, <1>8, <1>9, <1>10,
       <1>11, <1>12, <1>13, <1>14, <1>15, <1>16, <1>17, <1>18, <1>19, <1>20,
       <1>21, <1>22, <1>23, <1>24, <1>25
       DEF Next, OwnPhase, AfterCopy, LocationPhase, PushingHost, World

\* The staged copies that are needed.
StagedKept ==
    \A f \in Files :
        staging[f] # None /\ staging'[f] = None =>
            ~\E l \in Rows \ renewed : FileOf[l] = f /\ Open(l) /\ l # run.row

\* A copy that arrives takes no other away.
LEMMA CopiesKeep ==
    ASSUME FilesInv, NEW files, NEW reached, Copy(files, reached)
    PROVE  StagedKept
  <1>1. PICK copied \in SUBSET {f \in files : disk[f] \in Contents} :
            staging' = [f \in Files |-> IF f \in copied THEN disk[f] ELSE staging[f]]
    BY DEF Copy
  <1>2. \A f \in Files : staging'[f] = None => staging[f] = None
    BY <1>1, NoneIsNothing
  <1> QED
    BY <1>2 DEF StagedKept

\* A copy that is needed is not deleted.
LEMMA StagedStep ==
    ASSUME RunInv, FilesInv, QueueInv, ReleaseInv, [Next]_vars
    PROVE  StagedKept
  <1>0. CASE UNCHANGED vars
    BY <1>0 DEF vars, StagedKept
  <1>1. ASSUME NEW retry \in BOOLEAN, NEW full \in BOOLEAN, NEW pulls \in BOOLEAN,
               StartRun(retry, full, pulls)
        PROVE  StagedKept
    BY <1>1 DEF StartRun, StagedKept
  <1>2. ASSUME NEW a \in Attachments, RefuseOwnPath(a) PROVE StagedKept
    BY <1>2 DEF RefuseOwnPath, StagedKept
  <1>3. ASSUME NEW a \in Attachments, MarkMaterializing(a) PROVE StagedKept
    BY <1>3 DEF MarkMaterializing, StagedKept
  <1>4. CASE ReadOwnPath
    BY <1>4 DEF ReadOwnPath, StagedKept
  <1>5. CASE OwnPathUnsupported
    BY <1>5 DEF OwnPathUnsupported, StagedKept
  <1>6. CASE OwnPathFails
    BY <1>6 DEF OwnPathFails, StagedKept
  <1>7. CASE MarkMaterialized
    BY <1>7 DEF MarkMaterialized, StagedKept
  <1>8. CASE EnqueueForMaterialized
    BY <1>8 DEF EnqueueForMaterialized, StagedKept
  <1>9. CASE Release
    BY <1>9 DEF Release, StagedKept
  <1>10. CASE Unlink
    <2>1. run.pc = "unlink" /\ staging' = [staging EXCEPT ![FileOf[run.row]] = None]
      BY <1>10 DEF Unlink
    <2>2. \A f \in Files : staging[f] # None /\ staging'[f] = None => f = FileOf[run.row]
      BY <2>1 DEF FilesInv
    <2>3. \A l \in Rows \ renewed : FileOf[l] = FileOf[run.row] /\ l # run.row => ~Open(l)
      BY <2>1 DEF ReleaseInv
    <2> QED
      BY <2>2, <2>3 DEF StagedKept
  <1>11. CASE StartLocations
    BY <1>11 DEF StartLocations, StagedKept
  <1>12. ASSUME NEW a \in Attachments, Try(a) PROVE StagedKept
    BY <1>12, TryIsAttempt DEF AttemptMade, StagedKept
  <1>13. ASSUME NEW location \in Locations, Pull(location) PROVE StagedKept
    BY <1>13, CopiesKeep DEF Pull
  <1>14. ASSUME NEW x \in run.arrived, Arrive(x) PROVE StagedKept
    BY <1>14, ArriveIsAttempt DEF AttemptMade, StagedKept
  <1>15. CASE EndRun
    BY <1>15 DEF EndRun, StagedKept
  <1>16. CASE KillRun
    BY <1>16 DEF KillRun, StagedKept
  <1>17. ASSUME NEW p \in Pushers, NEW roots \in SUBSET PushLocations,
               BuildPushPlan(p, roots)
        PROVE  StagedKept
    BY <1>17 DEF BuildPushPlan, StagedKept
  <1>18. ASSUME NEW p \in Pushers, NEW mounted \in SUBSET push[p].roots,
               CheckCandidates(p, mounted)
        PROVE  StagedKept
    BY <1>18 DEF CheckCandidates, StagedKept
  <1>19. ASSUME NEW p \in Pushers, NEW location \in PushLocations, Send(p, location)
        PROVE  StagedKept
    BY <1>19, CopiesKeep DEF Send
  <1>20. ASSUME NEW p \in Pushers, RecordPushResults(p) PROVE StagedKept
    BY <1>20 DEF RecordPushResults, StagedKept
  <1>21. ASSUME NEW p \in Pushers, KillPush(p) PROVE StagedKept
    BY <1>21 DEF KillPush, StagedKept
  <1>22. ASSUME NEW f \in Files, FileChanges(f) PROVE StagedKept
    BY <1>22 DEF FileChanges, StagedKept
  <1>23. ASSUME NEW l \in Rows, NEW e \in Observed, Observe(l, e) PROVE StagedKept
    BY <1>23 DEF Observe, StagedKept
  <1>24. ASSUME NEW a \in Attachments, PathArrives(a) PROVE StagedKept
    BY <1>24 DEF PathArrives, StagedKept
  <1>25. ASSUME NEW a \in Attachments, TimePasses(a) PROVE StagedKept
    BY <1>25 DEF TimePasses, StagedKept
  <1> QED
    BY <1>0, <1>1, <1>2, <1>3, <1>4, <1>5, <1>6, <1>7, <1>8, <1>9, <1>10,
       <1>11, <1>12, <1>13, <1>14, <1>15, <1>16, <1>17, <1>18, <1>19, <1>20,
       <1>21, <1>22, <1>23, <1>24, <1>25
       DEF Next, OwnPhase, AfterCopy, LocationPhase, PushingHost, World

\* A row that is fetched and probable had no certain one beside it.
LEMMA CertainFirstStep ==
    ASSUME RunInv, CertainInv, OnlyMarked
    PROVE  \A l \in Flagged :
               row'[l].outcome = "fetched" /\ row[l].outcome # "fetched" =>
                   ~\E k \in certain : AttachmentOf[k] = AttachmentOf[l]
  <1>1. Flagged \subseteq Rows
    BY BackfillAssumption
  <1>2. ASSUME NEW l \in Flagged, run.pc = "mark", l = run.row, NEW k \in certain
        PROVE  AttachmentOf[k] # AttachmentOf[l]
    BY <1>1, <1>2, NoneIsNothing DEF RunInv, CertainInv
  <1> QED
    BY <1>1, <1>2 DEF OnlyMarked

----------------------------------------------------------------------------
(* The theorems.                                                            *)

\* The invariant holds in the beginning
LEMMA InitInv ==
    ASSUME Init
    PROVE  IInv
  <1> USE DEF Init
  <1>1. run = Idle /\ run.pc = "idle" /\ run.todo = {} /\ run.arrived = {}
        /\ \A a \in Attachments : run.queue[a] = {}
    BY DEF Idle
  <1>2. RunInv
    BY <1>1, IdleTyped DEF RunInv
  <1>3. FilesInv
    BY BackfillAssumption DEF FilesInv
  <1>4. PushInv
    BY NoPushTyped DEF PushInv
  <1>5. att \in [Attachments -> AttColumns]
    <2> DEFINE yes == {TRUE}
    <2>1. yes \subseteq BOOLEAN
      OBVIOUS
    <2>2. att \in [Attachments ->
                      [state: {"dataless", "missing"}, path: {"none", "inside", "outside"},
                       attempts: {0}, due: yes, hash: {None}]]
      OBVIOUS
    <2> HIDE DEF yes
    <2>3. \A t \in [state: {"dataless", "missing"}, path: {"none", "inside", "outside"},
                    attempts: {0}, due: yes, hash: {None}] : t \in AttColumns
      BY <2>1 DEF AttColumns, AttStates, PendingStates
    <2> HIDE DEF Init
    <2> QED
      BY <2>2, <2>3
  <1>6. LadderInv
    <2>1. \A a \in Attachments : /\ att[a].state \in {"dataless", "missing"}
                                 /\ att[a].attempts = 0 /\ tries[a] = {}
                                 /\ att[a].path # "none" => att[a].state = "dataless"
      OBVIOUS
    <2>2. \A a \in Attachments : OnLadder(att[a], tries[a])
      BY <2>1, FS_EmptySet, LadderNumbers DEF OnLadder
    <2> HIDE DEF OnLadder
    <2> QED
      BY <1>1, <1>5, <2>2 DEF LadderInv
  <1>7. QueueInv
    BY <1>1 DEF QueueInv
  <1>8. RecordInv
    <2>1. row \in [Rows -> RowColumns]
      BY BackfillAssumption DEF RowColumns, RowOutcomes, NoListing, Listings
    <2>2. \A l \in Rows : row[l].outcome # "fetched"
      OBVIOUS
    <2>3. \A a \in Attachments : att[a].state # "materialized"
      OBVIOUS
    <2> QED
      BY <1>1, <2>1, <2>2, <2>3 DEF RecordInv
  <1>9. ReleaseInv /\ CertainInv
    BY <1>1 DEF ReleaseInv, CertainInv
  <1> QED
    BY <1>2, <1>3, <1>4, <1>6, <1>7, <1>8, <1>9 DEF IInv

\* and after every step.
LEMMA IInvStep ==
    ASSUME IInv, [Next]_vars
    PROVE  IInv'
  <1>1. RunInv /\ FilesInv /\ PushInv /\ LadderInv /\ QueueInv /\ RecordInv /\ ReleaseInv
        /\ CertainInv
    BY DEF IInv
  <1> QED
    BY <1>1, RunStep, FilesStep, PushStep, LadderStep, QueueStep, RecordStep, ReleaseStep,
       CertainStep
    DEF IInv

\* What holds of the run, the rows and the copies at every moment.
THEOREM InductiveInvariant == Spec => []IInv
  BY InitInv, IInvStep, PTL DEF Spec

\* Every variable has its type, and an attachment's content, its fetched row
\* and its tasks go together.
THEOREM TypeCorrect == Spec => []TypeOK
  <1>1. ASSUME IInv PROVE TypeOK
    <2> USE <1>1 DEF IInv
    <2>1. att \in [Attachments ->
              [state: {"dataless", "materializing", "materialized", "error", "missing",
                       "unsupported"},
               path: {"none", "inside", "outside"}, attempts: Nat, due: BOOLEAN,
               hash: Contents \cup {None}]]
      <3>1. AttStates = {"dataless", "materializing", "materialized", "error", "missing",
                         "unsupported"}
        BY DEF AttStates, PendingStates
      <3> QED
        BY <3>1 DEF LadderInv, AttColumns
    <2>2. row \in [Rows -> [listed: Listings,
                            outcome: OpenOutcomes \cup {"unknown", "rejected", "absent",
                                                        "refused", "fetched"}]]
      <3>1. RowOutcomes = OpenOutcomes \cup {"unknown", "rejected", "absent", "refused",
                                             "fetched"}
        BY DEF RowOutcomes, Reports, OpenOutcomes
      <3> QED
        BY <3>1 DEF RecordInv, RowColumns
    <2>3. /\ disk \in [Files -> Held]
          /\ staging \in [Files -> Contents \cup {None}]
          /\ cache \subseteq Contents
      BY DEF FilesInv
    <2>4. /\ \A a \in queued : att[a].state = "materialized"
          /\ \A a \in Attachments : att[a].state = "materialized" => att[a].hash \in cache
          /\ \A l \in Rows :
                row[l].outcome = "fetched" => att[AttachmentOf[l]].state = "materialized"
      BY DEF RecordInv
    <2>5. run.pc \in {"idle", "own", "reading", "mark", "enqueue", "release", "unlink", "fetch"}
      BY DEF RunInv, RunFields, Points
    <2>6. ASSUME NEW p \in Pushers
          PROVE  /\ push[p].pc \in {"idle", "planned", "sending"}
                 /\ push[p].picks \cup DOMAIN push[p].results \subseteq Rows
      <3>1. push[p] \in PushFields
        BY DEF PushInv
      <3>2. PICK S \in SUBSET Rows : push[p].results \in [S -> Reports]
        BY <3>1 DEF PushFields
      <3> QED
        BY <3>1, <3>2 DEF PushFields
    <2>7. certain \cup renewed \subseteq Rows
      BY DEF ReleaseInv, CertainInv
    <2> QED
      BY <2>1, <2>2, <2>3, <2>4, <2>5, <2>6, <2>7 DEF TypeOK
  <1> QED
    BY <1>1, InductiveInvariant, PTL

\* An attachment that was given up as missing was tried MaxAttempts times, in
\* as many runs, since it was last put back on the ladder.
THEOREM GivenUpAfterItsRuns == Spec => []MissingAfterItsRuns
  <1>1. IInv => MissingAfterItsRuns
    BY DEF IInv, LadderInv, OnLadder, PendingStates, MissingAfterItsRuns
  <1> QED
    BY <1>1, InductiveInvariant, PTL

\* What has been fetched stays fetched, with the same content.
THEOREM FetchedForGood == Spec => FinalOnceFetched
  <1>1. IInv /\ [Next]_vars => ContentKept /\ FetchedKept
    BY ContentStep, FetchedStep DEF IInv
  <1>2. ContentKept /\ FetchedKept =>
            /\ \A a \in Attachments :
                  att[a].state = "materialized" =>
                      att'[a].state = "materialized" /\ att'[a].hash = att[a].hash
            /\ \A l \in Rows : row[l].outcome = "fetched" => row'[l].outcome = "fetched"
    BY DEF ContentKept, FetchedKept
  <1> QED
    BY <1>1, <1>2, InductiveInvariant, PTL DEF Spec, FinalOnceFetched

\* No staged copy is deleted that the run's look had found a use for.
THEOREM StagedFilesAreKept == Spec => StagedKeptWhileNeeded
  <1>1. IInv /\ [Next]_vars => StagedKept
    BY StagedStep DEF IInv
  <1>2. StagedKept =>
            \A f \in Files :
                staging[f] # None /\ staging'[f] = None =>
                    ~\E l \in Rows \ renewed : FileOf[l] = f /\ Open(l) /\ l # run.row
    BY DEF StagedKept
  <1> QED
    BY <1>1, <1>2, InductiveInvariant, PTL DEF Spec, StagedKeptWhileNeeded

\* A probable copy becomes a content only when no certain one is left.
THEOREM CertainFirst == Spec => CertainBeforeProbable
  <1>1. IInv /\ [Next]_vars =>
            \A l \in Flagged :
                row'[l].outcome = "fetched" /\ row[l].outcome # "fetched" =>
                    ~\E k \in certain : AttachmentOf[k] = AttachmentOf[l]
    BY FetchedStep, CertainFirstStep DEF IInv
  <1> QED
    BY <1>1, InductiveInvariant, PTL DEF Spec, CertainBeforeProbable

=============================================================================
