----------------------------- MODULE ExportRun -----------------------------
(***************************************************************************)
(* The export gate (imsg.export): `plan` renders the documents of every    *)
(* eligible chat, compares them with what was recorded as pushed and       *)
(* stages the difference as a run; `approve` is the owner's word for one   *)
(* run; `push` verifies the run against the live database and promotes it  *)
(* through a transport to a bucket and an index; `purge-person` revokes a  *)
(* person and plans the run that retracts them.                            *)
(*                                                                         *)
(* plan and purge-person run in one transaction (READ COMMITTED), so what  *)
(* they read in two statements may differ; push runs in autocommit, so it  *)
(* may die between any two of its statements.  Between all of these the    *)
(* owner edits the allowlist and the configuration, and the pipeline       *)
(* changes the corpus.                                                     *)
(***************************************************************************)
EXTENDS Naturals, FiniteSets

CONSTANTS
    People,       \* everyone a deny rule may find in a chat, unresolved senders too
    Chats,
    Segments,     \* each is one document
    Attachments,  \* each is one attachment-chunk document of its segment
    ChatOf,       \* a segment's chat
    SegmentOf,    \* an attachment's segment
    SenderOf,     \* who sent it
    MimeOf,       \* and its type
    FirstMembers, \* each chat's people in the beginning
    FirstAllowed, \* and each person's level
    MayRevoke,    \* whom `imsg export purge-person` is called for
    Pushers,      \* `imsg export push` processes
    MaxRuns,      \* bound: rows of export_run
    MaxChanges,   \* bound: changes of the corpus, the allowlist and the configuration
    MaxFaults,    \* bound: failed calls of the transport and killed pushes
    None          \* no document

Documents == Segments \cup Attachments
Runs == 1 .. MaxRuns

Levels == {"none", "text", "all"}   \* text_allowed and attachments_allowed

SegmentOfDocument(d) == IF d \in Segments THEN d ELSE SegmentOf[d]
ChatOfDocument(d) == ChatOf[SegmentOfDocument(d)]

ASSUME ExportAssumption ==
    /\ Segments \cap Attachments = {}
    /\ ChatOf \in [Segments -> Chats]
    /\ SegmentOf \in [Attachments -> Segments]
    /\ SenderOf \in [Attachments -> People]
    /\ DOMAIN MimeOf = Attachments
    /\ FirstMembers \in [Chats -> SUBSET People]
    /\ FirstAllowed \in [People -> Levels]
    /\ MayRevoke \subseteq People
    /\ MaxRuns \in Nat
    /\ MaxChanges \in Nat
    /\ MaxFaults \in Nat

\* What a document says: which edit of its messages, which attachments with
\* their content, and whom it names.
Text == [edit: Nat, attachments: SUBSET Attachments, people: SUBSET People]

ASSUME NoneAssumption == None \notin Text

VARIABLES
    allowed,   \* allowlist_person: each person's level
    members,   \* the people of each chat
    live,      \* the segments there are
    edit,      \* how often a segment's messages were edited or unsent
    linked,    \* attachments whose message is exportable
    config,    \* export_config_sha256 of the configuration
    changes,   \* how many of these changes there were
    status,    \* export_run: each run's status, or "none"
    mode, snapshot, pinned, approved,   \* its mode, allowlist, configuration, approval
    upserts, deletes,                   \* its manifest, as staged
    item,      \* export_run_item.result_state
    recorded,  \* export_document: the text recorded as pushed, or None
    store,     \* the bucket's text of each document and whether the index lists it
    plan,      \* the plan being made, if any
    at, run,   \* where each push is, and of which run
    seen,      \* the item states it has read
    todo,      \* the documents it has yet to upload or delete
    sent,      \* those it has uploaded and not recorded
    refused,   \* those of them whose import failed
    faults,    \* how many faults there were
    fresh,     \* pushes since whose verification nothing has changed
    current,   \* runs since whose planning nothing has changed
    loose      \* documents touched in the store and not recorded since

world == << allowed, members, live, edit, linked, config, changes >>
runRows == << status, mode, snapshot, pinned, approved, upserts, deletes >>
push == << at, run, seen, todo, sent, refused >>
vars == << world, runRows, item, recorded, store, plan, push, faults, fresh, current, loose >>

Absent == [text |-> None, listed |-> FALSE]
NoPlan == [mode |-> "none", who |-> None, pinned |-> 0, upserts |-> << >>, deletes |-> {}]

Init ==
    /\ allowed = FirstAllowed
    /\ members = FirstMembers
    /\ live = Segments
    /\ edit = [s \in Segments |-> 0]
    /\ linked = Attachments
    /\ config = 0
    /\ changes = 0
    /\ status = [r \in Runs |-> "none"]
    /\ mode = [r \in Runs |-> "none"]
    /\ snapshot = [r \in Runs |-> allowed]
    /\ pinned = [r \in Runs |-> 0]
    /\ approved = [r \in Runs |-> FALSE]
    /\ upserts = [r \in Runs |-> << >>]
    /\ deletes = [r \in Runs |-> {}]
    /\ item = [r \in Runs |-> [d \in Documents |-> "none"]]
    /\ recorded = [d \in Documents |-> None]
    /\ store = [d \in Documents |-> Absent]
    /\ plan = NoPlan
    /\ at = [p \in Pushers |-> "idle"]
    /\ run = [p \in Pushers |-> 0]
    /\ seen = [p \in Pushers |-> [d \in Documents |-> "none"]]
    /\ todo = [p \in Pushers |-> {}]
    /\ sent = [p \in Pushers |-> {}]
    /\ refused = [p \in Pushers |-> {}]
    /\ faults = 0
    /\ fresh = {}
    /\ current = {}
    /\ loose = {}

----------------------------------------------------------------------------
(* Eligibility: default deny, one person who is not allowed excludes the   *)
(* chat; an attachment's content needs its sender's own flag.              *)

EligibleChat(allowlist, c) ==
    /\ members[c] # {}
    /\ \A p \in members[c] : allowlist[p] # "none"

EligibleAttachment(allowlist, a) ==
    /\ a \in linked
    /\ allowlist[SenderOf[a]] = "all"

Desired(allowlist) ==
    {d \in Documents :
        /\ SegmentOfDocument(d) \in live
        /\ EligibleChat(allowlist, ChatOfDocument(d))
        /\ d \in Attachments => EligibleAttachment(allowlist, d)}

EligibleAttachments(allowlist, d) ==
    IF d \in Attachments
    THEN {d}
    ELSE {a \in Attachments : SegmentOf[a] = d /\ EligibleAttachment(allowlist, a)}

Rendered(allowlist, d) ==
    [edit |-> IF d \in Segments THEN edit[d] ELSE 0,
     attachments |-> EligibleAttachments(allowlist, d),
     people |-> members[ChatOfDocument(d)]]

----------------------------------------------------------------------------
(* The world changes: what was verified, and what was planned, is old.     *)

Changed ==
    /\ changes < MaxChanges
    /\ changes' = changes + 1
    /\ fresh' = {}
    /\ current' = {}
    /\ UNCHANGED << runRows, item, recorded, store, plan, push, loose, faults >>

\* A purge holds the row it revokes until it commits.
Classify(p, level) ==
    /\ plan.who # p
    /\ level # allowed[p]
    /\ allowed' = [allowed EXCEPT ![p] = level]
    /\ Changed
    /\ UNCHANGED << members, live, edit, linked, config >>

Join(c, p) ==
    /\ p \notin members[c]
    /\ members' = [members EXCEPT ![c] = @ \cup {p}]
    /\ Changed
    /\ UNCHANGED << allowed, live, edit, linked, config >>

\* An unknown handle turns out to be someone who is there already.
Resolve(c, p) ==
    /\ p \in members[c]
    /\ members' = [members EXCEPT ![c] = @ \ {p}]
    /\ Changed
    /\ UNCHANGED << allowed, live, edit, linked, config >>

Edit(s) ==
    /\ s \in live
    /\ edit' = [edit EXCEPT ![s] = @ + 1]
    /\ Changed
    /\ UNCHANGED << allowed, members, live, linked, config >>

Withdraw(a) ==
    /\ a \in linked
    /\ linked' = linked \ {a}
    /\ Changed
    /\ UNCHANGED << allowed, members, live, edit, config >>

Resegment(s) ==
    /\ s \in live
    /\ live' = live \ {s}
    /\ Changed
    /\ UNCHANGED << allowed, members, edit, linked, config >>

Reconfigure ==
    /\ config' = config + 1
    /\ Changed
    /\ UNCHANGED << allowed, members, live, edit, linked >>

----------------------------------------------------------------------------
(* plan and purge-person: the documents and the recorded state are read,   *)
(* then the allowlist is, and the run is inserted; all of it, and a        *)
(* purge's revocation, is seen at the commit.                              *)

Revoked(p) == [allowed EXCEPT ![p] = "none"]

\* Mutant: the hash of a document leaves out its header and its attachments.
ReconcileBodies(allowlist) ==
    LET desired == Desired(allowlist)
        Same(d) == recorded[d] # None /\ recorded[d].edit = Rendered(allowlist, d).edit
    IN  [upserts |-> [d \in {e \in desired : ~ Same(e)} |-> Rendered(allowlist, d)],
         deletes |-> {d \in Documents \ desired : recorded[d] # None}]

Reconcile(allowlist) ==
    LET desired == Desired(allowlist)
    IN  [upserts |-> [d \in {e \in desired : recorded[e] # Rendered(allowlist, e)}
                        |-> Rendered(allowlist, d)],
         deletes |-> {d \in Documents \ desired : recorded[d] # None}]

ReadForPlan(m, who, allowlist) ==
    LET difference == Reconcile(allowlist)
    IN  /\ plan = NoPlan
        /\ \E r \in Runs : status[r] = "none"
        /\ plan' = [mode |-> m, who |-> who, pinned |-> config,
                    upserts |-> difference.upserts, deletes |-> difference.deletes]
        /\ UNCHANGED << world, runRows, item, recorded, store, push, fresh, current, loose, faults >>

StartPlan == ReadForPlan("reconcile", None, allowed)

StartPurge(p) == ReadForPlan("purge", p, Revoked(p))

Items ==
    [d \in Documents |-> IF d \in DOMAIN plan.upserts \cup plan.deletes
                         THEN "staged" ELSE "none"]

\* A purge's revocation is a change of the world for everyone else.
CommitPlan(r) ==
    LET allowlist == IF plan.mode = "purge" THEN Revoked(plan.who) ELSE allowed
        same == Reconcile(allowlist) = [upserts |-> plan.upserts, deletes |-> plan.deletes]
    IN  /\ plan # NoPlan
        /\ status[r] = "none"
        /\ \A q \in 1 .. r - 1 : status[q] # "none"
        /\ allowed' = allowlist
        /\ status' = [status EXCEPT ![r] = "planned"]
        /\ mode' = [mode EXCEPT ![r] = plan.mode]
        /\ snapshot' = [snapshot EXCEPT ![r] = allowlist]
        /\ pinned' = [pinned EXCEPT ![r] = plan.pinned]
        /\ upserts' = [upserts EXCEPT ![r] = plan.upserts]
        /\ deletes' = [deletes EXCEPT ![r] = plan.deletes]
        /\ item' = [item EXCEPT ![r] = Items]
        /\ plan' = NoPlan
        /\ fresh' = IF allowlist = allowed THEN fresh ELSE {}
        /\ current' = (IF allowlist = allowed THEN current ELSE {})
                          \cup (IF same THEN {r} ELSE {})
        /\ UNCHANGED << members, live, edit, linked, config, changes, approved,
                        recorded, store, push, loose, faults >>

\* Killed, or refused: the transaction is rolled back.
AbandonPlan ==
    /\ plan # NoPlan
    /\ plan' = NoPlan
    /\ UNCHANGED << world, runRows, item, recorded, store, push, fresh, current, loose, faults >>

----------------------------------------------------------------------------
(* approve                                                                 *)

Approve(r) ==
    /\ status[r] = "planned"
    /\ approved' = [approved EXCEPT ![r] = TRUE]
    /\ UNCHANGED << world, status, mode, snapshot, pinned, upserts, deletes, item,
                    recorded, store, plan, push, fresh, current, loose, faults >>

ExactlyOk == {r \in Runs : status[r] = "ok"}
LastOk == CHOOSE r \in ExactlyOk : \A q \in ExactlyOk : q <= r

\* Mutant: a thread counts as known from the run before, pushed or not.
KnownChats == {ChatOfDocument(d) : d \in {e \in Documents :
                   /\ SegmentOfDocument(e) \in live
                   /\ \E r \in Runs : item[r][e] # "none"}}

PushedChats == {ChatOfDocument(d) : d \in {e \in Documents :
                    recorded[e] # None /\ SegmentOfDocument(e) \in live}}
PushedMimes == {MimeOf[a] : a \in {b \in Attachments : recorded[b] # None}}

\* compute_approval_requirements: is there a reason to ask the owner?
NeedsApproval(r) ==
    /\ mode[r] # "purge"
    /\ LET planned == DOMAIN upserts[r]
       IN  \/ ExactlyOk = {}
           \/ deletes[r] # {}
           \/ \E d \in planned, p \in People :
                  /\ p \in upserts[r][d].people
                  /\ snapshot[LastOk][p] = "none"
           \/ \E d \in planned : ChatOfDocument(d) \notin PushedChats
           \/ \E a \in planned \cap Attachments : MimeOf[a] \notin PushedMimes
           \/ pinned[r] # pinned[LastOk]

----------------------------------------------------------------------------
(* push                                                                    *)

Pushable == {"planned", "pushing", "failed"}

\* Mutant: only the chats are looked at again, not the attachments.
ChatsStillEligible(r) ==
    \A d \in DOMAIN upserts[r] :
        /\ SegmentOfDocument(d) \in live
        /\ EligibleChat(allowed, ChatOfDocument(d))

\* _verify_eligibility_unchanged
StillEligible(r) ==
    \A d \in DOMAIN upserts[r] :
        /\ d \in Desired(allowed)
        /\ upserts[r][d].attachments = EligibleAttachments(allowed, d)

Verify(p, r) ==
    /\ at[p] = "idle"
    /\ status[r] \in Pushable
    /\ config = pinned[r]
    /\ allowed = snapshot[r]
    /\ NeedsApproval(r) => approved[r]
    /\ StillEligible(r)
    /\ at' = [at EXCEPT ![p] = "verified"]
    /\ run' = [run EXCEPT ![p] = r]
    /\ fresh' = fresh \cup {p}
    /\ UNCHANGED << world, runRows, item, recorded, store, plan, seen, todo, sent,
                    refused, current, loose, faults >>

\* The status is set, then the item states are read, once.
StartPush(p) ==
    LET r == run[p]
    IN  /\ at[p] = "verified"
        /\ status' = [status EXCEPT ![r] = "pushing"]
        /\ seen' = [seen EXCEPT ![p] = item[r]]
        /\ todo' = [todo EXCEPT ![p] = {d \in DOMAIN upserts[r] : item[r][d] # "pushed"}]
        /\ at' = [at EXCEPT ![p] = "upload"]
        /\ current' = current \cap {r}
        /\ UNCHANGED << world, mode, snapshot, pinned, approved, upserts, deletes, item,
                        recorded, store, plan, run, sent, refused, fresh, loose, faults >>

Mark(r, ds, state) ==
    item' = [item EXCEPT ![r] = [d \in Documents |-> IF d \in ds THEN state ELSE @[d]]]

Fault ==
    /\ faults < MaxFaults
    /\ faults' = faults + 1

Upload(p, d) ==
    /\ at[p] = "upload"
    /\ d \in todo[p]
    /\ todo' = [todo EXCEPT ![p] = @ \ {d}]
    /\ sent' = [sent EXCEPT ![p] = @ \cup {d}]
    /\ store' = [store EXCEPT ![d].text = upserts[run[p]][d]]
    /\ loose' = loose \cup {d}
    /\ current' = current \cap {run[p]}
    /\ UNCHANGED << world, runRows, item, recorded, plan, at, run, seen, refused,
                    fresh, faults >>

\* A TransportError; the object may be there all the same.
UploadFails(p, d) ==
    /\ at[p] = "upload"
    /\ d \in todo[p]
    /\ todo' = [todo EXCEPT ![p] = @ \ {d}]
    /\ store' \in {store, [store EXCEPT ![d].text = upserts[run[p]][d]]}
    /\ loose' = loose \cup {d}
    /\ Mark(run[p], {d}, "failed")
    /\ current' = current \cap {run[p]}
    /\ Fault
    /\ UNCHANGED << world, runRows, recorded, plan, at, run, seen, sent, refused,
                    fresh >>

\* One batch: the documents it reports as failed, all of them when the call
\* raises, may have been imported all the same.
Import(p, failed, all) ==
    /\ at[p] = "upload"
    /\ todo[p] = {}
    /\ sent[p] # {}
    /\ failed \subseteq sent[p]
    /\ sent[p] \ failed \subseteq all
    /\ all \subseteq sent[p]
    /\ store' = [d \in Documents |-> IF d \in all THEN [store[d] EXCEPT !.listed = TRUE]
                                                  ELSE store[d]]
    /\ refused' = [refused EXCEPT ![p] = failed]
    /\ at' = [at EXCEPT ![p] = "record"]
    /\ current' = current \cap {run[p]}
    /\ IF failed = {} THEN UNCHANGED faults ELSE Fault
    /\ UNCHANGED << world, runRows, item, recorded, plan, run, seen, todo, sent,
                    fresh, loose >>

RecordFailed(p, d) ==
    /\ at[p] = "record"
    /\ d \in refused[p]
    /\ Mark(run[p], {d}, "failed")
    /\ sent' = [sent EXCEPT ![p] = @ \ {d}]
    /\ refused' = [refused EXCEPT ![p] = @ \ {d}]
    /\ UNCHANGED << world, runRows, recorded, store, plan, at, run, seen, todo,
                    fresh, current, loose, faults >>

\* Two statements: the item, then the document.
RecordItem(p, d) ==
    /\ at[p] = "record"
    /\ d \in sent[p] \ refused[p]
    /\ Mark(run[p], {d}, "pushed")
    /\ todo' = [todo EXCEPT ![p] = {d}]
    /\ at' = [at EXCEPT ![p] = "pushed"]
    /\ UNCHANGED << world, runRows, recorded, store, plan, run, seen, sent, refused,
                    fresh, current, loose, faults >>

RecordDocument(p, d) ==
    /\ at[p] = "pushed"
    /\ d \in todo[p]
    /\ recorded' = [recorded EXCEPT ![d] = upserts[run[p]][d]]
    /\ todo' = [todo EXCEPT ![p] = {}]
    /\ sent' = [sent EXCEPT ![p] = @ \ {d}]
    /\ at' = [at EXCEPT ![p] = "record"]
    /\ loose' = loose \ {d}
    /\ current' = current \cap {run[p]}
    /\ UNCHANGED << world, runRows, item, store, plan, run, seen, refused, fresh, faults >>

StartDeletes(p) ==
    /\ at[p] \in {"upload", "record"}
    /\ todo[p] = {}
    /\ sent[p] = {}
    /\ todo' = [todo EXCEPT ![p] = {d \in deletes[run[p]] : seen[p][d] # "deleted"}]
    /\ at' = [at EXCEPT ![p] = "delete"]
    /\ UNCHANGED << world, runRows, item, recorded, store, plan, run, seen, sent, refused,
                    fresh, current, loose, faults >>

\* Mutant: what is gone has no entry at all.
AfterDeleteOfObject(d) ==
    {store, [store EXCEPT ![d] = None]}

\* The index first, then the bucket; an error may come before, between or
\* after, and a deletion may report success and have no effect.
AfterDelete(d) ==
    {store, [store EXCEPT ![d].listed = FALSE], [store EXCEPT ![d] = Absent]}

DeleteFails(p, d) ==
    /\ at[p] = "delete"
    /\ d \in todo[p]
    /\ todo' = [todo EXCEPT ![p] = @ \ {d}]
    /\ store' \in AfterDelete(d)
    /\ loose' = loose \cup {d}
    /\ Mark(run[p], {d}, "failed")
    /\ current' = current \cap {run[p]}
    /\ Fault
    /\ UNCHANGED << world, runRows, recorded, plan, at, run, seen, sent, refused,
                    fresh >>

\* Mutant: a deletion that reports success is believed.
DeleteUnchecked(p, d) ==
    /\ at[p] = "delete"
    /\ d \in todo[p]
    /\ store' \in AfterDelete(d)
    /\ sent' = [sent EXCEPT ![p] = {d}]
    /\ at' = [at EXCEPT ![p] = "absent"]
    /\ loose' = loose \cup {d}
    /\ current' = current \cap {run[p]}
    /\ UNCHANGED << world, runRows, item, recorded, plan, run, seen, todo, refused,
                    fresh, faults >>

\* document_absent confirms it.
Delete(p, d) ==
    /\ at[p] = "delete"
    /\ d \in todo[p]
    /\ store' \in AfterDelete(d)
    /\ store'[d] = Absent
    /\ sent' = [sent EXCEPT ![p] = {d}]
    /\ at' = [at EXCEPT ![p] = "absent"]
    /\ loose' = loose \cup {d}
    /\ current' = current \cap {run[p]}
    /\ UNCHANGED << world, runRows, item, recorded, plan, run, seen, todo, refused,
                    fresh, faults >>

RecordDeleted(p, d) ==
    /\ at[p] = "absent"
    /\ d \in sent[p]
    /\ Mark(run[p], {d}, "deleted")
    /\ at' = [at EXCEPT ![p] = "deleted"]
    /\ UNCHANGED << world, runRows, recorded, store, plan, run, seen, todo, sent, refused,
                    fresh, current, loose, faults >>

RecordPurged(p, d) ==
    /\ at[p] = "deleted"
    /\ d \in sent[p]
    /\ recorded' = [recorded EXCEPT ![d] = None]
    /\ todo' = [todo EXCEPT ![p] = @ \ {d}]
    /\ sent' = [sent EXCEPT ![p] = {}]
    /\ at' = [at EXCEPT ![p] = "delete"]
    /\ loose' = loose \ {d}
    /\ current' = current \cap {run[p]}
    /\ UNCHANGED << world, runRows, item, store, plan, run, seen, refused, fresh, faults >>

Leave(p) ==
    /\ at' = [at EXCEPT ![p] = "idle"]
    /\ run' = [run EXCEPT ![p] = 0]
    /\ seen' = [seen EXCEPT ![p] = [d \in Documents |-> "none"]]
    /\ todo' = [todo EXCEPT ![p] = {}]
    /\ sent' = [sent EXCEPT ![p] = {}]
    /\ refused' = [refused EXCEPT ![p] = {}]
    /\ fresh' = fresh \ {p}

Finish(p) ==
    LET r == run[p]
        remaining == {d \in Documents : item[r][d] \in {"staged", "failed"}}
    IN  /\ at[p] = "delete"
        /\ todo[p] = {}
        /\ status' = [status EXCEPT ![r] = IF remaining = {} THEN "ok" ELSE "failed"]
        /\ Leave(p)
        /\ UNCHANGED << world, mode, snapshot, pinned, approved, upserts, deletes, item,
                        recorded, store, plan, current, loose, faults >>

\* Killed, or an exception that is not a TransportError.
Crash(p) ==
    /\ at[p] # "idle"
    /\ Leave(p)
    /\ Fault
    /\ UNCHANGED << world, runRows, item, recorded, store, plan, current, loose >>

----------------------------------------------------------------------------

WorldStep ==
    \/ \E p \in People, level \in Levels : Classify(p, level)
    \/ \E c \in Chats, p \in People : Join(c, p) \/ Resolve(c, p)
    \/ \E s \in Segments : Edit(s)
    \/ \E a \in Attachments : Withdraw(a)
    \/ \E s \in Segments : Resegment(s)
    \/ Reconfigure

OwnerStep ==
    \/ StartPlan
    \/ \E p \in MayRevoke : StartPurge(p)
    \/ AbandonPlan
    \/ \E r \in Runs : CommitPlan(r) \/ Approve(r)

PushStep(p) ==
    \/ \E r \in Runs : Verify(p, r)
    \/ StartPush(p)
    \/ \E d \in Documents :
           \/ Upload(p, d)
           \/ UploadFails(p, d)
           \/ RecordFailed(p, d)
           \/ RecordItem(p, d)
           \/ RecordDocument(p, d)
           \/ Delete(p, d)
           \/ DeleteFails(p, d)
           \/ RecordDeleted(p, d)
           \/ RecordPurged(p, d)
    \/ \E failed, all \in SUBSET Documents : Import(p, failed, all)
    \/ StartDeletes(p)
    \/ Finish(p)
    \/ Crash(p)

Next == WorldStep \/ OwnerStep \/ \E p \in Pushers : PushStep(p)

Spec == Init /\ [][Next]_vars

----------------------------------------------------------------------------
(* Properties                                                              *)

\* Every variable has its type.
TypeOK ==
    /\ allowed \in [People -> Levels]
    /\ members \in [Chats -> SUBSET People]
    /\ live \subseteq Segments
    /\ edit \in [Segments -> Nat]
    /\ linked \subseteq Attachments
    /\ config \in Nat
    /\ changes \in 0 .. MaxChanges
    /\ faults \in 0 .. MaxFaults
    /\ status \in [Runs -> {"none", "planned", "pushing", "failed", "ok"}]
    /\ mode \in [Runs -> {"none", "reconcile", "purge"}]
    /\ snapshot \in [Runs -> [People -> Levels]]
    /\ pinned \in [Runs -> Nat]
    /\ approved \in [Runs -> BOOLEAN]
    /\ DOMAIN upserts = Runs
    /\ \A r \in Runs : /\ DOMAIN upserts[r] \subseteq Documents
                       /\ \A d \in DOMAIN upserts[r] : upserts[r][d] \in Text
    /\ deletes \in [Runs -> SUBSET Documents]
    /\ item \in [Runs -> [Documents -> {"none", "staged", "pushed", "deleted", "failed"}]]
    /\ recorded \in [Documents -> Text \cup {None}]
    /\ store \in [Documents -> [text: Text \cup {None}, listed: BOOLEAN]]
    /\ at \in [Pushers -> {"idle", "verified", "upload", "record", "pushed", "delete",
                           "absent", "deleted"}]
    /\ run \in [Pushers -> Runs \cup {0}]
    /\ todo \in [Pushers -> SUBSET Documents]
    /\ sent \in [Pushers -> SUBSET Documents]
    /\ refused \in [Pushers -> SUBSET Documents]
    /\ fresh \subseteq Pushers
    /\ current \subseteq Runs
    /\ loose \subseteq Documents

Planned(r) == {ChatOfDocument(d) : d \in DOMAIN upserts[r]}

\* The chats the owner has approved the export of.
ApprovedChats == UNION {Planned(r) : r \in {q \in Runs : approved[q]}}
PurgeChats == UNION {Planned(r) : r \in {q \in Runs : mode[q] = "purge"}}
StoredDocuments == {d \in Documents : store[d].text # None}

\* A chat is in the bucket only because some run that was approved, or a
\* purge, planned a document of it: content updates that go out without a
\* fresh approval never reach a thread nobody looked at, whatever runs
\* failed, were retried or were pushed out of order (_verify_pushable,
\* compute_approval_requirements).
ScopeApproved ==
    \A d \in StoredDocuments : ChatOfDocument(d) \in ApprovedChats \cup PurgeChats

\* Until the world changes after its verification, a push has nothing before
\* it that the gate would now deny, although the plan was made of two reads
\* and may be old (_verify_eligibility_unchanged).
NothingIneligibleLeaves ==
    \A p \in fresh :
        at[p] \in {"verified", "upload"} =>
            \A d \in DOMAIN upserts[run[p]] :
                /\ d \in Desired(allowed)
                /\ upserts[run[p]][d].attachments \subseteq EligibleAttachments(allowed, d)

\* What export_document says of a document is what the bucket and the index
\* hold, except for documents that a failed or a killed push has touched
\* (push_export: pushed only after the import, purged only when verified).
RecordIsTrue ==
    \A d \in Documents \ loose :
        store[d] = IF recorded[d] = None THEN Absent
                                         ELSE [text |-> recorded[d], listed |-> TRUE]

\* Once a run is ok, and nothing has changed since it was planned, the
\* store holds exactly the documents the gate allows, each as it reads now,
\* unless an earlier push left one touched and unrecorded
\* (reconcile_desired_against_pushed, and the run's items).
StoreMirrorsCorpus ==
    \A r \in current :
        (status[r] = "ok" /\ loose = {}) =>
            \A d \in Documents :
                store[d] = IF d \in Desired(allowed)
                           THEN [text |-> Rendered(allowed, d), listed |-> TRUE]
                           ELSE Absent

\* purge-person plans "the deletion of everything they touched" (cli.py):
\* when a purge has ended ok and nothing has changed since it was planned,
\* no document of a chat that the gate denies is left in the bucket.
PurgeLeavesNothing ==
    \A r \in current :
        (mode[r] = "purge" /\ status[r] = "ok") => StoredDocuments \subseteq Desired(allowed)

============================================================================
