-------------------------- MODULE ExportRunProofs --------------------------
(***************************************************************************)
(* Proofs about ExportRun, for every allowlist, corpus, set of runs and    *)
(* number of changes and faults.                                           *)
(*                                                                         *)
(* Scope is what was approved or purged.  PushInv says that a push is of a *)
(* run within it, ScopeInv that what is stored and what is recorded is;    *)
(* the two need each other, since an unapproved run is let through for     *)
(* what is recorded.  FreshRunInv says that a row of export_run is blank   *)
(* until its plan commits, so that committing one takes nothing from the   *)
(* scope of the others.                                                    *)
(***************************************************************************)
EXTENDS ExportRun, TLAPS

Scope == ApprovedChats \cup PurgeChats

PlanInv ==
    plan # NoPlan =>
        /\ plan.mode \in {"reconcile", "purge"}
        /\ plan.pinned \in Nat
        /\ DOMAIN plan.upserts \subseteq Documents
        /\ \A d \in DOMAIN plan.upserts : plan.upserts[d] \in Text
        /\ plan.deletes \subseteq Documents

FreshRunInv == \A r \in Runs : status[r] = "none" => ~ approved[r] /\ mode[r] = "none"

PushInv ==
    \A p \in Pushers :
        /\ at[p] # "idle" => /\ run[p] \in Runs
                             /\ status[run[p]] # "none"
                             /\ Planned(run[p]) \subseteq Scope
        /\ at[p] \in {"idle", "verified"} => sent[p] = {}
        /\ at[p] \in {"upload", "record", "pushed"} =>
               todo[p] \cup sent[p] \subseteq DOMAIN upserts[run[p]]

ScopeInv ==
    \A d \in Documents :
        recorded[d] # None \/ store[d].text # None => ChatOfDocument(d) \in Scope

IInv ==
    /\ TypeOK
    /\ PlanInv
    /\ FreshRunInv
    /\ PushInv
    /\ ScopeInv

----------------------------------------------------------------------------
(* What a plan renders is a text, and what it plans are documents.         *)

LEMMA RenderedIsText ==
    ASSUME TypeOK, NEW allowlist, NEW d \in Documents
    PROVE  Rendered(allowlist, d) \in Text
  <1>1. ChatOfDocument(d) \in Chats
    BY ExportAssumption DEF Documents, ChatOfDocument, SegmentOfDocument
  <1>2. members[ChatOfDocument(d)] \subseteq People
    BY <1>1 DEF TypeOK
  <1>3. EligibleAttachments(allowlist, d) \subseteq Attachments
    BY DEF EligibleAttachments
  <1>4. (IF d \in Segments THEN edit[d] ELSE 0) \in Nat
    BY DEF TypeOK
  <1> QED
    BY <1>2, <1>3, <1>4 DEF Rendered, Text

LEMMA ReconcileIsPlan ==
    ASSUME TypeOK, NEW allowlist
    PROVE  /\ DOMAIN Reconcile(allowlist).upserts \subseteq Documents
           /\ \A d \in DOMAIN Reconcile(allowlist).upserts :
                  Reconcile(allowlist).upserts[d] \in Text
           /\ Reconcile(allowlist).deletes \subseteq Documents
  BY RenderedIsText DEF Reconcile, Desired

Entry == [text: Text \cup {None}, listed: BOOLEAN]

\* An upload and a deletion leave entries in the store.
LEMMA StoreOfEntries ==
    ASSUME TypeOK, NEW d \in Documents
    PROVE  /\ \A t \in Text : [store EXCEPT ![d].text = t] \in [Documents -> Entry]
           /\ AfterDelete(d) \subseteq [Documents -> Entry]
  <1>1. store \in [Documents -> Entry]
    BY DEF TypeOK, Entry
  <1>2. \A e \in Entry : [store EXCEPT ![d] = e] \in [Documents -> Entry]
    BY <1>1
  <1>3. ASSUME NEW t \in Text PROVE [store EXCEPT ![d].text = t] \in [Documents -> Entry]
    <2>1. [store[d] EXCEPT !.text = t] \in Entry
      BY <1>1 DEF Entry
    <2>2. [store EXCEPT ![d].text = t]
              = [store EXCEPT ![d] = [store[d] EXCEPT !.text = t]]
      BY <1>1
    <2> QED
      BY <1>2, <2>1, <2>2
  <1>4. [store EXCEPT ![d].listed = FALSE] \in [Documents -> Entry]
    <2>1. [store[d] EXCEPT !.listed = FALSE] \in Entry
      BY <1>1 DEF Entry
    <2>2. [store EXCEPT ![d].listed = FALSE]
              = [store EXCEPT ![d] = [store[d] EXCEPT !.listed = FALSE]]
      BY <1>1
    <2> QED
      BY <1>2, <2>1, <2>2
  <1>5. Absent \in Entry
    BY DEF Absent, Entry
  <1> QED
    BY <1>1, <1>2, <1>3, <1>4, <1>5 DEF AfterDelete

\* Every action keeps the types.
LEMMA TypeStep ==
    ASSUME TypeOK, PlanInv, PushInv, [Next]_vars
    PROVE  TypeOK'
  <1> USE ExportAssumption DEF TypeOK, PlanInv, PushInv
  <1>0. CASE UNCHANGED vars
    BY <1>0 DEF vars, world, runRows, push
  <1>1. ASSUME NEW p \in People, NEW level \in Levels, Classify(p, level)
        PROVE  TypeOK'
    BY <1>1 DEF Classify, Changed, runRows, push
  <1>2. ASSUME NEW c \in Chats, NEW p \in People, Join(c, p) PROVE TypeOK'
    BY <1>2 DEF Join, Changed, runRows, push
  <1>3. ASSUME NEW c \in Chats, NEW p \in People, Resolve(c, p) PROVE TypeOK'
    BY <1>3 DEF Resolve, Changed, runRows, push
  <1>4. ASSUME NEW s \in Segments, Edit(s) PROVE TypeOK'
    BY <1>4 DEF Edit, Changed, runRows, push
  <1>5. ASSUME NEW a \in Attachments, Withdraw(a) PROVE TypeOK'
    BY <1>5 DEF Withdraw, Changed, runRows, push
  <1>6. ASSUME NEW s \in Segments, Resegment(s) PROVE TypeOK'
    BY <1>6 DEF Resegment, Changed, runRows, push
  <1>7. CASE Reconfigure
    BY <1>7 DEF Reconfigure, Changed, runRows, push
  <1>8. CASE StartPlan
    BY <1>8 DEF StartPlan, ReadForPlan, world, runRows, push
  <1>9. ASSUME NEW p \in MayRevoke, StartPurge(p) PROVE TypeOK'
    BY <1>9 DEF StartPurge, ReadForPlan, world, runRows, push
  <1>10. CASE AbandonPlan
    BY <1>10 DEF AbandonPlan, world, runRows, push
  <1>11. ASSUME NEW r \in Runs, CommitPlan(r) PROVE TypeOK'
    <2>1. plan' = NoPlan
      BY <1>11 DEF CommitPlan
    <2>2. /\ upserts'[r] = plan.upserts
          /\ \A q \in Runs \ {r} : upserts'[q] = upserts[q]
          /\ DOMAIN upserts' = Runs
      BY <1>11 DEF CommitPlan
    <2>3. /\ plan.mode \in {"reconcile", "purge"}
          /\ plan.pinned \in Nat
          /\ DOMAIN plan.upserts \subseteq Documents
          /\ \A d \in DOMAIN plan.upserts : plan.upserts[d] \in Text
          /\ plan.deletes \subseteq Documents
      BY <1>11 DEF CommitPlan
    <2>4. \A q \in Runs : /\ DOMAIN upserts'[q] \subseteq Documents
                          /\ \A d \in DOMAIN upserts'[q] : upserts'[q][d] \in Text
      BY <2>2, <2>3
    <2>5. Items \in [Documents -> {"none", "staged", "pushed", "deleted", "failed"}]
      BY DEF Items
    <2>6. item' \in [Runs -> [Documents -> {"none", "staged", "pushed", "deleted", "failed"}]]
      BY <1>11, <2>5 DEF CommitPlan
    <2>7. /\ allowed' \in [People -> Levels]
          /\ snapshot' \in [Runs -> [People -> Levels]]
      BY <1>11 DEF CommitPlan, Revoked, Levels
    <2> QED
      BY <1>11, <2>2, <2>3, <2>4, <2>6, <2>7 DEF CommitPlan, push
  <1>12. ASSUME NEW r \in Runs, Approve(r) PROVE TypeOK'
    BY <1>12 DEF Approve, world, push
  <1>13. ASSUME NEW p \in Pushers, NEW r \in Runs, Verify(p, r) PROVE TypeOK'
    BY <1>13 DEF Verify, world, runRows
  <1>14. ASSUME NEW p \in Pushers, StartPush(p) PROVE TypeOK'
    BY <1>14 DEF StartPush, world
  <1>15. ASSUME NEW p \in Pushers, NEW d \in Documents, Upload(p, d) PROVE TypeOK'
    <2>1. upserts[run[p]][d] \in Text
      BY <1>15 DEF Upload
    <2>2. store' \in [Documents -> [text: Text \cup {None}, listed: BOOLEAN]]
      BY <1>15, <2>1, StoreOfEntries DEF Upload, Entry
    <2> QED
      BY <1>15, <2>2 DEF Upload, world, runRows
  <1>16. ASSUME NEW p \in Pushers, NEW d \in Documents, UploadFails(p, d)
        PROVE  TypeOK'
    <2>1. upserts[run[p]][d] \in Text
      BY <1>16 DEF UploadFails
    <2>2. [store EXCEPT ![d].text = upserts[run[p]][d]]
              \in [Documents -> [text: Text \cup {None}, listed: BOOLEAN]]
      BY <2>1, StoreOfEntries DEF Entry
    <2>3. store' \in [Documents -> [text: Text \cup {None}, listed: BOOLEAN]]
      BY <1>16, <2>2 DEF UploadFails
    <2> QED
      BY <1>16, <2>3 DEF UploadFails, Mark, Fault, world, runRows
  <1>17. ASSUME NEW p \in Pushers, NEW d \in Documents, RecordFailed(p, d)
        PROVE  TypeOK'
    BY <1>17 DEF RecordFailed, Mark, world, runRows
  <1>18. ASSUME NEW p \in Pushers, NEW d \in Documents, RecordItem(p, d) PROVE TypeOK'
    BY <1>18 DEF RecordItem, Mark, world, runRows
  <1>19. ASSUME NEW p \in Pushers, NEW d \in Documents, RecordDocument(p, d)
        PROVE  TypeOK'
    BY <1>19 DEF RecordDocument, world, runRows
  <1>20. ASSUME NEW p \in Pushers, NEW d \in Documents, Delete(p, d) PROVE TypeOK'
    <2>1. store' \in [Documents -> [text: Text \cup {None}, listed: BOOLEAN]]
      BY <1>20, StoreOfEntries DEF Delete, Entry
    <2> QED
      BY <1>20, <2>1 DEF Delete, world, runRows
  <1>21. ASSUME NEW p \in Pushers, NEW d \in Documents, DeleteFails(p, d)
        PROVE  TypeOK'
    <2>1. store' \in [Documents -> [text: Text \cup {None}, listed: BOOLEAN]]
      BY <1>21, StoreOfEntries DEF DeleteFails, Entry
    <2> QED
      BY <1>21, <2>1 DEF DeleteFails, Mark, Fault, world, runRows
  <1>22. ASSUME NEW p \in Pushers, NEW d \in Documents, RecordDeleted(p, d)
        PROVE  TypeOK'
    BY <1>22 DEF RecordDeleted, Mark, world, runRows
  <1>23. ASSUME NEW p \in Pushers, NEW d \in Documents, RecordPurged(p, d)
        PROVE  TypeOK'
    BY <1>23 DEF RecordPurged, world, runRows
  <1>24. ASSUME NEW p \in Pushers,
               NEW failed \in SUBSET Documents, NEW all \in SUBSET Documents,
               Import(p, failed, all)
        PROVE  TypeOK'
    <2>1. \A d \in Documents : [store[d] EXCEPT !.listed = TRUE] \in
                [text: Text \cup {None}, listed: BOOLEAN]
      <3> TAKE d \in Documents
      <3>1. store[d] \in [text: Text \cup {None}, listed: BOOLEAN]
        OBVIOUS
      <3> QED
        BY <3>1
    <2>2. store' \in [Documents -> [text: Text \cup {None}, listed: BOOLEAN]]
      BY <1>24, <2>1 DEF Import
    <2> QED
      BY <1>24, <2>2 DEF Import, Fault, world, runRows
  <1>25. ASSUME NEW p \in Pushers, StartDeletes(p) PROVE TypeOK'
    BY <1>25 DEF StartDeletes, world, runRows
  <1>26. ASSUME NEW p \in Pushers, Finish(p) PROVE TypeOK'
    BY <1>26 DEF Finish, Leave, world
  <1>27. ASSUME NEW p \in Pushers, Crash(p) PROVE TypeOK'
    BY <1>27 DEF Crash, Leave, Fault, world, runRows
  <1> QED
    BY <1>0, <1>1, <1>2, <1>3, <1>4, <1>5, <1>6, <1>7, <1>8, <1>9,
       <1>10, <1>11, <1>12, <1>13, <1>14, <1>15, <1>16, <1>17, <1>18,
       <1>19, <1>20, <1>21, <1>22, <1>23, <1>24, <1>25, <1>26, <1>27
       DEF Next, WorldStep, OwnerStep, PushStep

\* A plan is made of what Reconcile returns, or given up.
LEMMA PlanStep ==
    ASSUME TypeOK, PlanInv, [Next]_vars
    PROVE  PlanInv'
  <1> USE DEF PlanInv
  <1>0. CASE UNCHANGED vars
    BY <1>0 DEF vars, world, runRows, push
  <1>1. ASSUME NEW p \in People, NEW level \in Levels, Classify(p, level)
        PROVE  PlanInv'
    BY <1>1 DEF Classify, Changed, runRows, push
  <1>2. ASSUME NEW c \in Chats, NEW p \in People, Join(c, p) PROVE PlanInv'
    BY <1>2 DEF Join, Changed, runRows, push
  <1>3. ASSUME NEW c \in Chats, NEW p \in People, Resolve(c, p) PROVE PlanInv'
    BY <1>3 DEF Resolve, Changed, runRows, push
  <1>4. ASSUME NEW s \in Segments, Edit(s) PROVE PlanInv'
    BY <1>4 DEF Edit, Changed, runRows, push
  <1>5. ASSUME NEW a \in Attachments, Withdraw(a) PROVE PlanInv'
    BY <1>5 DEF Withdraw, Changed, runRows, push
  <1>6. ASSUME NEW s \in Segments, Resegment(s) PROVE PlanInv'
    BY <1>6 DEF Resegment, Changed, runRows, push
  <1>7. CASE Reconfigure
    BY <1>7 DEF Reconfigure, Changed, runRows, push
  <1>8. CASE StartPlan
    <2>1. plan' = [mode |-> "reconcile", who |-> None, pinned |-> config,
                   upserts |-> Reconcile(allowed).upserts,
                   deletes |-> Reconcile(allowed).deletes]
      BY <1>8 DEF StartPlan, ReadForPlan
    <2>2. config \in Nat
      BY DEF TypeOK
    <2> QED
      BY <2>1, <2>2, ReconcileIsPlan
  <1>9. ASSUME NEW p \in MayRevoke, StartPurge(p) PROVE PlanInv'
    <2>1. plan' = [mode |-> "purge", who |-> p, pinned |-> config,
                   upserts |-> Reconcile(Revoked(p)).upserts,
                   deletes |-> Reconcile(Revoked(p)).deletes]
      BY <1>9 DEF StartPurge, ReadForPlan
    <2>2. config \in Nat
      BY DEF TypeOK
    <2> QED
      BY <2>1, <2>2, ReconcileIsPlan
  <1>10. CASE AbandonPlan
    BY <1>10 DEF AbandonPlan, world, runRows, push
  <1>11. ASSUME NEW r \in Runs, CommitPlan(r) PROVE PlanInv'
    BY <1>11 DEF CommitPlan, push
  <1>12. ASSUME NEW r \in Runs, Approve(r) PROVE PlanInv'
    BY <1>12 DEF Approve, world, push
  <1>13. ASSUME NEW p \in Pushers, NEW r \in Runs, Verify(p, r) PROVE PlanInv'
    BY <1>13 DEF Verify, world, runRows
  <1>14. ASSUME NEW p \in Pushers, StartPush(p) PROVE PlanInv'
    BY <1>14 DEF StartPush, world
  <1>15. ASSUME NEW p \in Pushers, NEW d \in Documents, Upload(p, d) PROVE PlanInv'
    BY <1>15 DEF Upload, world, runRows
  <1>16. ASSUME NEW p \in Pushers, NEW d \in Documents, UploadFails(p, d)
        PROVE  PlanInv'
    BY <1>16 DEF UploadFails, Mark, Fault, world, runRows
  <1>17. ASSUME NEW p \in Pushers, NEW d \in Documents, RecordFailed(p, d)
        PROVE  PlanInv'
    BY <1>17 DEF RecordFailed, Mark, world, runRows
  <1>18. ASSUME NEW p \in Pushers, NEW d \in Documents, RecordItem(p, d)
        PROVE  PlanInv'
    BY <1>18 DEF RecordItem, Mark, world, runRows
  <1>19. ASSUME NEW p \in Pushers, NEW d \in Documents, RecordDocument(p, d)
        PROVE  PlanInv'
    BY <1>19 DEF RecordDocument, world, runRows
  <1>20. ASSUME NEW p \in Pushers, NEW d \in Documents, Delete(p, d) PROVE PlanInv'
    BY <1>20 DEF Delete, AfterDelete, Absent, world, runRows
  <1>21. ASSUME NEW p \in Pushers, NEW d \in Documents, DeleteFails(p, d)
        PROVE  PlanInv'
    BY <1>21 DEF DeleteFails, AfterDelete, Absent, Mark, Fault, world, runRows
  <1>22. ASSUME NEW p \in Pushers, NEW d \in Documents, RecordDeleted(p, d)
        PROVE  PlanInv'
    BY <1>22 DEF RecordDeleted, Mark, world, runRows
  <1>23. ASSUME NEW p \in Pushers, NEW d \in Documents, RecordPurged(p, d)
        PROVE  PlanInv'
    BY <1>23 DEF RecordPurged, world, runRows
  <1>24. ASSUME NEW p \in Pushers,
               NEW failed \in SUBSET Documents, NEW all \in SUBSET Documents,
               Import(p, failed, all)
        PROVE  PlanInv'
    BY <1>24 DEF Import, Fault, world, runRows
  <1>25. ASSUME NEW p \in Pushers, StartDeletes(p) PROVE PlanInv'
    BY <1>25 DEF StartDeletes, world, runRows
  <1>26. ASSUME NEW p \in Pushers, Finish(p) PROVE PlanInv'
    BY <1>26 DEF Finish, Leave, world
  <1>27. ASSUME NEW p \in Pushers, Crash(p) PROVE PlanInv'
    BY <1>27 DEF Crash, Leave, Fault, world, runRows
  <1> QED
    BY <1>0, <1>1, <1>2, <1>3, <1>4, <1>5, <1>6, <1>7, <1>8, <1>9,
       <1>10, <1>11, <1>12, <1>13, <1>14, <1>15, <1>16, <1>17, <1>18,
       <1>19, <1>20, <1>21, <1>22, <1>23, <1>24, <1>25, <1>26, <1>27
       DEF Next, WorldStep, OwnerStep, PushStep

\* Only a planned run is approved, and only a commit gives it a mode.
LEMMA FreshRunStep ==
    ASSUME TypeOK, FreshRunInv, [Next]_vars
    PROVE  FreshRunInv'
  <1> USE DEF TypeOK, FreshRunInv
  <1>0. CASE UNCHANGED vars
    BY <1>0 DEF vars, world, runRows, push
  <1>1. ASSUME NEW p \in People, NEW level \in Levels, Classify(p, level)
        PROVE  FreshRunInv'
    BY <1>1 DEF Classify, Changed, runRows, push
  <1>2. ASSUME NEW c \in Chats, NEW p \in People, Join(c, p) PROVE FreshRunInv'
    BY <1>2 DEF Join, Changed, runRows, push
  <1>3. ASSUME NEW c \in Chats, NEW p \in People, Resolve(c, p) PROVE FreshRunInv'
    BY <1>3 DEF Resolve, Changed, runRows, push
  <1>4. ASSUME NEW s \in Segments, Edit(s) PROVE FreshRunInv'
    BY <1>4 DEF Edit, Changed, runRows, push
  <1>5. ASSUME NEW a \in Attachments, Withdraw(a) PROVE FreshRunInv'
    BY <1>5 DEF Withdraw, Changed, runRows, push
  <1>6. ASSUME NEW s \in Segments, Resegment(s) PROVE FreshRunInv'
    BY <1>6 DEF Resegment, Changed, runRows, push
  <1>7. CASE Reconfigure
    BY <1>7 DEF Reconfigure, Changed, runRows, push
  <1>8. CASE StartPlan
    BY <1>8 DEF StartPlan, ReadForPlan, world, runRows, push
  <1>9. ASSUME NEW p \in MayRevoke, StartPurge(p) PROVE FreshRunInv'
    BY <1>9 DEF StartPurge, ReadForPlan, world, runRows, push
  <1>10. CASE AbandonPlan
    BY <1>10 DEF AbandonPlan, world, runRows, push
  <1>11. ASSUME NEW r \in Runs, CommitPlan(r) PROVE FreshRunInv'
    BY <1>11 DEF CommitPlan, push
  <1>12. ASSUME NEW r \in Runs, Approve(r) PROVE FreshRunInv'
    BY <1>12 DEF Approve, world, push
  <1>13. ASSUME NEW p \in Pushers, NEW r \in Runs, Verify(p, r) PROVE FreshRunInv'
    BY <1>13 DEF Verify, world, runRows
  <1>14. ASSUME NEW p \in Pushers, StartPush(p) PROVE FreshRunInv'
    BY <1>14 DEF StartPush, world
  <1>15. ASSUME NEW p \in Pushers, NEW d \in Documents, Upload(p, d)
        PROVE  FreshRunInv'
    BY <1>15 DEF Upload, world, runRows
  <1>16. ASSUME NEW p \in Pushers, NEW d \in Documents, UploadFails(p, d)
        PROVE  FreshRunInv'
    BY <1>16 DEF UploadFails, Mark, Fault, world, runRows
  <1>17. ASSUME NEW p \in Pushers, NEW d \in Documents, RecordFailed(p, d)
        PROVE  FreshRunInv'
    BY <1>17 DEF RecordFailed, Mark, world, runRows
  <1>18. ASSUME NEW p \in Pushers, NEW d \in Documents, RecordItem(p, d)
        PROVE  FreshRunInv'
    BY <1>18 DEF RecordItem, Mark, world, runRows
  <1>19. ASSUME NEW p \in Pushers, NEW d \in Documents, RecordDocument(p, d)
        PROVE  FreshRunInv'
    BY <1>19 DEF RecordDocument, world, runRows
  <1>20. ASSUME NEW p \in Pushers, NEW d \in Documents, Delete(p, d)
        PROVE  FreshRunInv'
    BY <1>20 DEF Delete, AfterDelete, Absent, world, runRows
  <1>21. ASSUME NEW p \in Pushers, NEW d \in Documents, DeleteFails(p, d)
        PROVE  FreshRunInv'
    BY <1>21 DEF DeleteFails, AfterDelete, Absent, Mark, Fault, world, runRows
  <1>22. ASSUME NEW p \in Pushers, NEW d \in Documents, RecordDeleted(p, d)
        PROVE  FreshRunInv'
    BY <1>22 DEF RecordDeleted, Mark, world, runRows
  <1>23. ASSUME NEW p \in Pushers, NEW d \in Documents, RecordPurged(p, d)
        PROVE  FreshRunInv'
    BY <1>23 DEF RecordPurged, world, runRows
  <1>24. ASSUME NEW p \in Pushers,
               NEW failed \in SUBSET Documents, NEW all \in SUBSET Documents,
               Import(p, failed, all)
        PROVE  FreshRunInv'
    BY <1>24 DEF Import, Fault, world, runRows
  <1>25. ASSUME NEW p \in Pushers, StartDeletes(p) PROVE FreshRunInv'
    BY <1>25 DEF StartDeletes, world, runRows
  <1>26. ASSUME NEW p \in Pushers, Finish(p) PROVE FreshRunInv'
    BY <1>26 DEF Finish, Leave, world
  <1>27. ASSUME NEW p \in Pushers, Crash(p) PROVE FreshRunInv'
    BY <1>27 DEF Crash, Leave, Fault, world, runRows
  <1> QED
    BY <1>0, <1>1, <1>2, <1>3, <1>4, <1>5, <1>6, <1>7, <1>8, <1>9,
       <1>10, <1>11, <1>12, <1>13, <1>14, <1>15, <1>16, <1>17, <1>18,
       <1>19, <1>20, <1>21, <1>22, <1>23, <1>24, <1>25, <1>26, <1>27
       DEF Next, WorldStep, OwnerStep, PushStep

\* What a run was planned as stays, and so does its approval.
RunStays(r) ==
    /\ status'[r] # "none"
    /\ upserts'[r] = upserts[r]
    /\ mode'[r] = mode[r]
    /\ approved[r] => approved'[r]

LEMMA PlannedRunStays ==
    ASSUME TypeOK, [Next]_vars, NEW q \in Runs, status[q] # "none"
    PROVE  RunStays(q)
  <1> USE DEF TypeOK, RunStays
  <1>0. CASE UNCHANGED vars
    BY <1>0 DEF vars, world, runRows, push
  <1>1. ASSUME NEW p \in People, NEW level \in Levels, Classify(p, level)
        PROVE  RunStays(q)
    BY <1>1 DEF Classify, Changed, runRows, push
  <1>2. ASSUME NEW c \in Chats, NEW p \in People, Join(c, p) PROVE RunStays(q)
    BY <1>2 DEF Join, Changed, runRows, push
  <1>3. ASSUME NEW c \in Chats, NEW p \in People, Resolve(c, p) PROVE RunStays(q)
    BY <1>3 DEF Resolve, Changed, runRows, push
  <1>4. ASSUME NEW s \in Segments, Edit(s) PROVE RunStays(q)
    BY <1>4 DEF Edit, Changed, runRows, push
  <1>5. ASSUME NEW a \in Attachments, Withdraw(a) PROVE RunStays(q)
    BY <1>5 DEF Withdraw, Changed, runRows, push
  <1>6. ASSUME NEW s \in Segments, Resegment(s) PROVE RunStays(q)
    BY <1>6 DEF Resegment, Changed, runRows, push
  <1>7. CASE Reconfigure
    BY <1>7 DEF Reconfigure, Changed, runRows, push
  <1>8. CASE StartPlan
    BY <1>8 DEF StartPlan, ReadForPlan, world, runRows, push
  <1>9. ASSUME NEW p \in MayRevoke, StartPurge(p) PROVE RunStays(q)
    BY <1>9 DEF StartPurge, ReadForPlan, world, runRows, push
  <1>10. CASE AbandonPlan
    BY <1>10 DEF AbandonPlan, world, runRows, push
  <1>11. ASSUME NEW r \in Runs, CommitPlan(r) PROVE RunStays(q)
    BY <1>11 DEF CommitPlan, push
  <1>12. ASSUME NEW r \in Runs, Approve(r) PROVE RunStays(q)
    BY <1>12 DEF Approve, world, push
  <1>13. ASSUME NEW p \in Pushers, NEW r \in Runs, Verify(p, r) PROVE RunStays(q)
    BY <1>13 DEF Verify, world, runRows
  <1>14. ASSUME NEW p \in Pushers, StartPush(p) PROVE RunStays(q)
    BY <1>14 DEF StartPush, world
  <1>15. ASSUME NEW p \in Pushers, NEW d \in Documents, Upload(p, d) PROVE RunStays(q)
    BY <1>15 DEF Upload, world, runRows
  <1>16. ASSUME NEW p \in Pushers, NEW d \in Documents, UploadFails(p, d)
        PROVE  RunStays(q)
    BY <1>16 DEF UploadFails, Mark, Fault, world, runRows
  <1>17. ASSUME NEW p \in Pushers, NEW d \in Documents, RecordFailed(p, d)
        PROVE  RunStays(q)
    BY <1>17 DEF RecordFailed, Mark, world, runRows
  <1>18. ASSUME NEW p \in Pushers, NEW d \in Documents, RecordItem(p, d)
        PROVE  RunStays(q)
    BY <1>18 DEF RecordItem, Mark, world, runRows
  <1>19. ASSUME NEW p \in Pushers, NEW d \in Documents, RecordDocument(p, d)
        PROVE  RunStays(q)
    BY <1>19 DEF RecordDocument, world, runRows
  <1>20. ASSUME NEW p \in Pushers, NEW d \in Documents, Delete(p, d) PROVE RunStays(q)
    BY <1>20 DEF Delete, AfterDelete, Absent, world, runRows
  <1>21. ASSUME NEW p \in Pushers, NEW d \in Documents, DeleteFails(p, d)
        PROVE  RunStays(q)
    BY <1>21 DEF DeleteFails, AfterDelete, Absent, Mark, Fault, world, runRows
  <1>22. ASSUME NEW p \in Pushers, NEW d \in Documents, RecordDeleted(p, d)
        PROVE  RunStays(q)
    BY <1>22 DEF RecordDeleted, Mark, world, runRows
  <1>23. ASSUME NEW p \in Pushers, NEW d \in Documents, RecordPurged(p, d)
        PROVE  RunStays(q)
    BY <1>23 DEF RecordPurged, world, runRows
  <1>24. ASSUME NEW p \in Pushers,
               NEW failed \in SUBSET Documents, NEW all \in SUBSET Documents,
               Import(p, failed, all)
        PROVE  RunStays(q)
    BY <1>24 DEF Import, Fault, world, runRows
  <1>25. ASSUME NEW p \in Pushers, StartDeletes(p) PROVE RunStays(q)
    BY <1>25 DEF StartDeletes, world, runRows
  <1>26. ASSUME NEW p \in Pushers, Finish(p) PROVE RunStays(q)
    BY <1>26 DEF Finish, Leave, world
  <1>27. ASSUME NEW p \in Pushers, Crash(p) PROVE RunStays(q)
    BY <1>27 DEF Crash, Leave, Fault, world, runRows
  <1> QED
    BY <1>0, <1>1, <1>2, <1>3, <1>4, <1>5, <1>6, <1>7, <1>8, <1>9,
       <1>10, <1>11, <1>12, <1>13, <1>14, <1>15, <1>16, <1>17, <1>18,
       <1>19, <1>20, <1>21, <1>22, <1>23, <1>24, <1>25, <1>26, <1>27
       DEF Next, WorldStep, OwnerStep, PushStep

\* So nothing that was approved or purged is forgotten.
LEMMA ScopeGrows ==
    ASSUME TypeOK, FreshRunInv, [Next]_vars
    PROVE  Scope \subseteq Scope'
  <1> SUFFICES ASSUME NEW c \in Scope PROVE c \in Scope'
    OBVIOUS
  <1>1. PICK r \in Runs : (approved[r] \/ mode[r] = "purge") /\ c \in Planned(r)
    BY DEF Scope, ApprovedChats, PurgeChats
  <1>2. status[r] # "none"
    BY <1>1 DEF FreshRunInv
  <1>3. RunStays(r)
    BY <1>2, PlannedRunStays
  <1>4. c \in Planned(r)'
    BY <1>1, <1>3 DEF Planned, RunStays
  <1>5. approved'[r] \/ mode'[r] = "purge"
    BY <1>1, <1>3 DEF RunStays
  <1> QED
    BY <1>4, <1>5 DEF Scope, ApprovedChats, PurgeChats

\* A verified run is approved, or a purge, or of threads that were pushed.
LEMMA VerifiedInScope ==
    ASSUME TypeOK, ScopeInv, NEW p \in Pushers, NEW r \in Runs, Verify(p, r)
    PROVE  Planned(r) \subseteq Scope
  <1>1. CASE approved[r]
    BY <1>1 DEF Scope, ApprovedChats
  <1>2. CASE mode[r] = "purge"
    BY <1>2 DEF Scope, PurgeChats
  <1>3. CASE ~ approved[r] /\ mode[r] # "purge"
    <2>1. ~ NeedsApproval(r)
      BY <1>3 DEF Verify
    <2>2. \A d \in DOMAIN upserts[r] : ChatOfDocument(d) \in PushedChats
      BY <1>3, <2>1 DEF NeedsApproval
    <2>3. PushedChats \subseteq Scope
      BY DEF PushedChats, ScopeInv
    <2> QED
      BY <2>2, <2>3 DEF Planned
  <1> QED
    BY <1>1, <1>2, <1>3

\* A push keeps its run until it ends.
LEMMA PushKeepsItsRun ==
    ASSUME TypeOK, [Next]_vars, NEW q \in Pushers, at'[q] # "idle"
    PROVE  \/ at[q] # "idle" /\ run'[q] = run[q]
           \/ \E r \in Runs : Verify(q, r) /\ run'[q] = r
  <1> DEFINE Goal == \/ at[q] # "idle" /\ run'[q] = run[q]
                     \/ \E r \in Runs : Verify(q, r) /\ run'[q] = r
  <1> SUFFICES Goal
    OBVIOUS
  <1> USE DEF TypeOK
  <1>0. CASE UNCHANGED vars
    BY <1>0 DEF vars, world, runRows, push
  <1>1. ASSUME NEW p \in People, NEW level \in Levels, Classify(p, level) PROVE Goal
    BY <1>1 DEF Classify, Changed, runRows, push
  <1>2. ASSUME NEW c \in Chats, NEW p \in People, Join(c, p) PROVE Goal
    BY <1>2 DEF Join, Changed, runRows, push
  <1>3. ASSUME NEW c \in Chats, NEW p \in People, Resolve(c, p) PROVE Goal
    BY <1>3 DEF Resolve, Changed, runRows, push
  <1>4. ASSUME NEW s \in Segments, Edit(s) PROVE Goal
    BY <1>4 DEF Edit, Changed, runRows, push
  <1>5. ASSUME NEW a \in Attachments, Withdraw(a) PROVE Goal
    BY <1>5 DEF Withdraw, Changed, runRows, push
  <1>6. ASSUME NEW s \in Segments, Resegment(s) PROVE Goal
    BY <1>6 DEF Resegment, Changed, runRows, push
  <1>7. CASE Reconfigure
    BY <1>7 DEF Reconfigure, Changed, runRows, push
  <1>8. CASE StartPlan
    BY <1>8 DEF StartPlan, ReadForPlan, world, runRows, push
  <1>9. ASSUME NEW p \in MayRevoke, StartPurge(p) PROVE Goal
    BY <1>9 DEF StartPurge, ReadForPlan, world, runRows, push
  <1>10. CASE AbandonPlan
    BY <1>10 DEF AbandonPlan, world, runRows, push
  <1>11. ASSUME NEW r \in Runs, CommitPlan(r) PROVE Goal
    BY <1>11 DEF CommitPlan, push
  <1>12. ASSUME NEW r \in Runs, Approve(r) PROVE Goal
    BY <1>12 DEF Approve, world, push
  <1>13. ASSUME NEW p \in Pushers, NEW r \in Runs, Verify(p, r) PROVE Goal
    <2>1. CASE q = p
      <3>1. Verify(q, r) /\ run'[q] = r
        BY <1>13, <2>1 DEF Verify
      <3> QED
        BY <3>1
    <2>2. CASE q # p
      BY <1>13, <2>2 DEF Verify
    <2> QED
      BY <2>1, <2>2
  <1>14. ASSUME NEW p \in Pushers, StartPush(p) PROVE Goal
    BY <1>14 DEF StartPush, world
  <1>15. ASSUME NEW p \in Pushers, NEW d \in Documents, Upload(p, d) PROVE Goal
    BY <1>15 DEF Upload, world, runRows
  <1>16. ASSUME NEW p \in Pushers, NEW d \in Documents, UploadFails(p, d) PROVE Goal
    BY <1>16 DEF UploadFails, Mark, Fault, world, runRows
  <1>17. ASSUME NEW p \in Pushers, NEW d \in Documents, RecordFailed(p, d) PROVE Goal
    BY <1>17 DEF RecordFailed, Mark, world, runRows
  <1>18. ASSUME NEW p \in Pushers, NEW d \in Documents, RecordItem(p, d) PROVE Goal
    BY <1>18 DEF RecordItem, Mark, world, runRows
  <1>19. ASSUME NEW p \in Pushers, NEW d \in Documents, RecordDocument(p, d)
        PROVE  Goal
    BY <1>19 DEF RecordDocument, world, runRows
  <1>20. ASSUME NEW p \in Pushers, NEW d \in Documents, Delete(p, d) PROVE Goal
    BY <1>20 DEF Delete, AfterDelete, Absent, world, runRows
  <1>21. ASSUME NEW p \in Pushers, NEW d \in Documents, DeleteFails(p, d) PROVE Goal
    BY <1>21 DEF DeleteFails, AfterDelete, Absent, Mark, Fault, world, runRows
  <1>22. ASSUME NEW p \in Pushers, NEW d \in Documents, RecordDeleted(p, d) PROVE Goal
    BY <1>22 DEF RecordDeleted, Mark, world, runRows
  <1>23. ASSUME NEW p \in Pushers, NEW d \in Documents, RecordPurged(p, d) PROVE Goal
    BY <1>23 DEF RecordPurged, world, runRows
  <1>24. ASSUME NEW p \in Pushers,
               NEW failed \in SUBSET Documents, NEW all \in SUBSET Documents,
               Import(p, failed, all)
        PROVE  Goal
    BY <1>24 DEF Import, Fault, world, runRows
  <1>25. ASSUME NEW p \in Pushers, StartDeletes(p) PROVE Goal
    BY <1>25 DEF StartDeletes, world, runRows
  <1>26. ASSUME NEW p \in Pushers, Finish(p) PROVE Goal
    BY <1>26 DEF Finish, Leave, world
  <1>27. ASSUME NEW p \in Pushers, Crash(p) PROVE Goal
    BY <1>27 DEF Crash, Leave, Fault, world, runRows
  <1> QED
    BY <1>0, <1>1, <1>2, <1>3, <1>4, <1>5, <1>6, <1>7, <1>8, <1>9,
       <1>10, <1>11, <1>12, <1>13, <1>14, <1>15, <1>16, <1>17, <1>18,
       <1>19, <1>20, <1>21, <1>22, <1>23, <1>24, <1>25, <1>26, <1>27
       DEF Next, WorldStep, OwnerStep, PushStep

\* A deletion touches one document, and leaves less of it.
LEMMA DeleteTouchesOne ==
    ASSUME TypeOK, NEW d \in Documents, NEW after \in AfterDelete(d)
    PROVE  /\ \A e \in Documents \ {d} : after[e] = store[e]
           /\ after[d].text \in {store[d].text, None}
  <1> USE DEF TypeOK
  <1>1. CASE after = store
    BY <1>1
  <1>2. CASE after = [store EXCEPT ![d].listed = FALSE]
    BY <1>2
  <1>3. CASE after = [store EXCEPT ![d] = Absent]
    BY <1>3 DEF Absent
  <1> QED
    BY <1>1, <1>2, <1>3 DEF AfterDelete

WorkInv ==
    \A p \in Pushers :
        /\ at[p] \in {"idle", "verified"} => sent[p] = {}
        /\ at[p] \in {"upload", "record", "pushed"} =>
               todo[p] \cup sent[p] \subseteq DOMAIN upserts[run[p]]

\* It works on what its run plans.
LEMMA WorkStep ==
    ASSUME TypeOK, FreshRunInv, PushInv, [Next]_vars
    PROVE  WorkInv'
  <1> USE DEF TypeOK, PushInv, WorkInv
  <1>0. CASE UNCHANGED vars
    BY <1>0 DEF vars, world, runRows, push
  <1>1. ASSUME NEW p \in People, NEW level \in Levels, Classify(p, level)
        PROVE  WorkInv'
    BY <1>1 DEF Classify, Changed, runRows, push
  <1>2. ASSUME NEW c \in Chats, NEW p \in People, Join(c, p) PROVE WorkInv'
    BY <1>2 DEF Join, Changed, runRows, push
  <1>3. ASSUME NEW c \in Chats, NEW p \in People, Resolve(c, p) PROVE WorkInv'
    BY <1>3 DEF Resolve, Changed, runRows, push
  <1>4. ASSUME NEW s \in Segments, Edit(s) PROVE WorkInv'
    BY <1>4 DEF Edit, Changed, runRows, push
  <1>5. ASSUME NEW a \in Attachments, Withdraw(a) PROVE WorkInv'
    BY <1>5 DEF Withdraw, Changed, runRows, push
  <1>6. ASSUME NEW s \in Segments, Resegment(s) PROVE WorkInv'
    BY <1>6 DEF Resegment, Changed, runRows, push
  <1>7. CASE Reconfigure
    BY <1>7 DEF Reconfigure, Changed, runRows, push
  <1>8. CASE StartPlan
    BY <1>8 DEF StartPlan, ReadForPlan, world, runRows, push
  <1>9. ASSUME NEW p \in MayRevoke, StartPurge(p) PROVE WorkInv'
    BY <1>9 DEF StartPurge, ReadForPlan, world, runRows, push
  <1>10. CASE AbandonPlan
    BY <1>10 DEF AbandonPlan, world, runRows, push
  <1>11. ASSUME NEW r \in Runs, CommitPlan(r) PROVE WorkInv'
    BY <1>11 DEF CommitPlan, push
  <1>12. ASSUME NEW r \in Runs, Approve(r) PROVE WorkInv'
    BY <1>12 DEF Approve, world, push
  <1>13. ASSUME NEW p \in Pushers, NEW r \in Runs, Verify(p, r) PROVE WorkInv'
    BY <1>13 DEF Verify, world, runRows
  <1>14. ASSUME NEW p \in Pushers, StartPush(p) PROVE WorkInv'
    BY <1>14 DEF StartPush, world
  <1>15. ASSUME NEW p \in Pushers, NEW d \in Documents, Upload(p, d) PROVE WorkInv'
    BY <1>15 DEF Upload, world, runRows
  <1>16. ASSUME NEW p \in Pushers, NEW d \in Documents, UploadFails(p, d)
        PROVE  WorkInv'
    BY <1>16 DEF UploadFails, Mark, Fault, world, runRows
  <1>17. ASSUME NEW p \in Pushers, NEW d \in Documents, RecordFailed(p, d)
        PROVE  WorkInv'
    BY <1>17 DEF RecordFailed, Mark, world, runRows
  <1>18. ASSUME NEW p \in Pushers, NEW d \in Documents, RecordItem(p, d)
        PROVE  WorkInv'
    BY <1>18 DEF RecordItem, Mark, world, runRows
  <1>19. ASSUME NEW p \in Pushers, NEW d \in Documents, RecordDocument(p, d)
        PROVE  WorkInv'
    BY <1>19 DEF RecordDocument, world, runRows
  <1>20. ASSUME NEW p \in Pushers, NEW d \in Documents, Delete(p, d) PROVE WorkInv'
    BY <1>20 DEF Delete, AfterDelete, Absent, world, runRows
  <1>21. ASSUME NEW p \in Pushers, NEW d \in Documents, DeleteFails(p, d)
        PROVE  WorkInv'
    BY <1>21 DEF DeleteFails, AfterDelete, Absent, Mark, Fault, world, runRows
  <1>22. ASSUME NEW p \in Pushers, NEW d \in Documents, RecordDeleted(p, d)
        PROVE  WorkInv'
    BY <1>22 DEF RecordDeleted, Mark, world, runRows
  <1>23. ASSUME NEW p \in Pushers, NEW d \in Documents, RecordPurged(p, d)
        PROVE  WorkInv'
    BY <1>23 DEF RecordPurged, world, runRows
  <1>24. ASSUME NEW p \in Pushers,
               NEW failed \in SUBSET Documents, NEW all \in SUBSET Documents,
               Import(p, failed, all)
        PROVE  WorkInv'
    BY <1>24 DEF Import, Fault, world, runRows
  <1>25. ASSUME NEW p \in Pushers, StartDeletes(p) PROVE WorkInv'
    BY <1>25 DEF StartDeletes, world, runRows
  <1>26. ASSUME NEW p \in Pushers, Finish(p) PROVE WorkInv'
    BY <1>26 DEF Finish, Leave, world
  <1>27. ASSUME NEW p \in Pushers, Crash(p) PROVE WorkInv'
    BY <1>27 DEF Crash, Leave, Fault, world, runRows
  <1> QED
    BY <1>0, <1>1, <1>2, <1>3, <1>4, <1>5, <1>6, <1>7, <1>8, <1>9,
       <1>10, <1>11, <1>12, <1>13, <1>14, <1>15, <1>16, <1>17, <1>18,
       <1>19, <1>20, <1>21, <1>22, <1>23, <1>24, <1>25, <1>26, <1>27
       DEF Next, WorldStep, OwnerStep, PushStep

LEMMA PushInvStep ==
    ASSUME TypeOK, FreshRunInv, PushInv, ScopeInv, [Next]_vars
    PROVE  PushInv'
  <1>1. ASSUME NEW q \in Pushers, at'[q] # "idle"
        PROVE  /\ run'[q] \in Runs /\ status'[run'[q]] # "none"
               /\ Planned(run[q])' \subseteq Scope'
    <2>1. CASE at[q] # "idle" /\ run'[q] = run[q]
      <3>1. run[q] \in Runs /\ status[run[q]] # "none" /\ Planned(run[q]) \subseteq Scope
        BY <2>1 DEF PushInv
      <3>2. RunStays(run[q])
        BY <3>1, PlannedRunStays
      <3>3. Planned(run[q])' = Planned(run[q])
        BY <2>1, <3>2 DEF Planned, RunStays
      <3> QED
        BY <2>1, <3>1, <3>2, <3>3, ScopeGrows DEF RunStays
    <2>2. ASSUME NEW r \in Runs, Verify(q, r), run'[q] = r
          PROVE  /\ run'[q] \in Runs /\ status'[run'[q]] # "none"
                 /\ Planned(run[q])' \subseteq Scope'
      <3>1. status[r] # "none"
        BY <2>2 DEF Verify, Pushable
      <3>2. RunStays(r)
        BY <3>1, PlannedRunStays
      <3>3. Planned(run[q])' = Planned(r)
        BY <2>2, <3>2 DEF Planned, RunStays
      <3> QED
        BY <2>2, <3>2, <3>3, VerifiedInScope, ScopeGrows DEF RunStays
    <2> QED
      BY <1>1, <2>1, <2>2, PushKeepsItsRun
  <1>2. WorkInv'
    BY WorkStep
  <1> QED
    BY <1>1, <1>2 DEF PushInv, WorkInv

\* What reaches the bucket or its record is of the run that is pushed.
LEMMA ScopeStep ==
    ASSUME TypeOK, FreshRunInv, PushInv, ScopeInv, [Next]_vars
    PROVE  ScopeInv'
  <1> DEFINE InScope == \A d \in Documents :
                 recorded'[d] # None \/ store'[d].text # None => ChatOfDocument(d) \in Scope
  <1>a. Scope \subseteq Scope'
    BY ScopeGrows
  <1> SUFFICES InScope
    BY <1>a DEF ScopeInv
  <1> USE DEF TypeOK, ScopeInv, Absent
  <1>0. CASE UNCHANGED vars
    BY <1>0 DEF vars, world, runRows, push
  <1>1. ASSUME NEW p \in People, NEW level \in Levels, Classify(p, level) PROVE InScope
    BY <1>1 DEF Classify, Changed, runRows, push
  <1>2. ASSUME NEW c \in Chats, NEW p \in People, Join(c, p) PROVE InScope
    BY <1>2 DEF Join, Changed, runRows, push
  <1>3. ASSUME NEW c \in Chats, NEW p \in People, Resolve(c, p) PROVE InScope
    BY <1>3 DEF Resolve, Changed, runRows, push
  <1>4. ASSUME NEW s \in Segments, Edit(s) PROVE InScope
    BY <1>4 DEF Edit, Changed, runRows, push
  <1>5. ASSUME NEW a \in Attachments, Withdraw(a) PROVE InScope
    BY <1>5 DEF Withdraw, Changed, runRows, push
  <1>6. ASSUME NEW s \in Segments, Resegment(s) PROVE InScope
    BY <1>6 DEF Resegment, Changed, runRows, push
  <1>7. CASE Reconfigure
    BY <1>7 DEF Reconfigure, Changed, runRows, push
  <1>8. CASE StartPlan
    BY <1>8 DEF StartPlan, ReadForPlan, world, runRows, push
  <1>9. ASSUME NEW p \in MayRevoke, StartPurge(p) PROVE InScope
    BY <1>9 DEF StartPurge, ReadForPlan, world, runRows, push
  <1>10. CASE AbandonPlan
    BY <1>10 DEF AbandonPlan, world, runRows, push
  <1>11. ASSUME NEW r \in Runs, CommitPlan(r) PROVE InScope
    BY <1>11 DEF CommitPlan, push
  <1>12. ASSUME NEW r \in Runs, Approve(r) PROVE InScope
    BY <1>12 DEF Approve, world, push
  <1>13. ASSUME NEW p \in Pushers, NEW r \in Runs, Verify(p, r) PROVE InScope
    BY <1>13 DEF Verify, world, runRows
  <1>14. ASSUME NEW p \in Pushers, StartPush(p) PROVE InScope
    BY <1>14 DEF StartPush, world
  <1>15. ASSUME NEW p \in Pushers, NEW d \in Documents, Upload(p, d) PROVE InScope
    <2>1. ChatOfDocument(d) \in Scope
      BY <1>15 DEF Upload, PushInv, Planned
    <2>2. \A e \in Documents \ {d} : store'[e] = store[e] /\ recorded'[e] = recorded[e]
      BY <1>15 DEF Upload
    <2> QED
      BY <2>1, <2>2
  <1>16. ASSUME NEW p \in Pushers, NEW d \in Documents, UploadFails(p, d) PROVE InScope
    <2>1. ChatOfDocument(d) \in Scope
      BY <1>16 DEF UploadFails, PushInv, Planned
    <2>2. \A e \in Documents \ {d} : store'[e] = store[e] /\ recorded'[e] = recorded[e]
      BY <1>16 DEF UploadFails
    <2> QED
      BY <2>1, <2>2
  <1>17. ASSUME NEW p \in Pushers, NEW d \in Documents, RecordFailed(p, d) PROVE InScope
    BY <1>17 DEF RecordFailed, Mark, world, runRows
  <1>18. ASSUME NEW p \in Pushers, NEW d \in Documents, RecordItem(p, d) PROVE InScope
    BY <1>18 DEF RecordItem, Mark, world, runRows
  <1>19. ASSUME NEW p \in Pushers, NEW d \in Documents, RecordDocument(p, d) PROVE InScope
    <2>1. ChatOfDocument(d) \in Scope
      BY <1>19 DEF RecordDocument, PushInv, Planned
    <2>2. \A e \in Documents \ {d} : store'[e] = store[e] /\ recorded'[e] = recorded[e]
      BY <1>19 DEF RecordDocument
    <2> QED
      BY <2>1, <2>2
  <1>20. ASSUME NEW p \in Pushers, NEW d \in Documents, Delete(p, d) PROVE InScope
    <2>1. /\ \A e \in Documents \ {d} : store'[e] = store[e]
          /\ store'[d].text \in {store[d].text, None}
      BY <1>20, DeleteTouchesOne DEF Delete
    <2>2. recorded' = recorded
      BY <1>20 DEF Delete
    <2> QED
      BY <2>1, <2>2
  <1>21. ASSUME NEW p \in Pushers, NEW d \in Documents, DeleteFails(p, d) PROVE InScope
    <2>1. /\ \A e \in Documents \ {d} : store'[e] = store[e]
          /\ store'[d].text \in {store[d].text, None}
      BY <1>21, DeleteTouchesOne DEF DeleteFails
    <2>2. recorded' = recorded
      BY <1>21 DEF DeleteFails
    <2> QED
      BY <2>1, <2>2
  <1>22. ASSUME NEW p \in Pushers, NEW d \in Documents, RecordDeleted(p, d) PROVE InScope
    BY <1>22 DEF RecordDeleted, Mark, world, runRows
  <1>23. ASSUME NEW p \in Pushers, NEW d \in Documents, RecordPurged(p, d) PROVE InScope
    BY <1>23 DEF RecordPurged, world, runRows
  <1>24. ASSUME NEW p \in Pushers, NEW failed \in SUBSET Documents,
             NEW all \in SUBSET Documents, Import(p, failed, all)
      PROVE  InScope
    BY <1>24 DEF Import, Fault, world, runRows
  <1>25. ASSUME NEW p \in Pushers, StartDeletes(p) PROVE InScope
    BY <1>25 DEF StartDeletes, world, runRows
  <1>26. ASSUME NEW p \in Pushers, Finish(p) PROVE InScope
    BY <1>26 DEF Finish, Leave, world
  <1>27. ASSUME NEW p \in Pushers, Crash(p) PROVE InScope
    BY <1>27 DEF Crash, Leave, Fault, world, runRows
  <1> QED
    BY <1>0, <1>1, <1>2, <1>3, <1>4, <1>5, <1>6, <1>7, <1>8, <1>9,
       <1>10, <1>11, <1>12, <1>13, <1>14, <1>15, <1>16, <1>17, <1>18,
       <1>19, <1>20, <1>21, <1>22, <1>23, <1>24, <1>25, <1>26, <1>27
       DEF Next, WorldStep, OwnerStep, PushStep

----------------------------------------------------------------------------
(* What was verified stays so until the world changes.                     *)

LEMMA WorldOrStale ==
    ASSUME TypeOK, [Next]_vars
    PROVE  fresh' = {} \/ UNCHANGED << allowed, members, live, linked >>
  <1> DEFINE Goal == fresh' = {} \/ UNCHANGED << allowed, members, live, linked >>
  <1> SUFFICES Goal
    OBVIOUS
  <1>0. CASE UNCHANGED vars
    BY <1>0 DEF vars, world, runRows, push
  <1>1. ASSUME NEW p \in People, NEW level \in Levels, Classify(p, level) PROVE Goal
    BY <1>1 DEF Classify, Changed, runRows, push
  <1>2. ASSUME NEW c \in Chats, NEW p \in People, Join(c, p) PROVE Goal
    BY <1>2 DEF Join, Changed, runRows, push
  <1>3. ASSUME NEW c \in Chats, NEW p \in People, Resolve(c, p) PROVE Goal
    BY <1>3 DEF Resolve, Changed, runRows, push
  <1>4. ASSUME NEW s \in Segments, Edit(s) PROVE Goal
    BY <1>4 DEF Edit, Changed, runRows, push
  <1>5. ASSUME NEW a \in Attachments, Withdraw(a) PROVE Goal
    BY <1>5 DEF Withdraw, Changed, runRows, push
  <1>6. ASSUME NEW s \in Segments, Resegment(s) PROVE Goal
    BY <1>6 DEF Resegment, Changed, runRows, push
  <1>7. CASE Reconfigure
    BY <1>7 DEF Reconfigure, Changed, runRows, push
  <1>8. CASE StartPlan
    BY <1>8 DEF StartPlan, ReadForPlan, world, runRows, push
  <1>9. ASSUME NEW p \in MayRevoke, StartPurge(p) PROVE Goal
    BY <1>9 DEF StartPurge, ReadForPlan, world, runRows, push
  <1>10. CASE AbandonPlan
    BY <1>10 DEF AbandonPlan, world, runRows, push
  <1>11. ASSUME NEW r \in Runs, CommitPlan(r) PROVE Goal
    BY <1>11 DEF CommitPlan, push
  <1>12. ASSUME NEW r \in Runs, Approve(r) PROVE Goal
    BY <1>12 DEF Approve, world, push
  <1>13. ASSUME NEW p \in Pushers, NEW r \in Runs, Verify(p, r) PROVE Goal
    BY <1>13 DEF Verify, world, runRows
  <1>14. ASSUME NEW p \in Pushers, StartPush(p) PROVE Goal
    BY <1>14 DEF StartPush, world
  <1>15. ASSUME NEW p \in Pushers, NEW d \in Documents, Upload(p, d) PROVE Goal
    BY <1>15 DEF Upload, world, runRows
  <1>16. ASSUME NEW p \in Pushers, NEW d \in Documents, UploadFails(p, d) PROVE Goal
    BY <1>16 DEF UploadFails, Mark, Fault, world, runRows
  <1>17. ASSUME NEW p \in Pushers, NEW d \in Documents, RecordFailed(p, d) PROVE Goal
    BY <1>17 DEF RecordFailed, Mark, world, runRows
  <1>18. ASSUME NEW p \in Pushers, NEW d \in Documents, RecordItem(p, d) PROVE Goal
    BY <1>18 DEF RecordItem, Mark, world, runRows
  <1>19. ASSUME NEW p \in Pushers, NEW d \in Documents, RecordDocument(p, d)
        PROVE  Goal
    BY <1>19 DEF RecordDocument, world, runRows
  <1>20. ASSUME NEW p \in Pushers, NEW d \in Documents, Delete(p, d) PROVE Goal
    BY <1>20 DEF Delete, AfterDelete, Absent, world, runRows
  <1>21. ASSUME NEW p \in Pushers, NEW d \in Documents, DeleteFails(p, d) PROVE Goal
    BY <1>21 DEF DeleteFails, AfterDelete, Absent, Mark, Fault, world, runRows
  <1>22. ASSUME NEW p \in Pushers, NEW d \in Documents, RecordDeleted(p, d) PROVE Goal
    BY <1>22 DEF RecordDeleted, Mark, world, runRows
  <1>23. ASSUME NEW p \in Pushers, NEW d \in Documents, RecordPurged(p, d) PROVE Goal
    BY <1>23 DEF RecordPurged, world, runRows
  <1>24. ASSUME NEW p \in Pushers,
               NEW failed \in SUBSET Documents, NEW all \in SUBSET Documents,
               Import(p, failed, all)
        PROVE  Goal
    BY <1>24 DEF Import, Fault, world, runRows
  <1>25. ASSUME NEW p \in Pushers, StartDeletes(p) PROVE Goal
    BY <1>25 DEF StartDeletes, world, runRows
  <1>26. ASSUME NEW p \in Pushers, Finish(p) PROVE Goal
    BY <1>26 DEF Finish, Leave, world
  <1>27. ASSUME NEW p \in Pushers, Crash(p) PROVE Goal
    BY <1>27 DEF Crash, Leave, Fault, world, runRows
  <1> QED
    BY <1>0, <1>1, <1>2, <1>3, <1>4, <1>5, <1>6, <1>7, <1>8, <1>9,
       <1>10, <1>11, <1>12, <1>13, <1>14, <1>15, <1>16, <1>17, <1>18,
       <1>19, <1>20, <1>21, <1>22, <1>23, <1>24, <1>25, <1>26, <1>27
       DEF Next, WorldStep, OwnerStep, PushStep

\* A push that may still upload is fresh because it was, or is verified now.
LEMMA FreshPush ==
    ASSUME TypeOK, [Next]_vars, NEW q \in Pushers,
           q \in fresh', at'[q] \in {"verified", "upload"}
    PROVE  \/ q \in fresh /\ at[q] \in {"verified", "upload"} /\ run'[q] = run[q]
           \/ \E r \in Runs : Verify(q, r) /\ run'[q] = r
  <1> DEFINE Goal == \/ q \in fresh /\ at[q] \in {"verified", "upload"} /\ run'[q] = run[q]
                     \/ \E r \in Runs : Verify(q, r) /\ run'[q] = r
  <1> SUFFICES Goal
    OBVIOUS
  <1> USE DEF TypeOK
  <1>0. CASE UNCHANGED vars
    BY <1>0 DEF vars, world, runRows, push
  <1>1. ASSUME NEW p \in People, NEW level \in Levels, Classify(p, level) PROVE Goal
    BY <1>1 DEF Classify, Changed, runRows, push
  <1>2. ASSUME NEW c \in Chats, NEW p \in People, Join(c, p) PROVE Goal
    BY <1>2 DEF Join, Changed, runRows, push
  <1>3. ASSUME NEW c \in Chats, NEW p \in People, Resolve(c, p) PROVE Goal
    BY <1>3 DEF Resolve, Changed, runRows, push
  <1>4. ASSUME NEW s \in Segments, Edit(s) PROVE Goal
    BY <1>4 DEF Edit, Changed, runRows, push
  <1>5. ASSUME NEW a \in Attachments, Withdraw(a) PROVE Goal
    BY <1>5 DEF Withdraw, Changed, runRows, push
  <1>6. ASSUME NEW s \in Segments, Resegment(s) PROVE Goal
    BY <1>6 DEF Resegment, Changed, runRows, push
  <1>7. CASE Reconfigure
    BY <1>7 DEF Reconfigure, Changed, runRows, push
  <1>8. CASE StartPlan
    BY <1>8 DEF StartPlan, ReadForPlan, world, runRows, push
  <1>9. ASSUME NEW p \in MayRevoke, StartPurge(p) PROVE Goal
    BY <1>9 DEF StartPurge, ReadForPlan, world, runRows, push
  <1>10. CASE AbandonPlan
    BY <1>10 DEF AbandonPlan, world, runRows, push
  <1>11. ASSUME NEW r \in Runs, CommitPlan(r) PROVE Goal
    BY <1>11 DEF CommitPlan, push
  <1>12. ASSUME NEW r \in Runs, Approve(r) PROVE Goal
    BY <1>12 DEF Approve, world, push
  <1>13. ASSUME NEW p \in Pushers, NEW r \in Runs, Verify(p, r) PROVE Goal
    <2>1. CASE q = p
      <3>1. Verify(q, r) /\ run'[q] = r
        BY <1>13, <2>1 DEF Verify
      <3> QED
        BY <3>1
    <2>2. CASE q # p
      BY <1>13, <2>2 DEF Verify
    <2> QED
      BY <2>1, <2>2
  <1>14. ASSUME NEW p \in Pushers, StartPush(p) PROVE Goal
    BY <1>14 DEF StartPush, world
  <1>15. ASSUME NEW p \in Pushers, NEW d \in Documents, Upload(p, d) PROVE Goal
    BY <1>15 DEF Upload, world, runRows
  <1>16. ASSUME NEW p \in Pushers, NEW d \in Documents, UploadFails(p, d) PROVE Goal
    BY <1>16 DEF UploadFails, Mark, Fault, world, runRows
  <1>17. ASSUME NEW p \in Pushers, NEW d \in Documents, RecordFailed(p, d) PROVE Goal
    BY <1>17 DEF RecordFailed, Mark, world, runRows
  <1>18. ASSUME NEW p \in Pushers, NEW d \in Documents, RecordItem(p, d) PROVE Goal
    BY <1>18 DEF RecordItem, Mark, world, runRows
  <1>19. ASSUME NEW p \in Pushers, NEW d \in Documents, RecordDocument(p, d)
        PROVE  Goal
    BY <1>19 DEF RecordDocument, world, runRows
  <1>20. ASSUME NEW p \in Pushers, NEW d \in Documents, Delete(p, d) PROVE Goal
    BY <1>20 DEF Delete, AfterDelete, Absent, world, runRows
  <1>21. ASSUME NEW p \in Pushers, NEW d \in Documents, DeleteFails(p, d) PROVE Goal
    BY <1>21 DEF DeleteFails, AfterDelete, Absent, Mark, Fault, world, runRows
  <1>22. ASSUME NEW p \in Pushers, NEW d \in Documents, RecordDeleted(p, d) PROVE Goal
    BY <1>22 DEF RecordDeleted, Mark, world, runRows
  <1>23. ASSUME NEW p \in Pushers, NEW d \in Documents, RecordPurged(p, d) PROVE Goal
    BY <1>23 DEF RecordPurged, world, runRows
  <1>24. ASSUME NEW p \in Pushers,
               NEW failed \in SUBSET Documents, NEW all \in SUBSET Documents,
               Import(p, failed, all)
        PROVE  Goal
    BY <1>24 DEF Import, Fault, world, runRows
  <1>25. ASSUME NEW p \in Pushers, StartDeletes(p) PROVE Goal
    BY <1>25 DEF StartDeletes, world, runRows
  <1>26. ASSUME NEW p \in Pushers, Finish(p) PROVE Goal
    BY <1>26 DEF Finish, Leave, world
  <1>27. ASSUME NEW p \in Pushers, Crash(p) PROVE Goal
    BY <1>27 DEF Crash, Leave, Fault, world, runRows
  <1> QED
    BY <1>0, <1>1, <1>2, <1>3, <1>4, <1>5, <1>6, <1>7, <1>8, <1>9,
       <1>10, <1>11, <1>12, <1>13, <1>14, <1>15, <1>16, <1>17, <1>18,
       <1>19, <1>20, <1>21, <1>22, <1>23, <1>24, <1>25, <1>26, <1>27
       DEF Next, WorldStep, OwnerStep, PushStep

LEMMA EligibleStep ==
    ASSUME TypeOK, TypeOK', PushInv, NothingIneligibleLeaves, [Next]_vars
    PROVE  NothingIneligibleLeaves'
  <1> DEFINE Eligible(r) == \A d \in DOMAIN upserts[r] :
                 /\ d \in Desired(allowed)
                 /\ upserts[r][d].attachments \subseteq EligibleAttachments(allowed, d)
  <1> SUFFICES ASSUME NEW q \in Pushers, q \in fresh', at'[q] \in {"verified", "upload"}
               PROVE  Eligible(run[q])'
    BY DEF NothingIneligibleLeaves, TypeOK
  <1>1. UNCHANGED << allowed, members, live, linked >>
    BY WorldOrStale
  <1>2. ASSUME NEW r \in Runs, status[r] # "none", Eligible(r), run'[q] = r
        PROVE  Eligible(run[q])'
    <2>1. upserts'[r] = upserts[r]
      BY <1>2, PlannedRunStays DEF RunStays
    <2>2. /\ Desired(allowed)' = Desired(allowed)
          /\ \A d : EligibleAttachments(allowed, d)' = EligibleAttachments(allowed, d)
      BY <1>1 DEF Desired, EligibleAttachments, EligibleChat, EligibleAttachment
    <2> QED
      BY <1>2, <2>1, <2>2
  <1>3. CASE q \in fresh /\ at[q] \in {"verified", "upload"} /\ run'[q] = run[q]
    <2>1. run[q] \in Runs /\ status[run[q]] # "none"
      BY <1>3 DEF PushInv
    <2>2. Eligible(run[q])
      BY <1>3 DEF NothingIneligibleLeaves
    <2> QED
      BY <1>2, <1>3, <2>1, <2>2
  <1>4. ASSUME NEW r \in Runs, Verify(q, r), run'[q] = r
        PROVE  Eligible(run[q])'
    <2>1. status[r] # "none"
      BY <1>4 DEF Verify, Pushable
    <2>2. Eligible(r)
      BY <1>4 DEF Verify, StillEligible
    <2> QED
      BY <1>2, <1>4, <2>1, <2>2
  <1> QED
    BY FreshPush, <1>3, <1>4

----------------------------------------------------------------------------
(* What a push has done so far is what it believes.                        *)

StoreInv ==
    \A p \in Pushers :
        /\ at[p] = "upload" =>
               \A d \in sent[p] : store[d].text = upserts[run[p]][d]
        /\ at[p] \in {"record", "pushed"} =>
               \A d \in sent[p] \ refused[p] :
                   store[d] = [text |-> upserts[run[p]][d], listed |-> TRUE]
        /\ at[p] \in {"upload", "record", "pushed"} => sent[p] \subseteq loose
        /\ at[p] = "pushed" => todo[p] \subseteq sent[p] \ refused[p]
        /\ at[p] \in {"absent", "deleted"} => \A d \in sent[p] : store[d] = Absent

\* With one push at a time nobody else touches what it has done.
LEMMA StoreStep ==
    ASSUME \A p, q \in Pushers : p = q, TypeOK, FreshRunInv, PushInv, StoreInv, [Next]_vars
    PROVE  StoreInv'
  <1> USE DEF TypeOK, PushInv, StoreInv
  <1>0. CASE UNCHANGED vars
    BY <1>0 DEF vars, world, runRows, push
  <1>1. ASSUME NEW p \in People, NEW level \in Levels, Classify(p, level)
        PROVE  StoreInv'
    BY <1>1 DEF Classify, Changed, runRows, push
  <1>2. ASSUME NEW c \in Chats, NEW p \in People, Join(c, p) PROVE StoreInv'
    BY <1>2 DEF Join, Changed, runRows, push
  <1>3. ASSUME NEW c \in Chats, NEW p \in People, Resolve(c, p) PROVE StoreInv'
    BY <1>3 DEF Resolve, Changed, runRows, push
  <1>4. ASSUME NEW s \in Segments, Edit(s) PROVE StoreInv'
    BY <1>4 DEF Edit, Changed, runRows, push
  <1>5. ASSUME NEW a \in Attachments, Withdraw(a) PROVE StoreInv'
    BY <1>5 DEF Withdraw, Changed, runRows, push
  <1>6. ASSUME NEW s \in Segments, Resegment(s) PROVE StoreInv'
    BY <1>6 DEF Resegment, Changed, runRows, push
  <1>7. CASE Reconfigure
    BY <1>7 DEF Reconfigure, Changed, runRows, push
  <1>8. CASE StartPlan
    BY <1>8 DEF StartPlan, ReadForPlan, world, runRows, push
  <1>9. ASSUME NEW p \in MayRevoke, StartPurge(p) PROVE StoreInv'
    BY <1>9 DEF StartPurge, ReadForPlan, world, runRows, push
  <1>10. CASE AbandonPlan
    BY <1>10 DEF AbandonPlan, world, runRows, push
  <1>11. ASSUME NEW r \in Runs, CommitPlan(r) PROVE StoreInv'
    BY <1>11 DEF CommitPlan, push
  <1>12. ASSUME NEW r \in Runs, Approve(r) PROVE StoreInv'
    BY <1>12 DEF Approve, world, push
  <1>13. ASSUME NEW p \in Pushers, NEW r \in Runs, Verify(p, r) PROVE StoreInv'
    BY <1>13 DEF Verify, world, runRows
  <1>14. ASSUME NEW p \in Pushers, StartPush(p) PROVE StoreInv'
    BY <1>14 DEF StartPush, world
  <1>15. ASSUME NEW p \in Pushers, NEW d \in Documents, Upload(p, d) PROVE StoreInv'
    BY <1>15 DEF Upload, world, runRows
  <1>16. ASSUME NEW p \in Pushers, NEW d \in Documents, UploadFails(p, d)
        PROVE  StoreInv'
    <2>1. /\ store'[d].text \in {store[d].text, upserts[run[p]][d]}
          /\ \A e \in Documents \ {d} : store'[e] = store[e]
      BY <1>16 DEF UploadFails
    <2>2. UNCHANGED << at, run, sent, refused, upserts >> /\ loose' = loose \cup {d}
      BY <1>16 DEF UploadFails, runRows
    <2>3. \A q \in Pushers : q = p /\ at'[q] = "upload"
      BY <1>16, <2>2 DEF UploadFails
    <2>4. \A e \in sent[p] : store'[e].text = upserts[run[p]][e]
      <3> TAKE e \in sent[p]
      <3>1. store[e].text = upserts[run[p]][e]
        BY <2>2, <2>3
      <3> QED
        BY <2>1, <3>1
    <2>5. sent[p] \subseteq loose'
      BY <2>2, <2>3
    <2> QED
      BY <2>2, <2>3, <2>4, <2>5
  <1>17. ASSUME NEW p \in Pushers, NEW d \in Documents, RecordFailed(p, d)
        PROVE  StoreInv'
    BY <1>17 DEF RecordFailed, Mark, world, runRows
  <1>18. ASSUME NEW p \in Pushers, NEW d \in Documents, RecordItem(p, d)
        PROVE  StoreInv'
    BY <1>18 DEF RecordItem, Mark, world, runRows
  <1>19. ASSUME NEW p \in Pushers, NEW d \in Documents, RecordDocument(p, d)
        PROVE  StoreInv'
    BY <1>19 DEF RecordDocument, world, runRows
  <1>20. ASSUME NEW p \in Pushers, NEW d \in Documents, Delete(p, d) PROVE StoreInv'
    <2>1. /\ store'[d] = Absent
          /\ sent' = [sent EXCEPT ![p] = {d}]
          /\ at' = [at EXCEPT ![p] = "absent"]
      BY <1>20 DEF Delete
    <2> QED
      BY <2>1
  <1>21. ASSUME NEW p \in Pushers, NEW d \in Documents, DeleteFails(p, d)
        PROVE  StoreInv'
    BY <1>21 DEF DeleteFails, AfterDelete, Absent, Mark, Fault, world, runRows
  <1>22. ASSUME NEW p \in Pushers, NEW d \in Documents, RecordDeleted(p, d)
        PROVE  StoreInv'
    BY <1>22 DEF RecordDeleted, Mark, world, runRows
  <1>23. ASSUME NEW p \in Pushers, NEW d \in Documents, RecordPurged(p, d)
        PROVE  StoreInv'
    BY <1>23 DEF RecordPurged, world, runRows
  <1>24. ASSUME NEW p \in Pushers,
               NEW failed \in SUBSET Documents, NEW all \in SUBSET Documents,
               Import(p, failed, all)
        PROVE  StoreInv'
    <2>1. /\ at[p] = "upload"
          /\ at' = [at EXCEPT ![p] = "record"]
          /\ refused' = [refused EXCEPT ![p] = failed]
          /\ sent[p] \ failed \subseteq all
          /\ UNCHANGED << run, sent, loose, upserts >>
      BY <1>24 DEF Import, runRows
    <2>2. \A d \in all : store'[d] = [store[d] EXCEPT !.listed = TRUE]
      BY <1>24 DEF Import
    <2>3. \A d \in sent[p] \ failed :
              store'[d] = [text |-> upserts[run[p]][d], listed |-> TRUE]
      <3> SUFFICES ASSUME NEW d \in sent[p], d \notin failed
                   PROVE  store'[d] = [text |-> upserts[run[p]][d], listed |-> TRUE]
        OBVIOUS
      <3>1. store[d] \in [text: Text \cup {None}, listed: BOOLEAN]
        OBVIOUS
      <3>2. store[d].text = upserts[run[p]][d]
        BY <2>1
      <3>3. store'[d] = [store[d] EXCEPT !.listed = TRUE]
        BY <2>1, <2>2
      <3> QED
        BY <3>1, <3>2, <3>3
    <2> QED
      BY <2>1, <2>3
  <1>25. ASSUME NEW p \in Pushers, StartDeletes(p) PROVE StoreInv'
    BY <1>25 DEF StartDeletes, world, runRows
  <1>26. ASSUME NEW p \in Pushers, Finish(p) PROVE StoreInv'
    BY <1>26 DEF Finish, Leave, world
  <1>27. ASSUME NEW p \in Pushers, Crash(p) PROVE StoreInv'
    BY <1>27 DEF Crash, Leave, Fault, world, runRows
  <1> QED
    BY <1>0, <1>1, <1>2, <1>3, <1>4, <1>5, <1>6, <1>7, <1>8, <1>9,
       <1>10, <1>11, <1>12, <1>13, <1>14, <1>15, <1>16, <1>17, <1>18,
       <1>19, <1>20, <1>21, <1>22, <1>23, <1>24, <1>25, <1>26, <1>27
       DEF Next, WorldStep, OwnerStep, PushStep

\* What leaves `loose` has just been recorded as it is.
LEMMA RecordStep ==
    ASSUME \A p, q \in Pushers : p = q, TypeOK, PushInv, StoreInv,
           RecordIsTrue, [Next]_vars
    PROVE  RecordIsTrue'
  <1> USE NoneAssumption DEF TypeOK, PushInv, StoreInv, RecordIsTrue
  <1>0. CASE UNCHANGED vars
    BY <1>0 DEF vars, world, runRows, push
  <1>1. ASSUME NEW p \in People, NEW level \in Levels, Classify(p, level)
        PROVE  RecordIsTrue'
    BY <1>1 DEF Classify, Changed, runRows, push
  <1>2. ASSUME NEW c \in Chats, NEW p \in People, Join(c, p) PROVE RecordIsTrue'
    BY <1>2 DEF Join, Changed, runRows, push
  <1>3. ASSUME NEW c \in Chats, NEW p \in People, Resolve(c, p) PROVE RecordIsTrue'
    BY <1>3 DEF Resolve, Changed, runRows, push
  <1>4. ASSUME NEW s \in Segments, Edit(s) PROVE RecordIsTrue'
    BY <1>4 DEF Edit, Changed, runRows, push
  <1>5. ASSUME NEW a \in Attachments, Withdraw(a) PROVE RecordIsTrue'
    BY <1>5 DEF Withdraw, Changed, runRows, push
  <1>6. ASSUME NEW s \in Segments, Resegment(s) PROVE RecordIsTrue'
    BY <1>6 DEF Resegment, Changed, runRows, push
  <1>7. CASE Reconfigure
    BY <1>7 DEF Reconfigure, Changed, runRows, push
  <1>8. CASE StartPlan
    BY <1>8 DEF StartPlan, ReadForPlan, world, runRows, push
  <1>9. ASSUME NEW p \in MayRevoke, StartPurge(p) PROVE RecordIsTrue'
    BY <1>9 DEF StartPurge, ReadForPlan, world, runRows, push
  <1>10. CASE AbandonPlan
    BY <1>10 DEF AbandonPlan, world, runRows, push
  <1>11. ASSUME NEW r \in Runs, CommitPlan(r) PROVE RecordIsTrue'
    BY <1>11 DEF CommitPlan, push
  <1>12. ASSUME NEW r \in Runs, Approve(r) PROVE RecordIsTrue'
    BY <1>12 DEF Approve, world, push
  <1>13. ASSUME NEW p \in Pushers, NEW r \in Runs, Verify(p, r) PROVE RecordIsTrue'
    BY <1>13 DEF Verify, world, runRows
  <1>14. ASSUME NEW p \in Pushers, StartPush(p) PROVE RecordIsTrue'
    BY <1>14 DEF StartPush, world
  <1>15. ASSUME NEW p \in Pushers, NEW d \in Documents, Upload(p, d)
        PROVE  RecordIsTrue'
    BY <1>15 DEF Upload, world, runRows
  <1>16. ASSUME NEW p \in Pushers, NEW d \in Documents, UploadFails(p, d)
        PROVE  RecordIsTrue'
    BY <1>16 DEF UploadFails, Mark, Fault, world, runRows
  <1>17. ASSUME NEW p \in Pushers, NEW d \in Documents, RecordFailed(p, d)
        PROVE  RecordIsTrue'
    BY <1>17 DEF RecordFailed, Mark, world, runRows
  <1>18. ASSUME NEW p \in Pushers, NEW d \in Documents, RecordItem(p, d)
        PROVE  RecordIsTrue'
    BY <1>18 DEF RecordItem, Mark, world, runRows
  <1>19. ASSUME NEW p \in Pushers, NEW d \in Documents, RecordDocument(p, d)
        PROVE  RecordIsTrue'
    <2>1. d \in sent[p] \ refused[p] /\ d \in DOMAIN upserts[run[p]] /\ run[p] \in Runs
      BY <1>19 DEF RecordDocument
    <2>2. store[d] = [text |-> upserts[run[p]][d], listed |-> TRUE]
      BY <1>19, <2>1 DEF RecordDocument
    <2>3. upserts[run[p]][d] # None
      BY <2>1
    <2>4. /\ recorded' = [recorded EXCEPT ![d] = upserts[run[p]][d]]
          /\ loose' = loose \ {d}
          /\ store' = store
      BY <1>19 DEF RecordDocument
    <2> QED
      BY <2>2, <2>3, <2>4
  <1>20. ASSUME NEW p \in Pushers, NEW d \in Documents, Delete(p, d)
        PROVE  RecordIsTrue'
    BY <1>20 DEF Delete, AfterDelete, Absent, world, runRows
  <1>21. ASSUME NEW p \in Pushers, NEW d \in Documents, DeleteFails(p, d)
        PROVE  RecordIsTrue'
    BY <1>21 DEF DeleteFails, AfterDelete, Absent, Mark, Fault, world, runRows
  <1>22. ASSUME NEW p \in Pushers, NEW d \in Documents, RecordDeleted(p, d)
        PROVE  RecordIsTrue'
    BY <1>22 DEF RecordDeleted, Mark, world, runRows
  <1>23. ASSUME NEW p \in Pushers, NEW d \in Documents, RecordPurged(p, d)
        PROVE  RecordIsTrue'
    BY <1>23 DEF RecordPurged, world, runRows
  <1>24. ASSUME NEW p \in Pushers,
               NEW failed \in SUBSET Documents, NEW all \in SUBSET Documents,
               Import(p, failed, all)
        PROVE  RecordIsTrue'
    <2>1. \A d \in Documents \ loose : store'[d] = store[d]
      BY <1>24 DEF Import
    <2> QED
      BY <1>24, <2>1 DEF Import
  <1>25. ASSUME NEW p \in Pushers, StartDeletes(p) PROVE RecordIsTrue'
    BY <1>25 DEF StartDeletes, world, runRows
  <1>26. ASSUME NEW p \in Pushers, Finish(p) PROVE RecordIsTrue'
    BY <1>26 DEF Finish, Leave, world
  <1>27. ASSUME NEW p \in Pushers, Crash(p) PROVE RecordIsTrue'
    BY <1>27 DEF Crash, Leave, Fault, world, runRows
  <1> QED
    BY <1>0, <1>1, <1>2, <1>3, <1>4, <1>5, <1>6, <1>7, <1>8, <1>9,
       <1>10, <1>11, <1>12, <1>13, <1>14, <1>15, <1>16, <1>17, <1>18,
       <1>19, <1>20, <1>21, <1>22, <1>23, <1>24, <1>25, <1>26, <1>27
       DEF Next, WorldStep, OwnerStep, PushStep

----------------------------------------------------------------------------
(* What a run that is still current has left to do.                        *)

\* The text the store should hold of a document.
Wanted(d) == IF d \in Desired(allowed) THEN Rendered(allowed, d) ELSE None

BusyInv ==
    \A p \in Pushers :
        /\ at[p] = "verified" => status[run[p]] \in Pushable
        /\ at[p] \notin {"idle", "verified"} => status[run[p]] = "pushing"
        /\ at[p] \in {"delete", "absent", "deleted"} => todo[p] \subseteq deletes[run[p]]
        /\ at[p] \in {"absent", "deleted"} => sent[p] \subseteq deletes[run[p]] \cap loose

\* A run that is current covers what is recorded and not wanted; what it has
\* done is recorded, unless it was killed in between.
Covers(r) ==
    /\ status[r] # "none"
    /\ \A d \in DOMAIN upserts[r] :
           /\ Wanted(d) = upserts[r][d]
           /\ item[r][d] \in {"staged", "pushed", "failed"}
           /\ item[r][d] = "pushed" /\ d \notin loose => recorded[d] = upserts[r][d]
    /\ \A d \in deletes[r] :
           /\ Wanted(d) = None
           /\ d \notin DOMAIN upserts[r]
           /\ item[r][d] \in {"staged", "deleted", "failed"}
           /\ item[r][d] = "deleted" /\ d \notin loose => recorded[d] = None
    /\ \A d \in Documents \ (DOMAIN upserts[r] \cup deletes[r]) : recorded[d] = Wanted(d)
    /\ status[r] = "ok" => \A d \in Documents : item[r][d] \notin {"staged", "failed"}

CoversInv == \A r \in current : Covers(r)

\* What is wanted changes only with the world, and then no run stays current
\* but one whose plan is committed with the change.
LEMMA WantedStays ==
    ASSUME UNCHANGED << allowed, members, live, edit, linked >>
    PROVE  \A d \in Documents : Wanted(d)' = Wanted(d)
  BY DEF Wanted, Desired, Rendered, EligibleAttachments, EligibleChat, EligibleAttachment

LEMMA CurrentWorld ==
    ASSUME TypeOK, [Next]_vars
    PROVE  \/ current' = {}
           \/ UNCHANGED << allowed, members, live, edit, linked >>
           \/ \E r \in Runs : CommitPlan(r)
  <1> DEFINE Goal == \/ current' = {}
                     \/ UNCHANGED << allowed, members, live, edit, linked >>
                     \/ \E r \in Runs : CommitPlan(r)
  <1> SUFFICES Goal
    OBVIOUS
  <1>0. CASE UNCHANGED vars
    BY <1>0 DEF vars, world, runRows, push
  <1>1. ASSUME NEW p \in People, NEW level \in Levels, Classify(p, level) PROVE Goal
    BY <1>1 DEF Classify, Changed, runRows, push
  <1>2. ASSUME NEW c \in Chats, NEW p \in People, Join(c, p) PROVE Goal
    BY <1>2 DEF Join, Changed, runRows, push
  <1>3. ASSUME NEW c \in Chats, NEW p \in People, Resolve(c, p) PROVE Goal
    BY <1>3 DEF Resolve, Changed, runRows, push
  <1>4. ASSUME NEW s \in Segments, Edit(s) PROVE Goal
    BY <1>4 DEF Edit, Changed, runRows, push
  <1>5. ASSUME NEW a \in Attachments, Withdraw(a) PROVE Goal
    BY <1>5 DEF Withdraw, Changed, runRows, push
  <1>6. ASSUME NEW s \in Segments, Resegment(s) PROVE Goal
    BY <1>6 DEF Resegment, Changed, runRows, push
  <1>7. CASE Reconfigure
    BY <1>7 DEF Reconfigure, Changed, runRows, push
  <1>8. CASE StartPlan
    BY <1>8 DEF StartPlan, ReadForPlan, world, runRows, push
  <1>9. ASSUME NEW p \in MayRevoke, StartPurge(p) PROVE Goal
    BY <1>9 DEF StartPurge, ReadForPlan, world, runRows, push
  <1>10. CASE AbandonPlan
    BY <1>10 DEF AbandonPlan, world, runRows, push
  <1>11. ASSUME NEW r \in Runs, CommitPlan(r) PROVE Goal
    BY <1>11
  <1>12. ASSUME NEW r \in Runs, Approve(r) PROVE Goal
    BY <1>12 DEF Approve, world, push
  <1>13. ASSUME NEW p \in Pushers, NEW r \in Runs, Verify(p, r) PROVE Goal
    BY <1>13 DEF Verify, world, runRows
  <1>14. ASSUME NEW p \in Pushers, StartPush(p) PROVE Goal
    BY <1>14 DEF StartPush, world
  <1>15. ASSUME NEW p \in Pushers, NEW d \in Documents, Upload(p, d) PROVE Goal
    BY <1>15 DEF Upload, world, runRows
  <1>16. ASSUME NEW p \in Pushers, NEW d \in Documents, UploadFails(p, d) PROVE Goal
    BY <1>16 DEF UploadFails, Mark, Fault, world, runRows
  <1>17. ASSUME NEW p \in Pushers, NEW d \in Documents, RecordFailed(p, d) PROVE Goal
    BY <1>17 DEF RecordFailed, Mark, world, runRows
  <1>18. ASSUME NEW p \in Pushers, NEW d \in Documents, RecordItem(p, d) PROVE Goal
    BY <1>18 DEF RecordItem, Mark, world, runRows
  <1>19. ASSUME NEW p \in Pushers, NEW d \in Documents, RecordDocument(p, d)
        PROVE  Goal
    BY <1>19 DEF RecordDocument, world, runRows
  <1>20. ASSUME NEW p \in Pushers, NEW d \in Documents, Delete(p, d) PROVE Goal
    BY <1>20 DEF Delete, AfterDelete, Absent, world, runRows
  <1>21. ASSUME NEW p \in Pushers, NEW d \in Documents, DeleteFails(p, d) PROVE Goal
    BY <1>21 DEF DeleteFails, AfterDelete, Absent, Mark, Fault, world, runRows
  <1>22. ASSUME NEW p \in Pushers, NEW d \in Documents, RecordDeleted(p, d) PROVE Goal
    BY <1>22 DEF RecordDeleted, Mark, world, runRows
  <1>23. ASSUME NEW p \in Pushers, NEW d \in Documents, RecordPurged(p, d) PROVE Goal
    BY <1>23 DEF RecordPurged, world, runRows
  <1>24. ASSUME NEW p \in Pushers,
               NEW failed \in SUBSET Documents, NEW all \in SUBSET Documents,
               Import(p, failed, all)
        PROVE  Goal
    BY <1>24 DEF Import, Fault, world, runRows
  <1>25. ASSUME NEW p \in Pushers, StartDeletes(p) PROVE Goal
    BY <1>25 DEF StartDeletes, world, runRows
  <1>26. ASSUME NEW p \in Pushers, Finish(p) PROVE Goal
    BY <1>26 DEF Finish, Leave, world
  <1>27. ASSUME NEW p \in Pushers, Crash(p) PROVE Goal
    BY <1>27 DEF Crash, Leave, Fault, world, runRows
  <1> QED
    BY <1>0, <1>1, <1>2, <1>3, <1>4, <1>5, <1>6, <1>7, <1>8, <1>9,
       <1>10, <1>11, <1>12, <1>13, <1>14, <1>15, <1>16, <1>17, <1>18,
       <1>19, <1>20, <1>21, <1>22, <1>23, <1>24, <1>25, <1>26, <1>27
       DEF Next, WorldStep, OwnerStep, PushStep

LEMMA CurrentShrinks ==
    ASSUME TypeOK, [Next]_vars, ~ \E r \in Runs : CommitPlan(r)
    PROVE  current' \subseteq current
  <1> DEFINE Goal == current' \subseteq current
  <1> SUFFICES Goal
    OBVIOUS
  <1>0. CASE UNCHANGED vars
    BY <1>0 DEF vars, world, runRows, push
  <1>1. ASSUME NEW p \in People, NEW level \in Levels, Classify(p, level) PROVE Goal
    BY <1>1 DEF Classify, Changed, runRows, push
  <1>2. ASSUME NEW c \in Chats, NEW p \in People, Join(c, p) PROVE Goal
    BY <1>2 DEF Join, Changed, runRows, push
  <1>3. ASSUME NEW c \in Chats, NEW p \in People, Resolve(c, p) PROVE Goal
    BY <1>3 DEF Resolve, Changed, runRows, push
  <1>4. ASSUME NEW s \in Segments, Edit(s) PROVE Goal
    BY <1>4 DEF Edit, Changed, runRows, push
  <1>5. ASSUME NEW a \in Attachments, Withdraw(a) PROVE Goal
    BY <1>5 DEF Withdraw, Changed, runRows, push
  <1>6. ASSUME NEW s \in Segments, Resegment(s) PROVE Goal
    BY <1>6 DEF Resegment, Changed, runRows, push
  <1>7. CASE Reconfigure
    BY <1>7 DEF Reconfigure, Changed, runRows, push
  <1>8. CASE StartPlan
    BY <1>8 DEF StartPlan, ReadForPlan, world, runRows, push
  <1>9. ASSUME NEW p \in MayRevoke, StartPurge(p) PROVE Goal
    BY <1>9 DEF StartPurge, ReadForPlan, world, runRows, push
  <1>10. CASE AbandonPlan
    BY <1>10 DEF AbandonPlan, world, runRows, push
  <1>11. ASSUME NEW r \in Runs, CommitPlan(r) PROVE Goal
    BY <1>11
  <1>12. ASSUME NEW r \in Runs, Approve(r) PROVE Goal
    BY <1>12 DEF Approve, world, push
  <1>13. ASSUME NEW p \in Pushers, NEW r \in Runs, Verify(p, r) PROVE Goal
    BY <1>13 DEF Verify, world, runRows
  <1>14. ASSUME NEW p \in Pushers, StartPush(p) PROVE Goal
    BY <1>14 DEF StartPush, world
  <1>15. ASSUME NEW p \in Pushers, NEW d \in Documents, Upload(p, d) PROVE Goal
    BY <1>15 DEF Upload, world, runRows
  <1>16. ASSUME NEW p \in Pushers, NEW d \in Documents, UploadFails(p, d) PROVE Goal
    BY <1>16 DEF UploadFails, Mark, Fault, world, runRows
  <1>17. ASSUME NEW p \in Pushers, NEW d \in Documents, RecordFailed(p, d) PROVE Goal
    BY <1>17 DEF RecordFailed, Mark, world, runRows
  <1>18. ASSUME NEW p \in Pushers, NEW d \in Documents, RecordItem(p, d) PROVE Goal
    BY <1>18 DEF RecordItem, Mark, world, runRows
  <1>19. ASSUME NEW p \in Pushers, NEW d \in Documents, RecordDocument(p, d)
        PROVE  Goal
    BY <1>19 DEF RecordDocument, world, runRows
  <1>20. ASSUME NEW p \in Pushers, NEW d \in Documents, Delete(p, d) PROVE Goal
    BY <1>20 DEF Delete, AfterDelete, Absent, world, runRows
  <1>21. ASSUME NEW p \in Pushers, NEW d \in Documents, DeleteFails(p, d) PROVE Goal
    BY <1>21 DEF DeleteFails, AfterDelete, Absent, Mark, Fault, world, runRows
  <1>22. ASSUME NEW p \in Pushers, NEW d \in Documents, RecordDeleted(p, d) PROVE Goal
    BY <1>22 DEF RecordDeleted, Mark, world, runRows
  <1>23. ASSUME NEW p \in Pushers, NEW d \in Documents, RecordPurged(p, d) PROVE Goal
    BY <1>23 DEF RecordPurged, world, runRows
  <1>24. ASSUME NEW p \in Pushers,
               NEW failed \in SUBSET Documents, NEW all \in SUBSET Documents,
               Import(p, failed, all)
        PROVE  Goal
    BY <1>24 DEF Import, Fault, world, runRows
  <1>25. ASSUME NEW p \in Pushers, StartDeletes(p) PROVE Goal
    BY <1>25 DEF StartDeletes, world, runRows
  <1>26. ASSUME NEW p \in Pushers, Finish(p) PROVE Goal
    BY <1>26 DEF Finish, Leave, world
  <1>27. ASSUME NEW p \in Pushers, Crash(p) PROVE Goal
    BY <1>27 DEF Crash, Leave, Fault, world, runRows
  <1> QED
    BY <1>0, <1>1, <1>2, <1>3, <1>4, <1>5, <1>6, <1>7, <1>8, <1>9,
       <1>10, <1>11, <1>12, <1>13, <1>14, <1>15, <1>16, <1>17, <1>18,
       <1>19, <1>20, <1>21, <1>22, <1>23, <1>24, <1>25, <1>26, <1>27
       DEF Next, WorldStep, OwnerStep, PushStep

\* A push is of a run whose status says so, and deletes what that run deletes.
LEMMA BusyStep ==
    ASSUME \A p, q \in Pushers : p = q, TypeOK, FreshRunInv, PushInv, BusyInv, [Next]_vars
    PROVE  BusyInv'
  <1> USE DEF TypeOK, PushInv, BusyInv, Pushable
  <1>0. CASE UNCHANGED vars
    BY <1>0 DEF vars, world, runRows, push
  <1>1. ASSUME NEW p \in People, NEW level \in Levels, Classify(p, level)
        PROVE  BusyInv'
    BY <1>1 DEF Classify, Changed, runRows, push
  <1>2. ASSUME NEW c \in Chats, NEW p \in People, Join(c, p) PROVE BusyInv'
    BY <1>2 DEF Join, Changed, runRows, push
  <1>3. ASSUME NEW c \in Chats, NEW p \in People, Resolve(c, p) PROVE BusyInv'
    BY <1>3 DEF Resolve, Changed, runRows, push
  <1>4. ASSUME NEW s \in Segments, Edit(s) PROVE BusyInv'
    BY <1>4 DEF Edit, Changed, runRows, push
  <1>5. ASSUME NEW a \in Attachments, Withdraw(a) PROVE BusyInv'
    BY <1>5 DEF Withdraw, Changed, runRows, push
  <1>6. ASSUME NEW s \in Segments, Resegment(s) PROVE BusyInv'
    BY <1>6 DEF Resegment, Changed, runRows, push
  <1>7. CASE Reconfigure
    BY <1>7 DEF Reconfigure, Changed, runRows, push
  <1>8. CASE StartPlan
    BY <1>8 DEF StartPlan, ReadForPlan, world, runRows, push
  <1>9. ASSUME NEW p \in MayRevoke, StartPurge(p) PROVE BusyInv'
    BY <1>9 DEF StartPurge, ReadForPlan, world, runRows, push
  <1>10. CASE AbandonPlan
    BY <1>10 DEF AbandonPlan, world, runRows, push
  <1>11. ASSUME NEW r \in Runs, CommitPlan(r) PROVE BusyInv'
    BY <1>11 DEF CommitPlan, push
  <1>12. ASSUME NEW r \in Runs, Approve(r) PROVE BusyInv'
    BY <1>12 DEF Approve, world, push
  <1>13. ASSUME NEW p \in Pushers, NEW r \in Runs, Verify(p, r) PROVE BusyInv'
    BY <1>13 DEF Verify, world, runRows
  <1>14. ASSUME NEW p \in Pushers, StartPush(p) PROVE BusyInv'
    BY <1>14 DEF StartPush, world
  <1>15. ASSUME NEW p \in Pushers, NEW d \in Documents, Upload(p, d) PROVE BusyInv'
    BY <1>15 DEF Upload, world, runRows
  <1>16. ASSUME NEW p \in Pushers, NEW d \in Documents, UploadFails(p, d)
        PROVE  BusyInv'
    BY <1>16 DEF UploadFails, Mark, Fault, world, runRows
  <1>17. ASSUME NEW p \in Pushers, NEW d \in Documents, RecordFailed(p, d)
        PROVE  BusyInv'
    BY <1>17 DEF RecordFailed, Mark, world, runRows
  <1>18. ASSUME NEW p \in Pushers, NEW d \in Documents, RecordItem(p, d)
        PROVE  BusyInv'
    BY <1>18 DEF RecordItem, Mark, world, runRows
  <1>19. ASSUME NEW p \in Pushers, NEW d \in Documents, RecordDocument(p, d)
        PROVE  BusyInv'
    BY <1>19 DEF RecordDocument, world, runRows
  <1>20. ASSUME NEW p \in Pushers, NEW d \in Documents, Delete(p, d) PROVE BusyInv'
    BY <1>20 DEF Delete, AfterDelete, Absent, world, runRows
  <1>21. ASSUME NEW p \in Pushers, NEW d \in Documents, DeleteFails(p, d)
        PROVE  BusyInv'
    BY <1>21 DEF DeleteFails, AfterDelete, Absent, Mark, Fault, world, runRows
  <1>22. ASSUME NEW p \in Pushers, NEW d \in Documents, RecordDeleted(p, d)
        PROVE  BusyInv'
    BY <1>22 DEF RecordDeleted, Mark, world, runRows
  <1>23. ASSUME NEW p \in Pushers, NEW d \in Documents, RecordPurged(p, d)
        PROVE  BusyInv'
    BY <1>23 DEF RecordPurged, world, runRows
  <1>24. ASSUME NEW p \in Pushers,
               NEW failed \in SUBSET Documents, NEW all \in SUBSET Documents,
               Import(p, failed, all)
        PROVE  BusyInv'
    BY <1>24 DEF Import, Fault, world, runRows
  <1>25. ASSUME NEW p \in Pushers, StartDeletes(p) PROVE BusyInv'
    BY <1>25 DEF StartDeletes, world, runRows
  <1>26. ASSUME NEW p \in Pushers, Finish(p) PROVE BusyInv'
    BY <1>26 DEF Finish, Leave, world
  <1>27. ASSUME NEW p \in Pushers, Crash(p) PROVE BusyInv'
    BY <1>27 DEF Crash, Leave, Fault, world, runRows
  <1> QED
    BY <1>0, <1>1, <1>2, <1>3, <1>4, <1>5, <1>6, <1>7, <1>8, <1>9,
       <1>10, <1>11, <1>12, <1>13, <1>14, <1>15, <1>16, <1>17, <1>18,
       <1>19, <1>20, <1>21, <1>22, <1>23, <1>24, <1>25, <1>26, <1>27
       DEF Next, WorldStep, OwnerStep, PushStep

\* The plan that is committed is current when a second look finds the same.
LEMMA CommittedCovers ==
    ASSUME TypeOK, PlanInv, NEW r \in Runs, CommitPlan(r), CoversInv
    PROVE  CoversInv'
  <1> DEFINE allowlist == IF plan.mode = "purge" THEN Revoked(plan.who) ELSE allowed
  <1> USE DEF TypeOK
  <1>1. ASSUME NEW q \in current, allowlist = allowed
        PROVE  /\ q # r
               /\ UNCHANGED << status[q], upserts[q], deletes[q], item[q], recorded, loose >>
               /\ \A d \in Documents : Wanted(d)' = Wanted(d)
    <2>1. q # r
      BY DEF CommitPlan, CoversInv, Covers
    <2>2. UNCHANGED << allowed, members, live, edit, linked >>
      BY <1>1 DEF CommitPlan
    <2> QED
      BY <2>1, <2>2, WantedStays DEF CommitPlan
  <1>2. ASSUME Reconcile(allowlist) = [upserts |-> plan.upserts, deletes |-> plan.deletes]
        PROVE  /\ status'[r] = "planned"
               /\ \A d \in DOMAIN upserts'[r] :
                      /\ Wanted(d)' = upserts'[r][d]
                      /\ item'[r][d] = "staged"
               /\ \A d \in deletes'[r] :
                      /\ Wanted(d)' = None
                      /\ d \notin DOMAIN upserts'[r]
                      /\ item'[r][d] = "staged"
               /\ \A d \in Documents \ (DOMAIN upserts'[r] \cup deletes'[r]) :
                      recorded'[d] = Wanted(d)'
    <2>1. /\ status'[r] = "planned"
          /\ upserts'[r] = plan.upserts
          /\ deletes'[r] = plan.deletes
          /\ item'[r] = Items
          /\ allowed' = allowlist
          /\ UNCHANGED << members, live, edit, linked, recorded >>
      BY DEF CommitPlan
    <2>2. /\ DOMAIN plan.upserts \subseteq Documents
          /\ plan.deletes \subseteq Documents
      BY DEF CommitPlan, PlanInv
    <2>3. \A d \in Documents :
              Wanted(d)' = IF d \in Desired(allowlist) THEN Rendered(allowlist, d) ELSE None
      BY <2>1 DEF Wanted, Desired, Rendered, EligibleAttachments, EligibleChat,
                  EligibleAttachment
    <2>4. /\ plan.upserts = [d \in {e \in Desired(allowlist) :
                                        recorded[e] # Rendered(allowlist, e)}
                                |-> Rendered(allowlist, d)]
          /\ plan.deletes = {d \in Documents \ Desired(allowlist) : recorded[d] # None}
      BY <1>2 DEF Reconcile
    <2>5. \A d \in DOMAIN plan.upserts \cup plan.deletes : Items[d] = "staged"
      BY <2>2 DEF Items
    <2>6. Desired(allowlist) \subseteq Documents
      BY DEF Desired
    <2> QED
      BY <2>1, <2>2, <2>3, <2>4, <2>5, <2>6
  <1>3. current' = (IF allowlist = allowed THEN current ELSE {})
                       \cup (IF Reconcile(allowlist) = [upserts |-> plan.upserts,
                                                        deletes |-> plan.deletes]
                             THEN {r} ELSE {})
    BY DEF CommitPlan
  <1>4. ASSUME NEW q \in current, allowlist = allowed PROVE Covers(q)'
    <2>1. Covers(q) /\ q \in Runs
      BY DEF CoversInv
    <2> QED
      BY <1>1, <1>4, <2>1 DEF Covers
  <1>5. ASSUME Reconcile(allowlist) = [upserts |-> plan.upserts, deletes |-> plan.deletes]
        PROVE  Covers(r)'
    BY <1>2, <1>5 DEF Covers
  <1> QED
    BY <1>3, <1>4, <1>5 DEF CoversInv

\* An item of a run that is being pushed gets the state it has earned.
LEMMA MarkCovers ==
    ASSUME TypeOK, NEW q \in Runs, Covers(q), NEW r \in Runs, status[r] = "pushing",
           NEW d \in Documents, NEW state, Mark(r, {d}, state),
           \/ state = "failed"
           \/ state = "pushed" /\ d \in DOMAIN upserts[r] \cap loose
           \/ state = "deleted" /\ d \in deletes[r] \cap loose,
           UNCHANGED << status, upserts, deletes, recorded >>, loose \subseteq loose',
           \A e \in Documents : Wanted(e)' = Wanted(e)
    PROVE  Covers(q)'
  <1> USE DEF TypeOK
  <1>1. CASE q # r
    <2>1. item'[q] = item[q]
      BY <1>1 DEF Mark
    <2> QED
      BY <2>1 DEF Covers
  <1>2. CASE q = r
    <2>1. \A e \in Documents : item'[q][e] = IF e = d THEN state ELSE item[q][e]
      BY <1>2 DEF Mark
    <2>2. d \in DOMAIN upserts[q] => d \notin deletes[q]
      BY DEF Covers
    <2>3. status'[q] = "pushing"
      BY <1>2
    <2>4. ASSUME NEW e \in DOMAIN upserts[q]
          PROVE  /\ item'[q][e] \in {"staged", "pushed", "failed"}
                 /\ item'[q][e] = "pushed" /\ e \notin loose' => recorded[e] = upserts[q][e]
      <3>1. e \in Documents /\ (e = d => state \in {"pushed", "failed"})
        BY <1>2, <2>2
      <3>2. /\ item[q][e] \in {"staged", "pushed", "failed"}
            /\ item[q][e] = "pushed" /\ e \notin loose => recorded[e] = upserts[q][e]
        BY DEF Covers
      <3> QED
        BY <1>2, <2>1, <3>1, <3>2
    <2>5. ASSUME NEW e \in deletes[q]
          PROVE  /\ item'[q][e] \in {"staged", "deleted", "failed"}
                 /\ item'[q][e] = "deleted" /\ e \notin loose' => recorded[e] = None
      <3>1. e \in Documents /\ (e = d => state \in {"deleted", "failed"})
        BY <1>2, <2>2
      <3>2. /\ item[q][e] \in {"staged", "deleted", "failed"}
            /\ item[q][e] = "deleted" /\ e \notin loose => recorded[e] = None
        BY DEF Covers
      <3> QED
        BY <1>2, <2>1, <3>1, <3>2
    <2>6. /\ \A e \in DOMAIN upserts[q] : Wanted(e) = upserts[q][e] /\ e \in Documents
          /\ \A e \in deletes[q] :
                Wanted(e) = None /\ e \notin DOMAIN upserts[q] /\ e \in Documents
          /\ \A e \in Documents \ (DOMAIN upserts[q] \cup deletes[q]) : recorded[e] = Wanted(e)
      BY DEF Covers
    <2> QED
      BY <2>3, <2>4, <2>5, <2>6 DEF Covers
  <1> QED
    BY <1>1, <1>2

\* Every other action of a run that stays current does what the run has left.
LEMMA CoversStep ==
    ASSUME \A p, q \in Pushers : p = q, TypeOK, TypeOK', PlanInv, FreshRunInv,
           PushInv, StoreInv, BusyInv, CoversInv, [Next]_vars
    PROVE  CoversInv'
  <1> USE NoneAssumption
  <1>a. CASE \E r \in Runs : CommitPlan(r)
    BY <1>a, CommittedCovers
  <1>b. CASE current' = {}
    BY <1>b DEF CoversInv
  <1>c. ASSUME UNCHANGED << allowed, members, live, edit, linked >>,
               ~ \E r \in Runs : CommitPlan(r)
        PROVE  CoversInv'
    <2>a. \A d \in Documents : Wanted(d)' = Wanted(d)
      BY <1>c, WantedStays
    <2> SUFFICES ASSUME NEW q \in current' PROVE Covers(q)'
      BY DEF CoversInv
    <2>b. current' \subseteq current
      BY <1>c, CurrentShrinks
    <2>c. Covers(q) /\ q \in Runs
      BY <2>b DEF CoversInv, TypeOK
    <2> USE <2>a, <2>c DEF TypeOK, PushInv, StoreInv, BusyInv, Covers
    <2>0. CASE UNCHANGED vars
      BY <2>0 DEF vars, world, runRows, push
    <2>1. ASSUME NEW p \in People, NEW level \in Levels, Classify(p, level)
          PROVE  Covers(q)'
      BY <2>1 DEF Classify, Changed, runRows, push
    <2>2. ASSUME NEW c \in Chats, NEW p \in People, Join(c, p) PROVE Covers(q)'
      BY <2>2 DEF Join, Changed, runRows, push
    <2>3. ASSUME NEW c \in Chats, NEW p \in People, Resolve(c, p) PROVE Covers(q)'
      BY <2>3 DEF Resolve, Changed, runRows, push
    <2>4. ASSUME NEW s \in Segments, Edit(s) PROVE Covers(q)'
      BY <2>4 DEF Edit, Changed, runRows, push
    <2>5. ASSUME NEW a \in Attachments, Withdraw(a) PROVE Covers(q)'
      BY <2>5 DEF Withdraw, Changed, runRows, push
    <2>6. ASSUME NEW s \in Segments, Resegment(s) PROVE Covers(q)'
      BY <2>6 DEF Resegment, Changed, runRows, push
    <2>7. CASE Reconfigure
      BY <2>7 DEF Reconfigure, Changed, runRows, push
    <2>8. CASE StartPlan
      BY <2>8 DEF StartPlan, ReadForPlan, world, runRows, push
    <2>9. ASSUME NEW p \in MayRevoke, StartPurge(p) PROVE Covers(q)'
      BY <2>9 DEF StartPurge, ReadForPlan, world, runRows, push
    <2>10. CASE AbandonPlan
      BY <2>10 DEF AbandonPlan, world, runRows, push
    <2>11. ASSUME NEW r \in Runs, CommitPlan(r) PROVE Covers(q)'
      BY <2>11, <1>c
    <2>12. ASSUME NEW r \in Runs, Approve(r) PROVE Covers(q)'
      BY <2>12 DEF Approve, world, push
    <2>13. ASSUME NEW p \in Pushers, NEW r \in Runs, Verify(p, r) PROVE Covers(q)'
      BY <2>13 DEF Verify, world, runRows
    <2>14. ASSUME NEW p \in Pushers, StartPush(p) PROVE Covers(q)'
      BY <2>14 DEF StartPush, world
    <2>15. ASSUME NEW p \in Pushers, NEW d \in Documents, Upload(p, d) PROVE Covers(q)'
      BY <2>15 DEF Upload, world, runRows
    <2>16. ASSUME NEW p \in Pushers, NEW d \in Documents, UploadFails(p, d)
          PROVE  Covers(q)'
      <3>1. /\ run[p] \in Runs /\ status[run[p]] = "pushing"
            /\ Mark(run[p], {d}, "failed")
            /\ UNCHANGED << status, upserts, deletes, recorded >>
            /\ loose \subseteq loose'
        BY <2>16 DEF UploadFails, runRows
      <3> QED
        BY <3>1, MarkCovers
    <2>17. ASSUME NEW p \in Pushers, NEW d \in Documents, RecordFailed(p, d)
          PROVE  Covers(q)'
      <3>1. /\ run[p] \in Runs /\ status[run[p]] = "pushing"
            /\ Mark(run[p], {d}, "failed")
            /\ UNCHANGED << status, upserts, deletes, recorded, loose >>
        BY <2>17 DEF RecordFailed, runRows
      <3> QED
        BY <3>1, MarkCovers
    <2>18. ASSUME NEW p \in Pushers, NEW d \in Documents, RecordItem(p, d)
          PROVE  Covers(q)'
      <3>1. /\ run[p] \in Runs /\ status[run[p]] = "pushing"
            /\ d \in DOMAIN upserts[run[p]] \cap loose
            /\ Mark(run[p], {d}, "pushed")
            /\ UNCHANGED << status, upserts, deletes, recorded, loose >>
        BY <2>18 DEF RecordItem, runRows
      <3> QED
        BY <3>1, MarkCovers
    <2>19. ASSUME NEW p \in Pushers, NEW d \in Documents, RecordDocument(p, d)
          PROVE  Covers(q)'
      <3>1. /\ q = run[p]
            /\ d \in DOMAIN upserts[q]
            /\ loose' = loose \ {d}
            /\ recorded' = [recorded EXCEPT ![d] = upserts[q][d]]
            /\ UNCHANGED << status, upserts, deletes, item >>
        BY <2>19 DEF RecordDocument, runRows
      <3> QED
        BY <3>1
    <2>20. ASSUME NEW p \in Pushers, NEW d \in Documents, Delete(p, d) PROVE Covers(q)'
      BY <2>20 DEF Delete, AfterDelete, Absent, world, runRows
    <2>21. ASSUME NEW p \in Pushers, NEW d \in Documents, DeleteFails(p, d)
          PROVE  Covers(q)'
      <3>1. /\ run[p] \in Runs /\ status[run[p]] = "pushing"
            /\ Mark(run[p], {d}, "failed")
            /\ UNCHANGED << status, upserts, deletes, recorded >>
            /\ loose \subseteq loose'
        BY <2>21 DEF DeleteFails, runRows
      <3> QED
        BY <3>1, MarkCovers
    <2>22. ASSUME NEW p \in Pushers, NEW d \in Documents, RecordDeleted(p, d)
          PROVE  Covers(q)'
      <3>1. /\ run[p] \in Runs /\ status[run[p]] = "pushing"
            /\ d \in deletes[run[p]] \cap loose
            /\ Mark(run[p], {d}, "deleted")
            /\ UNCHANGED << status, upserts, deletes, recorded, loose >>
        BY <2>22 DEF RecordDeleted, runRows
      <3> QED
        BY <3>1, MarkCovers
    <2>23. ASSUME NEW p \in Pushers, NEW d \in Documents, RecordPurged(p, d)
          PROVE  Covers(q)'
      BY <2>23 DEF RecordPurged, world, runRows
    <2>24. ASSUME NEW p \in Pushers,
                 NEW failed \in SUBSET Documents, NEW all \in SUBSET Documents,
                 Import(p, failed, all)
          PROVE  Covers(q)'
      BY <2>24 DEF Import, Fault, world, runRows
    <2>25. ASSUME NEW p \in Pushers, StartDeletes(p) PROVE Covers(q)'
      BY <2>25 DEF StartDeletes, world, runRows
    <2>26. ASSUME NEW p \in Pushers, Finish(p) PROVE Covers(q)'
      BY <2>26 DEF Finish, Leave, world
    <2>27. ASSUME NEW p \in Pushers, Crash(p) PROVE Covers(q)'
      BY <2>27 DEF Crash, Leave, Fault, world, runRows
    <2> QED
      BY <2>0, <2>1, <2>2, <2>3, <2>4, <2>5, <2>6, <2>7, <2>8, <2>9,
         <2>10, <2>11, <2>12, <2>13, <2>14, <2>15, <2>16, <2>17, <2>18,
         <2>19, <2>20, <2>21, <2>22, <2>23, <2>24, <2>25, <2>26, <2>27
         DEF Next, WorldStep, OwnerStep, PushStep
  <1> QED
    BY <1>a, <1>b, <1>c, CurrentWorld

----------------------------------------------------------------------------
(* The theorems.                                                           *)

LEMMA InitInv == Init => IInv
  BY ExportAssumption DEF Init, IInv, TypeOK, PlanInv, FreshRunInv, PushInv, ScopeInv,
     Levels, Absent

LEMMA IInvStep == IInv /\ [Next]_vars => IInv'
  BY TypeStep, PlanStep, FreshRunStep, PushInvStep, ScopeStep DEF IInv

THEOREM InductiveInvariant == Spec => []IInv
  BY InitInv, IInvStep, PTL DEF Spec

\* Every variable has its type.
THEOREM TypeCorrect == Spec => []TypeOK
  BY InductiveInvariant, PTL DEF IInv

\* A chat is in the bucket only because a run that was approved, or a purge, planned a
\* document of it.
THEOREM NothingUnapproved == Spec => []ScopeApproved
  <1>1. IInv => ScopeApproved
    BY DEF IInv, ScopeInv, ScopeApproved, StoredDocuments, Scope
  <1> QED
    BY <1>1, InductiveInvariant, PTL

\* Until the world changes after its verification, a push has nothing before it that the
\* gate would now deny.
THEOREM OnlyEligibleLeaves == Spec => []NothingIneligibleLeaves
  <1>1. Init => NothingIneligibleLeaves
    BY DEF Init, NothingIneligibleLeaves
  <1>2. IInv /\ NothingIneligibleLeaves /\ [Next]_vars => NothingIneligibleLeaves'
    BY EligibleStep, IInvStep DEF IInv
  <1> QED
    BY <1>1, <1>2, InductiveInvariant, PTL DEF Spec

\* With one push at a time, export_document says what the store holds of
\* every document that no failed or killed push has left half done.
THEOREM RecordsStayTrue ==
    ASSUME \A p, q \in Pushers : p = q
    PROVE  Spec => []RecordIsTrue
  <1>1. Init => StoreInv /\ RecordIsTrue
    BY DEF Init, StoreInv, RecordIsTrue, Absent
  <1>2. IInv /\ StoreInv /\ RecordIsTrue /\ [Next]_vars => StoreInv' /\ RecordIsTrue'
    BY StoreStep, RecordStep DEF IInv
  <1> QED
    BY <1>1, <1>2, InductiveInvariant, PTL DEF Spec

\* With one push at a time, a run that ends ok while nothing has changed since it was planned
\* leaves the store as the gate and the corpus are, if no earlier push left anything half done.
THEOREM OkMeansMirrored ==
    ASSUME \A p, q \in Pushers : p = q
    PROVE  Spec => []StoreMirrorsCorpus
  <1>1. Init => StoreInv /\ BusyInv /\ CoversInv
    BY DEF Init, StoreInv, BusyInv, CoversInv
  <1>2. IInv /\ StoreInv /\ BusyInv /\ CoversInv /\ [Next]_vars
            => StoreInv' /\ BusyInv' /\ CoversInv'
    BY IInvStep, StoreStep, BusyStep, CoversStep DEF IInv
  <1>3. IInv /\ CoversInv /\ RecordIsTrue => StoreMirrorsCorpus
    <2> SUFFICES ASSUME IInv, CoversInv, RecordIsTrue, NEW r \in current, status[r] = "ok",
                        loose = {}, NEW d \in Documents
                 PROVE  store[d] = IF d \in Desired(allowed)
                                   THEN [text |-> Rendered(allowed, d), listed |-> TRUE]
                                   ELSE Absent
      BY DEF StoreMirrorsCorpus
    <2>1. Covers(r) /\ r \in Runs
      BY DEF CoversInv, IInv, TypeOK
    <2>2. recorded[d] = Wanted(d)
      <3>1. CASE d \in DOMAIN upserts[r]
        BY <2>1, <3>1 DEF Covers
      <3>2. CASE d \in deletes[r]
        BY <2>1, <3>2 DEF Covers
      <3> QED
        BY <2>1, <3>1, <3>2 DEF Covers
    <2>3. store[d] = IF recorded[d] = None THEN Absent
                                           ELSE [text |-> recorded[d], listed |-> TRUE]
      BY DEF RecordIsTrue
    <2>4. Rendered(allowed, d) # None
      BY RenderedIsText, NoneAssumption DEF IInv
    <2> QED
      BY <2>2, <2>3, <2>4 DEF Wanted
  <1> QED
    BY <1>1, <1>2, <1>3, InductiveInvariant, RecordsStayTrue, PTL DEF Spec

============================================================================
