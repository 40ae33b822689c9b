----------------------------- MODULE FtsOutbox -----------------------------
(***************************************************************************)
(* The outbox between PostgreSQL and the FTS sidecar (imsg.embed.fts.sync, *)
(* imsg.segment.pipeline, imsg.enrich.pipeline).                           *)
(*                                                                         *)
(* A writer changes segments or chunks and inserts one row into            *)
(* search_index_event per change, in one transaction.  A row gets its id   *)
(* when it is inserted and is seen when the transaction commits; the       *)
(* sidecar remembers the last id it applied and never looks below it.      *)
(* What keeps a row from appearing below that watermark is the heavy-model *)
(* lock, held by every writer and by both callers of sync_fts (module      *)
(* HeavyLock opens it; here it is one variable).                           *)
(*                                                                         *)
(* The server ends the transaction of a killed command, either way, before *)
(* the next holder of the lock opens one or reads.                         *)
(***************************************************************************)
EXTENDS Naturals, FiniteSets

CONSTANTS
    Segments,    \* segment ids, given once and never again
    Chunks,      \* attachment_chunk ids, likewise
    Texts,       \* what a segment or a chunk may say
    Segmenters,  \* imsg segment, imsg sync
    Enrichers,   \* imsg enrich
    Syncers,     \* imsg embed, imsg sync
    BatchSize,   \* DEFAULT_BATCH_SIZE
    MaxEvents,   \* bound: rows of search_index_event, rolled back ones too
    Nobody       \* nobody holds the heavy-model lock

Entities == Segments \cup Chunks
Commands == Segmenters \cup Enrichers \cup Syncers

ASSUME OutboxAssumption ==
    /\ Segments \cap Chunks = {}
    /\ Texts \cap {"unborn", "gone", "none", "same"} = {}
    /\ BatchSize \in Nat \ {0}
    /\ MaxEvents \in Nat
    /\ Nobody \notin Commands

VARIABLES
    content,    \* each entity's text in PostgreSQL; "unborn" before, "gone" after
    committed,  \* the rows of search_index_event that can be seen
    nextId,     \* the next value of its identity column
    draft,      \* what a command's open transaction has changed
    pending,    \* the rows it has inserted
    index,      \* each entity's text in the sidecar, or "none"
    applied,    \* applied_event_id, in the sidecar's meta table
    at,         \* where each command is
    batch,      \* the rows it has fetched and not applied
    read,       \* the text it has read for the first of them
    lock        \* which command holds the heavy-model lock

postgres == << content, committed >>
transaction == << nextId, draft, pending >>
sidecar == << index, applied >>
vars == << postgres, transaction, sidecar, at, batch, read, lock >>

Untouched == [e \in Entities |-> "same"]

Init ==
    /\ content = [e \in Entities |-> "unborn"]
    /\ committed = {}
    /\ nextId = 1
    /\ draft = [p \in Commands |-> Untouched]
    /\ pending = [p \in Commands |-> {}]
    /\ index = [e \in Entities |-> "none"]
    /\ applied = 0
    /\ at = [p \in Commands |-> "idle"]
    /\ batch = [p \in Commands |-> {}]
    /\ read = [p \in Commands |-> "none"]
    /\ lock = Nobody

----------------------------------------------------------------------------
(* The heavy-model lock around every run.                                  *)

\* Mutant: enrichment, which needs no sidecar, does not wait for the lock.
AcquireUnlessEnriching(p) ==
    /\ at[p] = "idle"
    /\ p \in Enrichers \/ lock = Nobody
    /\ lock' = IF p \in Enrichers THEN lock ELSE p
    /\ at' = [at EXCEPT ![p] = "holding"]
    /\ UNCHANGED << postgres, transaction, sidecar, batch, read >>

Acquire(p) ==
    /\ at[p] = "idle"
    /\ lock = Nobody
    /\ lock' = p
    /\ at' = [at EXCEPT ![p] = "holding"]
    /\ UNCHANGED << postgres, transaction, sidecar, batch, read >>

\* The end of a run, or of enrichment's turn; a run that was refused memory or
\* failed ends here too.
Release(p) ==
    /\ at[p] = "holding"
    /\ lock' = Nobody
    /\ at' = [at EXCEPT ![p] = "idle"]
    /\ UNCHANGED << postgres, transaction, sidecar, batch, read >>

----------------------------------------------------------------------------
(* The writers.  Everything between Begin and Commit is one transaction.   *)

\* A chat that segmentation has to write, or a task that enrichment completes.
Begin(p) ==
    /\ p \in Segmenters \cup Enrichers
    /\ at[p] = "holding"
    /\ at' = [at EXCEPT ![p] = "writing"]
    /\ UNCHANGED << postgres, transaction, sidecar, batch, read, lock >>

\* INSERT INTO search_index_event, next to the change it announces.  A row
\* that another transaction has changed is locked.
Emit(p, e, text, operation) ==
    /\ at[p] = "writing"
    /\ nextId <= MaxEvents
    /\ \A q \in Commands : draft[q][e] = "same"
    /\ draft' = [draft EXCEPT ![p][e] = text]
    /\ pending' = [pending EXCEPT ![p] =
                      @ \cup {[id |-> nextId, about |-> e, operation |-> operation]}]
    /\ nextId' = nextId + 1
    /\ UNCHANGED << postgres, sidecar, at, batch, read, lock >>

\* "Deletes first", since a message may move to a new segment.
OnlyDeletes(p) == \A i \in pending[p] : i.operation = "delete"

DeleteSegment(p, e) ==
    /\ p \in Segmenters
    /\ content[e] \in Texts
    /\ OnlyDeletes(p)
    /\ Emit(p, e, "gone", "delete")

InsertSegment(p, e, text) ==
    /\ p \in Segmenters
    /\ content[e] = "unborn"
    /\ Emit(p, e, text, "upsert")

\* Of an attachment and kind that is enriched once more.
DeleteChunk(p, e) ==
    /\ p \in Enrichers
    /\ content[e] \in Texts
    /\ OnlyDeletes(p)
    /\ Emit(p, e, "gone", "delete")

\* Before the segments are rendered again.
InsertChunk(p, e, text) ==
    /\ p \in Enrichers
    /\ content[e] = "unborn"
    /\ \A i \in pending[p] : i.about \in Chunks
    /\ Emit(p, e, text, "upsert")

\* A segment that shows the attachment; its text may come out the same.
RefreshSegment(p, e, text) ==
    /\ p \in Enrichers
    /\ content[e] \in Texts
    /\ Emit(p, e, text, "upsert")

\* What PostgreSQL shows once the transaction has committed.
Published(p) ==
    [e \in Entities |-> IF draft[p][e] = "same" THEN content[e] ELSE draft[p][e]]

Closed(p) ==
    /\ draft' = [draft EXCEPT ![p] = Untouched]
    /\ pending' = [pending EXCEPT ![p] = {}]

Commit(p) ==
    /\ at[p] = "writing"
    /\ content' = Published(p)
    /\ committed' = committed \cup pending[p]
    /\ Closed(p)
    /\ at' = [at EXCEPT ![p] = "holding"]
    /\ UNCHANGED << nextId, sidecar, batch, read, lock >>

\* An exception inside the transaction: its ids are gone for good.
RollBack(p) ==
    /\ at[p] = "writing"
    /\ Closed(p)
    /\ at' = [at EXCEPT ![p] = "holding"]
    /\ UNCHANGED << nextId, postgres, sidecar, batch, read, lock >>

----------------------------------------------------------------------------
(* sync_fts.                                                               *)

StartSync(p) ==
    /\ p \in Syncers
    /\ at[p] = "holding"
    /\ at' = [at EXCEPT ![p] = "fetching"]
    /\ UNCHANGED << postgres, transaction, sidecar, batch, read, lock >>

\* WHERE event_id > applied ORDER BY event_id LIMIT batch_size.
Unapplied == {i \in committed : i.id > applied}
Fetched ==
    {i \in Unapplied : Cardinality({j \in Unapplied : j.id < i.id}) < BatchSize}

\* The loop ends when nothing is left.
Fetch(p) ==
    /\ at[p] = "fetching"
    /\ batch' = [batch EXCEPT ![p] = Fetched]
    /\ at' = [at EXCEPT ![p] = IF Fetched = {} THEN "holding" ELSE "applying"]
    /\ UNCHANGED << postgres, transaction, sidecar, read, lock >>

IsFirst(p, i) == i \in batch[p] /\ \A j \in batch[p] : i.id <= j.id

\* The entity as it is now, not as it was when the event was inserted.
ReadContent(p) ==
    /\ at[p] = "applying"
    /\ \E i \in batch[p] :
          /\ IsFirst(p, i)
          /\ read' = [read EXCEPT ![p] =
                IF i.operation = "delete" THEN "gone" ELSE content[i.about]]
    /\ at' = [at EXCEPT ![p] = "read"]
    /\ UNCHANGED << postgres, transaction, sidecar, batch, lock >>

\* Mutant: a row is written for an entity that is gone.
ReindexedUnchecked(i, text) ==
    IF i.operation = "delete" THEN [index EXCEPT ![i.about] = "none"]
    ELSE [index EXCEPT ![i.about] = text]

\* A deleted entity leaves the index, a present one replaces its row, and one
\* that an upsert no longer finds is skipped.
Reindexed(i, text) ==
    IF i.operation = "delete" THEN [index EXCEPT ![i.about] = "none"]
    ELSE IF text \in Texts THEN [index EXCEPT ![i.about] = text]
    ELSE index

Advance(p, i) ==
    /\ batch' = [batch EXCEPT ![p] = @ \ {i}]
    /\ at' = [at EXCEPT ![p] = IF batch[p] = {i} THEN "fetching" ELSE "applying"]
    /\ read' = [read EXCEPT ![p] = "none"]
    /\ UNCHANGED << postgres, transaction, lock >>

\* Mutant: the watermark is set once per batch, with its first event.
ApplyBatchMark(p) ==
    /\ at[p] = "read"
    /\ \E i \in batch[p] :
          /\ IsFirst(p, i)
          /\ index' = Reindexed(i, read[p])
          /\ \E last \in batch[p] :
                /\ \A j \in batch[p] : j.id <= last.id
                /\ applied' = last.id
          /\ Advance(p, i)

\* Mutant: an event whose entity is gone does not count as applied.
ApplyUnlessMissing(p) ==
    /\ at[p] = "read"
    /\ \E i \in batch[p] :
          /\ IsFirst(p, i)
          /\ index' = Reindexed(i, read[p])
          /\ applied' = IF i.operation = "upsert" /\ read[p] \notin Texts
                        THEN applied ELSE i.id
          /\ Advance(p, i)

\* The row and the watermark, in one SQLite transaction.
Apply(p) ==
    /\ at[p] = "read"
    /\ \E i \in batch[p] :
          /\ IsFirst(p, i)
          /\ index' = Reindexed(i, read[p])
          /\ applied' = i.id
          /\ Advance(p, i)

----------------------------------------------------------------------------
(* A command is killed, or sync_fts raises.                                *)

\* A transaction that was open is rolled back, or its COMMIT was on its way.
Crash(p, committing) ==
    /\ at[p] # "idle"
    /\ committing => at[p] = "writing"
    /\ IF committing
       THEN content' = Published(p) /\ committed' = committed \cup pending[p]
       ELSE UNCHANGED postgres
    /\ Closed(p)
    /\ at' = [at EXCEPT ![p] = "idle"]
    /\ batch' = [batch EXCEPT ![p] = {}]
    /\ read' = [read EXCEPT ![p] = "none"]
    /\ lock' = Nobody
    /\ UNCHANGED << nextId, sidecar >>

----------------------------------------------------------------------------

Write(p) ==
    \/ \E e \in Segments : DeleteSegment(p, e)
    \/ \E e \in Segments, text \in Texts : InsertSegment(p, e, text)
    \/ \E e \in Chunks : DeleteChunk(p, e)
    \/ \E e \in Chunks, text \in Texts : InsertChunk(p, e, text)
    \/ \E e \in Segments, text \in Texts : RefreshSegment(p, e, text)

SyncStep(p) == Fetch(p) \/ ReadContent(p) \/ Apply(p)

Next ==
    \E p \in Commands :
        \/ Acquire(p)
        \/ Release(p)
        \/ Begin(p)
        \/ Write(p)
        \/ Commit(p)
        \/ RollBack(p)
        \/ StartSync(p)
        \/ SyncStep(p)
        \/ \E committing \in BOOLEAN : Crash(p, committing)

Spec == Init /\ [][Next]_vars

\* A sync_fts that runs goes on; nobody has to start one, or to commit.
FairSpec == Spec /\ \A p \in Syncers : WF_vars(SyncStep(p))

----------------------------------------------------------------------------
(* Properties.                                                             *)

Events == [id : Nat \ {0}, about : Entities, operation : {"upsert", "delete"}]

\* The variables keep their types.
TypeOK ==
    /\ content \in [Entities -> Texts \cup {"unborn", "gone"}]
    /\ committed \subseteq Events
    /\ nextId \in Nat \ {0}
    /\ draft \in [Commands -> [Entities -> Texts \cup {"gone", "same"}]]
    /\ pending \in [Commands -> SUBSET Events]
    /\ index \in [Entities -> Texts \cup {"none"}]
    /\ applied \in Nat
    /\ at \in [Commands -> {"idle", "holding", "writing", "fetching", "applying", "read"}]
    /\ batch \in [Commands -> SUBSET Events]
    /\ read \in [Commands -> Texts \cup {"unborn", "gone", "none"}]
    /\ lock \in Commands \cup {Nobody}

\* The sidecar says of an entity what PostgreSQL says.
Shows(e) == index[e] = IF content[e] \in Texts THEN content[e] ELSE "none"

\* Whatever the sidecar has wrong is still ahead of its watermark: an entity
\* with no event left to apply is indexed as it is in PostgreSQL, after any
\* interleaving of writers, rollbacks, kills and resumed syncs
\* (sync.py:167-173).
NothingMissed ==
    \A e \in Entities : (\A i \in Unapplied : i.about # e) => Shows(e)

\* No event becomes visible at or below the watermark, where no sync would
\* ever look for it, although ids are given out before they are committed
\* (sync.py:48-57).
CommitsAheadOfWatermark ==
    [][\A i \in committed' \ committed : i.id > applied]_vars

\* A sync_fts that runs, unless it is killed, comes to an end with the sidecar
\* equal to PostgreSQL: events of entities that are gone do not hold it up
\* (sync.py:39-44, 176-180).
SyncCatchesUp ==
    \A p \in Syncers :
        at[p] = "fetching" ~> at[p] = "idle" \/ \A e \in Entities : Shows(e)

\* What PostgreSQL has of each entity, and the entities with events to apply.
Said == [e \in Entities |-> IF content[e] \in Texts THEN content[e] ELSE "none"]
Announced == {e \in Entities : \E i \in Unapplied : i.about = e}

\* The sidecar implements Mirror: between the read of an entity and the write
\* of its row nothing the row says changes, an upsert that is skipped and a
\* batch cut by a kill included, so the sidecar never takes over an old text
\* (sync.py:60-75, 136-164).
Replica == INSTANCE Mirror WITH
               Missing <- "none",
               source <- Said,
               mirror <- index,
               behind <- Announced

MirrorSpec == Replica!Spec

============================================================================
