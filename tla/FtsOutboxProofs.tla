--------------------------- MODULE FtsOutboxProofs ---------------------------
(***************************************************************************)
(* Proofs about FtsOutbox, for any entities, texts and commands, every     *)
(* batch size and any number of events.                                    *)
(*                                                                         *)
(* LockInv makes the open transaction and the sync under way exclude each  *)
(* other, so ids given out stay above the watermark until they commit      *)
(* (TransactionInv) and a batch stays the lowest part of what is unapplied *)
(* (BatchInv).  NothingMissed needs two facts more: a delete is the last   *)
(* event of its entity (DeletedInv), and a row that outlived its entity    *)
(* still has that event ahead of it (StaleInv), which is what makes it     *)
(* safe to skip an upsert whose entity is gone.                            *)
(***************************************************************************)
EXTENDS FtsOutbox, FiniteSetTheorems, TLAPS

LockInv == \A p \in Commands : at[p] # "idle" <=> lock = p

\* Ids are unique and given out in order; the watermark is one of them.
IdInv ==
    /\ applied < nextId
    /\ \A i \in committed : i.id < nextId
    /\ \A i, j \in committed : i.id = j.id => i = j
    /\ IsFiniteSet(committed)

\* A transaction announces exactly what it changes, with ids that are new.
TransactionInv ==
    \A p \in Commands :
        /\ at[p] # "writing" => draft[p] = Untouched /\ pending[p] = {}
        /\ IsFiniteSet(pending[p])
        /\ \A i \in pending[p] : applied < i.id /\ i.id < nextId
        /\ \A i \in pending[p], j \in committed : i.id # j.id
        /\ \A i, j \in pending[p] : i.id = j.id => i = j
        /\ \A e \in Entities : draft[p][e] # "same" =>
              \E i \in pending[p] :
                  i.about = e /\ (draft[p][e] = "gone" => i.operation = "delete")
        /\ \A i \in pending[p] : i.operation = "delete" => draft[p][i.about] = "gone"
        /\ \A e \in Entities : content[e] = "gone" => draft[p][e] = "same"

DeletedInv ==
    \A i \in committed : i.operation = "delete" => content[i.about] = "gone"

StaleInv ==
    \A e \in Entities : content[e] \notin Texts /\ index[e] # "none" =>
        \E i \in Unapplied : i.about = e /\ i.operation = "delete"

BatchInv ==
    \A p \in Commands :
        /\ at[p] \notin {"applying", "read"} => batch[p] = {}
        /\ batch[p] \subseteq Unapplied
        /\ \A i \in batch[p], j \in Unapplied : j.id < i.id => j \in batch[p]

ReadInv ==
    \A p \in Commands : at[p] = "read" =>
        \A i \in batch[p] :
            IsFirst(p, i) /\ i.operation = "upsert" => read[p] = content[i.about]

IInv ==
    /\ TypeOK
    /\ LockInv
    /\ IdInv
    /\ TransactionInv
    /\ DeletedInv
    /\ StaleInv
    /\ BatchInv
    /\ ReadInv
    /\ NothingMissed

----------------------------------------------------------------------------
(* What the actions have in common.                                        *)

\* Every write is one event about a living entity that nobody has changed yet.
LEMMA WriteEmits ==
    ASSUME TypeOK, NEW p \in Commands, Write(p)
    PROVE  \E e \in Entities, text \in Texts \cup {"gone"},
              operation \in {"upsert", "delete"} :
              /\ Emit(p, e, text, operation)
              /\ content[e] # "gone"
              /\ text = "gone" <=> operation = "delete"
  <1> USE OutboxAssumption DEF Entities
  <1>1. CASE \E e \in Segments : DeleteSegment(p, e)
    BY <1>1 DEF DeleteSegment
  <1>2. CASE \E e \in Segments, text \in Texts : InsertSegment(p, e, text)
    BY <1>2 DEF InsertSegment
  <1>3. CASE \E e \in Chunks : DeleteChunk(p, e)
    BY <1>3 DEF DeleteChunk
  <1>4. CASE \E e \in Chunks, text \in Texts : InsertChunk(p, e, text)
    BY <1>4 DEF InsertChunk
  <1>5. CASE \E e \in Segments, text \in Texts : RefreshSegment(p, e, text)
    BY <1>5 DEF RefreshSegment
  <1> QED BY <1>1, <1>2, <1>3, <1>4, <1>5 DEF Write

----------------------------------------------------------------------------
(* Each part of the invariant is kept by every action.                     *)

\* Every action keeps the types.
LEMMA TypeStep ==
    ASSUME TypeOK, [Next]_vars
    PROVE  TypeOK'
  <1> USE OutboxAssumption DEF TypeOK
  <1>1. CASE UNCHANGED vars
    BY <1>1 DEF vars, postgres, transaction, sidecar
  <1>2. ASSUME NEW p \in Commands, Acquire(p) PROVE TypeOK'
    BY <1>2 DEF Acquire, postgres, transaction, sidecar
  <1>3. ASSUME NEW p \in Commands, Release(p) PROVE TypeOK'
    BY <1>3 DEF Release, postgres, transaction, sidecar
  <1>4. ASSUME NEW p \in Commands, Begin(p) PROVE TypeOK'
    BY <1>4 DEF Begin, postgres, transaction, sidecar
  <1>5. ASSUME NEW p \in Commands, Write(p) PROVE TypeOK'
    <2>1. PICK e \in Entities, text \in Texts \cup {"gone"},
              operation \in {"upsert", "delete"} :
              /\ Emit(p, e, text, operation)
              /\ content[e] # "gone"
              /\ text = "gone" <=> operation = "delete"
      BY <1>5, WriteEmits
    <2>2. [id |-> nextId, about |-> e, operation |-> operation] \in Events
      BY DEF Events
    <2> QED BY <2>1, <2>2 DEF Emit, postgres, sidecar
  <1>6. ASSUME NEW p \in Commands, Commit(p) PROVE TypeOK'
    <2>1. Published(p) \in [Entities -> Texts \cup {"unborn", "gone"}]
      BY DEF Published
    <2>2. committed \cup pending[p] \subseteq Events
      OBVIOUS
    <2>3. Untouched \in [Entities -> Texts \cup {"gone", "same"}]
      BY DEF Untouched
    <2> QED BY <1>6, <2>1, <2>2, <2>3 DEF Commit, Closed, postgres, sidecar
  <1>7. ASSUME NEW p \in Commands, RollBack(p) PROVE TypeOK'
    <2>1. Untouched \in [Entities -> Texts \cup {"gone", "same"}]
      BY DEF Untouched
    <2> QED BY <1>7, <2>1 DEF RollBack, Closed, postgres, sidecar
  <1>8. ASSUME NEW p \in Commands, StartSync(p) PROVE TypeOK'
    BY <1>8 DEF StartSync, postgres, transaction, sidecar
  <1>9. ASSUME NEW p \in Commands, Fetch(p) PROVE TypeOK'
    <2>1. Fetched \subseteq Events
      BY DEF Fetched, Unapplied
    <2> QED BY <1>9, <2>1 DEF Fetch, postgres, transaction, sidecar
  <1>10. ASSUME NEW p \in Commands, ReadContent(p) PROVE TypeOK'
    <2>1. PICK i \in batch[p] : read' = [read EXCEPT ![p] =
              IF i.operation = "delete" THEN "gone" ELSE content[i.about]]
      BY <1>10 DEF ReadContent
    <2>2. i.about \in Entities
      BY <2>1 DEF Events
    <2> QED BY <1>10, <2>1, <2>2 DEF ReadContent, postgres, transaction, sidecar
  <1>11. ASSUME NEW p \in Commands, Apply(p) PROVE TypeOK'
    <2>1. PICK i \in batch[p] :
              /\ index' = Reindexed(i, read[p])
              /\ applied' = i.id
              /\ Advance(p, i)
      BY <1>11 DEF Apply
    <2>2. i \in Events /\ i.id \in Nat /\ i.about \in Entities
      BY <2>1 DEF Events
    <2>3. index' \in [Entities -> Texts \cup {"none"}]
      BY <2>1, <2>2 DEF Reindexed
    <2> QED BY <1>11, <2>1, <2>2, <2>3 DEF Apply, Advance, postgres, transaction
  <1>12. ASSUME NEW p \in Commands, NEW c \in BOOLEAN, Crash(p, c) PROVE TypeOK'
    <2>1. Published(p) \in [Entities -> Texts \cup {"unborn", "gone"}]
      BY DEF Published
    <2>2. committed \cup pending[p] \subseteq Events
      OBVIOUS
    <2>3. Untouched \in [Entities -> Texts \cup {"gone", "same"}]
      BY DEF Untouched
    <2> QED BY <1>12, <2>1, <2>2, <2>3 DEF Crash, Closed, postgres, sidecar
  <1> QED
    BY <1>1, <1>2, <1>3, <1>4, <1>5, <1>6, <1>7, <1>8, <1>9,
       <1>10, <1>11, <1>12 DEF Next, SyncStep

\* The lock is taken when free and given back by its holder.
LEMMA LockStep ==
    ASSUME TypeOK, LockInv, [Next]_vars
    PROVE  LockInv'
  <1> USE OutboxAssumption DEF TypeOK, LockInv
  <1>1. CASE UNCHANGED vars
    BY <1>1 DEF vars, postgres, transaction, sidecar
  <1>2. ASSUME NEW p \in Commands, Acquire(p) PROVE LockInv'
    BY <1>2 DEF Acquire, postgres, transaction, sidecar
  <1>3. ASSUME NEW p \in Commands, Release(p) PROVE LockInv'
    BY <1>3 DEF Release, postgres, transaction, sidecar
  <1>4. ASSUME NEW p \in Commands, Begin(p) PROVE LockInv'
    BY <1>4 DEF Begin, postgres, transaction, sidecar
  <1>5. ASSUME NEW p \in Commands, Write(p) PROVE LockInv'
    <2>1. PICK e \in Entities, text \in Texts \cup {"gone"},
              operation \in {"upsert", "delete"} :
              /\ Emit(p, e, text, operation)
              /\ content[e] # "gone"
              /\ text = "gone" <=> operation = "delete"
      BY <1>5, WriteEmits DEF TypeOK
    <2> QED BY <2>1 DEF Emit, postgres, sidecar
  <1>6. ASSUME NEW p \in Commands, Commit(p) PROVE LockInv'
    BY <1>6 DEF Commit, Closed, Published, sidecar
  <1>7. ASSUME NEW p \in Commands, RollBack(p) PROVE LockInv'
    BY <1>7 DEF RollBack, Closed, postgres, sidecar
  <1>8. ASSUME NEW p \in Commands, StartSync(p) PROVE LockInv'
    BY <1>8 DEF StartSync, postgres, transaction, sidecar
  <1>9. ASSUME NEW p \in Commands, Fetch(p) PROVE LockInv'
    BY <1>9 DEF Fetch, postgres, transaction, sidecar
  <1>10. ASSUME NEW p \in Commands, ReadContent(p) PROVE LockInv'
    BY <1>10 DEF ReadContent, postgres, transaction, sidecar
  <1>11. ASSUME NEW p \in Commands, Apply(p) PROVE LockInv'
    BY <1>11 DEF Apply, Advance, Reindexed, postgres, transaction
  <1>12. ASSUME NEW p \in Commands, NEW c \in BOOLEAN, Crash(p, c) PROVE LockInv'
    BY <1>12 DEF Crash, Closed, Published, postgres, sidecar
  <1> QED
    BY <1>1, <1>2, <1>3, <1>4, <1>5, <1>6, <1>7, <1>8, <1>9,
       <1>10, <1>11, <1>12 DEF Next, SyncStep

\* A committed transaction brings ids of its own, all above the watermark.
LEMMA IdStep ==
    ASSUME TypeOK, LockInv, IdInv, TransactionInv, BatchInv, [Next]_vars
    PROVE  IdInv'
  <1> USE OutboxAssumption DEF TypeOK, IdInv, LockInv, TransactionInv, Events
  <1>1. CASE UNCHANGED vars
    BY <1>1 DEF vars, postgres, transaction, sidecar
  <1>2. ASSUME NEW p \in Commands, Acquire(p) PROVE IdInv'
    BY <1>2 DEF Acquire, postgres, transaction, sidecar
  <1>3. ASSUME NEW p \in Commands, Release(p) PROVE IdInv'
    BY <1>3 DEF Release, postgres, transaction, sidecar
  <1>4. ASSUME NEW p \in Commands, Begin(p) PROVE IdInv'
    BY <1>4 DEF Begin, postgres, transaction, sidecar
  <1>5. ASSUME NEW p \in Commands, Write(p) PROVE IdInv'
    <2>1. PICK e \in Entities, text \in Texts \cup {"gone"},
              operation \in {"upsert", "delete"} :
              /\ Emit(p, e, text, operation)
              /\ content[e] # "gone"
              /\ text = "gone" <=> operation = "delete"
      BY <1>5, WriteEmits DEF TypeOK
    <2> QED BY <2>1 DEF Emit, postgres, sidecar
  <1>6. ASSUME NEW p \in Commands, Commit(p) PROVE IdInv'
    <2>1. IsFiniteSet(committed \cup pending[p])
      BY FS_Union
    <2>2. \A i, j \in committed \cup pending[p] : i.id = j.id => i = j
      OBVIOUS
    <2>3. \A i \in committed \cup pending[p] : i.id < nextId
      OBVIOUS
    <2> QED BY <1>6, <2>1, <2>2, <2>3 DEF Commit, Closed, postgres, sidecar
  <1>7. ASSUME NEW p \in Commands, RollBack(p) PROVE IdInv'
    BY <1>7 DEF RollBack, Closed, postgres, sidecar
  <1>8. ASSUME NEW p \in Commands, StartSync(p) PROVE IdInv'
    BY <1>8 DEF StartSync, postgres, transaction, sidecar
  <1>9. ASSUME NEW p \in Commands, Fetch(p) PROVE IdInv'
    BY <1>9 DEF Fetch, postgres, transaction, sidecar
  <1>10. ASSUME NEW p \in Commands, ReadContent(p) PROVE IdInv'
    BY <1>10 DEF ReadContent, postgres, transaction, sidecar
  <1>11. ASSUME NEW p \in Commands, Apply(p) PROVE IdInv'
    <2>1. PICK i \in batch[p] :
              /\ IsFirst(p, i)
              /\ index' = Reindexed(i, read[p])
              /\ applied' = i.id
              /\ Advance(p, i)
      BY <1>11 DEF Apply
    <2> QED BY <2>1 DEF BatchInv, Unapplied, Advance, postgres, transaction
  <1>12. ASSUME NEW p \in Commands, NEW c \in BOOLEAN, Crash(p, c) PROVE IdInv'
    <2>1. IsFiniteSet(committed \cup pending[p])
      BY FS_Union
    <2>2. \A i, j \in committed \cup pending[p] : i.id = j.id => i = j
      OBVIOUS
    <2>3. \A i \in committed \cup pending[p] : i.id < nextId
      OBVIOUS
    <2>4. nextId' = nextId /\ applied' = applied
      BY <1>12 DEF Crash, sidecar
    <2>5. committed' = committed \cup pending[p] \/ committed' = committed
      BY <1>12 DEF Crash, postgres
    <2>6. CASE committed' = committed
      BY <2>4, <2>6
    <2>7. CASE committed' = committed \cup pending[p]
      BY <2>1, <2>2, <2>3, <2>4, <2>7
    <2> QED BY <2>5, <2>6, <2>7
  <1> QED
    BY <1>1, <1>2, <1>3, <1>4, <1>5, <1>6, <1>7, <1>8, <1>9,
       <1>10, <1>11, <1>12 DEF Next, SyncStep

\* With no transaction open there is nothing to show.
LEMMA NoTransaction ==
    ASSUME \A p \in Commands : draft'[p] = Untouched /\ pending'[p] = {}
    PROVE  TransactionInv'
  <1>1. IsFiniteSet({})
    BY FS_EmptySet
  <1>2. \A e \in Entities : Untouched[e] = "same"
    BY DEF Untouched
  <1> QED BY <1>1, <1>2 DEF TransactionInv

\* A transaction takes fresh ids and locks the rows it changes; it ends before the
\* watermark can move.
LEMMA TransactionStep ==
    ASSUME TypeOK, LockInv, IdInv, TransactionInv, [Next]_vars
    PROVE  TransactionInv'
  <1> USE OutboxAssumption DEF TypeOK, LockInv, TransactionInv, IdInv, Events
  <1>1. CASE UNCHANGED vars
    BY <1>1 DEF vars, postgres, transaction, sidecar
  <1>2. ASSUME NEW p \in Commands, Acquire(p) PROVE TransactionInv'
    BY <1>2 DEF Acquire, postgres, transaction, sidecar
  <1>3. ASSUME NEW p \in Commands, Release(p) PROVE TransactionInv'
    BY <1>3 DEF Release, postgres, transaction, sidecar
  <1>4. ASSUME NEW p \in Commands, Begin(p) PROVE TransactionInv'
    BY <1>4 DEF Begin, postgres, transaction, sidecar
  <1>5. ASSUME NEW p \in Commands, Write(p) PROVE TransactionInv'
    <2>1. PICK e \in Entities, text \in Texts \cup {"gone"},
              operation \in {"upsert", "delete"} :
              /\ Emit(p, e, text, operation)
              /\ content[e] # "gone"
              /\ text = "gone" <=> operation = "delete"
      BY <1>5, WriteEmits
    <2> DEFINE new == [id |-> nextId, about |-> e, operation |-> operation]
    <2>2. /\ draft' = [draft EXCEPT ![p][e] = text]
          /\ pending' = [pending EXCEPT ![p] = pending[p] \cup {new}]
          /\ nextId' = nextId + 1
          /\ UNCHANGED << content, committed, index, applied, at, batch, read, lock >>
          /\ \A q \in Commands : draft[q][e] = "same"
          /\ at[p] = "writing"
      BY <2>1 DEF Emit, postgres, sidecar
    <2>3. new \in Events /\ new.id = nextId /\ new.about = e /\ new.operation = operation
      BY DEF Events
    <2>4. IsFiniteSet(pending[p] \cup {new})
      BY FS_AddElement
    <2>5. ASSUME NEW q \in Commands, q # p PROVE draft'[q] = draft[q] /\ pending'[q] = pending[q]
      BY <2>2, <2>5
    <2>6. draft'[p] = [draft[p] EXCEPT ![e] = text] /\ pending'[p] = pending[p] \cup {new}
      BY <2>2
    <2> HIDE DEF new
    <2>7. ASSUME NEW q \in Commands PROVE
              /\ at'[q] # "writing" => draft'[q] = Untouched /\ pending'[q] = {}
              /\ IsFiniteSet(pending'[q])
              /\ \A i \in pending'[q] : applied' < i.id /\ i.id < nextId'
              /\ \A i \in pending'[q], j \in committed' : i.id # j.id
              /\ \A i, j \in pending'[q] : i.id = j.id => i = j
      <3>1. CASE q = p
        BY <3>1, <2>2, <2>3, <2>4, <2>6
      <3>2. CASE q # p
        BY <3>2, <2>2, <2>5
      <3> QED BY <3>1, <3>2
    <2>8. ASSUME NEW q \in Commands PROVE
              /\ \A f \in Entities : draft'[q][f] # "same" =>
                    \E i \in pending'[q] :
                        i.about = f /\ (draft'[q][f] = "gone" => i.operation = "delete")
              /\ \A i \in pending'[q] : i.operation = "delete" => draft'[q][i.about] = "gone"
              /\ \A f \in Entities : content'[f] = "gone" => draft'[q][f] = "same"
      <3>1. CASE q = p
        <4>1. draft[p] \in [Entities -> Texts \cup {"gone", "same"}]
          OBVIOUS
        <4>2. ASSUME NEW f \in Entities, draft'[p][f] # "same"
              PROVE \E i \in pending'[p] :
                        i.about = f /\ (draft'[p][f] = "gone" => i.operation = "delete")
          <5>1. CASE f = e
            BY <5>1, <4>1, <2>1, <2>3, <2>6
          <5>2. CASE f # e
            BY <5>2, <4>1, <4>2, <2>6
          <5> QED BY <5>1, <5>2
        <4>3. ASSUME NEW i \in pending'[p], i.operation = "delete"
              PROVE draft'[p][i.about] = "gone"
          <5>1. CASE i = new
            BY <5>1, <4>1, <4>3, <2>1, <2>3, <2>6
          <5>2. CASE i # new
            <6>1. i \in pending[p] /\ i.about \in Entities
              BY <5>2, <2>6
            <6>2. draft[p][i.about] = "gone" /\ i.about # e
              BY <6>1, <4>3, <2>2
            <6> QED BY <6>1, <6>2, <4>1, <2>6
          <5> QED BY <5>1, <5>2
        <4>4. \A f \in Entities : content'[f] = "gone" => draft'[p][f] = "same"
          BY <4>1, <2>1, <2>2, <2>6
        <4> QED BY <3>1, <4>2, <4>3, <4>4
      <3>2. CASE q # p
        BY <3>2, <2>2, <2>5
      <3> QED BY <3>1, <3>2
    <2> QED BY <2>7, <2>8 DEF TransactionInv
  <1>6. ASSUME NEW p \in Commands, Commit(p) PROVE TransactionInv'
    <2>1. \A q \in Commands : pending'[q] = {} /\ draft'[q] = Untouched
      BY <1>6 DEF Commit, Closed
    <2> QED BY <2>1, NoTransaction
  <1>7. ASSUME NEW p \in Commands, RollBack(p) PROVE TransactionInv'
    <2>1. \A q \in Commands : pending'[q] = {} /\ draft'[q] = Untouched
      BY <1>7 DEF RollBack, Closed
    <2> QED BY <2>1, NoTransaction
  <1>8. ASSUME NEW p \in Commands, StartSync(p) PROVE TransactionInv'
    BY <1>8 DEF StartSync, postgres, transaction, sidecar
  <1>9. ASSUME NEW p \in Commands, Fetch(p) PROVE TransactionInv'
    BY <1>9 DEF Fetch, postgres, transaction, sidecar
  <1>10. ASSUME NEW p \in Commands, ReadContent(p) PROVE TransactionInv'
    BY <1>10 DEF ReadContent, postgres, transaction, sidecar
  <1>11. ASSUME NEW p \in Commands, Apply(p) PROVE TransactionInv'
    <2>1. PICK i \in batch[p] :
              /\ IsFirst(p, i)
              /\ index' = Reindexed(i, read[p])
              /\ applied' = i.id
              /\ Advance(p, i)
      BY <1>11 DEF Apply
    <2>2. \A q \in Commands : at'[q] # "writing" /\ draft'[q] = Untouched /\ pending'[q] = {}
      BY <1>11, <2>1 DEF Advance, transaction, Apply
    <2> QED BY <2>2, NoTransaction
  <1>12. ASSUME NEW p \in Commands, NEW c \in BOOLEAN, Crash(p, c) PROVE TransactionInv'
    <2>1. \A q \in Commands : pending'[q] = {} /\ draft'[q] = Untouched
      BY <1>12 DEF Crash, Closed
    <2> QED BY <2>1, NoTransaction
  <1> QED
    BY <1>1, <1>2, <1>3, <1>4, <1>5, <1>6, <1>7, <1>8, <1>9,
       <1>10, <1>11, <1>12 DEF Next, SyncStep

\* Nothing is written about an entity that is gone.
LEMMA DeletedStep ==
    ASSUME TypeOK, LockInv, TransactionInv, DeletedInv, [Next]_vars
    PROVE  DeletedInv'
  <1> USE OutboxAssumption DEF TypeOK, LockInv, TransactionInv, DeletedInv, Events
  <1>1. CASE UNCHANGED vars
    BY <1>1 DEF vars, postgres, transaction, sidecar
  <1>2. ASSUME NEW p \in Commands, Acquire(p) PROVE DeletedInv'
    BY <1>2 DEF Acquire, postgres, transaction, sidecar
  <1>3. ASSUME NEW p \in Commands, Release(p) PROVE DeletedInv'
    BY <1>3 DEF Release, postgres, transaction, sidecar
  <1>4. ASSUME NEW p \in Commands, Begin(p) PROVE DeletedInv'
    BY <1>4 DEF Begin, postgres, transaction, sidecar
  <1>5. ASSUME NEW p \in Commands, Write(p) PROVE DeletedInv'
    <2>1. PICK e \in Entities, text \in Texts \cup {"gone"},
              operation \in {"upsert", "delete"} :
              /\ Emit(p, e, text, operation)
              /\ content[e] # "gone"
              /\ text = "gone" <=> operation = "delete"
      BY <1>5, WriteEmits
    <2> QED BY <2>1 DEF Emit, postgres
  <1>6. ASSUME NEW p \in Commands, Commit(p) PROVE DeletedInv'
    <2>1. \A e \in Entities : content[e] = "gone" => Published(p)[e] = "gone"
      BY DEF Published
    <2>2. \A i \in pending[p] : i.operation = "delete" => Published(p)[i.about] = "gone"
      BY DEF Published
    <2> QED BY <1>6, <2>1, <2>2 DEF Commit, Closed, postgres, sidecar
  <1>7. ASSUME NEW p \in Commands, RollBack(p) PROVE DeletedInv'
    BY <1>7 DEF RollBack, Closed, postgres, sidecar
  <1>8. ASSUME NEW p \in Commands, StartSync(p) PROVE DeletedInv'
    BY <1>8 DEF StartSync, postgres, transaction, sidecar
  <1>9. ASSUME NEW p \in Commands, Fetch(p) PROVE DeletedInv'
    BY <1>9 DEF Fetch, postgres, transaction, sidecar
  <1>10. ASSUME NEW p \in Commands, ReadContent(p) PROVE DeletedInv'
    BY <1>10 DEF ReadContent, postgres, transaction, sidecar
  <1>11. ASSUME NEW p \in Commands, Apply(p) PROVE DeletedInv'
    <2>1. PICK i \in batch[p] :
              /\ IsFirst(p, i)
              /\ index' = Reindexed(i, read[p])
              /\ applied' = i.id
              /\ Advance(p, i)
      BY <1>11 DEF Apply
    <2> QED BY <2>1 DEF Advance, postgres
  <1>12. ASSUME NEW p \in Commands, NEW c \in BOOLEAN, Crash(p, c) PROVE DeletedInv'
    <2>1. \A e \in Entities : content[e] = "gone" => Published(p)[e] = "gone"
      BY DEF Published
    <2>2. \A i \in pending[p] : i.operation = "delete" => Published(p)[i.about] = "gone"
      BY DEF Published
    <2> QED BY <1>12, <2>1, <2>2 DEF Crash, Closed, postgres, sidecar
  <1> QED
    BY <1>1, <1>2, <1>3, <1>4, <1>5, <1>6, <1>7, <1>8, <1>9,
       <1>10, <1>11, <1>12 DEF Next, SyncStep

\* Applying the first event of a batch leaves exactly the others unapplied.
LEMMA ApplyTakesOne ==
    ASSUME TypeOK, IdInv, BatchInv, NEW p \in Commands, Apply(p)
    PROVE  \E i \in batch[p] :
              /\ IsFirst(p, i)
              /\ index' = Reindexed(i, read[p])
              /\ Advance(p, i)
              /\ i \in Unapplied
              /\ Unapplied' = Unapplied \ {i}
  <1>1. PICK i \in batch[p] :
            /\ IsFirst(p, i)
            /\ index' = Reindexed(i, read[p])
            /\ applied' = i.id
            /\ Advance(p, i)
    BY DEF Apply
  <1>2. i \in Unapplied
    BY <1>1 DEF BatchInv
  <1>3. ASSUME NEW j \in Unapplied, j # i PROVE i.id < j.id
    <2>1. i \in Events /\ j \in Events /\ i \in committed /\ j \in committed
      BY <1>2 DEF Unapplied, TypeOK
    <2>2. i.id \in Nat /\ j.id \in Nat /\ i.id # j.id
      BY <2>1, <1>3 DEF Events, IdInv
    <2>3. ~(j.id < i.id)
      <3>1. ASSUME j.id < i.id PROVE FALSE
        <4>1. j \in batch[p]
          BY <3>1, <1>1 DEF BatchInv
        <4> QED BY <4>1, <3>1, <2>2, <1>1 DEF IsFirst
      <3> QED BY <3>1
    <2> QED BY <2>2, <2>3
  <1>4. committed' = committed
    BY <1>1 DEF Advance, postgres
  <1>5. \A j \in committed : j.id \in Nat
    BY DEF TypeOK, Events
  <1>6. i.id \in Nat /\ applied \in Nat /\ applied < i.id
    BY <1>2, <1>5 DEF Unapplied, TypeOK
  <1>7. ASSUME NEW j \in Unapplied', j \notin Unapplied \ {i} PROVE FALSE
    BY <1>7, <1>1, <1>4, <1>5, <1>6 DEF Unapplied
  <1>8. ASSUME NEW j \in Unapplied \ {i} PROVE j \in Unapplied'
    BY <1>3, <1>8, <1>1, <1>4 DEF Unapplied
  <1> QED BY <1>1, <1>2, <1>7, <1>8

\* A transaction that ends an entity brings its delete event; skipping an upsert
\* leaves that event unapplied.
LEMMA StaleStep ==
    ASSUME TypeOK, LockInv, IdInv, TransactionInv, BatchInv, ReadInv, StaleInv, [Next]_vars
    PROVE  StaleInv'
  <1> USE OutboxAssumption DEF TypeOK, LockInv, TransactionInv, StaleInv, Events, Unapplied
  <1>1. CASE UNCHANGED vars
    BY <1>1 DEF vars, postgres, transaction, sidecar
  <1>2. ASSUME NEW p \in Commands, Acquire(p) PROVE StaleInv'
    BY <1>2 DEF Acquire, postgres, transaction, sidecar
  <1>3. ASSUME NEW p \in Commands, Release(p) PROVE StaleInv'
    BY <1>3 DEF Release, postgres, transaction, sidecar
  <1>4. ASSUME NEW p \in Commands, Begin(p) PROVE StaleInv'
    BY <1>4 DEF Begin, postgres, transaction, sidecar
  <1>5. ASSUME NEW p \in Commands, Write(p) PROVE StaleInv'
    <2>1. PICK e \in Entities, text \in Texts \cup {"gone"},
              operation \in {"upsert", "delete"} :
              /\ Emit(p, e, text, operation)
              /\ content[e] # "gone"
              /\ text = "gone" <=> operation = "delete"
      BY <1>5, WriteEmits
    <2> QED BY <2>1 DEF Emit, postgres, sidecar
  <1>6. ASSUME NEW p \in Commands, Commit(p) PROVE StaleInv'
    <2>1. /\ content' = Published(p)
          /\ committed' = committed \cup pending[p]
          /\ UNCHANGED << index, applied >>
      BY <1>6 DEF Commit, sidecar
    <2> SUFFICES ASSUME NEW e \in Entities, content'[e] \notin Texts, index[e] # "none"
                 PROVE  \E i \in Unapplied' : i.about = e /\ i.operation = "delete"
      BY <2>1 DEF StaleInv
    <2>2. CASE draft[p][e] = "same"
      BY <2>1, <2>2 DEF Published, Unapplied
    <2>3. CASE draft[p][e] # "same"
      <3>1. draft[p][e] = "gone"
        BY <2>1, <2>3 DEF Published
      <3> QED BY <3>1, <2>1, <2>3 DEF Unapplied
    <2> QED BY <2>2, <2>3
  <1>7. ASSUME NEW p \in Commands, RollBack(p) PROVE StaleInv'
    BY <1>7 DEF RollBack, Closed, postgres, sidecar
  <1>8. ASSUME NEW p \in Commands, StartSync(p) PROVE StaleInv'
    BY <1>8 DEF StartSync, postgres, transaction, sidecar
  <1>9. ASSUME NEW p \in Commands, Fetch(p) PROVE StaleInv'
    BY <1>9 DEF Fetch, postgres, transaction, sidecar
  <1>10. ASSUME NEW p \in Commands, ReadContent(p) PROVE StaleInv'
    BY <1>10 DEF ReadContent, postgres, transaction, sidecar
  <1>11. ASSUME NEW p \in Commands, Apply(p) PROVE StaleInv'
    <2>1. PICK i \in batch[p] :
              /\ IsFirst(p, i)
              /\ index' = Reindexed(i, read[p])
              /\ Advance(p, i)
              /\ i \in Unapplied
              /\ Unapplied' = Unapplied \ {i}
      BY <1>11, ApplyTakesOne
    <2>2. i \in Events /\ i.about \in Entities /\ i.operation \in {"upsert", "delete"}
      BY <2>1 DEF Events
    <2>3. content' = content /\ at[p] = "read"
      BY <1>11, <2>1 DEF Advance, postgres, Apply
    <2> SUFFICES ASSUME NEW e \in Entities, content[e] \notin Texts, index'[e] # "none"
                 PROVE  \E j \in Unapplied \ {i} : j.about = e /\ j.operation = "delete"
      BY <2>1, <2>3 DEF StaleInv
    <2>4. CASE i.about # e
      <3>1. index'[e] = index[e]
        BY <2>1, <2>2, <2>4 DEF Reindexed
      <3> QED BY <3>1, <2>4
    <2>5. CASE i.about = e /\ i.operation = "delete"
      BY <2>1, <2>2, <2>5 DEF Reindexed
    <2>6. CASE i.about = e /\ i.operation = "upsert"
      <3>1. read[p] = content[e]
        BY <2>1, <2>3, <2>6 DEF ReadInv
      <3>2. index' = index
        BY <3>1, <2>1, <2>6 DEF Reindexed
      <3> QED BY <3>2, <2>6
    <2> QED BY <2>2, <2>4, <2>5, <2>6
  <1>12. ASSUME NEW p \in Commands, NEW c \in BOOLEAN, Crash(p, c) PROVE StaleInv'
    <2>1. CASE c
      <3>1. /\ content' = Published(p)
            /\ committed' = committed \cup pending[p]
            /\ UNCHANGED << index, applied >>
        BY <1>12, <2>1 DEF Crash, sidecar
      <3> SUFFICES ASSUME NEW e \in Entities, content'[e] \notin Texts, index[e] # "none"
                   PROVE  \E i \in Unapplied' : i.about = e /\ i.operation = "delete"
        BY <3>1 DEF StaleInv
      <3>2. CASE draft[p][e] = "same"
        BY <3>1, <3>2 DEF Published, Unapplied
      <3>3. CASE draft[p][e] # "same"
        <4>1. draft[p][e] = "gone"
          BY <3>1, <3>3 DEF Published
        <4> QED BY <4>1, <3>1, <3>3 DEF Unapplied
      <3> QED BY <3>2, <3>3
    <2>2. CASE ~c
      BY <1>12, <2>2 DEF Crash, postgres, sidecar, Unapplied
    <2> QED BY <2>1, <2>2
  <1> QED
    BY <1>1, <1>2, <1>3, <1>4, <1>5, <1>6, <1>7, <1>8, <1>9,
       <1>10, <1>11, <1>12 DEF Next, SyncStep

\* What is fetched is the lowest part of what is unapplied.
LEMMA FetchedIsLowest ==
    ASSUME TypeOK, IdInv, NEW i \in Fetched, NEW j \in Unapplied, j.id < i.id
    PROVE  j \in Fetched
  <1> DEFINE below(k) == {l \in Unapplied : l.id < k.id}
  <1>1. \A l \in Unapplied : l.id \in Nat
    BY DEF Unapplied, TypeOK, Events
  <1>2. IsFiniteSet(Unapplied)
    BY FS_Subset DEF IdInv, Unapplied
  <1>3. IsFiniteSet(below(i)) /\ below(i) \subseteq Unapplied
    BY <1>2, FS_Subset
  <1>4. i \in Unapplied /\ Cardinality(below(i)) < BatchSize
    BY DEF Fetched
  <1>5. below(j) \subseteq below(i)
    BY <1>1, <1>4
  <1>6. IsFiniteSet(below(j)) /\ Cardinality(below(j)) <= Cardinality(below(i))
    BY <1>3, <1>5, FS_Subset
  <1>7. Cardinality(below(j)) \in Nat /\ Cardinality(below(i)) \in Nat
    BY <1>3, <1>6, FS_CardinalityType
  <1>8. Cardinality(below(j)) < BatchSize
    BY <1>4, <1>6, <1>7, OutboxAssumption
  <1> QED BY <1>8 DEF Fetched

\* The lock keeps commits out of a sync, so a batch stays the lowest part of what is
\* unapplied.
LEMMA BatchStep ==
    ASSUME TypeOK, LockInv, IdInv, BatchInv, [Next]_vars
    PROVE  BatchInv'
  <1> USE OutboxAssumption DEF TypeOK, LockInv, BatchInv
  <1>1. CASE UNCHANGED vars
    BY <1>1 DEF vars, postgres, transaction, sidecar, Unapplied
  <1>2. ASSUME NEW p \in Commands, Acquire(p) PROVE BatchInv'
    BY <1>2 DEF Acquire, postgres, transaction, sidecar, Unapplied
  <1>3. ASSUME NEW p \in Commands, Release(p) PROVE BatchInv'
    BY <1>3 DEF Release, postgres, transaction, sidecar, Unapplied
  <1>4. ASSUME NEW p \in Commands, Begin(p) PROVE BatchInv'
    BY <1>4 DEF Begin, postgres, transaction, sidecar, Unapplied
  <1>5. ASSUME NEW p \in Commands, Write(p) PROVE BatchInv'
    <2>1. PICK e \in Entities, text \in Texts \cup {"gone"},
              operation \in {"upsert", "delete"} :
              /\ Emit(p, e, text, operation)
              /\ content[e] # "gone"
              /\ text = "gone" <=> operation = "delete"
      BY <1>5, WriteEmits
    <2> QED BY <2>1 DEF Emit, postgres, sidecar, Unapplied
  <1>6. ASSUME NEW p \in Commands, Commit(p) PROVE BatchInv'
    <2>1. \A q \in Commands : batch'[q] = {}
      BY <1>6 DEF Commit, Closed, postgres, sidecar
    <2> QED BY <2>1
  <1>7. ASSUME NEW p \in Commands, RollBack(p) PROVE BatchInv'
    <2>1. \A q \in Commands : batch'[q] = {}
      BY <1>7 DEF RollBack, Closed, postgres, sidecar
    <2> QED BY <2>1
  <1>8. ASSUME NEW p \in Commands, StartSync(p) PROVE BatchInv'
    BY <1>8 DEF StartSync, postgres, transaction, sidecar, Unapplied
  <1>9. ASSUME NEW p \in Commands, Fetch(p) PROVE BatchInv'
    <2>1. /\ \A q \in Commands : batch'[q] = IF q = p THEN Fetched ELSE batch[q]
          /\ \A q \in Commands \ {p} : at'[q] = at[q]
          /\ at'[p] = IF Fetched = {} THEN "holding" ELSE "applying"
          /\ Unapplied' = Unapplied
      BY <1>9 DEF Fetch, postgres, sidecar, Unapplied
    <2>2. Fetched \subseteq Unapplied
      BY DEF Fetched
    <2>3. \A i \in Fetched, j \in Unapplied : j.id < i.id => j \in Fetched
      BY FetchedIsLowest
    <2>4. ASSUME NEW q \in Commands PROVE
              /\ at'[q] \notin {"applying", "read"} => batch'[q] = {}
              /\ batch'[q] \subseteq Unapplied'
              /\ \A i \in batch'[q], j \in Unapplied' : j.id < i.id => j \in batch'[q]
      <3>1. CASE q = p
        BY <3>1, <2>1, <2>2, <2>3
      <3>2. CASE q # p
        BY <3>2, <2>1
      <3> QED BY <3>1, <3>2
    <2> QED BY <2>4 DEF BatchInv
  <1>10. ASSUME NEW p \in Commands, ReadContent(p) PROVE BatchInv'
    BY <1>10 DEF ReadContent, postgres, transaction, sidecar, Unapplied
  <1>11. ASSUME NEW p \in Commands, Apply(p) PROVE BatchInv'
    <2>1. PICK i \in batch[p] :
              /\ IsFirst(p, i)
              /\ index' = Reindexed(i, read[p])
              /\ Advance(p, i)
              /\ i \in Unapplied
              /\ Unapplied' = Unapplied \ {i}
      BY <1>11, ApplyTakesOne
    <2>2. i \in Events /\ i.about \in Entities /\ i.operation \in {"upsert", "delete"}
      BY <2>1 DEF Events
    <2>3. content' = content /\ at[p] = "read"
      BY <1>11, <2>1 DEF Advance, postgres, Apply
    <2>4. ASSUME NEW q \in Commands, q # p PROVE batch'[q] = {}
      BY <2>1, <2>3, <2>4 DEF Advance
    <2>5. /\ batch'[p] = batch[p] \ {i}
          /\ at'[p] = IF batch[p] = {i} THEN "fetching" ELSE "applying"
      BY <2>1 DEF Advance
    <2>6. batch'[p] \subseteq Unapplied'
      BY <2>1, <2>5
    <2>7. \A k \in batch'[p], j \in Unapplied' : j.id < k.id => j \in batch'[p]
      BY <2>1, <2>5
    <2>8. at'[p] \notin {"applying", "read"} => batch'[p] = {}
      BY <2>1, <2>5
    <2> QED BY <2>4, <2>6, <2>7, <2>8
  <1>12. ASSUME NEW p \in Commands, NEW c \in BOOLEAN, Crash(p, c) PROVE BatchInv'
    <2>1. \A q \in Commands : batch'[q] = {}
      BY <1>12 DEF Crash, Closed, postgres, sidecar
    <2> QED BY <2>1
  <1> QED
    BY <1>1, <1>2, <1>3, <1>4, <1>5, <1>6, <1>7, <1>8, <1>9,
       <1>10, <1>11, <1>12 DEF Next, SyncStep

\* What was read stays true until it is applied, since nobody else holds the lock.
LEMMA ReadStep ==
    ASSUME TypeOK, LockInv, IdInv, BatchInv, ReadInv, [Next]_vars
    PROVE  ReadInv'
  <1> USE OutboxAssumption DEF TypeOK, LockInv, ReadInv
  <1>1. CASE UNCHANGED vars
    BY <1>1 DEF vars, postgres, transaction, sidecar, IsFirst
  <1>2. ASSUME NEW p \in Commands, Acquire(p) PROVE ReadInv'
    <2>1. \A q \in Commands : at'[q] # "read"
      BY <1>2 DEF Acquire
    <2> QED BY <2>1
  <1>3. ASSUME NEW p \in Commands, Release(p) PROVE ReadInv'
    <2>1. \A q \in Commands : at'[q] # "read"
      BY <1>3 DEF Release
    <2> QED BY <2>1
  <1>4. ASSUME NEW p \in Commands, Begin(p) PROVE ReadInv'
    <2>1. \A q \in Commands : at'[q] # "read"
      BY <1>4 DEF Begin
    <2> QED BY <2>1
  <1>5. ASSUME NEW p \in Commands, Write(p) PROVE ReadInv'
    <2>1. PICK e \in Entities, text \in Texts \cup {"gone"},
              operation \in {"upsert", "delete"} :
              /\ Emit(p, e, text, operation)
              /\ content[e] # "gone"
              /\ text = "gone" <=> operation = "delete"
      BY <1>5, WriteEmits
    <2>2. \A q \in Commands : at'[q] # "read"
      BY <2>1 DEF Emit
    <2> QED BY <2>2
  <1>6. ASSUME NEW p \in Commands, Commit(p) PROVE ReadInv'
    <2>1. \A q \in Commands : at'[q] # "read"
      BY <1>6 DEF Commit
    <2> QED BY <2>1
  <1>7. ASSUME NEW p \in Commands, RollBack(p) PROVE ReadInv'
    <2>1. \A q \in Commands : at'[q] # "read"
      BY <1>7 DEF RollBack
    <2> QED BY <2>1
  <1>8. ASSUME NEW p \in Commands, StartSync(p) PROVE ReadInv'
    <2>1. \A q \in Commands : at'[q] # "read"
      BY <1>8 DEF StartSync
    <2> QED BY <2>1
  <1>9. ASSUME NEW p \in Commands, Fetch(p) PROVE ReadInv'
    <2>1. \A q \in Commands : at'[q] # "read"
      BY <1>9 DEF Fetch
    <2> QED BY <2>1
  <1>10. ASSUME NEW p \in Commands, ReadContent(p) PROVE ReadInv'
    <2>1. PICK i \in batch[p] :
              /\ IsFirst(p, i)
              /\ read' = [read EXCEPT ![p] =
                    IF i.operation = "delete" THEN "gone" ELSE content[i.about]]
      BY <1>10 DEF ReadContent
    <2>2. UNCHANGED << content, batch >> /\ \A q \in Commands \ {p} : at'[q] # "read"
      BY <1>10 DEF ReadContent, postgres, transaction, sidecar
    <2>3. ASSUME NEW j \in batch[p], IsFirst(p, j) PROVE j = i
      <3>1. i.id <= j.id /\ j.id <= i.id
        BY <2>1, <2>3 DEF IsFirst
      <3>2. i \in committed /\ j \in committed /\ i.id \in Nat /\ j.id \in Nat
        <4>1. batch[p] \subseteq committed
          BY DEF BatchInv, Unapplied
        <4>2. \A k \in committed : k.id \in Nat
          BY DEF Events
        <4> QED BY <4>1, <4>2, <2>1, <2>3
      <3>3. i.id = j.id
        BY <3>1, <3>2
      <3> QED BY <3>2, <3>3 DEF IdInv
    <2>4. \A j \in batch[p] : IsFirst(p, j)' <=> IsFirst(p, j)
      BY <2>2 DEF IsFirst
    <2>5. ASSUME NEW j \in batch[p], IsFirst(p, j), j.operation = "upsert"
          PROVE  read'[p] = content[j.about]
      BY <2>1, <2>3, <2>5
    <2>6. ASSUME NEW q \in Commands, at'[q] = "read", NEW j \in batch'[q],
                 IsFirst(q, j)', j.operation = "upsert"
          PROVE  read'[q] = content'[j.about]
      BY <2>2, <2>4, <2>5, <2>6
    <2> QED BY <2>6 DEF ReadInv
  <1>11. ASSUME NEW p \in Commands, Apply(p) PROVE ReadInv'
    <2>1. PICK i \in batch[p] :
              /\ IsFirst(p, i)
              /\ index' = Reindexed(i, read[p])
              /\ Advance(p, i)
              /\ i \in Unapplied
              /\ Unapplied' = Unapplied \ {i}
      BY <1>11, ApplyTakesOne
    <2>2. i \in Events /\ i.about \in Entities /\ i.operation \in {"upsert", "delete"}
      BY <2>1 DEF Events
    <2>3. content' = content /\ at[p] = "read"
      BY <1>11, <2>1 DEF Advance, postgres, Apply
    <2>4. \A q \in Commands : at'[q] # "read"
      BY <2>1, <2>3 DEF Advance
    <2> QED BY <2>4
  <1>12. ASSUME NEW p \in Commands, NEW c \in BOOLEAN, Crash(p, c) PROVE ReadInv'
    <2>1. \A q \in Commands : at'[q] # "read"
      BY <1>12 DEF Crash
    <2> QED BY <2>1
  <1> QED
    BY <1>1, <1>2, <1>3, <1>4, <1>5, <1>6, <1>7, <1>8, <1>9,
       <1>10, <1>11, <1>12 DEF Next, SyncStep

\* A commit brings an event for all it changes; applying an event either shows its
\* entity or leaves a later event of it unapplied.
LEMMA MissedStep ==
    ASSUME TypeOK, IdInv, TransactionInv, DeletedInv, StaleInv, BatchInv, ReadInv,
           NothingMissed, [Next]_vars
    PROVE  NothingMissed'
  <1> USE OutboxAssumption DEF TypeOK, NothingMissed
  <1>1. CASE UNCHANGED vars
    BY <1>1 DEF vars, postgres, transaction, sidecar, Unapplied, Shows
  <1>2. ASSUME NEW p \in Commands, Acquire(p) PROVE NothingMissed'
    BY <1>2 DEF Acquire, postgres, transaction, sidecar, Unapplied, Shows
  <1>3. ASSUME NEW p \in Commands, Release(p) PROVE NothingMissed'
    BY <1>3 DEF Release, postgres, transaction, sidecar, Unapplied, Shows
  <1>4. ASSUME NEW p \in Commands, Begin(p) PROVE NothingMissed'
    BY <1>4 DEF Begin, postgres, transaction, sidecar, Unapplied, Shows
  <1>5. ASSUME NEW p \in Commands, Write(p) PROVE NothingMissed'
    <2>1. PICK e \in Entities, text \in Texts \cup {"gone"},
              operation \in {"upsert", "delete"} :
              /\ Emit(p, e, text, operation)
              /\ content[e] # "gone"
              /\ text = "gone" <=> operation = "delete"
      BY <1>5, WriteEmits
    <2> QED BY <2>1 DEF Emit, postgres, sidecar, Unapplied, Shows
  <1>6. ASSUME NEW p \in Commands, Commit(p) PROVE NothingMissed'
    <2>1. /\ content' = Published(p)
          /\ committed' = committed \cup pending[p]
          /\ UNCHANGED << index, applied >>
      BY <1>6 DEF Commit, sidecar
    <2> SUFFICES ASSUME NEW e \in Entities, \A i \in Unapplied' : i.about # e
                 PROVE  Shows(e)'
      BY DEF NothingMissed
    <2>2. \A i \in Unapplied \cup pending[p] : i.about # e
      BY <2>1 DEF Unapplied, TransactionInv
    <2>3. draft[p][e] = "same"
      BY <2>2 DEF TransactionInv
    <2>4. content'[e] = content[e]
      BY <2>1, <2>3 DEF Published
    <2> QED BY <2>1, <2>2, <2>4 DEF Shows
  <1>7. ASSUME NEW p \in Commands, RollBack(p) PROVE NothingMissed'
    BY <1>7 DEF RollBack, postgres, sidecar, Unapplied, Shows
  <1>8. ASSUME NEW p \in Commands, StartSync(p) PROVE NothingMissed'
    BY <1>8 DEF StartSync, postgres, transaction, sidecar, Unapplied, Shows
  <1>9. ASSUME NEW p \in Commands, Fetch(p) PROVE NothingMissed'
    BY <1>9 DEF Fetch, postgres, transaction, sidecar, Unapplied, Shows
  <1>10. ASSUME NEW p \in Commands, ReadContent(p) PROVE NothingMissed'
    BY <1>10 DEF ReadContent, postgres, transaction, sidecar, Unapplied, Shows
  <1>11. ASSUME NEW p \in Commands, Apply(p) PROVE NothingMissed'
    <2>1. PICK i \in batch[p] :
              /\ IsFirst(p, i)
              /\ index' = Reindexed(i, read[p])
              /\ Advance(p, i)
              /\ i \in Unapplied
              /\ Unapplied' = Unapplied \ {i}
      BY <1>11, ApplyTakesOne
    <2>2. i \in Events /\ i.about \in Entities /\ i.operation \in {"upsert", "delete"}
      BY <2>1 DEF Events
    <2>3. content' = content /\ at[p] = "read"
      BY <1>11, <2>1 DEF Advance, postgres, Apply
    <2> SUFFICES ASSUME NEW e \in Entities, \A j \in Unapplied \ {i} : j.about # e
                 PROVE  index'[e] = IF content[e] \in Texts THEN content[e] ELSE "none"
      BY <2>1, <2>3 DEF NothingMissed, Shows
    <2>4. CASE i.about # e
      <3>1. index'[e] = index[e]
        BY <2>1, <2>2, <2>4 DEF Reindexed
      <3> QED BY <3>1, <2>4 DEF Shows
    <2>5. CASE i.about = e /\ i.operation = "delete"
      <3>1. content[e] = "gone"
        BY <2>1, <2>5 DEF DeletedInv, Unapplied
      <3> QED BY <3>1, <2>1, <2>2, <2>5 DEF Reindexed
    <2>6. CASE i.about = e /\ i.operation = "upsert"
      <3>1. read[p] = content[e]
        BY <2>1, <2>3, <2>6 DEF ReadInv
      <3>2. CASE content[e] \in Texts
        BY <3>1, <3>2, <2>1, <2>2, <2>6 DEF Reindexed
      <3>3. CASE content[e] \notin Texts
        <4>1. index' = index
          BY <3>1, <3>3, <2>1, <2>6 DEF Reindexed
        <4>2. index[e] = "none"
          BY <3>3, <2>6 DEF StaleInv
        <4> QED BY <3>3, <4>1, <4>2
      <3> QED BY <3>2, <3>3
    <2> QED BY <2>2, <2>4, <2>5, <2>6
  <1>12. ASSUME NEW p \in Commands, NEW c \in BOOLEAN, Crash(p, c) PROVE NothingMissed'
    <2>1. CASE c
      <3>1. /\ content' = Published(p)
            /\ committed' = committed \cup pending[p]
            /\ UNCHANGED << index, applied >>
        BY <1>12, <2>1 DEF Crash, sidecar
      <3> SUFFICES ASSUME NEW e \in Entities, \A i \in Unapplied' : i.about # e
                   PROVE  Shows(e)'
        BY DEF NothingMissed
      <3>2. \A i \in Unapplied \cup pending[p] : i.about # e
        BY <3>1 DEF Unapplied, TransactionInv
      <3>3. draft[p][e] = "same"
        BY <3>2 DEF TransactionInv
      <3>4. content'[e] = content[e]
        BY <3>1, <3>3 DEF Published
      <3> QED BY <3>1, <3>2, <3>4 DEF Shows
    <2>2. CASE ~c
      BY <1>12, <2>2 DEF Crash, postgres, sidecar, Unapplied, Shows
    <2> QED BY <2>1, <2>2
  <1> QED
    BY <1>1, <1>2, <1>3, <1>4, <1>5, <1>6, <1>7, <1>8, <1>9,
       <1>10, <1>11, <1>12 DEF Next, SyncStep

\* An empty outbox and an empty sidecar satisfy it.
LEMMA InvInit == Init => IInv
  <1> SUFFICES ASSUME Init PROVE IInv
    OBVIOUS
  <1> USE OutboxAssumption DEF Init, Entities, Commands, Untouched
  <1>1. TypeOK
    BY DEF TypeOK, Events
  <1>2. LockInv
    BY DEF LockInv
  <1>3. IsFiniteSet({})
    BY FS_EmptySet
  <1>4. IdInv /\ TransactionInv
    BY <1>3 DEF IdInv, TransactionInv
  <1>5. DeletedInv /\ StaleInv /\ BatchInv /\ ReadInv
    BY DEF DeletedInv, StaleInv, BatchInv, ReadInv
  <1>6. NothingMissed
    BY DEF NothingMissed, Shows
  <1> QED BY <1>1, <1>2, <1>4, <1>5, <1>6 DEF IInv

\* Every step keeps it.
LEMMA InvStep == IInv /\ [Next]_vars => IInv'
  <1> SUFFICES ASSUME IInv, [Next]_vars PROVE IInv'
    OBVIOUS
  <1>1. TypeOK'
    BY TypeStep DEF IInv
  <1>2. LockInv'
    BY LockStep DEF IInv
  <1>3. IdInv'
    BY IdStep DEF IInv
  <1>4. TransactionInv'
    BY TransactionStep DEF IInv
  <1>5. DeletedInv'
    BY DeletedStep DEF IInv
  <1>6. StaleInv'
    BY StaleStep DEF IInv
  <1>7. BatchInv'
    BY BatchStep DEF IInv
  <1>8. ReadInv'
    BY ReadStep DEF IInv
  <1>9. NothingMissed'
    BY MissedStep DEF IInv
  <1> QED BY <1>1, <1>2, <1>3, <1>4, <1>5, <1>6, <1>7, <1>8, <1>9 DEF IInv

----------------------------------------------------------------------------
(* The theorems.                                                           *)

\* The strengthening behind the theorems below: what each point in a writer's
\* transaction and in sync_fts implies of ids, rows and the watermark.
THEOREM InductiveInvariant == Spec => []IInv
  <1> QED BY InvInit, InvStep, PTL DEF Spec

\* The variables keep their types.
THEOREM TypeCorrect == Spec => []TypeOK
  <1>1. IInv => TypeOK
    BY DEF IInv
  <1> QED BY <1>1, InductiveInvariant, PTL

\* Whatever the sidecar has wrong is still ahead of its watermark, for any
\* writers and any kills (sync.py:167-173).
THEOREM SidecarMissesNothing == Spec => []NothingMissed
  <1>1. IInv => NothingMissed
    BY DEF IInv
  <1> QED BY <1>1, InductiveInvariant, PTL

\* A commit adds only what its own transaction inserted.
LEMMA CommitStep ==
    ASSUME IInv, [Next]_vars
    PROVE  \A i \in committed' \ committed : i.id > applied
  <1> USE DEF IInv
  <1>1. CASE UNCHANGED vars
    BY <1>1 DEF vars, postgres
  <1>2. ASSUME NEW p \in Commands, Acquire(p)
        PROVE  \A i \in committed' \ committed : i.id > applied
    BY <1>2 DEF Acquire, postgres
  <1>3. ASSUME NEW p \in Commands, Release(p)
        PROVE  \A i \in committed' \ committed : i.id > applied
    BY <1>3 DEF Release, postgres
  <1>4. ASSUME NEW p \in Commands, Begin(p)
        PROVE  \A i \in committed' \ committed : i.id > applied
    BY <1>4 DEF Begin, postgres
  <1>5. ASSUME NEW p \in Commands, Write(p)
        PROVE  \A i \in committed' \ committed : i.id > applied
    <2>1. committed' = committed
      BY <1>5, WriteEmits DEF Emit, postgres
    <2> QED BY <2>1
  <1>6. ASSUME NEW p \in Commands, Commit(p)
        PROVE  \A i \in committed' \ committed : i.id > applied
    BY <1>6 DEF Commit, TransactionInv, TypeOK, Events
  <1>7. ASSUME NEW p \in Commands, RollBack(p)
        PROVE  \A i \in committed' \ committed : i.id > applied
    BY <1>7 DEF RollBack, postgres
  <1>8. ASSUME NEW p \in Commands, StartSync(p)
        PROVE  \A i \in committed' \ committed : i.id > applied
    BY <1>8 DEF StartSync, postgres
  <1>9. ASSUME NEW p \in Commands, Fetch(p)
        PROVE  \A i \in committed' \ committed : i.id > applied
    BY <1>9 DEF Fetch, postgres
  <1>10. ASSUME NEW p \in Commands, ReadContent(p)
        PROVE  \A i \in committed' \ committed : i.id > applied
    BY <1>10 DEF ReadContent, postgres
  <1>11. ASSUME NEW p \in Commands, Apply(p)
        PROVE  \A i \in committed' \ committed : i.id > applied
    BY <1>11 DEF Apply, Advance, postgres
  <1>12. ASSUME NEW p \in Commands, NEW c \in BOOLEAN, Crash(p, c)
        PROVE  \A i \in committed' \ committed : i.id > applied
    BY <1>12 DEF Crash, postgres, TransactionInv, TypeOK, Events
  <1> QED
    BY <1>1, <1>2, <1>3, <1>4, <1>5, <1>6, <1>7, <1>8, <1>9,
       <1>10, <1>11, <1>12 DEF Next, SyncStep

\* No event becomes visible at or below the watermark (sync.py:48-57).
THEOREM EventsCommitAhead == Spec => CommitsAheadOfWatermark
  <1>1. IInv /\ [Next]_vars => [\A i \in committed' \ committed : i.id > applied]_vars
    BY CommitStep
  <1> QED BY <1>1, InductiveInvariant, PTL DEF Spec, CommitsAheadOfWatermark

----------------------------------------------------------------------------
(* The sidecar implements the mirror.                                      *)

MirrorStutter == UNCHANGED << Said, index, Announced >>

\* What neither PostgreSQL nor the sidecar shows, the mirror does not show.
LEMMA SameMirror ==
    ASSUME UNCHANGED << content, committed, index, applied >>
    PROVE  MirrorStutter
  BY DEF MirrorStutter, Said, Announced, Unapplied

\* A transaction that commits, or whose COMMIT outlives its command, announces
\* all it changes.
LEMMA CommitPublishes ==
    ASSUME IInv, IInv', NEW p \in Commands,
           content' = Published(p), committed' = committed \cup pending[p],
           UNCHANGED << index, applied >>
    PROVE  Replica!Next
  <1> USE OutboxAssumption
  <1> DEFINE announced == {e \in Entities : \E i \in pending[p] : i.about = e}
  <1>1. Said' \in [Entities -> Texts \cup {"none"}]
    BY DEF Said
  <1>2. ASSUME NEW e \in Entities \ announced PROVE Said'[e] = Said[e]
    <2>1. draft[p][e] = "same"
      BY <1>2 DEF IInv, TransactionInv
    <2>2. content'[e] = content[e]
      BY <2>1 DEF Published
    <2> QED BY <2>2 DEF Said
  <1>3. Unapplied' = Unapplied \cup pending[p]
    BY DEF IInv, TransactionInv, Unapplied, TypeOK, Events
  <1>4. Announced' = Announced \cup announced
    BY <1>3 DEF Announced
  <1>5. Replica!Publish(announced)
    <2> HIDE DEF announced
    <2> QED BY <1>1, <1>2, <1>4 DEF Replica!Publish
  <1>6. announced \in SUBSET Entities
    OBVIOUS
  <1> QED
    <2> HIDE DEF announced
    <2> QED BY <1>5, <1>6 DEF Replica!Next

\* An event that is applied takes over what the entity says now, or leaves the
\* sidecar alone while the entity stays behind.
LEMMA ApplyCatchesUp ==
    ASSUME IInv, NEW p \in Commands, Apply(p)
    PROVE  Replica!Next \/ MirrorStutter
  <1> USE OutboxAssumption
  <1>0. TypeOK /\ IdInv /\ DeletedInv /\ StaleInv /\ BatchInv /\ ReadInv
    BY DEF IInv
  <1>1. PICK i \in batch[p] :
            /\ IsFirst(p, i)
            /\ index' = Reindexed(i, read[p])
            /\ Advance(p, i)
            /\ i \in Unapplied
            /\ Unapplied' = Unapplied \ {i}
    BY <1>0, ApplyTakesOne
  <1> DEFINE e == i.about
  <1>2. e \in Entities /\ i.operation \in {"upsert", "delete"} /\ e \in Announced
    BY <1>0, <1>1 DEF TypeOK, Unapplied, Events, Announced
  <1>3. content' = content /\ Said' = Said /\ at[p] = "read"
    BY <1>1 DEF Advance, postgres, Apply, Said
  <1>4. index \in [Entities -> Texts \cup {"none"}]
    BY <1>0 DEF TypeOK
  <1>5. Announced' \in {Announced, Announced \ {e}}
    <2>1. ASSUME NEW f \in Entities, f # e PROVE f \in Announced' <=> f \in Announced
      BY <1>1, <2>1 DEF Announced
    <2>2. Announced' \subseteq Announced
      BY <1>1 DEF Announced
    <2>3. Announced' \subseteq Entities /\ Announced \subseteq Entities
      BY DEF Announced
    <2>4. CASE e \in Announced'
      BY <2>1, <2>2, <2>3, <2>4
    <2>5. CASE e \notin Announced'
      BY <2>1, <2>2, <2>3, <2>5
    <2> QED BY <2>4, <2>5
  <1>6. ASSUME index' = [index EXCEPT ![e] = Said[e]]
        PROVE  Replica!Next \/ MirrorStutter
    <2>1. Replica!CatchUp(e)
      <3> HIDE DEF e
      <3> QED BY <1>2, <1>3, <1>5, <1>6 DEF Replica!CatchUp
    <2> QED BY <1>2, <2>1 DEF Replica!Next
  <1>7. CASE i.operation = "delete"
    <2>1. content[e] = "gone"
      BY <1>0, <1>1, <1>7 DEF DeletedInv, Unapplied
    <2>2. Said[e] = "none"
      BY <1>2, <2>1 DEF Said
    <2> QED BY <1>1, <1>6, <1>7, <2>2 DEF Reindexed
  <1>8. CASE i.operation = "upsert"
    <2>1. read[p] = content[e]
      BY <1>0, <1>1, <1>3, <1>8 DEF ReadInv
    <2>2. CASE content[e] \in Texts
      <3>1. Said[e] = content[e]
        BY <1>2, <2>2 DEF Said
      <3> QED BY <1>1, <1>6, <1>8, <2>1, <2>2, <3>1 DEF Reindexed
    <2>3. CASE content[e] \notin Texts
      <3>1. Said[e] = "none" /\ index' = index
        BY <1>1, <1>2, <1>8, <2>1, <2>3 DEF Said, Reindexed
      <3>2. CASE index[e] = "none"
        <4>1. index' = [index EXCEPT ![e] = Said[e]]
          BY <1>4, <3>1, <3>2
        <4> QED BY <1>6, <4>1
      <3>3. CASE index[e] # "none"
        <4>1. PICK j \in Unapplied : j.about = e /\ j.operation = "delete"
          BY <1>0, <1>2, <2>3, <3>3 DEF StaleInv
        <4>2. j \in Unapplied'
          BY <1>1, <1>8, <4>1
        <4>3. e \in Announced'
          BY <1>2, <4>1, <4>2 DEF Announced
        <4>4. Announced' = Announced
          BY <1>5, <4>3
        <4> QED BY <1>3, <3>1, <4>4 DEF MirrorStutter
      <3> QED BY <3>2, <3>3
    <2> QED BY <2>2, <2>3
  <1> QED BY <1>2, <1>7, <1>8

\* Every step is a step of the mirror or does not show in it.
LEMMA MirrorStep ==
    ASSUME IInv, IInv', [Next]_vars
    PROVE  Replica!Next \/ MirrorStutter
  <1> DEFINE Goal == Replica!Next \/ MirrorStutter
  <1>1. CASE UNCHANGED vars
    BY <1>1, SameMirror DEF vars, postgres, sidecar
  <1>2. ASSUME NEW p \in Commands, Acquire(p) PROVE Goal
    BY <1>2, SameMirror DEF Acquire, postgres, sidecar
  <1>3. ASSUME NEW p \in Commands, Release(p) PROVE Goal
    BY <1>3, SameMirror DEF Release, postgres, sidecar
  <1>4. ASSUME NEW p \in Commands, Begin(p) PROVE Goal
    BY <1>4, SameMirror DEF Begin, postgres, sidecar
  <1>5. ASSUME NEW p \in Commands, Write(p) PROVE Goal
    <2>1. UNCHANGED << content, committed, index, applied >>
      BY <1>5, WriteEmits DEF Emit, postgres, sidecar, IInv
    <2> QED BY <2>1, SameMirror
  <1>6. ASSUME NEW p \in Commands, Commit(p) PROVE Goal
    BY <1>6, CommitPublishes DEF Commit, sidecar
  <1>7. ASSUME NEW p \in Commands, RollBack(p) PROVE Goal
    BY <1>7, SameMirror DEF RollBack, postgres, sidecar
  <1>8. ASSUME NEW p \in Commands, StartSync(p) PROVE Goal
    BY <1>8, SameMirror DEF StartSync, postgres, sidecar
  <1>9. ASSUME NEW p \in Commands, Fetch(p) PROVE Goal
    BY <1>9, SameMirror DEF Fetch, postgres, sidecar
  <1>10. ASSUME NEW p \in Commands, ReadContent(p) PROVE Goal
    BY <1>10, SameMirror DEF ReadContent, postgres, sidecar
  <1>11. ASSUME NEW p \in Commands, Apply(p) PROVE Goal
    BY <1>11, ApplyCatchesUp
  <1>12. ASSUME NEW p \in Commands, NEW c \in BOOLEAN, Crash(p, c) PROVE Goal
    <2>1. CASE c
      BY <1>12, <2>1, CommitPublishes DEF Crash, sidecar
    <2>2. CASE ~c
      BY <1>12, <2>2, SameMirror DEF Crash, postgres, sidecar
    <2> QED BY <2>1, <2>2
  <1> QED
    BY <1>1, <1>2, <1>3, <1>4, <1>5, <1>6, <1>7, <1>8, <1>9,
       <1>10, <1>11, <1>12 DEF Next, SyncStep

\* The sidecar implements the mirror, for any entities, writers, batches and kills:
\* whatever an event makes of a row is what PostgreSQL says at that moment, and an
\* entity that is not up to date has an event ahead (sync.py:136-173).
THEOREM ImplementsMirror == Spec => MirrorSpec
  <1>1. Init => Replica!Init
    BY OutboxAssumption DEF Init, Replica!Init, Said, Announced, Unapplied
  <1>2. IInv /\ IInv' /\ [Next]_vars => [Replica!Next]_<< Said, index, Announced >>
    BY MirrorStep DEF MirrorStutter
  <1> QED BY InductiveInvariant, <1>1, <1>2, PTL DEF Spec, MirrorSpec, Replica!Spec

==============================================================================
