------------------------------- MODULE Storage -------------------------------
(***************************************************************************)
(* The database of one node: the tables of backend/daemon/storage/         *)
(* schema.sql that hold blobs, and the transactions of hyper.Storage on    *)
(* them (backend/hyper/hyper.go, blockstore.go, indexing.go,               *)
(* indexing_structural_blob.go).                                           *)
(*                                                                         *)
(* A transaction is an operator from a database to a database, with an     *)
(* operator for its error cases: a transaction that returns an error is    *)
(* rolled back.  A blob is a record: its CID, the entity it changes, the   *)
(* CIDs it depends on (deps: the dependencies of a change and the key      *)
(* delegation, whose data must be present), the CIDs it only links to      *)
(* (refs), and the entities it mentions (links without a version; a link   *)
(* to a version is a ref).                                                 *)
(***************************************************************************)
EXTENDS Naturals, FiniteSets

CONSTANTS
    Cids,       \* a set of positive integers: the blobs that can exist
    Entities

ASSUME StorageConstants == Cids \subseteq Nat \ {0}

-----------------------------------------------------------------------------
\* The empty database.  ids[c] = 0: table blobs has no row for c.
EmptyDB ==
    [ids |-> [c \in Cids |-> 0],  \* blobs.id
     data |-> {},                 \* blobs whose size is not -1
     seq |-> 0,                   \* sqlite_sequence of blobs
     index |-> {},                \* structural_blobs: pairs <<cid, entity>>
     links |-> {},                \* blob_links: pairs <<source, target>>
     mentions |-> {},             \* resource_links: pairs <<cid, entity>>
     drafts |-> {},               \* drafts: pairs <<entity, cid>>
     resources |-> {},            \* resources
     deleted |-> {}]              \* deleted_resources

\* The types of the tables.
DB ==
    [ids : [Cids -> Nat], data : SUBSET Cids, seq : Nat,
     index : SUBSET (Cids \X Entities), links : SUBSET (Cids \X Cids),
     mentions : SUBSET (Cids \X Entities), drafts : SUBSET (Entities \X Cids),
     resources : SUBSET Entities, deleted : SUBSET Entities]

IsDraft(db, c) == \E e \in Entities : <<e, c>> \in db.drafts

\* FindDraft, DraftsGet: the drafts of an entity, at most one.
DraftsOf(db, e) == {c \in Cids : <<e, c>> \in db.drafts}

\* What ListBlobs shows: blobs with data that are not drafts.
Public(db) == {c \in db.data : ~ IsDraft(db, c)}

\* getMaxBlobID.
MaxId(db) ==
    IF \E c \in Cids : db.ids[c] # 0
      THEN CHOOSE n \in {db.ids[c] : c \in Cids} : \A c \in Cids : db.ids[c] <= n
      ELSE 0

-----------------------------------------------------------------------------
\* Mistake: the allocated id is not recorded, as without AUTOINCREMENT.
TouchUnrecorded(db, c) == [db EXCEPT !.ids[c] = db.seq + 1]

\* allocateBlobID and UPDATE blobs SET id: the foreign keys follow.
Touch(db, c) == [db EXCEPT !.ids = [@ EXCEPT ![c] = db.seq + 1], !.seq = @ + 1]

\* Mistake: ids that were given up are used again.
PutBlockReuse(db, c, inID) ==
    LET free == {n \in 1..(db.seq + 1) : \A k \in Cids : db.ids[k] # n}
        id == CHOOSE n \in free : \A k \in free : n <= k
    IN  [db EXCEPT !.ids[c] = id, !.data = @ \cup {c},
                   !.seq = IF id > @ THEN id ELSE @]

\* putBlock for a blob without data: a placeholder row gets a new id, a new
\* row the given id or the next one.
PutBlock(db, c, inID) ==
    IF db.ids[c] # 0
      THEN [Touch(db, c) EXCEPT !.data = @ \cup {c}]
      ELSE LET id == IF inID = 0 THEN db.seq + 1 ELSE inID
           IN  [db EXCEPT !.ids = [@ EXCEPT ![c] = id],
                          !.data = @ \cup {c},
                          !.seq = IF id > @ THEN id ELSE @]

\* Mistake: the causal dependencies are not checked.
AnyBlob(db, b) == b.entity \notin db.deleted

\* indexChange, indexComment: the checks that depend on the database.
Indexable(db, b) == b.deps \subseteq db.data /\ b.entity \notin db.deleted

\* ensureBlob: links to unknown blobs make placeholder rows.
EnsureBlobs(db, targets) ==
    LET new == {c \in targets : db.ids[c] = 0}
    IN  [db EXCEPT !.ids = [c \in Cids |->
                       IF c \in new
                         THEN db.seq + Cardinality({k \in new : k <= c})
                         ELSE db.ids[c]],
                   !.seq = @ + Cardinality(new)]

\* indexingCtx.SaveBlob: the rows an indexed blob adds.
Index(db, b) ==
    [EnsureBlobs(db, b.deps \cup b.refs) EXCEPT
        !.index = @ \cup {<<b.cid, b.entity>>},
        !.links = @ \cup {<<b.cid, t>> : t \in b.deps \cup b.refs},
        !.mentions = @ \cup {<<b.cid, e>> : e \in b.mentions},
        !.resources = @ \cup {b.entity} \cup b.mentions]

\* A row without data cannot be filled while structural_blobs still has a
\* row for it (INSERT conflicts), nor while drafts refers to its id (drafts
\* has no ON UPDATE CASCADE).
CanFill(db, c) == ~ IsDraft(db, c) /\ \A x \in db.index : x[1] # c

\* Storage.SaveBlob and indexingBlockStore.Put.
CanSave(db, b) == b.cid \in db.data \/ (CanFill(db, b.cid) /\ Indexable(db, b))

Save(db, b) ==
    IF b.cid \in db.data THEN db ELSE Index(PutBlock(db, b.cid, 0), b)

-----------------------------------------------------------------------------
\* DELETE FROM blobs: blob_links.target has no ON DELETE action, everything
\* else that refers to a blob goes with it.
CanDelete(db, S) == \A l \in db.links : l[2] \in S => l[1] \in S

Delete(db, S) ==
    [db EXCEPT !.ids = [c \in Cids |-> IF c \in S THEN 0 ELSE @[c]],
               !.data = @ \ S,
               !.index = {x \in @ : x[1] \notin S},
               !.links = {l \in @ : l[1] \notin S},
               !.mentions = {m \in @ : m[1] \notin S},
               !.drafts = {d \in @ : d[2] \notin S}]

\* EntitiesDelete: refused while anything refers to the entity.
CanDeleteResource(db, e) ==
    /\ \A x \in db.index : x[2] # e
    /\ \A m \in db.mentions : m[2] # e
    /\ \A d \in db.drafts : d[1] # e

DeleteResource(db, e) == [db EXCEPT !.resources = @ \ {e}]

\* Storage.DeleteEntity, one transaction: the entity's blobs, then itself.
ChangesOf(db, e) == {c \in Cids : <<c, e>> \in db.index}

CanDeleteEntity(db, e) ==
    /\ CanDelete(db, ChangesOf(db, e))
    /\ CanDeleteResource(Delete(db, ChangesOf(db, e)), e)

DeleteEntity(db, e) == DeleteResource(Delete(db, ChangesOf(db, e)), e)

\* BlobsEmptyByEID, then BlobsStructuralDelete: what the API does instead
\* when something still refers to the entity.
EmptyEntity(db, e) == [db EXCEPT !.data = @ \ ChangesOf(db, e)]

UnindexEntity(db, e) == [db EXCEPT !.index = {x \in @ : x[2] # e}]

\* EntitiesInsertRemovedRecord and EntitiesDeleteRemovedRecord.
MarkDeleted(db, e) == [db EXCEPT !.deleted = @ \cup {e}]

UnmarkDeleted(db, e) == [db EXCEPT !.deleted = @ \ {e}]

\* QCollectBlobs: the blobs of an entity and of everything linked to it,
\* directly or not.  Neither drafts nor rows without data are left out.
Related(db, e) ==
    LET Collected(B, R) ==
            /\ e \in R
            /\ \A l \in db.links : l[1] \in B => l[2] \in B
            /\ \A m \in db.mentions : m[1] \in B => m[2] \in R
            /\ \A x \in db.index : x[2] \in R => x[1] \in B
    IN  {c \in Cids : \A B \in SUBSET Cids, R \in SUBSET Entities :
                          Collected(B, R) => c \in B}

-----------------------------------------------------------------------------
\* Storage.SaveDraftBlob: at most one draft per entity (drafts_unique).
CanSaveDraft(db, b) == CanSave(db, b) /\ DraftsOf(Save(db, b), b.entity) = {}

SaveDraft(db, b) ==
    [Save(db, b) EXCEPT !.drafts = @ \cup {<<b.entity, b.cid>>}]

\* Mistake: a published draft keeps its place in the list of blobs.
PublishInPlace(db, e) == [db EXCEPT !.drafts = {d \in @ : d[1] # e}]

\* Storage.PublishDraft: the draft becomes the newest blob.
PublishDraft(db, e) ==
    LET c == CHOOSE c \in DraftsOf(db, e) : TRUE
    IN  Touch([db EXCEPT !.drafts = @ \ {<<e, c>>}], c)

\* Storage.DeleteDraft: also tries to delete the entity.
CanDeleteDraft(db, e) == DraftsOf(db, e) # {} /\ CanDelete(db, DraftsOf(db, e))

DeleteDraft(db, e) ==
    LET rest == Delete(db, DraftsOf(db, e))
    IN  IF CanDeleteResource(rest, e) THEN DeleteResource(rest, e) ELSE rest

\* Storage.ReplaceDraftBlob: the new blob takes the row id of the old one,
\* if the old one is still there.  Nothing checks that it still is a draft.
\* The new blob has a new timestamp, hence a CID that no row has: the early
\* return for an existing blob is never taken.
CanReplaceDraft(db, old, b) ==
    LET rest == Delete(db, {old})
    IN  /\ CanDelete(db, {old})
        /\ b.cid \notin rest.data
        /\ Indexable(rest, b)
        /\ DraftsOf(rest, b.entity) = {}

ReplaceDraft(db, old, b) ==
    [Index(PutBlock(Delete(db, {old}), b.cid, db.ids[old]), b) EXCEPT
        !.drafts = @ \cup {<<b.entity, b.cid>>}]
=============================================================================
