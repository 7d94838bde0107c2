------------------------------- MODULE Drafts -------------------------------
(***************************************************************************)
(* The Drafts API of one node (backend/daemon/api/documents/v1alpha/       *)
(* documents.go, docmodel/docmodel.go) over its database, with concurrent  *)
(* requests: a handler reads the database in one transaction and writes it *)
(* in another, and nothing else keeps two handlers apart.                  *)
(*                                                                         *)
(* A peer lists the node's blobs (backend/mttnet/list_blobs.go), keeping   *)
(* the cursor of the last blob it received.  Changes of other authors      *)
(* arrive from the network.  A crash of the daemon forgets the requests.   *)
(***************************************************************************)
EXTENDS Storage, Sequences, FiniteSetsExt

CONSTANT Requests   \* bound: the number of concurrent API calls

\* CIDs are numbered in the order in which changes are made.
ASSUME DraftsConstants == IsFiniteSet(Cids) /\ Cids = 1..Cardinality(Cids)

VARIABLES
    db,         \* the database of the node
    made,       \* every change made so far; the index of a change is its CID
    request,    \* request[r]: what handler r has read and is about to do
    published,  \* history: changes that became public
    cursor,     \* the cursor the peer has kept
    listed      \* the blobs the peer has been told of

vars == <<db, made, request, published, cursor, listed>>

Free == [op |-> "none"]

\* A version of an entity: the heads of the changes H and their ancestors.
Heads(H) == {h \in H : \A k \in H : h \notin made[k].ancestors}

\* NewChange.  content: the patch has more than the dummy field isDraft.
NewChange(e, deps, content, merge) ==
    [cid |-> Len(made) + 1, entity |-> e, deps |-> deps, refs |-> {},
     mentions |-> {}, content |-> content, merge |-> merge,
     ancestors |-> deps \cup UNION {made[d].ancestors : d \in deps}]

CanMake == Len(made) < Cardinality(Cids)

\* The published changes of an entity.
PublicChanges(e) == {c \in Public(db) : made[c].entity = e}

-----------------------------------------------------------------------------
Init ==
    /\ db = EmptyDB
    /\ made = <<>>
    /\ request = [r \in Requests |-> Free]
    /\ published = {}
    /\ cursor = 0
    /\ listed = {}

Peer == <<cursor, listed>>

\* CreateDraft for a new document: docmodel.Create and Commit.
CreateNewDraft(e) ==
    LET b == NewChange(e, {}, TRUE, FALSE)
    IN  /\ CanMake
        /\ \A c \in 1..Len(made) : made[c].entity # e
        /\ CanSaveDraft(db, b)
        /\ db' = SaveDraft(db, b)
        /\ made' = Append(made, b)
        /\ UNCHANGED <<request, Peer, published>>

\* CreateDraft for an existing document: no draft is found, and a published
\* version is loaded.  A draft saved between the two reads is refused later
\* in the same way as one saved after both.
CreateDraftLoad(r, e, H) ==
    /\ request[r] = Free
    /\ DraftsOf(db, e) = {}
    /\ H # {}
    /\ request' = [request EXCEPT ![r] = [op |-> "create", entity |-> e, deps |-> Heads(H)]]
    /\ UNCHANGED <<db, made, Peer, published>>

\* CreateDraft: SaveDraftBlob, which may fail.
CreateDraftSave(r) ==
    /\ request[r].op = "create"
    /\ CanMake
    /\ LET b == NewChange(request[r].entity, request[r].deps, FALSE, FALSE)
       IN  IF CanSaveDraft(db, b)
             THEN db' = SaveDraft(db, b) /\ made' = Append(made, b)
             ELSE UNCHANGED <<db, made>>
    /\ request' = [request EXCEPT ![r] = Free]
    /\ UNCHANGED <<Peer, published>>

\* UpdateDraft: LoadDraft, RestoreDraft.
UpdateDraftLoad(r, e) ==
    /\ request[r] = Free
    /\ \E c \in DraftsOf(db, e) :
          request' = [request EXCEPT ![r] = [op |-> "update", old |-> c]]
    /\ UNCHANGED <<db, made, Peer, published>>

\* UpdateDraft: Commit, which replaces the draft that was loaded.  Its patch
\* may be empty again: cleanupPatch drops blocks made and deleted in it.
UpdateDraftSave(r, content) ==
    /\ request[r].op = "update"
    /\ CanMake
    /\ LET old == made[request[r].old]
           b == NewChange(old.entity, old.deps, content, FALSE)
       IN  IF CanReplaceDraft(db, old.cid, b)
             THEN db' = ReplaceDraft(db, old.cid, b) /\ made' = Append(made, b)
             ELSE UNCHANGED <<db, made>>
    /\ request' = [request EXCEPT ![r] = Free]
    /\ UNCHANGED <<Peer, published>>

\* PublishDraft: GetDraft.
PublishDraftLoad(r, e) ==
    /\ request[r] = Free
    /\ \E c \in DraftsOf(db, e) :
          request' = [request EXCEPT ![r] =
                         [op |-> "publish", entity |-> e, content |-> made[c].content]]
    /\ UNCHANGED <<db, made, Peer, published>>

\* PublishDraft, the draft that was read is not empty: whatever is the draft
\* now gets published.
PublishDraftSave(r) ==
    /\ request[r].op = "publish"
    /\ request[r].content
    /\ LET e == request[r].entity
       IN  IF DraftsOf(db, e) # {}
             THEN /\ db' = PublishDraft(db, e)
                  /\ published' = published \cup DraftsOf(db, e)
             ELSE UNCHANGED <<db, published>>
    /\ request' = [request EXCEPT ![r] = Free]
    /\ UNCHANGED <<made, Peer>>

\* PublishDraft, the draft that was read is empty: whatever is the draft now
\* gets deleted.
PublishDraftEmpty(r) ==
    /\ request[r].op = "publish"
    /\ ~ request[r].content
    /\ LET e == request[r].entity
       IN  IF CanDeleteDraft(db, e)
             THEN db' = DeleteDraft(db, e)
             ELSE UNCHANGED db
    /\ request' = [request EXCEPT ![r] = Free]
    /\ UNCHANGED <<made, published, Peer>>

\* DeleteDraft of the API.
DeleteDraftCall(e) ==
    /\ CanDeleteDraft(db, e)
    /\ db' = DeleteDraft(db, e)
    /\ UNCHANGED <<made, request, Peer, published>>

\* MergeChanges: the versions are loaded, and SaveBlob makes the merge public.
\* Loading has no effect, and SaveBlob checks the dependencies again.  The
\* patch is empty: NewChange refuses it on top of a single head.
MergeSave(r, e, H) ==
    LET b == NewChange(e, Heads(H), FALSE, TRUE)
    IN  /\ request[r] = Free
        /\ CanMake
        /\ Cardinality(b.deps) > 1
        /\ CanSave(db, b)
        /\ db' = Save(db, b)
        /\ made' = Append(made, b)
        /\ published' = published \cup {b.cid}
        /\ request' = [request EXCEPT ![r] = [op |-> "merge", blob |-> b.cid]]
        /\ UNCHANGED Peer

\* MergeChanges: PublishBlob gives the merge a new id.
MergePublish(r) ==
    /\ request[r].op = "merge"
    /\ db' = IF request[r].blob \in db.data THEN Touch(db, request[r].blob) ELSE db
    /\ request' = [request EXCEPT ![r] = Free]
    /\ UNCHANGED <<made, Peer, published>>

\* A change of another author arrives (indexingBlockStore.Put).
RemotePut(e, H) ==
    LET b == NewChange(e, Heads(H), TRUE, FALSE)
    IN  /\ CanMake
        /\ H # {}
        /\ CanSave(db, b)
        /\ db' = Save(db, b)
        /\ made' = Append(made, b)
        /\ published' = published \cup {b.cid}
        /\ UNCHANGED <<request, Peer>>

\* Mistake: drafts are not filtered out of the list.
ListAll(d, from) == {c \in d.data : d.ids[c] > from}

\* ListBlobs: the blobs after a cursor.  A cursor from the future is ignored.
ListBlobs(d, from) ==
    CASE from = MaxId(d) -> {}
      [] from > MaxId(d) -> Public(d)
      [] OTHER           -> {c \in Public(d) : d.ids[c] > from}

\* The peer reads the stream, in the order of the ids, up to blob c, and
\* keeps the cursor of c.
PeerList(c) ==
    LET stream == ListBlobs(db, cursor)
    IN  /\ c \in stream
        /\ cursor' = db.ids[c]
        /\ listed' = listed \cup {k \in stream : db.ids[k] <= db.ids[c]}
        /\ UNCHANGED <<db, made, request, published>>

\* The daemon stops; the requests in flight are lost.
Crash ==
    /\ \E r \in Requests : request[r] # Free
    /\ request' = [r \in Requests |-> Free]
    /\ UNCHANGED <<db, made, Peer, published>>

Next ==
    \/ \E e \in Entities : CreateNewDraft(e)
    \/ \E r \in Requests, e \in Entities, H \in SUBSET Public(db) :
          H \subseteq PublicChanges(e) /\ CreateDraftLoad(r, e, H)
    \/ \E r \in Requests : CreateDraftSave(r)
    \/ \E r \in Requests, e \in Entities : UpdateDraftLoad(r, e)
    \/ \E r \in Requests, content \in BOOLEAN : UpdateDraftSave(r, content)
    \/ \E r \in Requests, e \in Entities : PublishDraftLoad(r, e)
    \/ \E r \in Requests : PublishDraftSave(r)
    \/ \E r \in Requests : PublishDraftEmpty(r)
    \/ \E e \in Entities : DeleteDraftCall(e)
    \/ \E r \in Requests, e \in Entities, H \in SUBSET Public(db) :
          H \subseteq PublicChanges(e) /\ MergeSave(r, e, H)
    \/ \E r \in Requests : MergePublish(r)
    \/ \E e \in Entities, H \in SUBSET Public(db) :
          H \subseteq PublicChanges(e) /\ RemotePut(e, H)
    \/ \E c \in Cids : PeerList(c)
    \/ Crash

Spec == Init /\ [][Next]_vars

-----------------------------------------------------------------------------
\* The types of the variables; row ids do not exceed the counter that gives
\* out the next one, and every blob with data is one that was made.
TypeOK ==
    /\ Len(made) <= Cardinality(Cids)
    /\ db.ids \in [Cids -> 0..db.seq]
    /\ db.data \subseteq {c \in 1..Len(made) : db.ids[c] # 0}
    /\ db.drafts \subseteq Entities \X Cids
    /\ \A r \in Requests : request[r].op \in {"none", "create", "update", "publish", "merge"}
    /\ published \subseteq 1..Len(made)
    /\ cursor \in 0..db.seq
    /\ listed \subseteq Cids

\* No two rows share an id, and ids are never used twice for what is public:
\* a peer that kept the cursor of the last blob it received and asks only
\* for what is newer misses nothing ("blobs that a peer receives later will
\* have a higher index/cursor", p2p.proto).
CursorMissesNothing ==
    \A c \in Public(db) : db.ids[c] <= cursor => c \in listed

\* A draft is never shown to a peer before it is published, whatever
\* replaces, publishes or deletes it meanwhile.
DraftsStayPrivate == listed \subseteq published

\* A published change never depends on a draft or on a missing change, and
\* neither does a draft: both can be loaded.
PublicIsClosed ==
    \A c \in Public(db) \cup {d \in Cids : IsDraft(db, d)} :
        /\ c \in db.data
        /\ made[c].deps \subseteq Public(db)

\* Blobs are listed after the blobs they depend on, so a peer that stores
\* them in the order of the list can index each one; merges excepted, whose
\* ids move after they are public.
ListedInOrder ==
    \A c \in Public(db) : \A d \in made[c].deps :
        made[d].merge \/ db.ids[d] < db.ids[c]

=============================================================================
