---------------------------- MODULE Replication ----------------------------
(***************************************************************************)
(* Two nodes and what flows between them: a local daemon, and a remote     *)
(* peer that is also the site of one of its groups.                        *)
(*                                                                         *)
(* The local daemon runs two loops against the remote node, at the same    *)
(* time: "peer" is syncPeer (backend/syncing/syncing.go), "site" is        *)
(* syncGroupSite (backend/daemon/api/groups/v1alpha/groups.go), which also *)
(* pushes (Website.PublishBlobs, backend/cmd/mintter-site/sites).  Both    *)
(* list the remote blobs, fetch the ones they want one by one, and keep    *)
(* the same cursor in table syncing_cursors.  The user makes changes and   *)
(* deletes entities meanwhile (backend/daemon/api/entities).  Calls may    *)
(* fail, and a loop or a handler may stop at any point: a timeout, a lost  *)
(* connection, a crash of the daemon.                                      *)
(***************************************************************************)
EXTENDS Storage

CONSTANTS
    Blob,       \* Blob[c]: the blob with CID c, as Storage describes it
    Mine,       \* the blobs that the local user makes, in this order or any
    Drafted,    \* those of Mine that start as drafts
    Group,      \* the entity that the site serves
    Loops,      \* the loops that run: a subset of {"peer", "site"}
    SaveEvery,  \* the cursor is saved every so many blobs (50 of the code)
    Deletable   \* bound: entities that the user deletes, once each

ASSUME ReplicationConstants ==
    /\ Blob \in [Cids -> [cid : Cids, entity : Entities, deps : SUBSET Cids,
                          refs : SUBSET Cids, mentions : SUBSET Entities]]
    /\ \A c \in Cids : Blob[c].cid = c /\ IsFiniteSet(Blob[c].deps \cup Blob[c].refs)
    /\ Drafted \subseteq Mine /\ Mine \subseteq Cids
    /\ Loops \subseteq {"peer", "site"}
    /\ SaveEvery \in Nat \ {0} /\ Deletable \subseteq Entities

VARIABLES
    local,      \* the database of the local daemon
    remote,     \* the database of the remote node
    made,       \* the blobs made so far
    cursor,     \* syncing_cursors: the local daemon's cursor for the remote
    loop,       \* loop[l]: where loop l is
    deletion,   \* where the DeleteEntity handler is
    deletions   \* the entities whose deletion has begun

vars == <<local, remote, made, cursor, loop, deletion, deletions>>

Idle == [pc |-> "idle"]

-----------------------------------------------------------------------------
\* ListBlobs: the public blobs after a cursor.
ListBlobs(from) ==
    LET after == IF from > MaxId(remote) THEN 0 ELSE from
    IN  {c \in Public(remote) : remote.ids[c] > after}

\* A loop takes the blobs that it wants in the order in which they were
\* listed, which is the order of their cursors.
AtHand(p, c) == c \in p.want /\ \A k \in p.want : p.cursors[c] <= p.cursors[k]

\* The next state of a loop that is done with the blob c.
Advance(p, c) ==
    [p EXCEPT !.at = @ + 1, !.last = p.cursors[c], !.want = @ \ {c}]

\* Mistake: the site loop goes on after a failure, as the peer loop does.
SkipFailed(l, p, c) == Advance(p, c)

\* Mistake: the peer loop gives up at a failure, as the site loop does.
GiveUp(l, p, c) == Idle

\* A blob could not be fetched or stored: syncPeer goes on, syncGroupSite
\* returns the error.
AfterFailure(l, p, c) == IF l = "peer" THEN Advance(p, c) ELSE Idle

-----------------------------------------------------------------------------
Init ==
    /\ local = EmptyDB
    /\ remote = EmptyDB
    /\ made = {}
    /\ cursor = 0
    /\ loop = [l \in Loops |-> Idle]
    /\ deletion = Idle
    /\ deletions = {}

\* The user makes a change: SaveBlob, or SaveDraftBlob for a draft.  The API
\* builds on published versions only (Drafts!PublicIsClosed).
LocalSave(c) ==
    /\ c \in Mine \ made
    /\ \A d \in Blob[c].deps : ~ IsDraft(local, d)
    /\ made' = made \cup {c}
    /\ IF c \in Drafted
         THEN CanSaveDraft(local, Blob[c]) /\ local' = SaveDraft(local, Blob[c])
         ELSE CanSave(local, Blob[c]) /\ local' = Save(local, Blob[c])
    /\ UNCHANGED <<remote, cursor, loop, deletion, deletions>>

\* PublishDraft.  Publishing a draft that DeleteEntity has emptied fails.
LocalPublish(e) ==
    /\ DraftsOf(local, e) # {}
    /\ DraftsOf(local, e) \subseteq local.data
    /\ local' = PublishDraft(local, e)
    /\ UNCHANGED <<remote, made, cursor, loop, deletion, deletions>>

\* A blob of somebody else reaches the remote node.
RemoteSave(c) ==
    /\ c \notin Mine \cup made
    /\ CanSave(remote, Blob[c])
    /\ made' = made \cup {c}
    /\ remote' = Save(remote, Blob[c])
    /\ UNCHANGED <<local, cursor, loop, deletion, deletions>>

-----------------------------------------------------------------------------
\* syncPeer lists everything, syncGroupSite what is after the cursor; they
\* want what the local blockstore does not have.  Of a round: at is the index
\* in the loop, last the cursor of the blob it was at before, saved the
\* cursor it saved last (0 for the empty string), want the blobs still to be
\* fetched.
Start(l) ==
    LET listed == ListBlobs(IF l = "site" THEN cursor ELSE 0)
        want == listed \ local.data
    IN  /\ loop[l] = Idle
        /\ l = "peer" => want # {}
        /\ loop' = [loop EXCEPT ![l] =
               [pc |-> "fetch", at |-> 0, last |-> 0, saved |-> 0, want |-> want,
                cursors |-> [c \in want |-> remote.ids[c]], seen |-> listed]]
        /\ UNCHANGED <<local, remote, made, cursor, deletion, deletions>>

Fetching(l, c) == loop[l].pc = "fetch" /\ AtHand(loop[l], c)

\* GetBlock and Put succeed.
Fetch(l, c) ==
    LET p == loop[l]
    IN  /\ Fetching(l, c)
        /\ c \in remote.data
        /\ CanSave(local, Blob[c])
        /\ local' = Save(local, Blob[c])
        /\ loop' = [loop EXCEPT ![l] =
               IF p.at % SaveEvery = 0
                 THEN [Advance(p, c) EXCEPT !.pc = "save"]
                 ELSE Advance(p, c)]
        /\ UNCHANGED <<remote, made, cursor, deletion, deletions>>

\* Put fails: the blob is refused, or the database is busy.  (A GetBlock that
\* fails has run out of time, and so has the rest of the round: see Stop.)
FetchFails(l, c) ==
    /\ Fetching(l, c)
    /\ loop' = [loop EXCEPT ![l] = AfterFailure(l, @, c)]
    /\ UNCHANGED <<local, remote, made, cursor, deletion, deletions>>

\* SaveCursor inside the loop.
SaveCursor(l) ==
    LET p == loop[l]
    IN  /\ p.pc = "save"
        /\ cursor' = p.last
        /\ loop' = [loop EXCEPT ![l] = [p EXCEPT !.pc = "fetch", !.saved = p.last]]
        /\ UNCHANGED <<local, remote, made, deletion, deletions>>

\* The end of the loop: the cursor of the last blob it wanted is kept.
Finish(l) ==
    LET p == loop[l]
    IN  /\ p.pc = "fetch" /\ p.want = {}
        /\ cursor' = IF p.saved # p.last THEN p.last ELSE cursor
        /\ loop' = [loop EXCEPT ![l] =
               IF l = "peer" THEN Idle ELSE [pc |-> "pushing", seen |-> p.seen]]
        /\ UNCHANGED <<local, remote, made, deletion, deletions>>

\* Mistake: the newest blobs are pushed first.
NewestFirst(c) == MaxId(local) - local.ids[c]

\* The order in which the related blobs are collected.
PushOrder(c) == local.ids[c]

\* syncGroupSite collects the blobs related to the group that the list did
\* not show, and calls PublishBlobs; the site wants what it does not have.
PushStart ==
    LET p == loop["site"]
        push == {c \in Related(local, Group) \ p.seen : c \notin remote.data}
    IN  /\ "site" \in Loops /\ p.pc = "pushing"
        /\ Group \in local.resources
        /\ loop' = [loop EXCEPT !["site"] =
               [pc |-> "push", want |-> push, cursors |-> [c \in push |-> PushOrder(c)]]]
        /\ UNCHANGED <<local, remote, made, cursor, deletion, deletions>>

\* PublishBlobs, on the site: GetBlock and Put.
Push(c) ==
    LET p == loop["site"]
    IN  /\ "site" \in Loops /\ p.pc = "push" /\ AtHand(p, c)
        /\ c \in local.data
        /\ CanSave(remote, Blob[c])
        /\ remote' = Save(remote, Blob[c])
        /\ loop' = [loop EXCEPT !["site"] = [p EXCEPT !.want = @ \ {c}]]
        /\ UNCHANGED <<local, made, cursor, deletion, deletions>>

\* A round ends: the push is done, or not permitted, or a call has failed, or
\* the time is up, in which case nothing more of the round succeeds, not even
\* SaveCursor.
Stop(l) ==
    /\ loop[l] # Idle
    /\ loop' = [loop EXCEPT ![l] = Idle]
    /\ UNCHANGED <<local, remote, made, cursor, deletion, deletions>>

-----------------------------------------------------------------------------
\* DeleteEntity of the API, its first transaction: the entity is deleted, or
\* something refers to it and the transaction is rolled back.
DeleteBegin(e) ==
    /\ deletion = Idle
    /\ e \in Deletable \ deletions
    /\ e \in local.resources
    /\ deletions' = deletions \cup {e}
    /\ IF CanDeleteEntity(local, e)
         THEN local' = DeleteEntity(local, e) /\ deletion' = [pc |-> "record", entity |-> e]
         ELSE local' = local /\ deletion' = [pc |-> "empty", entity |-> e]
    /\ UNCHANGED <<remote, made, cursor, loop>>

\* DeleteEntity: BlobsEmptyByEID.
DeleteEmpty ==
    /\ deletion.pc = "empty"
    /\ local' = EmptyEntity(local, deletion.entity)
    /\ deletion' = [deletion EXCEPT !.pc = "unindex"]
    /\ UNCHANGED <<remote, made, cursor, loop, deletions>>

\* DeleteEntity: BlobsStructuralDelete.
DeleteUnindex ==
    /\ deletion.pc = "unindex"
    /\ local' = UnindexEntity(local, deletion.entity)
    /\ deletion' = [deletion EXCEPT !.pc = "record"]
    /\ UNCHANGED <<remote, made, cursor, loop, deletions>>

\* DeleteEntity: EntitiesInsertRemovedRecord.
DeleteRecord ==
    /\ deletion.pc = "record"
    /\ local' = MarkDeleted(local, deletion.entity)
    /\ deletion' = Idle
    /\ UNCHANGED <<remote, made, cursor, loop, deletions>>

\* The daemon stops in the middle of DeleteEntity.
DeleteInterrupted ==
    /\ deletion # Idle
    /\ deletion' = Idle
    /\ UNCHANGED <<local, remote, made, cursor, loop, deletions>>

\* UndeleteEntity.
UndeleteEntity(e) ==
    /\ e \in local.deleted
    /\ local' = UnmarkDeleted(local, e)
    /\ UNCHANGED <<remote, made, cursor, loop, deletion, deletions>>

User ==
    \/ \E c \in Cids : LocalSave(c)
    \/ \E e \in Entities : LocalPublish(e)
    \/ \E e \in Entities : DeleteBegin(e)
    \/ DeleteEmpty
    \/ DeleteUnindex
    \/ DeleteRecord
    \/ DeleteInterrupted
    \/ \E e \in Entities : UndeleteEntity(e)

Next ==
    \/ User
    \/ \E c \in Cids : RemoteSave(c)
    \/ \E l \in Loops : Start(l)
    \/ \E l \in Loops, c \in Cids : Fetch(l, c)
    \/ \E l \in Loops, c \in Cids : FetchFails(l, c)
    \/ \E l \in Loops : SaveCursor(l)
    \/ \E l \in Loops : Finish(l)
    \/ PushStart
    \/ \E c \in Cids : Push(c)
    \/ \E l \in Loops : Stop(l)

Spec == Init /\ [][Next]_vars

\* The storage refuses the blob c that loop l has fetched.
Refused(l, c) == FetchFails(l, c) /\ ~ CanSave(local, Blob[c])

\* The loops run on timers (WF of Start).  Rounds end (WF of Stop): that of a
\* peer has a timeout, and that of a site, which has no deadline of its own,
\* is taken to fail with its connection.  A step that is tried round after
\* round is not cut short every time (SF): peers are not unreachable for ever.
Fairness ==
    \A l \in Loops :
        /\ WF_vars(Start(l)) /\ WF_vars(Stop(l))
        /\ SF_vars(\E c \in Cids : Fetch(l, c)) /\ \A c \in Cids : SF_vars(Refused(l, c))
        /\ SF_vars(SaveCursor(l)) /\ SF_vars(Finish(l))
        /\ l = "site" => SF_vars(PushStart) /\ SF_vars(\E c \in Cids : Push(c))

LiveSpec == Spec /\ Fairness

-----------------------------------------------------------------------------
\* The types, with the foreign keys of the tables: every row of an index
\* names rows that exist, in whatever order blobs come and entities go.
TypeOK ==
    /\ \A db \in {local, remote} :
          /\ db.ids \in [Cids -> 0..db.seq]
          /\ db.data \subseteq {c \in made : db.ids[c] # 0}
          /\ \A l \in db.links : db.ids[l[1]] # 0 /\ db.ids[l[2]] # 0
          /\ \A x \in db.index : db.ids[x[1]] # 0 /\ x[2] \in db.resources
          /\ \A d \in db.drafts : db.ids[d[2]] # 0 /\ d[1] \in db.resources
    /\ cursor \in 0..remote.seq
    /\ DOMAIN loop = Loops

\* The two nodes implement replicas that only copy from each other, in
\* causal order, and that drop entities as a whole: whatever the loops, the
\* handlers and their interruptions do, no transaction of the storage splits
\* an entity or stores a change before its dependencies.
Replicas == INSTANCE CausalReplicas WITH
    Replicas <- {"local", "remote"},
    have <- [r \in {"local", "remote"} |->
                IF r = "local" THEN local.data ELSE remote.data]

Causal == Replicas!Spec

\* The cursor is never ahead of what was stored: a blob that the remote node
\* lists at or below the cursor is here, unless its entity was deleted here.
\* "This allows peers to sync more efficiently by remembering the cursor from
\* the previous request, and only asking for what's new since then in the
\* next request" (p2p.proto).
CursorCovers ==
    \A c \in Public(remote) :
        remote.ids[c] <= cursor => c \in local.data \/ Blob[c].entity \in deletions

\* A blob that the remote node lists arrives, unless its entity was deleted
\* here: deletions, failures and missing dependencies of other blobs do not
\* hold it up.
EventuallyPulled ==
    \A c \in Cids :
        c \in Public(remote) ~> c \in local.data \/ Blob[c].entity \in deletions

\* What belongs to the group reaches its site.
EventuallyPushed ==
    \A c \in Cids :
        c \in Related(local, Group) \cap local.data ~> c \in remote.data
=============================================================================
