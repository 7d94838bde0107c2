--------------------------- MODULE Replication_proofs ---------------------------
(***************************************************************************)
(* Proofs about the two nodes of Replication, for any blobs, entities and  *)
(* rounds: the tables of both databases stay consistent, the nodes         *)
(* implement causal replicas, and the cursor of the site loop is never     *)
(* ahead of what was stored.                                               *)
(***************************************************************************)
EXTENDS Replication, FiniteSetTheorems, TLAPS

-------------------------------------------------------------------------------
(* What the transactions of Storage do to the tables.                      *)

\* Databases that differ in some tables only.
WithRows(d, ids, data, seq) == [d EXCEPT !.ids = ids, !.data = data, !.seq = seq]
WithDrafts(d, drafts) == [d EXCEPT !.drafts = drafts]
WithIndex(d, index, links, mentions, resources) ==
    [d EXCEPT !.index = index, !.links = links, !.mentions = mentions,
              !.resources = resources]

\* Rows of blobs are written.
LEMMA RowFields ==
    ASSUME NEW d \in DB, NEW ids \in [Cids -> Nat], NEW data \in SUBSET Cids,
           NEW seq \in Nat, NEW n, n = WithRows(d, ids, data, seq)
    PROVE  /\ n \in DB /\ n.ids = ids /\ n.data = data /\ n.seq = seq
           /\ n.index = d.index /\ n.links = d.links /\ n.drafts = d.drafts
           /\ n.mentions = d.mentions /\ n.resources = d.resources
  BY DEF DB, WithRows

\* Rows of drafts are written.
LEMMA DraftFields ==
    ASSUME NEW d \in DB, NEW drafts \in SUBSET (Entities \X Cids),
           NEW n, n = WithDrafts(d, drafts)
    PROVE  /\ n \in DB /\ n.ids = d.ids /\ n.data = d.data /\ n.seq = d.seq
           /\ n.index = d.index /\ n.links = d.links /\ n.drafts = drafts
           /\ n.mentions = d.mentions /\ n.resources = d.resources
  BY DEF DB, WithDrafts

\* Rows of the indexes are written.
LEMMA IndexFields ==
    ASSUME NEW d \in DB, NEW index \in SUBSET (Cids \X Entities),
           NEW links \in SUBSET (Cids \X Cids),
           NEW mentions \in SUBSET (Cids \X Entities),
           NEW resources \in SUBSET Entities,
           NEW n, n = WithIndex(d, index, links, mentions, resources)
    PROVE  /\ n \in DB /\ n.ids = d.ids /\ n.data = d.data /\ n.seq = d.seq
           /\ n.index = index /\ n.links = links /\ n.drafts = d.drafts
           /\ n.mentions = mentions /\ n.resources = resources
  BY DEF DB, WithIndex

\* The facts of typing that every database has.
LEMMA DBFacts ==
    ASSUME NEW d \in DB
    PROVE  /\ d.ids \in [Cids -> Nat] /\ d.seq \in Nat /\ d.data \subseteq Cids
           /\ d.index \subseteq Cids \X Entities /\ d.links \subseteq Cids \X Cids
           /\ d.mentions \subseteq Cids \X Entities
           /\ d.drafts \subseteq Entities \X Cids /\ d.resources \subseteq Entities
  BY DEF DB

\* The empty database.
LEMMA EmptyFields ==
    /\ EmptyDB \in DB /\ EmptyDB.data = {} /\ EmptyDB.drafts = {} /\ EmptyDB.seq = 0
    /\ EmptyDB.index = {} /\ EmptyDB.links = {} /\ \A c \in Cids : EmptyDB.ids[c] = 0
  BY DEF EmptyDB, DB

\* putBlock gives the next id to a blob without data, whether it has a row
\* or not.
LEMMA PutFields ==
    ASSUME NEW d \in DB, NEW c \in Cids, NEW n, n = PutBlock(d, c, 0)
    PROVE  /\ n \in DB /\ n.data = d.data \cup {c} /\ n.seq = d.seq + 1
           /\ n.ids = [d.ids EXCEPT ![c] = d.seq + 1]
           /\ n.index = d.index /\ n.links = d.links /\ n.drafts = d.drafts
           /\ n.mentions = d.mentions /\ n.resources = d.resources
  <1> DEFINE ids == [d.ids EXCEPT ![c] = d.seq + 1]
  <1>1. d.ids \in [Cids -> Nat] /\ d.seq \in Nat /\ d.data \subseteq Cids
    BY DBFacts
  <1>2. ids \in [Cids -> Nat] /\ d.seq + 1 \in Nat /\ d.data \cup {c} \in SUBSET Cids
    BY <1>1
  <1>3. n = WithRows(d, ids, d.data \cup {c}, d.seq + 1)
    <2>1. d.seq + 1 > d.seq
      BY <1>1
    <2>2. CASE d.ids[c] = 0
      BY <2>1, <2>2 DEF PutBlock, WithRows
    <2>3. CASE d.ids[c] # 0
      BY <2>3 DEF PutBlock, Touch, WithRows, DB
    <2> QED
      BY <2>2, <2>3
  <1> HIDE DEF ids
  <1>4. /\ n \in DB /\ n.data = d.data \cup {c} /\ n.seq = d.seq + 1 /\ n.ids = ids
        /\ n.index = d.index /\ n.links = d.links /\ n.drafts = d.drafts
        /\ n.mentions = d.mentions /\ n.resources = d.resources
    BY <1>2, <1>3, RowFields
  <1> QED
    BY <1>4 DEF ids

\* ensureBlob gives new ids to targets without a row, and touches no other
\* row.
LEMMA EnsureFields ==
    ASSUME NEW d \in DB, NEW T \in SUBSET Cids, IsFiniteSet(T), NEW n, n = EnsureBlobs(d, T)
    PROVE  /\ n \in DB /\ n.data = d.data /\ n.seq \in Nat /\ n.seq >= d.seq
           /\ n.index = d.index /\ n.links = d.links /\ n.drafts = d.drafts
           /\ n.mentions = d.mentions /\ n.resources = d.resources
           /\ \A c \in Cids : d.ids[c] # 0 => n.ids[c] = d.ids[c]
           /\ \A c \in T : n.ids[c] # 0
           /\ \A c \in Cids : d.ids[c] <= d.seq => n.ids[c] <= n.seq
  <1> DEFINE new == {c \in T : d.ids[c] = 0}
             below(c) == {k \in new : k <= c}
             ids == [c \in Cids |-> IF c \in new THEN d.seq + Cardinality(below(c)) ELSE d.ids[c]]
             seq == d.seq + Cardinality(new)
  <1>1. d.ids \in [Cids -> Nat] /\ d.seq \in Nat /\ d.data \in SUBSET Cids
    BY DBFacts
  <1>2. IsFiniteSet(new) /\ Cardinality(new) \in Nat
    BY FS_Subset, FS_CardinalityType
  <1>3. ASSUME NEW c \in Cids
        PROVE  IsFiniteSet(below(c)) /\ Cardinality(below(c)) \in Nat
               /\ Cardinality(below(c)) <= Cardinality(new)
    <2>1. below(c) \in SUBSET new
      OBVIOUS
    <2> QED
      BY <1>2, <2>1, FS_Subset, FS_CardinalityType
  <1>4. ASSUME NEW c \in new
        PROVE  Cardinality(below(c)) # 0
    <2>1. c \in below(c) /\ c \in Cids
      BY StorageConstants
    <2> QED
      BY <1>3, <2>1, FS_EmptySet
  <1> HIDE DEF below
  <1>5. ids \in [Cids -> Nat] /\ seq \in Nat /\ seq >= d.seq
    BY <1>1, <1>2, <1>3
  <1>6. n = WithRows(d, ids, d.data, seq)
    BY DEF EnsureBlobs, WithRows, below, DB
  <1>7. /\ \A c \in Cids : d.ids[c] # 0 => ids[c] = d.ids[c]
        /\ \A c \in T : ids[c] # 0
        /\ \A c \in Cids : d.ids[c] <= d.seq => ids[c] <= seq
    <2>1. ASSUME NEW c \in T
          PROVE  ids[c] # 0
      <3>1. CASE c \in new
        <4>1. ids[c] = d.seq + Cardinality(below(c))
          BY <3>1
        <4>2. Cardinality(below(c)) \in Nat /\ Cardinality(below(c)) # 0
          BY <1>3, <1>4, <3>1
        <4> QED
          BY <1>1, <4>1, <4>2
      <3>2. CASE c \notin new
        BY <3>2
      <3> QED
        BY <3>1, <3>2
    <2>2. ASSUME NEW c \in Cids, d.ids[c] <= d.seq
          PROVE  ids[c] <= seq
      BY <1>1, <1>2, <1>3, <2>2
    <2> QED
      BY <2>1, <2>2
  <1> HIDE DEF ids, seq
  <1>8. /\ n \in DB /\ n.data = d.data /\ n.seq = seq /\ n.ids = ids
        /\ n.index = d.index /\ n.links = d.links /\ n.drafts = d.drafts
        /\ n.mentions = d.mentions /\ n.resources = d.resources
    BY <1>1, <1>5, <1>6, RowFields
  <1> QED
    BY <1>5, <1>7, <1>8

\* The typing of blobs.
LEMMA BlobFacts ==
    ASSUME NEW c \in Cids
    PROVE  /\ Blob[c].cid = c /\ Blob[c].entity \in Entities
           /\ Blob[c].deps \subseteq Cids /\ Blob[c].refs \subseteq Cids
           /\ Blob[c].mentions \subseteq Entities
           /\ IsFiniteSet(Blob[c].deps \cup Blob[c].refs)
  <1>1. Blob[c] \in [cid : Cids, entity : Entities, deps : SUBSET Cids,
                     refs : SUBSET Cids, mentions : SUBSET Entities]
    BY ReplicationConstants
  <1> QED
    BY <1>1, ReplicationConstants

\* What storing the new blob c makes of d: data and index rows, the next id
\* for c, and rows for everything c links to.
Stores(d, n, c) ==
    /\ n \in DB /\ n.data = d.data \cup {c} /\ n.drafts = d.drafts
    /\ n.index = d.index \cup {<<c, Blob[c].entity>>}
    /\ n.links = d.links \cup {<<c, t>> : t \in Blob[c].deps \cup Blob[c].refs}
    /\ n.resources = d.resources \cup {Blob[c].entity} \cup Blob[c].mentions
    /\ n.seq > d.seq /\ n.ids[c] = d.seq + 1
    /\ \A k \in Cids : k # c /\ d.ids[k] # 0 => n.ids[k] = d.ids[k]
    /\ \A t \in Blob[c].deps \cup Blob[c].refs : n.ids[t] # 0
    /\ (\A k \in Cids : d.ids[k] <= d.seq) => \A k \in Cids : n.ids[k] <= n.seq

\* Save of a blob whose data is not there.
LEMMA SaveStores ==
    ASSUME NEW d \in DB, NEW c \in Cids, c \notin d.data, NEW n, n = Save(d, Blob[c])
    PROVE  Stores(d, n, c)
  <1> DEFINE b == Blob[c]
             T == b.deps \cup b.refs
             p == PutBlock(d, c, 0)
             q == EnsureBlobs(p, T)
  <1>1. /\ b.cid = c /\ b.entity \in Entities /\ T \in SUBSET Cids /\ IsFiniteSet(T)
        /\ b.mentions \subseteq Entities
    BY BlobFacts
  <1>2. n = Index(p, b)
    BY <1>1 DEF Save
  <1>3. /\ p \in DB /\ p.data = d.data \cup {c} /\ p.seq = d.seq + 1
        /\ p.ids = [d.ids EXCEPT ![c] = d.seq + 1]
        /\ p.index = d.index /\ p.links = d.links /\ p.drafts = d.drafts
        /\ p.mentions = d.mentions /\ p.resources = d.resources
    BY PutFields
  <1> HIDE DEF p, b, T
  <1>4. /\ q \in DB /\ q.data = p.data /\ q.seq \in Nat /\ q.seq >= p.seq
        /\ q.index = p.index /\ q.links = p.links /\ q.drafts = p.drafts
        /\ q.mentions = p.mentions /\ q.resources = p.resources
        /\ \A k \in Cids : p.ids[k] # 0 => q.ids[k] = p.ids[k]
        /\ \A k \in T : q.ids[k] # 0
        /\ \A k \in Cids : p.ids[k] <= p.seq => q.ids[k] <= q.seq
    BY <1>1, <1>3, EnsureFields
  <1> DEFINE index == q.index \cup {<<c, b.entity>>}
             links == q.links \cup {<<c, t>> : t \in T}
             mentions == q.mentions \cup {<<c, e>> : e \in b.mentions}
             resources == q.resources \cup {b.entity} \cup b.mentions
  <1>5. n = WithIndex(q, index, links, mentions, resources)
    BY <1>1, <1>2 DEF Index, WithIndex, b, T
  <1> HIDE DEF q
  <1>6. /\ d.ids \in [Cids -> Nat] /\ d.seq \in Nat /\ d.data \subseteq Cids
        /\ q.index \subseteq Cids \X Entities /\ q.links \subseteq Cids \X Cids
        /\ q.mentions \subseteq Cids \X Entities /\ q.resources \subseteq Entities
    BY <1>4, DBFacts
  <1>7. /\ index \in SUBSET (Cids \X Entities) /\ links \in SUBSET (Cids \X Cids)
        /\ mentions \in SUBSET (Cids \X Entities) /\ resources \in SUBSET Entities
    BY <1>1, <1>6
  <1> HIDE DEF index, links, mentions, resources
  <1>8. /\ n \in DB /\ n.ids = q.ids /\ n.data = q.data /\ n.seq = q.seq
        /\ n.index = index /\ n.links = links /\ n.drafts = q.drafts
        /\ n.mentions = mentions /\ n.resources = resources
    BY <1>4, <1>5, <1>7, IndexFields
  <1>9. n.seq > d.seq /\ n.ids[c] = d.seq + 1
    BY <1>3, <1>4, <1>6, <1>8
  <1>10. \A k \in Cids : k # c /\ d.ids[k] # 0 => n.ids[k] = d.ids[k]
    BY <1>3, <1>4, <1>6, <1>8
  <1>11. ASSUME \A k \in Cids : d.ids[k] <= d.seq, NEW k \in Cids
         PROVE  n.ids[k] <= n.seq
    <2>1. p.ids[k] <= p.seq
      BY <1>3, <1>6, <1>11
    <2> QED
      BY <1>4, <1>8, <2>1
  <1>12. /\ n.data = d.data \cup {c} /\ n.drafts = d.drafts
         /\ n.index = d.index \cup {<<c, b.entity>>}
         /\ n.links = d.links \cup {<<c, t>> : t \in T}
         /\ n.resources = d.resources \cup {b.entity} \cup b.mentions
         /\ \A t \in T : n.ids[t] # 0
    BY <1>3, <1>4, <1>8 DEF index, links, resources
  <1> QED
    BY <1>8, <1>9, <1>10, <1>11, <1>12 DEF Stores, b, T

-------------------------------------------------------------------------------
\* The foreign keys of the tables: every row names rows that exist, and
\* the index says of a blob what the blob says of itself.
Keys(d) ==
    /\ d \in DB
    /\ \A c \in Cids : d.ids[c] <= d.seq
    /\ \A c \in d.data : d.ids[c] # 0
    /\ \A l \in d.links : d.ids[l[1]] # 0 /\ d.ids[l[2]] # 0
    /\ \A x \in d.index :
          d.ids[x[1]] # 0 /\ x[2] \in d.resources /\ x[2] = Blob[x[1]].entity
    /\ \A y \in d.drafts : d.ids[y[2]] # 0 /\ y[1] \in d.resources

\* The empty database is consistent.
LEMMA EmptyKeys == Keys(EmptyDB)
  <1>1. \A c \in Cids : EmptyDB.ids[c] <= EmptyDB.seq
    BY EmptyFields
  <1> QED
    BY <1>1, EmptyFields DEF Keys

\* Storing a new blob keeps them.
LEMMA StoresKeepsKeys ==
    ASSUME NEW d, Keys(d), NEW c \in Cids, NEW n, Stores(d, n, c)
    PROVE  Keys(n) /\ \A k \in Cids : d.ids[k] # 0 => n.ids[k] # 0
  <1>1. /\ d.ids \in [Cids -> Nat] /\ d.seq \in Nat /\ d.data \subseteq Cids
        /\ d.index \subseteq Cids \X Entities /\ d.links \subseteq Cids \X Cids
        /\ d.drafts \subseteq Entities \X Cids
    BY DBFacts DEF Keys
  <1>2. Blob[c].deps \subseteq Cids /\ Blob[c].refs \subseteq Cids
    BY BlobFacts
  <1>3. \A k \in Cids : d.ids[k] # 0 => n.ids[k] # 0
    BY <1>1 DEF Stores
  <1>4. n.ids[c] # 0
    BY <1>1 DEF Stores
  <1>5. n \in DB /\ \A k \in Cids : n.ids[k] <= n.seq
    BY DEF Stores, Keys
  <1>6. \A k \in n.data : n.ids[k] # 0
    BY <1>1, <1>3, <1>4 DEF Stores, Keys
  <1>7. ASSUME NEW l \in n.links
        PROVE  n.ids[l[1]] # 0 /\ n.ids[l[2]] # 0
    <2>1. CASE l \in d.links
      BY <1>1, <1>3, <2>1 DEF Keys
    <2>2. CASE l \notin d.links
      <3>1. PICK t \in Blob[c].deps \cup Blob[c].refs : l = <<c, t>>
        BY <2>2 DEF Stores
      <3> QED
        BY <1>4, <3>1 DEF Stores
    <2> QED
      BY <2>1, <2>2
  <1>8. ASSUME NEW x \in n.index
        PROVE  n.ids[x[1]] # 0 /\ x[2] \in n.resources /\ x[2] = Blob[x[1]].entity
    <2>1. CASE x \in d.index
      BY <1>1, <1>3, <2>1 DEF Keys, Stores
    <2>2. CASE x \notin d.index
      <3>1. x = <<c, Blob[c].entity>>
        BY <2>2 DEF Stores
      <3> QED
        BY <1>4, <3>1 DEF Stores
    <2> QED
      BY <2>1, <2>2
  <1>9. \A y \in n.drafts : n.ids[y[2]] # 0 /\ y[1] \in n.resources
    BY <1>1, <1>3 DEF Keys, Stores
  <1> QED
    BY <1>3, <1>5, <1>6, <1>7, <1>8, <1>9 DEF Keys

\* A draft is a blob that was stored and is registered as a draft.
LEMMA SaveDraftKeepsKeys ==
    ASSUME NEW d, Keys(d), NEW c \in Cids, c \notin d.data,
           NEW n, n = SaveDraft(d, Blob[c])
    PROVE  /\ Keys(n) /\ n.data = d.data \cup {c}
           /\ n.index = d.index \cup {<<c, Blob[c].entity>>}
  <1> DEFINE s == Save(d, Blob[c])
             drafts == s.drafts \cup {<<Blob[c].entity, c>>}
  <1>1. d \in DB /\ d.seq \in Nat
    BY DBFacts DEF Keys
  <1>2. Stores(d, s, c)
    BY <1>1, SaveStores
  <1>3. Blob[c].cid = c /\ Blob[c].entity \in Entities
    BY BlobFacts
  <1>4. n = WithDrafts(s, drafts)
    BY <1>3 DEF SaveDraft, WithDrafts
  <1> HIDE DEF s
  <1>5. Keys(s) /\ s \in DB
    BY <1>2, StoresKeepsKeys DEF Keys
  <1>6. drafts \in SUBSET (Entities \X Cids)
    BY <1>3, <1>5, DBFacts
  <1>7. \A y \in drafts : s.ids[y[2]] # 0 /\ y[1] \in s.resources
    <2>1. s.ids[c] # 0 /\ Blob[c].entity \in s.resources
      BY <1>1, <1>2 DEF Stores
    <2> QED
      BY <1>5, <2>1 DEF Keys
  <1> HIDE DEF drafts
  <1>8. /\ n \in DB /\ n.ids = s.ids /\ n.data = s.data /\ n.seq = s.seq
        /\ n.index = s.index /\ n.links = s.links /\ n.drafts = drafts
        /\ n.resources = s.resources
    BY <1>4, <1>5, <1>6, DraftFields
  <1>9. Keys(n)
    BY <1>5, <1>7, <1>8 DEF Keys
  <1> QED
    BY <1>2, <1>8, <1>9 DEF Stores

\* A published draft gets the next id.
LEMMA PublishKeepsKeys ==
    ASSUME NEW d, Keys(d), NEW e \in Entities, DraftsOf(d, e) # {},
           NEW n, n = PublishDraft(d, e)
    PROVE  Keys(n) /\ n.data = d.data /\ n.index = d.index
  <1> DEFINE c == CHOOSE c \in DraftsOf(d, e) : TRUE
             drafts == d.drafts \ {<<e, c>>}
             r == WithDrafts(d, drafts)
             ids == [d.ids EXCEPT ![c] = d.seq + 1]
  <1>1. c \in Cids
    BY DEF DraftsOf
  <1>2. /\ d \in DB /\ d.ids \in [Cids -> Nat] /\ d.seq \in Nat
        /\ d.drafts \subseteq Entities \X Cids /\ d.data \subseteq Cids
        /\ d.index \subseteq Cids \X Entities /\ d.links \subseteq Cids \X Cids
    BY DBFacts DEF Keys
  <1>3. n = Touch(r, c)
    BY DEF PublishDraft, WithDrafts
  <1> HIDE DEF c
  <1>4. drafts \in SUBSET (Entities \X Cids)
    BY <1>2
  <1> HIDE DEF drafts
  <1>5. /\ r \in DB /\ r.ids = d.ids /\ r.data = d.data /\ r.seq = d.seq
        /\ r.index = d.index /\ r.links = d.links /\ r.drafts = drafts
        /\ r.resources = d.resources
    BY <1>2, <1>4, DraftFields
  <1> HIDE DEF r
  <1>6. n = WithRows(r, ids, r.data, r.seq + 1)
    BY <1>3, <1>5 DEF Touch, WithRows, DB
  <1>7. ids \in [Cids -> Nat] /\ r.seq + 1 \in Nat /\ r.data \in SUBSET Cids
    BY <1>1, <1>2, <1>5
  <1>8. ASSUME NEW k \in Cids
        PROVE  ids[k] <= d.seq + 1 /\ (d.ids[k] # 0 => ids[k] # 0)
    <2>1. d.ids[k] \in Nat /\ d.ids[k] <= d.seq
      BY <1>2 DEF Keys
    <2> QED
      BY <1>2, <2>1
  <1> HIDE DEF ids
  <1>9. /\ n \in DB /\ n.ids = ids /\ n.data = d.data /\ n.seq = d.seq + 1
        /\ n.index = d.index /\ n.links = d.links /\ n.drafts = drafts
        /\ n.resources = d.resources
    BY <1>5, <1>6, <1>7, RowFields
  <1>10. drafts \subseteq d.drafts
    BY DEF drafts
  <1>11. Keys(n)
    BY <1>2, <1>8, <1>9, <1>10 DEF Keys
  <1> QED
    BY <1>9, <1>11

\* Deleting an entity in one transaction: the two refusals of the foreign
\* keys are what keeps the rest consistent.
LEMMA DeleteKeepsKeys ==
    ASSUME NEW d, Keys(d), NEW e \in Entities, CanDeleteEntity(d, e),
           NEW n, n = DeleteEntity(d, e)
    PROVE  /\ Keys(n) /\ n.data = d.data \ ChangesOf(d, e)
           /\ n.index = {x \in d.index : x[1] \notin ChangesOf(d, e)}
  <1> DEFINE S == ChangesOf(d, e)
             r == Delete(d, S)
  <1>1. /\ d \in DB /\ d.ids \in [Cids -> Nat] /\ d.seq \in Nat
        /\ d.drafts \subseteq Entities \X Cids /\ d.data \subseteq Cids
        /\ d.index \subseteq Cids \X Entities /\ d.links \subseteq Cids \X Cids
    BY DBFacts DEF Keys
  <1>2. n = [r EXCEPT !.resources = @ \ {e}]
    BY DEF DeleteEntity, DeleteResource
  <1>3. CanDelete(d, S) /\ CanDeleteResource(r, e)
    BY DEF CanDeleteEntity
  <1> HIDE DEF S
  <1>4. /\ r \in DB /\ r.data = d.data \ S /\ r.seq = d.seq
        /\ r.ids = [c \in Cids |-> IF c \in S THEN 0 ELSE d.ids[c]]
        /\ r.index = {x \in d.index : x[1] \notin S}
        /\ r.links = {l \in d.links : l[1] \notin S}
        /\ r.drafts = {y \in d.drafts : y[2] \notin S}
        /\ r.resources = d.resources
    BY <1>1 DEF Delete, DB
  <1> HIDE DEF r
  <1>5. /\ n \in DB /\ n.data = r.data /\ n.seq = r.seq /\ n.ids = r.ids
        /\ n.index = r.index /\ n.links = r.links /\ n.drafts = r.drafts
        /\ n.resources = r.resources \ {e}
    BY <1>2, <1>4 DEF DB
  <1>6. \A c \in Cids : n.ids[c] <= n.seq
    BY <1>1, <1>4, <1>5 DEF Keys
  <1>7. \A c \in n.data : n.ids[c] # 0
    BY <1>1, <1>4, <1>5 DEF Keys
  <1>8. ASSUME NEW l \in n.links
        PROVE  n.ids[l[1]] # 0 /\ n.ids[l[2]] # 0
    <2>1. l \in d.links /\ l[1] \notin S /\ l[1] \in Cids /\ l[2] \in Cids
      BY <1>1, <1>4, <1>5
    <2>2. l[2] \notin S
      BY <1>3, <2>1 DEF CanDelete
    <2> QED
      BY <1>4, <1>5, <2>1, <2>2 DEF Keys
  <1>9. ASSUME NEW x \in n.index
        PROVE  n.ids[x[1]] # 0 /\ x[2] \in n.resources /\ x[2] = Blob[x[1]].entity
    <2>1. x \in d.index /\ x[1] \notin S /\ x[1] \in Cids /\ x \in r.index
      BY <1>1, <1>4, <1>5
    <2>2. x[2] # e
      BY <1>3, <2>1 DEF CanDeleteResource
    <2> QED
      BY <1>4, <1>5, <2>1, <2>2 DEF Keys
  <1>10. ASSUME NEW y \in n.drafts
         PROVE  n.ids[y[2]] # 0 /\ y[1] \in n.resources
    <2>1. y \in d.drafts /\ y[2] \notin S /\ y[2] \in Cids /\ y \in r.drafts
      BY <1>1, <1>4, <1>5
    <2>2. y[1] # e
      BY <1>3, <2>1 DEF CanDeleteResource
    <2> QED
      BY <1>4, <1>5, <2>1, <2>2 DEF Keys
  <1>11. Keys(n)
    BY <1>5, <1>6, <1>7, <1>8, <1>9, <1>10 DEF Keys
  <1> QED
    BY <1>4, <1>5, <1>11 DEF S

\* The other transactions of DeleteEntity and UndeleteEntity write one table
\* each.
LEMMA EmptyKeepsKeys ==
    ASSUME NEW d, Keys(d), NEW e, NEW n, n = EmptyEntity(d, e)
    PROVE  Keys(n) /\ n.data = d.data \ ChangesOf(d, e) /\ n.index = d.index
  <1> DEFINE data == d.data \ ChangesOf(d, e)
  <1>1. d \in DB /\ d.ids \in [Cids -> Nat] /\ d.seq \in Nat /\ d.data \subseteq Cids
    BY DBFacts DEF Keys
  <1>2. n = [d EXCEPT !.data = data]
    BY DEF EmptyEntity
  <1>3. data \in SUBSET Cids /\ data \subseteq d.data
    BY <1>1
  <1> HIDE DEF data
  <1>4. /\ n \in DB /\ n.data = data /\ n.ids = d.ids /\ n.seq = d.seq
        /\ n.index = d.index /\ n.links = d.links /\ n.drafts = d.drafts
        /\ n.resources = d.resources
    BY <1>1, <1>2, <1>3 DEF DB
  <1>5. Keys(n)
    BY <1>3, <1>4 DEF Keys
  <1> QED
    BY <1>4, <1>5 DEF data

\* Unindexing an entity keeps the tables consistent.
LEMMA UnindexKeepsKeys ==
    ASSUME NEW d, Keys(d), NEW e, NEW n, n = UnindexEntity(d, e)
    PROVE  Keys(n) /\ n.data = d.data /\ n.index = {x \in d.index : x[2] # e}
  <1>1. d \in DB /\ d.index \subseteq Cids \X Entities
    BY DBFacts DEF Keys
  <1>2. /\ n \in DB /\ n.data = d.data /\ n.ids = d.ids /\ n.seq = d.seq
        /\ n.index = {x \in d.index : x[2] # e} /\ n.links = d.links
        /\ n.drafts = d.drafts /\ n.resources = d.resources
    BY <1>1 DEF UnindexEntity, DB
  <1>3. Keys(n)
    BY <1>1, <1>2 DEF Keys
  <1> QED
    BY <1>2, <1>3

\* Recording a deletion, or taking it back, keeps the tables consistent.
LEMMA MarkKeepsKeys ==
    ASSUME NEW d, Keys(d), NEW e \in Entities,
           NEW n, n = MarkDeleted(d, e) \/ n = UnmarkDeleted(d, e)
    PROVE  Keys(n) /\ n.data = d.data /\ n.index = d.index
  <1>1. d \in DB
    BY DEF Keys
  <1>2. /\ n \in DB /\ n.data = d.data /\ n.ids = d.ids /\ n.seq = d.seq
        /\ n.index = d.index /\ n.links = d.links
        /\ n.drafts = d.drafts /\ n.resources = d.resources
    BY <1>1 DEF MarkDeleted, UnmarkDeleted, DB
  <1>3. Keys(n)
    BY <1>2 DEF Keys
  <1> QED
    BY <1>2, <1>3

-------------------------------------------------------------------------------
(* The invariant of the two nodes.                                         *)

\* A round that fetches: its cursors are ids that the remote node has given
\* out, up to the id seq.
FetchRound(p, seq) ==
    /\ p = [pc |-> p.pc, at |-> p.at, last |-> p.last, saved |-> p.saved,
            want |-> p.want, cursors |-> p.cursors, seen |-> p.seen]
    /\ p.pc \in {"fetch", "save"}
    /\ p.want \subseteq Cids
    /\ p.last \in Nat /\ p.last <= seq
    /\ \A c \in p.want : p.cursors[c] \in Nat /\ p.cursors[c] <= seq

LoopOK(p, seq) ==
    \/ p = Idle
    \/ FetchRound(p, seq)
    \/ p.pc = "pushing"
    \/ p = [pc |-> "push", want |-> p.want, cursors |-> p.cursors]

\* The deletion del is of an entity that counts as deleted (dels), and blobs
\* that the index of d does not show are of such entities, and not of one
\* whose blobs are about to be emptied.
DeletionOK(d, del, dels) ==
    /\ dels \subseteq Entities
    /\ \/ del = Idle
       \/ \E e \in dels, pc \in {"empty", "unindex", "record"} :
             del = [pc |-> pc, entity |-> e]
    /\ \A c \in d.data :
          \/ <<c, Blob[c].entity>> \in d.index
          \/ /\ Blob[c].entity \in dels
             /\ ~ (del.pc = "empty" /\ del.entity = Blob[c].entity)

\* The remote node gives every blob with data an id of its own.
RemoteOK(d) ==
    /\ d.drafts = {}
    /\ \A c, k \in d.data : d.ids[c] = d.ids[k] => c = k

ReplicationInv ==
    /\ Keys(local) /\ Keys(remote)
    /\ made \subseteq Cids /\ local.data \subseteq made /\ remote.data \subseteq made
    /\ RemoteOK(remote)
    /\ cursor \in Nat /\ cursor <= remote.seq
    /\ loop = [l \in Loops |-> loop[l]]
    /\ \A l \in Loops : LoopOK(loop[l], remote.seq)
    /\ DeletionOK(local, deletion, deletions)

\* What a step does to the data: nothing, or a step of the replicas.
DataStep ==
    \/ local'.data = local.data /\ remote'.data = remote.data /\ made' = made
    \/ \E c \in Cids :
          /\ c \notin made /\ made' = made \cup {c}
          /\ \/ /\ Blob[c].deps \subseteq local.data
                /\ local'.data = local.data \cup {c} /\ remote'.data = remote.data
             \/ /\ Blob[c].deps \subseteq remote.data
                /\ remote'.data = remote.data \cup {c} /\ local'.data = local.data
    \/ \E c \in remote.data :
          /\ Blob[c].deps \subseteq local.data /\ made' = made
          /\ local'.data = local.data \cup {c} /\ remote'.data = remote.data
    \/ \E c \in local.data :
          /\ Blob[c].deps \subseteq remote.data /\ made' = made
          /\ remote'.data = remote.data \cup {c} /\ local'.data = local.data
    \/ \E e \in Entities :
          /\ local'.data = {c \in local.data : Blob[c].entity # e}
          /\ remote'.data = remote.data /\ made' = made

\* What no step takes back: data leave the local node with their entity
\* only, and stay in place on the remote node, where new ones come last.
Grows ==
    /\ deletions \subseteq deletions'
    /\ \A c \in local.data : c \in local'.data \/ Blob[c].entity \in deletions'
    /\ remote'.seq >= remote.seq
    /\ \A c \in remote.data : c \in remote'.data /\ remote'.ids[c] = remote.ids[c]
    /\ \A c \in remote'.data : c \in remote.data \/ remote'.ids[c] > remote.seq

\* The invariant holds of two new databases.
LEMMA InitReplicationInv == Init => ReplicationInv
  <1> SUFFICES ASSUME Init
               PROVE  ReplicationInv
    OBVIOUS
  <1>1. Keys(local) /\ Keys(remote) /\ local.data = {} /\ remote.data = {}
        /\ remote.seq = 0 /\ remote.drafts = {}
    BY EmptyKeys, EmptyFields DEF Init
  <1>2. RemoteOK(remote) /\ DeletionOK(local, deletion, deletions)
    BY <1>1 DEF RemoteOK, DeletionOK, Init
  <1>3. \A l \in Loops : LoopOK(loop[l], remote.seq)
    BY DEF LoopOK, Init
  <1>4. cursor \in Nat /\ cursor <= remote.seq /\ loop = [l \in Loops |-> loop[l]]
    BY <1>1 DEF Init
  <1> QED
    BY <1>1, <1>2, <1>3, <1>4 DEF ReplicationInv, Init

\* A step that leaves the remote node, the cursor and the loops alone.
LEMMA LocalStep ==
    ASSUME ReplicationInv, remote' = remote, cursor' = cursor, loop' = loop,
           Keys(local'), made \subseteq made', made' \subseteq Cids,
           local'.data \subseteq made', DeletionOK(local', deletion', deletions'),
           deletions \subseteq deletions',
           \A c \in local.data : c \in local'.data \/ Blob[c].entity \in deletions'
    PROVE  ReplicationInv' /\ Grows
  <1>1. remote.seq \in Nat
    BY DBFacts DEF ReplicationInv, Keys
  <1>2. Grows
    BY <1>1 DEF Grows
  <1>3. ReplicationInv'
    BY DEF ReplicationInv, Keys, DeletionOK, LoopOK, FetchRound, RemoteOK, Idle
  <1> QED
    BY <1>2, <1>3

\* Storing a new blob locally keeps the deletions in order.
LEMMA StoresKeepsDeletion ==
    ASSUME NEW d, NEW n, NEW c, NEW del, NEW dels, DeletionOK(d, del, dels),
           n.data = d.data \cup {c}, n.index = d.index \cup {<<c, Blob[c].entity>>}
    PROVE  DeletionOK(n, del, dels)
  BY DEF DeletionOK

\* SaveBlob or SaveDraftBlob by the local user.
LEMMA LocalSaveStep ==
    ASSUME ReplicationInv, NEW c \in Cids, LocalSave(c)
    PROVE  ReplicationInv' /\ DataStep /\ Grows
  <1>1. /\ c \notin made /\ c \notin local.data /\ made' = made \cup {c}
        /\ remote' = remote /\ cursor' = cursor /\ loop' = loop
        /\ deletion' = deletion /\ deletions' = deletions
    BY DEF LocalSave, ReplicationInv
  <1>2. Keys(local) /\ local \in DB
    BY DEF ReplicationInv, Keys
  <1>3. CanSave(local, Blob[c])
    BY DEF LocalSave, CanSaveDraft
  <1>4. Blob[c].deps \subseteq local.data
    BY <1>1, <1>3, BlobFacts DEF CanSave, Indexable
  <1>5. /\ Keys(local') /\ local'.data = local.data \cup {c}
        /\ local'.index = local.index \cup {<<c, Blob[c].entity>>}
    <2>1. CASE c \in Drafted
      <3>1. local' = SaveDraft(local, Blob[c])
        BY <2>1 DEF LocalSave
      <3> QED
        BY <1>1, <1>2, <3>1, SaveDraftKeepsKeys
    <2>2. CASE c \notin Drafted
      <3>1. local' = Save(local, Blob[c])
        BY <2>2 DEF LocalSave
      <3>2. Stores(local, local', c)
        BY <1>1, <1>2, <3>1, SaveStores
      <3>3. Keys(local')
        BY <1>2, <3>2, StoresKeepsKeys
      <3> QED
        BY <3>2, <3>3 DEF Stores
    <2> QED
      BY <2>1, <2>2
  <1>6. DeletionOK(local', deletion', deletions')
    <2>1. DeletionOK(local', deletion, deletions)
      BY <1>5, StoresKeepsDeletion DEF ReplicationInv
    <2> QED
      BY <1>1, <2>1
  <1>7. made' \subseteq Cids /\ local'.data \subseteq made'
    BY <1>1, <1>5 DEF ReplicationInv
  <1>8. ReplicationInv' /\ Grows
    BY <1>1, <1>5, <1>6, <1>7, LocalStep
  <1>9. DataStep
    BY <1>1, <1>4, <1>5 DEF DataStep
  <1> QED
    BY <1>8, <1>9

\* PublishDraft: ids change, the data does not.
LEMMA LocalPublishStep ==
    ASSUME ReplicationInv, NEW e \in Entities, LocalPublish(e)
    PROVE  ReplicationInv' /\ DataStep /\ Grows
  <1>1. /\ local' = PublishDraft(local, e) /\ DraftsOf(local, e) # {} /\ made' = made
        /\ remote' = remote /\ cursor' = cursor /\ loop' = loop
        /\ deletion' = deletion /\ deletions' = deletions
    BY DEF LocalPublish
  <1>2. Keys(local') /\ local'.data = local.data /\ local'.index = local.index
    BY <1>1, PublishKeepsKeys DEF ReplicationInv
  <1>3. DeletionOK(local', deletion', deletions')
    BY <1>1, <1>2 DEF DeletionOK, ReplicationInv
  <1>4. ReplicationInv' /\ Grows
    BY <1>1, <1>2, <1>3, LocalStep DEF ReplicationInv
  <1> QED
    BY <1>1, <1>2, <1>4 DEF DataStep

\* The blobs that the index shows of an entity are all its blobs with data,
\* until its deletion has begun and while they are about to be emptied.
LEMMA ChangesAreAll ==
    ASSUME NEW d, Keys(d), NEW del, NEW dels, DeletionOK(d, del, dels), NEW e,
           e \notin dels \/ (del.pc = "empty" /\ del.entity = e)
    PROVE  d.data \ ChangesOf(d, e) = {c \in d.data : Blob[c].entity # e}
  <1>1. d.data \subseteq Cids
    BY DBFacts DEF Keys
  <1>2. ASSUME NEW c \in d.data
        PROVE  c \in ChangesOf(d, e) <=> Blob[c].entity = e
    <2>1. <<c, e>> \in d.index => e = Blob[c].entity
      <3> DEFINE x == <<c, e>>
      <3>1. x[1] = c /\ x[2] = e
        OBVIOUS
      <3> HIDE DEF x
      <3>2. x \in d.index => e = Blob[c].entity
        BY <3>1 DEF Keys
      <3> QED
        BY <3>2 DEF x
    <2>2. Blob[c].entity = e => <<c, e>> \in d.index
      BY DEF DeletionOK
    <2> QED
      BY <1>1, <2>1, <2>2 DEF ChangesOf
  <1> QED
    BY <1>2

\* The first transaction of DeleteEntity: all of the entity goes, or nothing.
LEMMA DeleteBeginStep ==
    ASSUME ReplicationInv, NEW e \in Entities, DeleteBegin(e)
    PROVE  ReplicationInv' /\ DataStep /\ Grows
  <1>1. /\ deletions' = deletions \cup {e} /\ e \notin deletions /\ deletion = Idle
        /\ remote' = remote /\ cursor' = cursor /\ loop' = loop /\ made' = made
    BY DEF DeleteBegin
  <1>2. /\ Keys(local) /\ DeletionOK(local, deletion, deletions)
        /\ deletions' \subseteq Entities
        /\ made' \subseteq Cids /\ local.data \subseteq made'
    BY <1>1 DEF ReplicationInv, DeletionOK
  <1>3. CASE CanDeleteEntity(local, e)
    <2>1. local' = DeleteEntity(local, e) /\ deletion' = [pc |-> "record", entity |-> e]
      BY <1>3 DEF DeleteBegin
    <2>2. /\ Keys(local') /\ local'.data = local.data \ ChangesOf(local, e)
          /\ local'.index = {x \in local.index : x[1] \notin ChangesOf(local, e)}
      BY <1>2, <1>3, <2>1, DeleteKeepsKeys
    <2>3. local'.data = {c \in local.data : Blob[c].entity # e}
      BY <1>1, <1>2, <2>2, ChangesAreAll
    <2>4. \A c \in local'.data : <<c, Blob[c].entity>> \in local.index
                                 => <<c, Blob[c].entity>> \in local'.index
      BY <2>2
    <2>5. DeletionOK(local', deletion', deletions')
      <3>1. \A c \in local'.data : \/ <<c, Blob[c].entity>> \in local'.index
                                   \/ Blob[c].entity \in deletions'
        BY <1>1, <1>2, <2>3, <2>4 DEF DeletionOK
      <3>2. deletion'.pc # "empty" /\ e \in deletions'
        BY <1>1, <2>1
      <3> QED
        BY <1>2, <2>1, <3>1, <3>2 DEF DeletionOK
    <2>6. ReplicationInv' /\ Grows
      BY <1>1, <1>2, <2>2, <2>3, <2>5, LocalStep
    <2> QED
      BY <1>1, <2>3, <2>6 DEF DataStep
  <1>4. CASE ~ CanDeleteEntity(local, e)
    <2>1. local' = local /\ deletion' = [pc |-> "empty", entity |-> e]
      BY <1>4 DEF DeleteBegin
    <2>2. DeletionOK(local', deletion', deletions')
      <3>1. \A c \in local.data :
               \/ <<c, Blob[c].entity>> \in local.index
               \/ Blob[c].entity \in deletions /\ Blob[c].entity # e
        BY <1>1, <1>2 DEF DeletionOK
      <3>2. deletion'.entity = e /\ e \in deletions'
        BY <1>1, <2>1
      <3> QED
        BY <1>1, <1>2, <2>1, <3>1, <3>2 DEF DeletionOK
    <2>3. ReplicationInv' /\ Grows
      BY <1>1, <1>2, <2>1, <2>2, LocalStep
    <2> QED
      BY <1>1, <2>1, <2>3 DEF DataStep
  <1> QED
    BY <1>3, <1>4

\* A deletion in progress has an entity whose deletion has begun.
LEMMA DeletionFacts ==
    ASSUME ReplicationInv, deletion # Idle
    PROVE  /\ deletion.entity \in deletions /\ deletion.entity \in Entities
           /\ deletion = [pc |-> deletion.pc, entity |-> deletion.entity]
           /\ deletion.pc \in {"empty", "unindex", "record"}
  <1>1. PICK e \in deletions, pc \in {"empty", "unindex", "record"} :
           deletion = [pc |-> pc, entity |-> e]
    BY DEF ReplicationInv, DeletionOK
  <1>2. deletion.pc = pc /\ deletion.entity = e
    BY <1>1
  <1> QED
    BY <1>1, <1>2 DEF ReplicationInv, DeletionOK

\* The entity that is emptied is indexed in full (DeletionOK), so it goes as a
\* whole.
LEMMA DeleteEmptyStep ==
    ASSUME ReplicationInv, DeleteEmpty
    PROVE  ReplicationInv' /\ DataStep /\ Grows
  <1> DEFINE e == deletion.entity
  <1>1. /\ deletions' = deletions /\ deletion.pc = "empty"
        /\ remote' = remote /\ cursor' = cursor /\ loop' = loop /\ made' = made
        /\ local' = EmptyEntity(local, e)
    BY DEF DeleteEmpty
  <1>2. e \in deletions /\ e \in Entities /\ deletion = [pc |-> deletion.pc, entity |-> e]
    BY <1>1, DeletionFacts DEF Idle
  <1>3. deletion' = [pc |-> "unindex", entity |-> e]
    BY <1>2 DEF DeleteEmpty
  <1> HIDE DEF e
  <1>4. /\ Keys(local) /\ DeletionOK(local, deletion, deletions)
        /\ deletions \subseteq Entities
        /\ made' \subseteq Cids /\ local.data \subseteq made'
    BY <1>1 DEF ReplicationInv, DeletionOK
  <1>5. /\ Keys(local') /\ local'.data = local.data \ ChangesOf(local, e)
        /\ local'.index = local.index
    BY <1>1, <1>4, EmptyKeepsKeys
  <1>6. local'.data = {c \in local.data : Blob[c].entity # e}
    BY <1>1, <1>4, <1>5, ChangesAreAll DEF e
  <1>7. DeletionOK(local', deletion', deletions')
    <2>1. \A c \in local'.data : \/ <<c, Blob[c].entity>> \in local'.index
                                 \/ Blob[c].entity \in deletions'
      BY <1>1, <1>4, <1>5, <1>6 DEF DeletionOK
    <2>2. deletion'.pc # "empty" /\ e \in deletions'
      BY <1>1, <1>2, <1>3
    <2> QED
      BY <1>1, <1>3, <1>4, <2>1, <2>2 DEF DeletionOK
  <1>8. ReplicationInv' /\ Grows
    BY <1>1, <1>2, <1>4, <1>5, <1>6, <1>7, LocalStep
  <1> QED
    BY <1>1, <1>2, <1>6, <1>8 DEF DataStep

\* The entity loses its index entries once its data is gone.
LEMMA DeleteUnindexStep ==
    ASSUME ReplicationInv, DeleteUnindex
    PROVE  ReplicationInv' /\ DataStep /\ Grows
  <1> DEFINE e == deletion.entity
  <1>1. /\ deletions' = deletions /\ deletion.pc = "unindex"
        /\ remote' = remote /\ cursor' = cursor /\ loop' = loop /\ made' = made
        /\ local' = UnindexEntity(local, e)
    BY DEF DeleteUnindex
  <1>2. e \in deletions /\ e \in Entities /\ deletion = [pc |-> deletion.pc, entity |-> e]
    BY <1>1, DeletionFacts DEF Idle
  <1>3. deletion' = [pc |-> "record", entity |-> e]
    BY <1>2 DEF DeleteUnindex
  <1> HIDE DEF e
  <1>4. /\ Keys(local) /\ DeletionOK(local, deletion, deletions)
        /\ deletions \subseteq Entities
        /\ made' \subseteq Cids /\ local.data \subseteq made'
    BY <1>1 DEF ReplicationInv, DeletionOK
  <1>5. /\ Keys(local') /\ local'.data = local.data
        /\ local'.index = {x \in local.index : x[2] # e}
    BY <1>1, <1>4, UnindexKeepsKeys
  <1>6. DeletionOK(local', deletion', deletions')
    <2>1. \A c \in local'.data : \/ <<c, Blob[c].entity>> \in local'.index
                                 \/ Blob[c].entity \in deletions'
      BY <1>1, <1>2, <1>4, <1>5 DEF DeletionOK
    <2>2. deletion'.pc # "empty" /\ e \in deletions'
      BY <1>1, <1>2, <1>3
    <2> QED
      BY <1>1, <1>3, <1>4, <2>1, <2>2 DEF DeletionOK
  <1>7. ReplicationInv' /\ Grows
    BY <1>1, <1>4, <1>5, <1>6, LocalStep
  <1> QED
    BY <1>1, <1>5, <1>7 DEF DataStep

\* The deletion ends, with its record or without.
LEMMA DeletionEnds ==
    ASSUME ReplicationInv, DeleteRecord \/ DeleteInterrupted
    PROVE  ReplicationInv' /\ DataStep /\ Grows
  <1>1. /\ deletions' = deletions /\ deletion' = Idle /\ deletion # Idle
        /\ remote' = remote /\ cursor' = cursor /\ loop' = loop /\ made' = made
        /\ local' = local \/ local' = MarkDeleted(local, deletion.entity)
    BY DEF DeleteRecord, DeleteInterrupted, Idle
  <1>2. /\ Keys(local) /\ DeletionOK(local, deletion, deletions)
        /\ made' \subseteq Cids /\ local.data \subseteq made'
        /\ deletion.entity \in Entities
    BY <1>1, DeletionFacts DEF ReplicationInv
  <1>3. Keys(local') /\ local'.data = local.data /\ local'.index = local.index
    BY <1>1, <1>2, MarkKeepsKeys
  <1>4. DeletionOK(local', deletion', deletions')
    BY <1>1, <1>2, <1>3 DEF DeletionOK, Idle
  <1>5. ReplicationInv' /\ Grows
    BY <1>1, <1>2, <1>3, <1>4, LocalStep
  <1> QED
    BY <1>1, <1>3, <1>5 DEF DataStep

\* UndeleteEntity writes no table that the invariant is about.
LEMMA UndeleteStep ==
    ASSUME ReplicationInv, NEW e \in Entities, UndeleteEntity(e)
    PROVE  ReplicationInv' /\ DataStep /\ Grows
  <1>1. /\ deletions' = deletions /\ deletion' = deletion
        /\ remote' = remote /\ cursor' = cursor /\ loop' = loop /\ made' = made
        /\ local' = UnmarkDeleted(local, e)
    BY DEF UndeleteEntity
  <1>2. /\ Keys(local) /\ DeletionOK(local, deletion, deletions)
        /\ made' \subseteq Cids /\ local.data \subseteq made'
    BY <1>1 DEF ReplicationInv
  <1>3. Keys(local') /\ local'.data = local.data /\ local'.index = local.index
    BY <1>1, <1>2, MarkKeepsKeys
  <1>4. DeletionOK(local', deletion', deletions')
    BY <1>1, <1>2, <1>3 DEF DeletionOK
  <1>5. ReplicationInv' /\ Grows
    BY <1>1, <1>2, <1>3, <1>4, LocalStep
  <1> QED
    BY <1>1, <1>3, <1>5 DEF DataStep

\* A round stays in order when the remote node gives out more ids.
LEMMA LoopOKLater ==
    ASSUME NEW p, NEW s \in Nat, NEW t \in Nat, s <= t, LoopOK(p, s)
    PROVE  LoopOK(p, t)
  <1>1. CASE FetchRound(p, s)
    <2>1. FetchRound(p, t)
      BY <1>1 DEF FetchRound
    <2> QED
      BY <2>1 DEF LoopOK
  <1>2. CASE ~ FetchRound(p, s)
    BY <1>2 DEF LoopOK
  <1> QED
    BY <1>1, <1>2

\* One loop takes a step.
LEMMA OneLoop ==
    ASSUME ReplicationInv, NEW l \in Loops, NEW p, loop' = [loop EXCEPT ![l] = p],
           NEW t \in Nat, remote.seq <= t, LoopOK(p, t)
    PROVE  /\ loop' = [k \in Loops |-> loop'[k]]
           /\ loop'[l] = p /\ \A k \in Loops : k # l => loop'[k] = loop[k]
           /\ \A k \in Loops : LoopOK(loop'[k], t)
  <1>1. remote.seq \in Nat
    BY DBFacts DEF ReplicationInv, Keys
  <1>2. loop = [k \in Loops |-> loop[k]]
    BY DEF ReplicationInv
  <1>3. loop' = [k \in Loops |-> IF k = l THEN p ELSE loop[k]]
    BY <1>2
  <1>4. loop'[l] = p /\ \A k \in Loops : k # l => loop'[k] = loop[k]
    BY <1>3
  <1>5. loop' = [k \in Loops |-> loop'[k]]
    BY <1>3
  <1>6. ASSUME NEW k \in Loops
        PROVE  LoopOK(loop'[k], t)
    <2>1. LoopOK(loop[k], t)
      BY <1>1, LoopOKLater DEF ReplicationInv
    <2> QED
      BY <1>4, <2>1
  <1> QED
    BY <1>4, <1>5, <1>6

\* A step of a loop that writes nothing but the cursor.
LEMMA LoopOnly ==
    ASSUME ReplicationInv, NEW l \in Loops, NEW p, loop' = [loop EXCEPT ![l] = p],
           LoopOK(p, remote.seq), cursor' \in Nat, cursor' <= remote.seq,
           local' = local, remote' = remote, made' = made,
           deletion' = deletion, deletions' = deletions
    PROVE  /\ ReplicationInv' /\ DataStep /\ Grows
           /\ loop'[l] = p /\ \A k \in Loops : k # l => loop'[k] = loop[k]
  <1>1. remote.seq \in Nat /\ remote.seq <= remote.seq
    <2>1. remote.seq \in Nat
      BY DBFacts DEF ReplicationInv, Keys
    <2> QED
      BY <2>1
  <1>2. /\ loop' = [k \in Loops |-> loop'[k]]
        /\ loop'[l] = p /\ \A k \in Loops : k # l => loop'[k] = loop[k]
        /\ \A k \in Loops : LoopOK(loop'[k], remote.seq)
    BY <1>1, OneLoop
  <1>3. ReplicationInv'
    BY <1>2 DEF ReplicationInv, Keys, DeletionOK, LoopOK, FetchRound, RemoteOK, Idle
  <1>4. Grows
    BY <1>1 DEF Grows
  <1> QED
    BY <1>2, <1>3, <1>4 DEF DataStep

\* A loop that is done with the blob at hand.
LEMMA AdvanceFields ==
    ASSUME NEW s \in Nat, NEW p, FetchRound(p, s), NEW c \in p.want, NEW n, n = Advance(p, c)
    PROVE  /\ FetchRound(n, s) /\ n.pc = p.pc /\ n.want = p.want \ {c}
           /\ n.last = p.cursors[c] /\ n.cursors = p.cursors
  <1>1. n = [pc |-> p.pc, at |-> p.at + 1, last |-> p.cursors[c], saved |-> p.saved,
             want |-> p.want \ {c}, cursors |-> p.cursors, seen |-> p.seen]
    BY DEF FetchRound, Advance
  <1>2. /\ n.pc = p.pc /\ n.want = p.want \ {c} /\ n.last = p.cursors[c]
        /\ n.cursors = p.cursors /\ n.at = p.at + 1 /\ n.saved = p.saved /\ n.seen = p.seen
    BY <1>1
  <1> QED
    BY <1>1, <1>2 DEF FetchRound

\* A loop whose cursor is to be saved, and one whose cursor was saved.
Saving(p) == [p EXCEPT !.pc = "save"]
Saved(p) == [p EXCEPT !.pc = "fetch", !.saved = p.last]

\* Neither changes what the loop still wants.
LEMMA SavingFields ==
    ASSUME NEW s \in Nat, NEW p, FetchRound(p, s), NEW n,
           \/ n = Saving(p)
           \/ n = Saved(p)
    PROVE  /\ FetchRound(n, s) /\ n.pc \in {"fetch", "save"} /\ n.want = p.want
           /\ n.last = p.last /\ n.cursors = p.cursors
  <1>1. CASE n = Saving(p)
    <2>1. n = [pc |-> "save", at |-> p.at, last |-> p.last, saved |-> p.saved,
               want |-> p.want, cursors |-> p.cursors, seen |-> p.seen]
      BY <1>1 DEF FetchRound, Saving
    <2>2. /\ n.pc = "save" /\ n.want = p.want /\ n.last = p.last /\ n.at = p.at
          /\ n.cursors = p.cursors /\ n.saved = p.saved /\ n.seen = p.seen
      BY <2>1
    <2> QED
      BY <2>1, <2>2 DEF FetchRound
  <1>2. CASE n = Saved(p)
    <2>1. n = [pc |-> "fetch", at |-> p.at, last |-> p.last, saved |-> p.last,
               want |-> p.want, cursors |-> p.cursors, seen |-> p.seen]
      BY <1>2 DEF FetchRound, Saved
    <2>2. /\ n.pc = "fetch" /\ n.want = p.want /\ n.last = p.last /\ n.at = p.at
          /\ n.cursors = p.cursors /\ n.saved = p.last /\ n.seen = p.seen
      BY <2>1
    <2> QED
      BY <2>1, <2>2 DEF FetchRound
  <1> QED
    BY <1>1, <1>2

\* A loop in the middle of fetching is a round that fetches.
LEMMA RoundHere ==
    ASSUME ReplicationInv, NEW l \in Loops, loop[l].pc \in {"fetch", "save"}
    PROVE  FetchRound(loop[l], remote.seq) /\ remote.seq \in Nat
  <1>1. remote.seq \in Nat
    BY DBFacts DEF ReplicationInv, Keys
  <1>2. LoopOK(loop[l], remote.seq)
    BY DEF ReplicationInv
  <1>3. loop[l] = Idle => loop[l].pc = "idle"
    BY DEF Idle
  <1>4. ASSUME NEW w, NEW q, loop[l] = [pc |-> "push", want |-> w, cursors |-> q]
        PROVE  loop[l].pc = "push"
    BY <1>4
  <1> QED
    BY <1>1, <1>2, <1>3, <1>4 DEF LoopOK

\* A round starts with what the remote node lists.
LEMMA StartStep ==
    ASSUME ReplicationInv, NEW l \in Loops, Start(l)
    PROVE  /\ ReplicationInv' /\ DataStep /\ Grows
           /\ \A k \in Loops : k # l => loop'[k] = loop[k]
  <1> DEFINE listed == ListBlobs(IF l = "site" THEN cursor ELSE 0)
             want == listed \ local.data
             cursors == [c \in want |-> remote.ids[c]]
             p == [pc |-> "fetch", at |-> 0, last |-> 0, saved |-> 0, want |-> want,
                   cursors |-> cursors, seen |-> listed]
  <1>1. /\ loop' = [loop EXCEPT ![l] = p] /\ local' = local /\ remote' = remote
        /\ made' = made /\ cursor' = cursor /\ deletion' = deletion
        /\ deletions' = deletions
    BY DEF Start
  <1>2. /\ remote.ids \in [Cids -> Nat] /\ remote.seq \in Nat /\ remote.data \subseteq Cids
        /\ \A c \in Cids : remote.ids[c] <= remote.seq
    BY DBFacts DEF ReplicationInv, Keys
  <1>3. want \subseteq Cids
    BY <1>2 DEF ListBlobs, Public
  <1> HIDE DEF want, listed
  <1>4. \A c \in want : cursors[c] \in Nat /\ cursors[c] <= remote.seq
    BY <1>2, <1>3
  <1> HIDE DEF cursors
  <1>5. /\ p.pc = "fetch" /\ p.at = 0 /\ p.last = 0 /\ p.saved = 0 /\ p.want = want
        /\ p.cursors = cursors /\ p.seen = listed
    OBVIOUS
  <1>6. FetchRound(p, remote.seq)
    <2>1. p.last \in Nat /\ p.last <= remote.seq
      BY <1>2, <1>5
    <2> QED
      BY <1>3, <1>4, <1>5, <2>1 DEF FetchRound
  <1> HIDE DEF p
  <1>7. LoopOK(p, remote.seq) /\ cursor' \in Nat /\ cursor' <= remote.seq
    BY <1>1, <1>6 DEF LoopOK, ReplicationInv
  <1> QED
    BY <1>1, <1>7, LoopOnly

\* What a fetched blob does to the loop and to the local node.
LEMMA FetchStep ==
    ASSUME ReplicationInv, NEW l \in Loops, NEW c \in Cids, Fetch(l, c)
    PROVE  /\ ReplicationInv' /\ DataStep /\ Grows
           /\ \A k \in Loops : k # l => loop'[k] = loop[k]
           /\ loop'[l].pc \in {"fetch", "save"} /\ loop'[l].want = loop[l].want \ {c}
           /\ loop'[l].last = loop[l].cursors[c] /\ loop'[l].cursors = loop[l].cursors
           /\ c \in local'.data
  <1> DEFINE p == loop[l]
             a == Advance(p, c)
             n == IF p.at % SaveEvery = 0 THEN [a EXCEPT !.pc = "save"] ELSE a
  <1>1. /\ p.pc = "fetch" /\ c \in p.want /\ c \in remote.data
        /\ CanSave(local, Blob[c]) /\ local' = Save(local, Blob[c])
        /\ loop' = [loop EXCEPT ![l] = n] /\ remote' = remote
        /\ made' = made /\ cursor' = cursor /\ deletion' = deletion
        /\ deletions' = deletions
    BY DEF Fetch, Fetching, AtHand
  <1>2. FetchRound(p, remote.seq) /\ remote.seq \in Nat
    BY <1>1, RoundHere
  <1> HIDE DEF p
  <1>3. /\ FetchRound(a, remote.seq) /\ a.pc = p.pc /\ a.want = p.want \ {c}
        /\ a.last = p.cursors[c] /\ a.cursors = p.cursors
    BY <1>1, <1>2, AdvanceFields
  <1> HIDE DEF a
  <1>4. /\ FetchRound(n, remote.seq) /\ n.pc \in {"fetch", "save"} /\ n.want = p.want \ {c}
        /\ n.last = p.cursors[c] /\ n.cursors = p.cursors
    <2>1. CASE p.at % SaveEvery = 0
      <3>1. n = Saving(a)
        BY <2>1 DEF Saving
      <3> HIDE DEF n
      <3>2. FetchRound(n, remote.seq) /\ n.pc \in {"fetch", "save"} /\ n.want = a.want
            /\ n.last = a.last /\ n.cursors = a.cursors
        BY <1>2, <1>3, <3>1, SavingFields
      <3> QED
        BY <1>3, <3>2
    <2>2. CASE p.at % SaveEvery # 0
      <3>1. n = a
        BY <2>2
      <3> HIDE DEF n
      <3> QED
        BY <1>1, <1>3, <3>1
    <2> QED
      BY <2>1, <2>2
  <1> HIDE DEF n
  <1>5. LoopOK(n, remote.seq) /\ remote.seq <= remote.seq
    BY <1>2, <1>4 DEF LoopOK
  <1>6. /\ loop' = [k \in Loops |-> loop'[k]]
        /\ loop'[l] = n /\ \A k \in Loops : k # l => loop'[k] = loop[k]
        /\ \A k \in Loops : LoopOK(loop'[k], remote.seq)
    BY <1>1, <1>2, <1>5, OneLoop
  <1>7. /\ Keys(local') /\ local'.data = local.data \cup {c}
        /\ DeletionOK(local', deletion, deletions)
        /\ c \notin local.data => Blob[c].deps \subseteq local.data
    <2>1. CASE c \in local.data
      <3>1. local' = local
        BY <1>1, <2>1, BlobFacts DEF Save
      <3> QED
        BY <2>1, <3>1 DEF ReplicationInv
    <2>2. CASE c \notin local.data
      <3>1. Keys(local) /\ local \in DB /\ DeletionOK(local, deletion, deletions)
        BY DEF ReplicationInv, Keys
      <3>2. Stores(local, local', c)
        BY <1>1, <2>2, <3>1, SaveStores
      <3>3. Keys(local')
        BY <3>1, <3>2, StoresKeepsKeys
      <3>4. /\ local'.data = local.data \cup {c}
            /\ local'.index = local.index \cup {<<c, Blob[c].entity>>}
        BY <3>2 DEF Stores
      <3>5. DeletionOK(local', deletion, deletions)
        BY <3>1, <3>4, StoresKeepsDeletion
      <3>6. Blob[c].deps \subseteq local.data
        BY <1>1, <2>2, BlobFacts DEF CanSave, Indexable
      <3> QED
        BY <3>3, <3>4, <3>5, <3>6
    <2> QED
      BY <2>1, <2>2
  <1>8. ReplicationInv'
    <2>1. local'.data \subseteq made'
      BY <1>1, <1>7 DEF ReplicationInv
    <2> QED
      BY <1>1, <1>6, <1>7, <2>1 DEF ReplicationInv
  <1>9. Grows
    BY <1>1, <1>2, <1>7 DEF Grows
  <1>10. DataStep
    <2>1. CASE c \in local.data
      BY <1>1, <1>7, <2>1 DEF DataStep
    <2>2. CASE c \notin local.data
      BY <1>1, <1>7, <2>2 DEF DataStep
    <2> QED
      BY <2>1, <2>2
  <1> QED
    BY <1>4, <1>6, <1>7, <1>8, <1>9, <1>10 DEF p

\* The peer loop skips the blob, the site loop ends its round.
LEMMA FetchFailsStep ==
    ASSUME ReplicationInv, NEW l \in Loops, NEW c \in Cids, FetchFails(l, c)
    PROVE  /\ ReplicationInv' /\ DataStep /\ Grows
           /\ \A k \in Loops : k # l => loop'[k] = loop[k]
           /\ l = "site" => loop'[l] = Idle
  <1> DEFINE p == loop[l]
             n == AfterFailure(l, p, c)
  <1>1. /\ p.pc = "fetch" /\ c \in p.want /\ local' = local
        /\ loop' = [loop EXCEPT ![l] = n] /\ remote' = remote
        /\ made' = made /\ cursor' = cursor /\ deletion' = deletion
        /\ deletions' = deletions
    BY DEF FetchFails, Fetching, AtHand
  <1>2. FetchRound(p, remote.seq) /\ remote.seq \in Nat
    BY <1>1, RoundHere
  <1> HIDE DEF p
  <1>3. FetchRound(Advance(p, c), remote.seq)
    BY <1>1, <1>2, AdvanceFields
  <1>4. LoopOK(n, remote.seq) /\ (l = "site" => n = Idle)
    BY <1>3 DEF LoopOK, AfterFailure
  <1> HIDE DEF n
  <1>5. cursor' \in Nat /\ cursor' <= remote.seq
    BY <1>1 DEF ReplicationInv
  <1>6. /\ ReplicationInv' /\ DataStep /\ Grows
        /\ loop'[l] = n /\ \A k \in Loops : k # l => loop'[k] = loop[k]
    BY <1>1, <1>4, <1>5, LoopOnly
  <1> QED
    BY <1>4, <1>6

\* The saved cursor is the id of a remote row.
LEMMA SaveCursorStep ==
    ASSUME ReplicationInv, NEW l \in Loops, SaveCursor(l)
    PROVE  /\ ReplicationInv' /\ DataStep /\ Grows
           /\ \A k \in Loops : k # l => loop'[k] = loop[k]
           /\ loop'[l].pc \in {"fetch", "save"} /\ loop'[l].want = loop[l].want
           /\ loop'[l].last = loop[l].last /\ loop'[l].cursors = loop[l].cursors
  <1> DEFINE p == loop[l]
             n == [p EXCEPT !.pc = "fetch", !.saved = p.last]
  <1>1. /\ p.pc = "save" /\ cursor' = p.last /\ local' = local
        /\ loop' = [loop EXCEPT ![l] = n] /\ remote' = remote
        /\ made' = made /\ deletion' = deletion /\ deletions' = deletions
    BY DEF SaveCursor
  <1>2. FetchRound(p, remote.seq) /\ remote.seq \in Nat
    BY <1>1, RoundHere
  <1> HIDE DEF p
  <1>3. n = Saved(p)
    BY DEF Saved
  <1> HIDE DEF n
  <1>4. /\ FetchRound(n, remote.seq) /\ n.pc \in {"fetch", "save"} /\ n.want = p.want
        /\ n.last = p.last /\ n.cursors = p.cursors
    BY <1>2, <1>3, SavingFields
  <1>5. LoopOK(n, remote.seq) /\ cursor' \in Nat /\ cursor' <= remote.seq
    BY <1>1, <1>2, <1>4 DEF LoopOK, FetchRound
  <1>6. /\ ReplicationInv' /\ DataStep /\ Grows
        /\ loop'[l] = n /\ \A k \in Loops : k # l => loop'[k] = loop[k]
    BY <1>1, <1>5, LoopOnly
  <1> QED
    BY <1>4, <1>6 DEF p

\* The cursor kept at the end of a round is the id of a remote row, or zero.
LEMMA FinishStep ==
    ASSUME ReplicationInv, NEW l \in Loops, Finish(l)
    PROVE  /\ ReplicationInv' /\ DataStep /\ Grows
           /\ \A k \in Loops : k # l => loop'[k] = loop[k]
           /\ loop'[l].pc \in {"idle", "pushing"}
  <1> DEFINE p == loop[l]
             n == IF l = "peer" THEN Idle ELSE [pc |-> "pushing", seen |-> p.seen]
  <1>1. /\ p.pc = "fetch" /\ local' = local
        /\ cursor' = IF p.saved # p.last THEN p.last ELSE cursor
        /\ loop' = [loop EXCEPT ![l] = n] /\ remote' = remote
        /\ made' = made /\ deletion' = deletion /\ deletions' = deletions
    BY DEF Finish
  <1>2. FetchRound(p, remote.seq) /\ remote.seq \in Nat
    BY <1>1, RoundHere
  <1> HIDE DEF p
  <1>3. LoopOK(n, remote.seq) /\ n.pc \in {"idle", "pushing"}
    BY DEF LoopOK, Idle
  <1> HIDE DEF n
  <1>4. cursor' \in Nat /\ cursor' <= remote.seq
    BY <1>1, <1>2 DEF FetchRound, ReplicationInv
  <1>5. /\ ReplicationInv' /\ DataStep /\ Grows
        /\ loop'[l] = n /\ \A k \in Loops : k # l => loop'[k] = loop[k]
    BY <1>1, <1>3, <1>4, LoopOnly
  <1> QED
    BY <1>3, <1>5

\* The push starts with blobs that the site does not have.
LEMMA PushStartStep ==
    ASSUME ReplicationInv, PushStart
    PROVE  /\ ReplicationInv' /\ DataStep /\ Grows
           /\ loop'["site"].pc = "push"
  <1> DEFINE push == {c \in Related(local, Group) \ loop["site"].seen : c \notin remote.data}
             cursors == [c \in push |-> PushOrder(c)]
             n == [pc |-> "push", want |-> push, cursors |-> cursors]
  <1>1. /\ "site" \in Loops /\ local' = local /\ cursor' = cursor
        /\ loop' = [loop EXCEPT !["site"] = n] /\ remote' = remote
        /\ made' = made /\ deletion' = deletion /\ deletions' = deletions
    BY DEF PushStart
  <1> HIDE DEF push, cursors
  <1>2. LoopOK(n, remote.seq) /\ n.pc = "push"
    BY DEF LoopOK
  <1> HIDE DEF n
  <1>3. cursor' \in Nat /\ cursor' <= remote.seq
    BY <1>1 DEF ReplicationInv
  <1> QED
    BY <1>1, <1>2, <1>3, LoopOnly

\* A round that ends leaves nothing behind.
LEMMA StopStep ==
    ASSUME ReplicationInv, NEW l \in Loops, Stop(l)
    PROVE  /\ ReplicationInv' /\ DataStep /\ Grows
           /\ loop'[l] = Idle /\ \A k \in Loops : k # l => loop'[k] = loop[k]
  <1>1. /\ local' = local /\ cursor' = cursor
        /\ loop' = [loop EXCEPT ![l] = Idle] /\ remote' = remote
        /\ made' = made /\ deletion' = deletion /\ deletions' = deletions
    BY DEF Stop
  <1>2. LoopOK(Idle, remote.seq)
    BY DEF LoopOK
  <1>3. cursor' \in Nat /\ cursor' <= remote.seq
    BY <1>1 DEF ReplicationInv
  <1> QED
    BY <1>1, <1>2, <1>3, LoopOnly

\* What a new blob does to the remote node.
LEMMA RemoteStores ==
    ASSUME ReplicationInv, NEW c \in Cids, c \notin remote.data,
           CanSave(remote, Blob[c]), remote' = Save(remote, Blob[c])
    PROVE  /\ Keys(remote') /\ RemoteOK(remote')
           /\ remote'.data = remote.data \cup {c} /\ Blob[c].deps \subseteq remote.data
           /\ remote'.seq \in Nat /\ remote.seq \in Nat /\ remote.seq <= remote'.seq
           /\ \A k \in remote.data : remote'.ids[k] = remote.ids[k]
           /\ remote'.ids[c] > remote.seq
  <1>1. Keys(remote) /\ remote \in DB /\ RemoteOK(remote)
    BY DEF ReplicationInv, Keys
  <1>2. Stores(remote, remote', c)
    BY <1>1, SaveStores
  <1>3. Keys(remote') /\ remote' \in DB
    BY <1>1, <1>2, StoresKeepsKeys DEF Stores
  <1>4. Blob[c].deps \subseteq remote.data
    BY BlobFacts DEF CanSave, Indexable
  <1>5. /\ remote'.seq \in Nat /\ remote.seq \in Nat /\ remote.data \subseteq Cids
        /\ remote.ids \in [Cids -> Nat]
    BY <1>1, <1>3, DBFacts
  <1>6. remote.seq <= remote'.seq /\ remote'.ids[c] > remote.seq
    BY <1>2, <1>5 DEF Stores
  <1>7. \A k \in remote.data : remote'.ids[k] = remote.ids[k] /\ remote.ids[k] <= remote.seq
                               /\ remote.ids[k] \in Nat
    BY <1>1, <1>2, <1>5 DEF Stores, Keys
  <1>8. remote'.data = remote.data \cup {c} /\ remote'.drafts = {}
    BY <1>1, <1>2 DEF Stores, RemoteOK
  <1>9. RemoteOK(remote')
    <2>1. remote'.ids[c] = remote.seq + 1
      BY <1>2 DEF Stores
    <2>2. \A k \in remote.data : remote'.ids[k] # remote'.ids[c]
      BY <1>5, <1>7, <2>1
    <2> QED
      BY <1>1, <1>7, <1>8, <2>2 DEF RemoteOK
  <1> QED
    BY <1>3, <1>4, <1>5, <1>6, <1>7, <1>8, <1>9

\* A new blob on the remote node, with whatever its loops do.
LEMMA RemoteStep ==
    ASSUME ReplicationInv, NEW c \in Cids, c \notin remote.data,
           CanSave(remote, Blob[c]), remote' = Save(remote, Blob[c]),
           local' = local, cursor' = cursor, deletion' = deletion, deletions' = deletions,
           made' = made \cup {c},
           loop' = [k \in Loops |-> loop'[k]],
           \A k \in Loops : LoopOK(loop'[k], remote'.seq)
    PROVE  ReplicationInv' /\ Grows
  <1>1. /\ Keys(remote') /\ RemoteOK(remote')
        /\ remote'.data = remote.data \cup {c} /\ Blob[c].deps \subseteq remote.data
        /\ remote'.seq \in Nat /\ remote.seq \in Nat /\ remote.seq <= remote'.seq
        /\ \A k \in remote.data : remote'.ids[k] = remote.ids[k]
        /\ remote'.ids[c] > remote.seq
    BY RemoteStores
  <1>2. Grows
    BY <1>1 DEF Grows
  <1>3. /\ made' \subseteq Cids /\ local'.data \subseteq made' /\ remote'.data \subseteq made'
        /\ cursor' \in Nat /\ cursor' <= remote'.seq
        /\ Keys(local') /\ DeletionOK(local', deletion', deletions')
    BY <1>1 DEF ReplicationInv
  <1> QED
    BY <1>1, <1>2, <1>3 DEF ReplicationInv

\* A blob of somebody else reaches the remote node.
LEMMA RemoteSaveStep ==
    ASSUME ReplicationInv, NEW c \in Cids, RemoteSave(c)
    PROVE  ReplicationInv' /\ DataStep /\ Grows /\ loop' = loop
  <1>1. /\ c \notin made /\ c \notin remote.data /\ CanSave(remote, Blob[c])
        /\ remote' = Save(remote, Blob[c]) /\ made' = made \cup {c} /\ loop' = loop
        /\ local' = local /\ cursor' = cursor /\ deletion' = deletion
        /\ deletions' = deletions
    BY DEF RemoteSave, ReplicationInv
  <1>2. /\ remote'.data = remote.data \cup {c} /\ Blob[c].deps \subseteq remote.data
        /\ remote'.seq \in Nat /\ remote.seq \in Nat /\ remote.seq <= remote'.seq
    BY <1>1, RemoteStores
  <1>3. /\ \A k \in Loops : LoopOK(loop[k], remote'.seq)
        /\ loop = [k \in Loops |-> loop[k]]
    BY <1>2, LoopOKLater DEF ReplicationInv
  <1>4. /\ \A k \in Loops : LoopOK(loop'[k], remote'.seq)
        /\ loop' = [k \in Loops |-> loop'[k]]
    BY <1>1, <1>3
  <1>5. ReplicationInv' /\ Grows
    BY <1>1, <1>4, RemoteStep
  <1>6. DataStep
    BY <1>1, <1>2 DEF DataStep
  <1> QED
    BY <1>1, <1>5, <1>6

\* A pushed blob gets a new id on the site, above every cursor.
LEMMA PushStep ==
    ASSUME ReplicationInv, NEW c \in Cids, Push(c)
    PROVE  /\ ReplicationInv' /\ DataStep /\ Grows
           /\ loop'["site"].pc = "push"
  <1> DEFINE p == loop["site"]
             n == [p EXCEPT !.want = @ \ {c}]
  <1>1. /\ "site" \in Loops /\ p.pc = "push" /\ c \in local.data
        /\ CanSave(remote, Blob[c]) /\ remote' = Save(remote, Blob[c])
        /\ loop' = [loop EXCEPT !["site"] = n]
        /\ local' = local /\ cursor' = cursor /\ deletion' = deletion
        /\ deletions' = deletions /\ made' = made
    BY DEF Push
  <1>2. made = made \cup {c}
    BY <1>1 DEF ReplicationInv
  <1>3. p = [pc |-> "push", want |-> p.want, cursors |-> p.cursors]
    <2>1. LoopOK(p, remote.seq)
      BY <1>1 DEF ReplicationInv
    <2>2. p # Idle /\ ~ FetchRound(p, remote.seq)
      BY <1>1 DEF Idle, FetchRound
    <2> QED
      BY <1>1, <2>1, <2>2 DEF LoopOK
  <1> HIDE DEF p
  <1>4. n = [pc |-> "push", want |-> p.want \ {c}, cursors |-> p.cursors]
    BY <1>3
  <1> HIDE DEF n
  <1>5. n.pc = "push" /\ \A s \in Nat : LoopOK(n, s)
    <2>1. n.pc = "push" /\ n.want = p.want \ {c} /\ n.cursors = p.cursors
      BY <1>4
    <2> QED
      BY <1>4, <2>1 DEF LoopOK
  <1>6. CASE c \in remote.data
    <2>1. remote' = remote
      BY <1>1, <1>6, BlobFacts DEF Save
    <2>2. cursor' \in Nat /\ cursor' <= remote.seq /\ remote.seq \in Nat
      BY <1>1, DBFacts DEF ReplicationInv, Keys
    <2>3. LoopOK(n, remote.seq)
      BY <1>5, <2>2
    <2> QED
      BY <1>1, <1>5, <2>1, <2>2, <2>3, LoopOnly
  <1>7. CASE c \notin remote.data
    <2>1. /\ remote'.data = remote.data \cup {c} /\ Blob[c].deps \subseteq remote.data
          /\ remote'.seq \in Nat /\ remote.seq \in Nat /\ remote.seq <= remote'.seq
      BY <1>1, <1>7, RemoteStores
    <2>2. LoopOK(n, remote'.seq)
      BY <1>5, <2>1
    <2>3. /\ loop' = [k \in Loops |-> loop'[k]] /\ loop'["site"] = n
          /\ \A k \in Loops : LoopOK(loop'[k], remote'.seq)
      BY <1>1, <2>1, <2>2, OneLoop
    <2>4. ReplicationInv' /\ Grows
      BY <1>1, <1>2, <1>7, <2>3, RemoteStep
    <2>5. DataStep
      BY <1>1, <2>1 DEF DataStep
    <2> QED
      BY <1>5, <2>3, <2>4, <2>5
  <1> QED
    BY <1>6, <1>7

\* Every step keeps the invariant, does to the data what replicas do, and
\* takes nothing back.
LEMMA NextStep ==
    ASSUME ReplicationInv, [Next]_vars
    PROVE  ReplicationInv' /\ DataStep /\ Grows
  <1>1. CASE UNCHANGED vars
    <2>1. /\ local' = local /\ remote' = remote /\ made' = made /\ cursor' = cursor
          /\ loop' = loop /\ deletion' = deletion /\ deletions' = deletions
      BY <1>1 DEF vars
    <2>2. /\ Keys(local') /\ made' \subseteq Cids /\ local'.data \subseteq made'
          /\ DeletionOK(local', deletion', deletions')
      BY <2>1 DEF ReplicationInv
    <2>3. ReplicationInv' /\ Grows
      BY <2>1, <2>2, LocalStep
    <2> QED
      BY <2>1, <2>3 DEF DataStep
  <1>2. CASE User
    BY <1>2, LocalSaveStep, LocalPublishStep, DeleteBeginStep, DeleteEmptyStep,
       DeleteUnindexStep, DeletionEnds, UndeleteStep DEF User
  <1>3. CASE Next /\ ~ User
    BY <1>3, RemoteSaveStep, StartStep, FetchStep, FetchFailsStep, SaveCursorStep,
       FinishStep, PushStartStep, PushStep, StopStep DEF Next
  <1> QED
    BY <1>1, <1>2, <1>3

\* The invariant holds in every reachable state.
LEMMA ReplicationInvariant == Spec => []ReplicationInv
  <1>1. ReplicationInv /\ [Next]_vars => ReplicationInv'
    BY NextStep
  <1> QED
    BY InitReplicationInv, <1>1, PTL DEF Spec

-------------------------------------------------------------------------------
\* The foreign keys of both databases hold whatever the order of syncing,
\* saving, publishing, deleting and undeleting, ids are never above those
\* given out, and the cursor is no higher than the ids of the remote node.
THEOREM ReplicationTypes == Spec => []TypeOK
  <1>1. ASSUME ReplicationInv
        PROVE  TypeOK
    <2>1. ASSUME NEW db, Keys(db), db.data \subseteq made
          PROVE  /\ db.ids \in [Cids -> 0..db.seq]
                 /\ db.data \subseteq {c \in made : db.ids[c] # 0}
                 /\ \A l \in db.links : db.ids[l[1]] # 0 /\ db.ids[l[2]] # 0
                 /\ \A x \in db.index : db.ids[x[1]] # 0 /\ x[2] \in db.resources
                 /\ \A d \in db.drafts : db.ids[d[2]] # 0 /\ d[1] \in db.resources
      <3>1. db.ids \in [Cids -> Nat] /\ db.seq \in Nat
        BY <2>1, DBFacts DEF Keys
      <3>2. db.ids \in [Cids -> 0..db.seq]
        BY <2>1, <3>1 DEF Keys
      <3> QED
        BY <2>1, <3>2 DEF Keys
    <2>2. cursor \in 0..remote.seq
      BY <1>1, DBFacts DEF ReplicationInv, Keys
    <2>3. DOMAIN loop = Loops
      BY <1>1 DEF ReplicationInv
    <2> QED
      BY <1>1, <2>1, <2>2, <2>3 DEF TypeOK, ReplicationInv
  <1> QED
    BY ReplicationInvariant, <1>1, PTL

\* A step of the data is a step of the abstract replicas, or stutters.
LEMMA DataStepRefines ==
    ASSUME ReplicationInv, DataStep
    PROVE  [Replicas!Next]_(Replicas!vars)
  <1> DEFINE R == {"local", "remote"}
             have == [r \in R |-> IF r = "local" THEN local.data ELSE remote.data]
             have2 == [r \in R |-> IF r = "local" THEN local'.data ELSE remote'.data]
  <1>1. have["local"] = local.data /\ have["remote"] = remote.data
    OBVIOUS
  <1>2. local.data \subseteq Cids /\ remote.data \subseteq Cids
    BY DBFacts DEF ReplicationInv, Keys
  <1>3. CASE local'.data = local.data /\ remote'.data = remote.data /\ made' = made
    BY <1>3 DEF Replicas!vars
  <1>4. ASSUME NEW c \in Cids, c \notin made, made' = made \cup {c},
               Blob[c].deps \subseteq local.data,
               local'.data = local.data \cup {c}, remote'.data = remote.data
        PROVE  Replicas!Next
    <2>1. have2 = [have EXCEPT !["local"] = @ \cup {c}]
      BY <1>4
    <2>2. Replicas!Create("local", c)
      BY <1>1, <1>4, <2>1 DEF Replicas!Create, Replicas!Take
    <2> QED
      BY <2>2 DEF Replicas!Next
  <1>5. ASSUME NEW c \in Cids, c \notin made, made' = made \cup {c},
               Blob[c].deps \subseteq remote.data,
               remote'.data = remote.data \cup {c}, local'.data = local.data
        PROVE  Replicas!Next
    <2>1. have2 = [have EXCEPT !["remote"] = @ \cup {c}]
      BY <1>5
    <2>2. Replicas!Create("remote", c)
      BY <1>1, <1>5, <2>1 DEF Replicas!Create, Replicas!Take
    <2> QED
      BY <2>2 DEF Replicas!Next
  <1>6. ASSUME NEW c \in remote.data, Blob[c].deps \subseteq local.data, made' = made,
               local'.data = local.data \cup {c}, remote'.data = remote.data
        PROVE  Replicas!Next
    <2>1. have2 = [have EXCEPT !["local"] = @ \cup {c}]
      BY <1>6
    <2>2. Replicas!Copy("local", "remote", c)
      BY <1>1, <1>6, <2>1 DEF Replicas!Copy, Replicas!Take
    <2> QED
      BY <1>2, <2>2 DEF Replicas!Next
  <1>7. ASSUME NEW c \in local.data, Blob[c].deps \subseteq remote.data, made' = made,
               remote'.data = remote.data \cup {c}, local'.data = local.data
        PROVE  Replicas!Next
    <2>1. have2 = [have EXCEPT !["remote"] = @ \cup {c}]
      BY <1>7
    <2>2. Replicas!Copy("remote", "local", c)
      BY <1>1, <1>7, <2>1 DEF Replicas!Copy, Replicas!Take
    <2> QED
      BY <1>2, <2>2 DEF Replicas!Next
  <1>8. ASSUME NEW e \in Entities, local'.data = {c \in local.data : Blob[c].entity # e},
               remote'.data = remote.data, made' = made
        PROVE  Replicas!Next
    <2>1. have2 = [have EXCEPT !["local"] = {c \in @ : Blob[c].entity # e}]
      BY <1>8
    <2>2. Replicas!Drop("local", e)
      BY <1>8, <2>1 DEF Replicas!Drop
    <2> QED
      BY <2>2 DEF Replicas!Next
  <1> QED
    BY <1>3, <1>4, <1>5, <1>6, <1>7, <1>8 DEF DataStep

\* The two nodes implement causal replicas (CausalReplicas): through every
\* interleaving of loops, handlers and interruptions, blobs are only made or
\* copied, never before what they depend on, and entities go as a whole.
THEOREM NodesAreCausalReplicas == Spec => Causal
  <1>1. Init => Replicas!Init
    <2> SUFFICES ASSUME Init
                 PROVE  Replicas!Init
      OBVIOUS
    <2>1. local.data = {} /\ remote.data = {} /\ made = {}
      BY EmptyFields DEF Init
    <2> QED
      BY <2>1 DEF Replicas!Init
  <1>2. ReplicationInv /\ [Next]_vars => [Replicas!Next]_(Replicas!vars)
    BY NextStep, DataStepRefines
  <1> QED
    BY ReplicationInvariant, <1>1, <1>2, PTL DEF Spec, Causal, Replicas!Spec

-------------------------------------------------------------------------------
(* The cursor of the site loop.                                            *)

\* A blob is on the node with database d, or its entity was deleted there.
Here(d, dels, c) == c \in d.data \/ Blob[c].entity \in dels

\* What the remote node r has at or below the cursor cur is here.
Behind(r, d, dels, cur) == \A c \in r.data : r.ids[c] <= cur => Here(d, dels, c)

\* A round p wants blobs above its last one, under their ids, and whatever
\* the remote node has and the round does not want is here or came later.
Covers(r, d, dels, p) ==
    /\ \A c \in p.want :
          c \in r.data /\ p.cursors[c] = r.ids[c] /\ p.last < p.cursors[c]
    /\ \A c \in r.data :
          \/ c \in p.want
          \/ Here(d, dels, c)
          \/ r.ids[c] > p.last /\ \A k \in p.want : r.ids[c] > p.cursors[k]

SiteInv ==
    /\ Behind(remote, local, deletions, cursor)
    /\ "site" \in Loops /\ loop["site"].pc \in {"fetch", "save"}
          => Covers(remote, local, deletions, loop["site"])

\* The ids of remote rows are numbers, and those of rows with data not zero.
LEMMA RemoteIds ==
    ASSUME ReplicationInv
    PROVE  /\ remote.seq \in Nat /\ remote.data \subseteq Cids
           /\ \A c \in remote.data : /\ remote.ids[c] \in Nat /\ remote.ids[c] # 0
                                     /\ remote.ids[c] <= remote.seq
  BY DBFacts DEF ReplicationInv, Keys

\* Nothing is uncovered by what others do.
LEMMA BehindStays ==
    ASSUME ReplicationInv, ReplicationInv', Grows,
           Behind(remote, local, deletions, cursor)
    PROVE  Behind(remote', local', deletions', cursor)
  <1> SUFFICES ASSUME NEW c \in remote'.data, remote'.ids[c] <= cursor
               PROVE  Here(local', deletions', c)
    BY DEF Behind
  <1>1. remote.seq \in Nat /\ cursor \in Nat /\ cursor <= remote.seq
    BY RemoteIds DEF ReplicationInv
  <1>2. remote'.ids[c] \in Nat
    <2>1. remote'.ids \in [Cids -> Nat] /\ remote'.data \subseteq Cids
      BY DBFacts DEF ReplicationInv, Keys
    <2> QED
      BY <2>1
  <1>3. c \in remote.data /\ remote'.ids[c] = remote.ids[c]
    BY <1>1, <1>2 DEF Grows
  <1>4. Here(local, deletions, c)
    BY <1>3 DEF Behind
  <1> QED
    BY <1>4 DEF Here, Grows

\* A round stays covered while more blobs get here.
LEMMA CoversStays ==
    ASSUME ReplicationInv, ReplicationInv', Grows, NEW p, FetchRound(p, remote.seq),
           Covers(remote, local, deletions, p)
    PROVE  Covers(remote', local', deletions', p)
  <1>1. /\ remote.seq \in Nat /\ p.last \in Nat /\ p.last <= remote.seq
        /\ \A k \in p.want : p.cursors[k] \in Nat /\ p.cursors[k] <= remote.seq
    BY RemoteIds DEF FetchRound
  <1>2. \A c \in remote'.data : remote'.ids[c] \in Nat
    <2>1. remote'.ids \in [Cids -> Nat] /\ remote'.data \subseteq Cids
      BY DBFacts DEF ReplicationInv, Keys
    <2> QED
      BY <2>1
  <1>3. \A c \in p.want :
           c \in remote'.data /\ p.cursors[c] = remote'.ids[c] /\ p.last < p.cursors[c]
    BY DEF Covers, Grows
  <1>4. ASSUME NEW c \in remote'.data
        PROVE  \/ c \in p.want
               \/ Here(local', deletions', c)
               \/ remote'.ids[c] > p.last /\ \A k \in p.want : remote'.ids[c] > p.cursors[k]
    <2>1. CASE c \in remote.data
      <3>1. remote'.ids[c] = remote.ids[c]
        BY <2>1 DEF Grows
      <3>2. Here(local, deletions, c) => Here(local', deletions', c)
        BY DEF Here, Grows
      <3> QED
        BY <2>1, <3>1, <3>2 DEF Covers
    <2>2. CASE c \notin remote.data
      <3>1. remote'.ids[c] > remote.seq
        BY <2>2 DEF Grows
      <3> QED
        BY <1>1, <1>2, <3>1
    <2> QED
      BY <2>1, <2>2
  <1> QED
    BY <1>3, <1>4 DEF Covers

\* A round that is past a blob has it here, so its last cursor may be saved.
LEMMA CoversBehind ==
    ASSUME ReplicationInv, NEW p, FetchRound(p, remote.seq),
           Covers(remote, local, deletions, p)
    PROVE  Behind(remote, local, deletions, p.last)
  <1> SUFFICES ASSUME NEW c \in remote.data, remote.ids[c] <= p.last
               PROVE  Here(local, deletions, c)
    BY DEF Behind
  <1>1. remote.ids[c] \in Nat /\ p.last \in Nat
    BY RemoteIds DEF FetchRound
  <1>2. c \notin p.want
    BY <1>1 DEF Covers
  <1> QED
    BY <1>1, <1>2 DEF Covers

\* A step that leaves the cursor and the site loop alone, or ends its
\* fetching.
LEMMA SiteUndisturbed ==
    ASSUME ReplicationInv, ReplicationInv', Grows, SiteInv, cursor' = cursor,
           "site" \in Loops => \/ loop'["site"] = loop["site"]
                               \/ loop'["site"].pc \notin {"fetch", "save"}
    PROVE  SiteInv'
  <1>1. Behind(remote', local', deletions', cursor')
    BY BehindStays DEF SiteInv
  <1>2. ASSUME "site" \in Loops, loop'["site"].pc \in {"fetch", "save"}
        PROVE  Covers(remote', local', deletions', loop'["site"])
    <2>1. loop'["site"] = loop["site"] /\ loop["site"].pc \in {"fetch", "save"}
      BY <1>2
    <2>2. FetchRound(loop["site"], remote.seq)
      BY <1>2, <2>1, RoundHere
    <2>3. Covers(remote, local, deletions, loop["site"])
      BY <1>2, <2>1 DEF SiteInv
    <2>4. Covers(remote', local', deletions', loop["site"])
      BY <2>2, <2>3, CoversStays
    <2> QED
      BY <2>1, <2>4
  <1> QED
    BY <1>1, <1>2 DEF SiteInv

\* A round starts at the cursor, or from the beginning.
LEMMA StartCovers ==
    ASSUME ReplicationInv, SiteInv, "site" \in Loops, Start("site")
    PROVE  SiteInv'
  <1> DEFINE listed == ListBlobs(cursor)
             want == listed \ local.data
             p == [pc |-> "fetch", at |-> 0, last |-> 0, saved |-> 0, want |-> want,
                   cursors |-> [c \in want |-> remote.ids[c]], seen |-> listed]
  <1>1. /\ local' = local /\ remote' = remote /\ cursor' = cursor
        /\ deletions' = deletions /\ loop' = [loop EXCEPT !["site"] = p]
    BY DEF Start
  <1>2. loop'["site"] = p
    <2>1. loop = [l \in Loops |-> loop[l]]
      BY DEF ReplicationInv
    <2> HIDE DEF p
    <2> QED
      BY <1>1, <2>1
  <1>3. Public(remote) = remote.data
    BY DEF ReplicationInv, RemoteOK, Public, IsDraft
  <1>4. \A c \in remote.data : remote.ids[c] \in Nat /\ remote.ids[c] # 0
    BY RemoteIds
  <1>5. cursor \in Nat
    BY DEF ReplicationInv
  <1>6. listed \subseteq remote.data
    BY <1>3 DEF ListBlobs
  <1>7. ASSUME NEW c \in remote.data, c \notin listed
        PROVE  Here(local, deletions, c)
    <2>1. remote.ids[c] <= cursor
      BY <1>3, <1>4, <1>5, <1>7 DEF ListBlobs
    <2> QED
      BY <2>1 DEF SiteInv, Behind
  <1> HIDE DEF listed
  <1>8. Covers(remote, local, deletions, p)
    <2>1. /\ p.want = want /\ p.last = 0 /\ p.cursors = [c \in want |-> remote.ids[c]]
      OBVIOUS
    <2>2. want \subseteq remote.data
      BY <1>6
    <2>3. \A c \in want : p.cursors[c] = remote.ids[c] /\ 0 < remote.ids[c]
      BY <1>4, <2>1, <2>2
    <2>4. \A c \in remote.data : c \in want \/ Here(local, deletions, c)
      BY <1>7 DEF Here
    <2> HIDE DEF p, want
    <2> QED
      BY <2>1, <2>2, <2>3, <2>4 DEF Covers
  <1>9. Behind(remote, local, deletions, cursor)
    BY DEF SiteInv
  <1> HIDE DEF p
  <1> QED
    BY <1>1, <1>2, <1>8, <1>9 DEF SiteInv

\* The blob at hand is the next one of the list: what is below it is here.
LEMMA FetchCovers ==
    ASSUME ReplicationInv, SiteInv, "site" \in Loops, NEW c \in Cids, Fetch("site", c)
    PROVE  SiteInv'
  <1> DEFINE p == loop["site"]
             n == loop'["site"]
  <1>1. /\ ReplicationInv' /\ Grows /\ n.want = p.want \ {c}
        /\ n.last = p.cursors[c] /\ n.cursors = p.cursors /\ c \in local'.data
    BY FetchStep
  <1>2. /\ remote' = remote /\ cursor' = cursor /\ deletions' = deletions
        /\ p.pc = "fetch" /\ c \in p.want
        /\ \A k \in p.want : p.cursors[c] <= p.cursors[k]
    BY DEF Fetch, Fetching, AtHand
  <1>3. FetchRound(p, remote.seq)
    BY <1>2, RoundHere
  <1>4. Covers(remote, local, deletions, p)
    BY <1>2 DEF SiteInv
  <1>5. Covers(remote, local', deletions, p)
    <2>1. Covers(remote', local', deletions', p)
      BY <1>1, <1>3, <1>4, CoversStays
    <2> QED
      BY <1>2, <2>1
  <1>6. Behind(remote', local', deletions', cursor')
    <2>1. Behind(remote', local', deletions', cursor)
      BY <1>1, BehindStays DEF SiteInv
    <2> QED
      BY <1>2, <2>1
  <1> HIDE DEF p, n
  <1>7. \A k \in p.want : /\ k \in remote.data /\ p.cursors[k] = remote.ids[k]
                          /\ p.cursors[k] \in Nat
    BY <1>3, <1>4 DEF Covers, FetchRound
  <1>8. \A k \in n.want :
           k \in remote.data /\ n.cursors[k] = remote.ids[k] /\ n.last < n.cursors[k]
    <2> SUFFICES ASSUME NEW k \in n.want
                 PROVE  /\ k \in remote.data /\ n.cursors[k] = remote.ids[k]
                        /\ n.last < n.cursors[k]
      OBVIOUS
    <2>1. k \in p.want /\ k # c
      BY <1>1
    <2>2. p.cursors[k] # p.cursors[c]
      BY <1>2, <1>7, <2>1 DEF ReplicationInv, RemoteOK
    <2>3. p.cursors[c] <= p.cursors[k] /\ p.cursors[c] \in Nat /\ p.cursors[k] \in Nat
      BY <1>2, <1>7, <2>1
    <2> QED
      BY <1>1, <1>7, <2>1, <2>2, <2>3
  <1>9. ASSUME NEW k \in remote.data
        PROVE  \/ k \in n.want
               \/ Here(local', deletions, k)
               \/ remote.ids[k] > n.last /\ \A j \in n.want : remote.ids[k] > n.cursors[j]
    <2>1. CASE k = c
      BY <1>1, <2>1 DEF Here
    <2>2. CASE k # c
      BY <1>1, <1>2, <1>5, <2>2 DEF Covers
    <2> QED
      BY <2>1, <2>2
  <1>10. Covers(remote, local', deletions, n)
    BY <1>8, <1>9 DEF Covers
  <1>11. Covers(remote', local', deletions', n)
    BY <1>2, <1>10
  <1> QED
    BY <1>6, <1>11 DEF SiteInv, n

\* The cursor saved inside the loop is the last blob's, and all below it is here.
LEMMA SaveCursorCovers ==
    ASSUME ReplicationInv, SiteInv, "site" \in Loops, SaveCursor("site")
    PROVE  SiteInv'
  <1> DEFINE p == loop["site"]
             n == loop'["site"]
  <1>1. n.want = p.want /\ n.last = p.last /\ n.cursors = p.cursors
    BY SaveCursorStep
  <1>2. /\ local' = local /\ remote' = remote /\ deletions' = deletions
        /\ cursor' = p.last /\ p.pc = "save"
    BY DEF SaveCursor
  <1>3. FetchRound(p, remote.seq) /\ Covers(remote, local, deletions, p)
    BY <1>2, RoundHere DEF SiteInv
  <1>4. Behind(remote, local, deletions, p.last)
    BY <1>3, CoversBehind
  <1> HIDE DEF p, n
  <1>5. Covers(remote, local, deletions, n)
    BY <1>1, <1>3 DEF Covers
  <1> QED
    BY <1>2, <1>4, <1>5 DEF SiteInv, n

\* At the end of a round nothing is wanted, so all up to the last blob is here.
LEMMA FinishCovers ==
    ASSUME ReplicationInv, SiteInv, "site" \in Loops, Finish("site")
    PROVE  SiteInv'
  <1> DEFINE p == loop["site"]
  <1>1. loop'["site"].pc \in {"idle", "pushing"}
    BY FinishStep
  <1>2. /\ local' = local /\ remote' = remote /\ deletions' = deletions
        /\ p.pc = "fetch" /\ cursor' = IF p.saved # p.last THEN p.last ELSE cursor
    BY DEF Finish
  <1>3. FetchRound(p, remote.seq) /\ Covers(remote, local, deletions, p)
    BY <1>2, RoundHere DEF SiteInv
  <1>4. Behind(remote, local, deletions, p.last)
    BY <1>3, CoversBehind
  <1> HIDE DEF p
  <1>5. Behind(remote, local, deletions, cursor')
    BY <1>2, <1>4 DEF SiteInv
  <1> QED
    BY <1>1, <1>2, <1>5 DEF SiteInv

\* Without the peer loop every step keeps the cursor behind what is here.
LEMMA SiteStep ==
    ASSUME "peer" \notin Loops, ReplicationInv, SiteInv, [Next]_vars
    PROVE  SiteInv'
  <1>1. ReplicationInv' /\ Grows
    BY NextStep
  <1>2. \A l \in Loops : l = "site"
    BY ReplicationConstants
  <1>3. CASE User \/ UNCHANGED vars \/ \E c \in Cids : RemoteSave(c)
    <2>1. cursor' = cursor /\ loop' = loop
      BY <1>3 DEF vars, User, RemoteSave, LocalSave, LocalPublish, DeleteBegin, DeleteEmpty,
         DeleteUnindex, DeleteRecord, DeleteInterrupted, UndeleteEntity
    <2> QED
      BY <1>1, <2>1, SiteUndisturbed
  <1>4. ASSUME NEW l \in Loops, Start(l)
        PROVE  SiteInv'
    BY <1>2, <1>4, StartCovers
  <1>5. ASSUME NEW l \in Loops, NEW c \in Cids, Fetch(l, c)
        PROVE  SiteInv'
    BY <1>2, <1>5, FetchCovers
  <1>6. ASSUME NEW l \in Loops, NEW c \in Cids, FetchFails(l, c)
        PROVE  SiteInv'
    <2>1. l = "site" /\ loop'["site"] = Idle /\ cursor' = cursor
      BY <1>2, <1>6, FetchFailsStep DEF FetchFails
    <2>2. loop'["site"].pc \notin {"fetch", "save"}
      BY <2>1 DEF Idle
    <2> QED
      BY <1>1, <2>1, <2>2, SiteUndisturbed
  <1>7. ASSUME NEW l \in Loops, SaveCursor(l)
        PROVE  SiteInv'
    BY <1>2, <1>7, SaveCursorCovers
  <1>8. ASSUME NEW l \in Loops, Finish(l)
        PROVE  SiteInv'
    BY <1>2, <1>8, FinishCovers
  <1>9. CASE PushStart \/ \E c \in Cids : Push(c)
    <2>1. cursor' = cursor /\ loop'["site"].pc = "push"
      BY <1>9, PushStartStep, PushStep DEF PushStart, Push
    <2> QED
      BY <1>1, <2>1, SiteUndisturbed
  <1>10. ASSUME NEW l \in Loops, Stop(l)
         PROVE  SiteInv'
    <2>1. l = "site" /\ loop'["site"] = Idle /\ cursor' = cursor
      BY <1>2, <1>10, StopStep DEF Stop
    <2>2. loop'["site"].pc \notin {"fetch", "save"}
      BY <2>1 DEF Idle
    <2> QED
      BY <1>1, <2>1, <2>2, SiteUndisturbed
  <1> QED
    BY <1>3, <1>4, <1>5, <1>6, <1>7, <1>8, <1>9, <1>10 DEF Next

\* The cursor that syncGroupSite keeps is never ahead of what it stored,
\* whatever fails, however often the cursor is saved, and while users make
\* and delete on both sides: asking only for what is new misses nothing.
\* The peer loop, which skips blobs that it cannot store and moves the same
\* cursor, is excluded.
THEOREM SiteCursorCovers ==
    ASSUME "peer" \notin Loops
    PROVE  Spec => []CursorCovers
  <1>1. Init => SiteInv
    <2> SUFFICES ASSUME Init
                 PROVE  SiteInv
      OBVIOUS
    <2>1. remote.data = {} /\ ("site" \in Loops => loop["site"].pc = "idle")
      BY EmptyFields DEF Init, Idle
    <2> QED
      BY <2>1 DEF SiteInv, Behind
  <1>2. ReplicationInv /\ SiteInv /\ [Next]_vars => SiteInv'
    BY SiteStep
  <1>3. ASSUME SiteInv
        PROVE  CursorCovers
    BY <1>3 DEF SiteInv, Behind, Here, CursorCovers, Public
  <1> QED
    BY ReplicationInvariant, <1>1, <1>2, <1>3, PTL DEF Spec
===============================================================================
