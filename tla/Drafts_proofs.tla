---------------------------- MODULE Drafts_proofs ----------------------------
(***************************************************************************)
(* The Drafts API and the peer that lists its blobs, for any numbers of    *)
(* documents, changes and concurrent requests.                             *)
(***************************************************************************)
EXTENDS Drafts, FiniteSetTheorems, SequenceTheorems, TLAPS

\* The type of changes.
Change == [cid : Cids, entity : Entities, deps : SUBSET Cids, refs : {{}}, mentions : {{}},
           content : BOOLEAN, merge : BOOLEAN, ancestors : SUBSET Cids]

-----------------------------------------------------------------------------
(* What the transactions of Storage do to the tables.                      *)
LEMMA EmptyFields == EmptyDB \in DB /\ EmptyDB.data = {} /\ EmptyDB.drafts = {} /\ EmptyDB.seq = 0
BY DEF EmptyDB, DB

\* Databases that differ in some tables only.
WithRows(d, ids, data, seq) == [d EXCEPT !.ids = ids, !.data = data, !.seq = seq]
WithData(d, data) == [d EXCEPT !.data = data]
WithDrafts(d, drafts) == [d EXCEPT !.drafts = drafts]
WithIndex(d, index, links, mentions, resources) ==
    [d EXCEPT !.index = index, !.links = links, !.mentions = mentions, !.resources = resources]

LEMMA RowFields ==
    ASSUME NEW d \in DB, NEW ids \in [Cids -> Nat], NEW data \in SUBSET Cids, NEW seq \in Nat
    PROVE  /\ WithRows(d, ids, data, seq) \in DB
           /\ WithRows(d, ids, data, seq).ids = ids /\ WithRows(d, ids, data, seq).data = data
           /\ WithRows(d, ids, data, seq).seq = seq /\ WithRows(d, ids, data, seq).links = d.links
           /\ WithRows(d, ids, data, seq).drafts = d.drafts
BY DEF DB, WithRows

LEMMA DataFields ==
    ASSUME NEW d \in DB, NEW data \in SUBSET Cids
    PROVE  /\ WithData(d, data) \in DB /\ WithData(d, data).ids = d.ids /\ WithData(d, data).data = data
           /\ WithData(d, data).seq = d.seq /\ WithData(d, data).links = d.links
           /\ WithData(d, data).drafts = d.drafts
BY DEF DB, WithData

LEMMA DraftRowFields ==
    ASSUME NEW d \in DB, NEW drafts \in SUBSET (Entities \X Cids)
    PROVE  /\ WithDrafts(d, drafts) \in DB /\ WithDrafts(d, drafts).ids = d.ids
           /\ WithDrafts(d, drafts).data = d.data /\ WithDrafts(d, drafts).seq = d.seq
           /\ WithDrafts(d, drafts).links = d.links /\ WithDrafts(d, drafts).drafts = drafts
BY DEF DB, WithDrafts

LEMMA IndexRowFields ==
    ASSUME NEW d \in DB, NEW index \in SUBSET (Cids \X Entities), NEW links \in SUBSET (Cids \X Cids),
           NEW mentions \in SUBSET (Cids \X Entities), NEW resources \in SUBSET Entities,
           NEW n, n = WithIndex(d, index, links, mentions, resources)
    PROVE  n \in DB /\ n.ids = d.ids /\ n.data = d.data /\ n.seq = d.seq /\ n.links = links /\ n.drafts = d.drafts
BY DEF DB, WithIndex

LEMMA TouchFields ==
    ASSUME NEW d \in DB, NEW c \in Cids
    PROVE  /\ Touch(d, c) \in DB
           /\ Touch(d, c).data = d.data /\ Touch(d, c).links = d.links /\ Touch(d, c).drafts = d.drafts
           /\ Touch(d, c).seq = d.seq + 1 /\ Touch(d, c).ids = [d.ids EXCEPT ![c] = d.seq + 1]
<1>1. [d.ids EXCEPT ![c] = d.seq + 1] \in [Cids -> Nat] /\ d.seq + 1 \in Nat
    BY DEF DB
<1>. QED  BY <1>1 DEF Touch, DB

\* The id that putBlock gives to a blob without data.
NewId(d, c, inID) == IF d.ids[c] # 0 \/ inID = 0 THEN d.seq + 1 ELSE inID

LEMMA PutFields ==
    ASSUME NEW d \in DB, NEW c \in Cids, NEW inID \in Nat
    PROVE  /\ PutBlock(d, c, inID) \in DB
           /\ PutBlock(d, c, inID).data = d.data \cup {c}
           /\ PutBlock(d, c, inID).links = d.links /\ PutBlock(d, c, inID).drafts = d.drafts
           /\ PutBlock(d, c, inID).ids = [d.ids EXCEPT ![c] = NewId(d, c, inID)]
           /\ PutBlock(d, c, inID).seq = IF NewId(d, c, inID) > d.seq THEN NewId(d, c, inID) ELSE d.seq
<1>1. CASE d.ids[c] # 0
  <2>1. PutBlock(d, c, inID) = [Touch(d, c) EXCEPT !.data = @ \cup {c}] /\ NewId(d, c, inID) = d.seq + 1
      BY <1>1 DEF PutBlock, NewId
  <2>2. d.data \cup {c} \in SUBSET Cids
      BY DEF DB
  <2>3. PutBlock(d, c, inID) = WithData(Touch(d, c), d.data \cup {c})
      BY <2>1, TouchFields DEF WithData
  <2>4. /\ PutBlock(d, c, inID) \in DB /\ PutBlock(d, c, inID).data = d.data \cup {c}
        /\ PutBlock(d, c, inID).links = d.links /\ PutBlock(d, c, inID).drafts = d.drafts
        /\ PutBlock(d, c, inID).ids = [d.ids EXCEPT ![c] = d.seq + 1]
        /\ PutBlock(d, c, inID).seq = d.seq + 1
      BY <2>2, <2>3, TouchFields, DataFields
  <2>. QED  BY <2>1, <2>4 DEF DB
<1>2. CASE d.ids[c] = 0
  <2>. DEFINE id == NewId(d, c, inID)
              top == IF id > d.seq THEN id ELSE d.seq
              ids2 == [d.ids EXCEPT ![c] = id]
  <2>1. PutBlock(d, c, inID) = WithRows(d, ids2, d.data \cup {c}, top)
      BY <1>2 DEF WithRows, PutBlock, NewId, DB
  <2>2. id \in Nat /\ top \in Nat
      BY DEF NewId, DB
  <2>3. ids2 \in [Cids -> Nat]
      BY <2>2 DEF DB
  <2>5. d.data \cup {c} \in SUBSET Cids
      BY DEF DB
  <2>. HIDE DEF ids2, top
  <2>4. /\ PutBlock(d, c, inID) \in DB /\ PutBlock(d, c, inID).data = d.data \cup {c}
        /\ PutBlock(d, c, inID).links = d.links /\ PutBlock(d, c, inID).drafts = d.drafts
        /\ PutBlock(d, c, inID).ids = ids2 /\ PutBlock(d, c, inID).seq = top
      BY <2>1, <2>2, <2>3, <2>5, RowFields
  <2>. QED  BY <2>4 DEF ids2, top
<1>. QED  BY <1>1, <1>2 DEF DB

LEMMA DeleteFields ==
    ASSUME NEW d \in DB, NEW S
    PROVE  /\ Delete(d, S) \in DB
           /\ Delete(d, S).data = d.data \ S
           /\ Delete(d, S).links = {l \in d.links : l[1] \notin S}
           /\ Delete(d, S).drafts = {x \in d.drafts : x[2] \notin S}
           /\ Delete(d, S).seq = d.seq
           /\ Delete(d, S).ids = [c \in Cids |-> IF c \in S THEN 0 ELSE d.ids[c]]
BY DEF Delete, DB

\* Nothing that a change depends on is missing, so no placeholder is made.
LEMMA IndexFields ==
    ASSUME NEW d \in DB, NEW b \in Change, \A c \in b.deps : d.ids[c] # 0
    PROVE  /\ Index(d, b) \in DB
           /\ Index(d, b).data = d.data /\ Index(d, b).drafts = d.drafts
           /\ Index(d, b).links = d.links \cup {<<b.cid, t>> : t \in b.deps}
           /\ Index(d, b).ids = d.ids /\ Index(d, b).seq = d.seq
<1>. DEFINE n == EnsureBlobs(d, b.deps \cup b.refs)
            new == {c \in b.deps \cup b.refs : d.ids[c] = 0}
<1>1. new = {}
    BY DEF Change
<1>2. Cardinality(new) = 0
    BY <1>1, FS_EmptySet
<1>3. n = [d EXCEPT !.ids = d.ids, !.seq = d.seq]
  <2>1. n = [d EXCEPT !.ids = [c \in Cids |->
                 IF c \in new THEN d.ids[c] ELSE d.ids[c]], !.seq = @ + Cardinality(new)]
      BY <1>1 DEF EnsureBlobs
  <2>2. [c \in Cids |-> IF c \in new THEN d.ids[c] ELSE d.ids[c]] = d.ids
      BY DEF DB
  <2>3. d.seq + Cardinality(new) = d.seq
      BY <1>2 DEF DB
  <2>. HIDE DEF new, n
  <2>. QED  BY <2>1, <2>2, <2>3 DEF DB
<1>4. n = d
    BY <1>3 DEF DB
<1>. HIDE DEF n, new
<1>5. b.refs = {} /\ b.mentions = {} /\ b.cid \in Cids /\ b.entity \in Entities /\ b.deps \subseteq Cids
    BY DEF Change
<1>6. Index(d, b) = WithIndex(d, d.index \cup {<<b.cid, b.entity>>}, d.links \cup {<<b.cid, t>> : t \in b.deps},
                              d.mentions \cup {<<b.cid, e>> : e \in b.mentions}, d.resources \cup {b.entity} \cup b.mentions)
  <2>1. b.deps \cup b.refs = b.deps
      BY <1>5
  <2>. QED  BY <1>4, <2>1 DEF Index, n, WithIndex
<1>7. /\ {<<b.cid, b.entity>>} \subseteq Cids \X Entities
      /\ {<<b.cid, t>> : t \in b.deps} \subseteq Cids \X Cids
      /\ {<<b.cid, e>> : e \in b.mentions} \subseteq Cids \X Entities
    BY <1>5
<1>8. /\ d.index \cup {<<b.cid, b.entity>>} \in SUBSET (Cids \X Entities)
      /\ d.links \cup {<<b.cid, t>> : t \in b.deps} \in SUBSET (Cids \X Cids)
      /\ d.mentions \cup {<<b.cid, e>> : e \in b.mentions} \in SUBSET (Cids \X Entities)
      /\ d.resources \cup {b.entity} \cup b.mentions \in SUBSET Entities
    BY <1>5, <1>7 DEF DB
<1>. QED  BY <1>6, <1>8, IndexRowFields

-----------------------------------------------------------------------------
(* The invariant of the database d, when the changes m have been made.     *)

\* A row has data, and its id was given out.
RowsOK(d, m) ==
    /\ d.data \subseteq 1..Len(m)
    /\ \A c \in Cids : d.ids[c] <= d.seq /\ (d.ids[c] # 0 <=> c \in d.data)

\* Changes are numbered, and no change depends on a draft.
MadeOK(d, m) ==
    \A c \in 1..Len(m) :
        m[c].cid = c /\ m[c].deps \subseteq 1..Len(m) /\ \A k \in m[c].deps : ~ IsDraft(d, k)

\* What a stored change depends on is stored, is linked to it, and is older.
StoredOK(d, m) ==
    \A c \in d.data : \A k \in m[c].deps :
        k \in d.data /\ <<c, k>> \in d.links /\ (m[k].merge \/ d.ids[k] < d.ids[c])

StoreInv(d, m) ==
    /\ d \in DB
    /\ m \in Seq(Change)
    /\ RowsOK(d, m)
    /\ MadeOK(d, m)
    /\ \A c \in Cids : IsDraft(d, c) => c \in d.data
    /\ StoredOK(d, m)

\* What the peer knows: nothing public is hidden below its cursor.
PeerInv(d, pub, cur, lst) ==
    /\ cur \in Nat /\ cur <= d.seq
    /\ Public(d) \subseteq pub
    /\ lst \subseteq pub
    /\ \A c \in Public(d) : d.ids[c] <= cur => c \in lst

\* What is public after a step either was public under the same id, or is
\* newer than every id given out before.
Moves(d, n, pub) ==
    /\ n \in DB /\ n.seq >= d.seq
    /\ \A c \in Public(n) : \/ c \in Public(d) /\ n.ids[c] = d.ids[c]
                            \/ c \in pub /\ n.ids[c] > d.seq

LEMMA PeerKeeps ==
    ASSUME NEW d \in DB, NEW n \in DB, NEW pub, NEW pub2, NEW cur, NEW lst,
           PeerInv(d, pub, cur, lst), pub \subseteq pub2, Moves(d, n, pub2)
    PROVE  PeerInv(n, pub2, cur, lst)
<1>1. d.seq \in Nat /\ n.seq \in Nat
    BY DEF DB
<1>2. Public(n) \subseteq pub2
    BY DEF PeerInv, Moves
<1>3. ASSUME NEW c \in Public(n), n.ids[c] <= cur  PROVE c \in lst
  <2>1. n.ids[c] \in Nat
      BY DEF DB, Public
  <2>2. ~ (n.ids[c] > d.seq)
      BY <1>1, <1>3, <2>1 DEF PeerInv
  <2>. QED  BY <1>3, <2>2 DEF PeerInv, Moves
<1>. QED  BY <1>1, <1>2, <1>3 DEF PeerInv, Moves

-----------------------------------------------------------------------------
(* The transactions keep it.                                               *)
LEMMA DeleteKeeps ==
    ASSUME NEW d, NEW m, StoreInv(d, m), NEW S, CanDelete(d, S)
    PROVE  /\ StoreInv(Delete(d, S), m)
           /\ \A c \in Public(Delete(d, S)) : c \in Public(d) /\ Delete(d, S).ids[c] = d.ids[c]
<1>. DEFINE n == Delete(d, S)
<1>1. d \in DB /\ m \in Seq(Change)
    BY DEF StoreInv
<1>2. /\ n \in DB /\ n.data = d.data \ S /\ n.links = {l \in d.links : l[1] \notin S}
      /\ n.drafts = {x \in d.drafts : x[2] \notin S} /\ n.seq = d.seq
      /\ n.ids = [c \in Cids |-> IF c \in S THEN 0 ELSE d.ids[c]]
    BY <1>1, DeleteFields
<1>. HIDE DEF n
<1>3. \A c \in Cids : IsDraft(n, c) <=> IsDraft(d, c) /\ c \notin S
    BY <1>1, <1>2 DEF IsDraft
<1>4. RowsOK(n, m)
    BY <1>1, <1>2 DEF RowsOK, StoreInv, DB
<1>5. \A c \in 1..Len(m) : \A k \in m[c].deps : k \in Cids
  <2>1. \A c \in 1..Len(m) : m[c] \in Change
      BY <1>1, ElementOfSeq
  <2>. QED  BY <2>1 DEF Change
<1>6. MadeOK(n, m)
    BY <1>3, <1>5 DEF MadeOK, StoreInv
<1>7. ASSUME NEW c \in n.data, NEW k \in m[c].deps
      PROVE  k \in n.data /\ <<c, k>> \in n.links /\ (m[k].merge \/ n.ids[k] < n.ids[c])
  <2>1. c \in d.data /\ c \notin S /\ c \in Cids /\ k \in d.data /\ k \in Cids /\ <<c, k>> \in d.links
      BY <1>1, <1>2 DEF StoreInv, StoredOK, DB
  <2>2. k \notin S
      BY <2>1 DEF CanDelete
  <2>3. m[k].merge \/ d.ids[k] < d.ids[c]
      BY <2>1 DEF StoreInv, StoredOK
  <2>. QED  BY <1>2, <2>1, <2>2, <2>3
<1>8. \A c \in Cids : IsDraft(n, c) => c \in n.data
    BY <1>2, <1>3 DEF StoreInv
<1>9. StoreInv(n, m)
    BY <1>1, <1>2, <1>4, <1>6, <1>7, <1>8 DEF StoreInv, StoredOK
<1>10. \A c \in Public(n) : c \in Public(d) /\ n.ids[c] = d.ids[c]
    BY <1>1, <1>2, <1>3 DEF Public, DB
<1>. QED  BY <1>9, <1>10 DEF n

\* A row moves to the end of the list: a merge, or a change that nothing
\* depends on.
LEMMA TouchKeeps ==
    ASSUME NEW d, NEW m, StoreInv(d, m), NEW c \in d.data,
           m[c].merge \/ \A k \in 1..Len(m) : c \notin m[k].deps
    PROVE  /\ StoreInv(Touch(d, c), m)
           /\ \A k \in Public(Touch(d, c)) :
                 k \in Public(d) /\ (Touch(d, c).ids[k] = d.ids[k] \/ Touch(d, c).ids[k] > d.seq)
<1>. DEFINE n == Touch(d, c)
<1>1. d \in DB /\ m \in Seq(Change) /\ c \in Cids
    BY DEF StoreInv, DB
<1>2. /\ n \in DB /\ n.data = d.data /\ n.links = d.links /\ n.drafts = d.drafts
      /\ n.seq = d.seq + 1 /\ n.ids = [d.ids EXCEPT ![c] = d.seq + 1]
    BY <1>1, TouchFields
<1>. HIDE DEF n
<1>3. \A k \in Cids : IsDraft(n, k) <=> IsDraft(d, k)
    BY <1>2 DEF IsDraft
<1>4. d.ids \in [Cids -> Nat] /\ d.seq \in Nat /\ d.data \subseteq Cids
    BY <1>1 DEF DB
<1>5. RowsOK(n, m)
    BY <1>1, <1>2, <1>4 DEF RowsOK, StoreInv
<1>6. MadeOK(n, m)
    BY <1>2 DEF MadeOK, StoreInv, IsDraft
<1>7. ASSUME NEW x \in n.data, NEW k \in m[x].deps
      PROVE  k \in n.data /\ <<x, k>> \in n.links /\ (m[k].merge \/ n.ids[k] < n.ids[x])
  <2>1. x \in d.data /\ k \in d.data /\ <<x, k>> \in d.links /\ (m[k].merge \/ d.ids[k] < d.ids[x])
      BY <1>2 DEF StoreInv, StoredOK
  <2>2. x \in 1..Len(m)
      BY <2>1 DEF StoreInv, RowsOK
  <2>3. d.ids[k] <= d.seq
      BY <1>4, <2>1 DEF StoreInv, RowsOK
  <2>4. CASE k = c
      BY <1>2, <2>1, <2>2, <2>4
  <2>5. CASE k # c
      BY <1>2, <1>4, <2>1, <2>3, <2>5
  <2>. QED  BY <2>4, <2>5
<1>8. StoreInv(n, m)
    BY <1>1, <1>2, <1>3, <1>5, <1>6, <1>7 DEF StoreInv, StoredOK
<1>9. \A k \in Public(n) : k \in Public(d) /\ (n.ids[k] = d.ids[k] \/ n.ids[k] > d.seq)
    BY <1>2, <1>3, <1>4 DEF Public
<1>. QED  BY <1>8, <1>9 DEF n

\* A new change is stored, under the next id or under the id of the draft
\* that it replaces.
LEMMA AddKeeps ==
    ASSUME NEW d, NEW m, StoreInv(d, m), NEW b \in Change, b.cid = Len(m) + 1,
           b.deps \subseteq d.data, \A k \in b.deps : ~ IsDraft(d, k),
           NEW inID \in Nat, inID <= d.seq,
           inID # 0 => \A k \in b.deps : m[k].merge \/ d.ids[k] < inID,
           NEW n, n = Index(PutBlock(d, b.cid, inID), b)
    PROVE  /\ StoreInv(n, Append(m, b))
           /\ n.drafts = d.drafts /\ n.data = d.data \cup {b.cid} /\ n.seq >= d.seq
           /\ \A k \in d.data : n.ids[k] = d.ids[k]
           /\ inID = 0 => n.ids[b.cid] > d.seq
           /\ \A k \in 1..Len(Append(m, b)) : b.cid \notin Append(m, b)[k].deps
<1>. DEFINE c == b.cid
            p == PutBlock(d, c, inID)
            id == NewId(d, c, inID)
            m2 == Append(m, b)
<1>1. d \in DB /\ m \in Seq(Change) /\ c \in Cids /\ Len(m) \in Nat
    BY DEF StoreInv, Change
<1>2. d.ids \in [Cids -> Nat] /\ d.seq \in Nat /\ d.data \subseteq Cids
    BY <1>1 DEF DB
<1>3. c \notin d.data /\ d.ids[c] = 0
    BY <1>1, <1>2 DEF StoreInv, RowsOK
<1>4. id = (IF inID = 0 THEN d.seq + 1 ELSE inID) /\ id \in Nat \ {0}
    BY <1>2, <1>3 DEF NewId
<1>5. /\ p \in DB /\ p.data = d.data \cup {c} /\ p.links = d.links /\ p.drafts = d.drafts
      /\ p.ids = [d.ids EXCEPT ![c] = id]
      /\ p.seq = IF id > d.seq THEN id ELSE d.seq
    BY <1>1, PutFields
<1>. HIDE DEF p, id
<1>6. \A k \in b.deps : p.ids[k] # 0
    BY <1>2, <1>3, <1>4, <1>5 DEF StoreInv, RowsOK
<1>7. /\ n \in DB /\ n.data = d.data \cup {c} /\ n.drafts = d.drafts
      /\ n.links = d.links \cup {<<c, t>> : t \in b.deps}
      /\ n.ids = [d.ids EXCEPT ![c] = id] /\ n.seq = IF id > d.seq THEN id ELSE d.seq
    BY <1>5, <1>6, IndexFields DEF p
<1>8. m2 \in Seq(Change) /\ Len(m2) = Len(m) + 1 /\ m2[c] = b /\ \A k \in 1..Len(m) : m2[k] = m[k]
    BY <1>1
<1>. HIDE DEF m2, c
<1>9. 1..Len(m2) = 1..Len(m) \cup {c} /\ c \notin 1..Len(m)
    BY <1>1, <1>8 DEF c
<1>10. \A k \in Cids : IsDraft(n, k) <=> IsDraft(d, k)
    BY <1>7 DEF IsDraft
<1>11. RowsOK(n, m2)
    BY <1>1, <1>2, <1>3, <1>4, <1>7, <1>9 DEF RowsOK, StoreInv
<1>12. \A k \in 1..Len(m2) : m2[k].deps \subseteq 1..Len(m)
    BY <1>8, <1>9 DEF StoreInv, MadeOK, RowsOK, c
<1>13. MadeOK(n, m2)
  <2>. SUFFICES ASSUME NEW k \in 1..Len(m2)
                PROVE  m2[k].cid = k /\ m2[k].deps \subseteq 1..Len(m2) /\ \A x \in m2[k].deps : ~ IsDraft(n, x)
      BY DEF MadeOK
  <2>1. CASE k = c
      BY <2>1, <1>7, <1>8, <1>9, <1>12 DEF IsDraft, c
  <2>2. CASE k \in 1..Len(m)
    <3>1. m2[k] = m[k] /\ m[k].cid = k /\ \A x \in m[k].deps : ~ IsDraft(d, x)
        BY <2>2, <1>8 DEF StoreInv, MadeOK
    <3>. QED  BY <3>1, <1>7, <1>9, <1>12 DEF IsDraft
  <2>. QED  BY <2>1, <2>2, <1>9
<1>14. ASSUME NEW x \in n.data, NEW k \in m2[x].deps
       PROVE  k \in n.data /\ <<x, k>> \in n.links /\ (m2[k].merge \/ n.ids[k] < n.ids[x])
  <2>1. CASE x = c
    <3>1. k \in b.deps /\ k \in d.data /\ k \in 1..Len(m) /\ k # c /\ k \in Cids /\ m2[k] = m[k]
        BY <1>2, <1>3, <1>8, <2>1 DEF StoreInv, RowsOK
    <3>2. d.ids[k] <= d.seq
        BY <3>1 DEF StoreInv, RowsOK
    <3>3. m[k].merge \/ d.ids[k] < id
        BY <1>2, <1>4, <3>1, <3>2
    <3>. QED  BY <1>1, <1>2, <1>7, <2>1, <3>1, <3>3
  <2>2. CASE x # c
    <3>1. x \in d.data /\ x \in 1..Len(m) /\ m2[x] = m[x]
        BY <1>7, <1>8, <2>2 DEF StoreInv, RowsOK
    <3>2. k \in d.data /\ <<x, k>> \in d.links /\ (m[k].merge \/ d.ids[k] < d.ids[x])
        BY <3>1 DEF StoreInv, StoredOK
    <3>3. k \in 1..Len(m) /\ k # c /\ m2[k] = m[k]
        BY <3>2, <1>8, <1>9 DEF StoreInv, RowsOK
    <3>. QED  BY <1>2, <1>7, <2>2, <3>1, <3>2, <3>3
  <2>. QED  BY <2>1, <2>2
<1>15. StoreInv(n, m2)
    BY <1>7, <1>8, <1>10, <1>11, <1>13, <1>14 DEF StoreInv, StoredOK
<1>16. \A k \in 1..Len(m2) : c \notin m2[k].deps
    BY <1>9, <1>12
<1>17. n.seq >= d.seq /\ (\A k \in d.data : n.ids[k] = d.ids[k]) /\ (inID = 0 => n.ids[c] > d.seq)
    BY <1>1, <1>2, <1>3, <1>4, <1>7
<1>. QED  BY <1>7, <1>15, <1>16, <1>17 DEF c, m2

AddDraft(d, e, c) == [d EXCEPT !.drafts = @ \cup {<<e, c>>}]
DropDraft(d, e, c) == [d EXCEPT !.drafts = @ \ {<<e, c>>}]

\* A row of the table drafts is added for a change that nothing depends on.
LEMMA DraftRowKeeps ==
    ASSUME NEW d, NEW m, StoreInv(d, m), NEW e \in Entities, NEW c \in d.data,
           \A k \in 1..Len(m) : c \notin m[k].deps,
           NEW n, n = AddDraft(d, e, c)
    PROVE  /\ StoreInv(n, m)
           /\ n.ids = d.ids /\ n.seq = d.seq /\ n.data = d.data
           /\ \A k : IsDraft(n, k) <=> IsDraft(d, k) \/ k = c
           /\ Public(n) \subseteq Public(d) \ {c}
<1>1. d \in DB /\ m \in Seq(Change) /\ c \in Cids
    BY DEF StoreInv, DB
<1>2. d.drafts \cup {<<e, c>>} \in SUBSET (Entities \X Cids)
    BY <1>1 DEF DB
<1>4. /\ n \in DB /\ n.ids = d.ids /\ n.data = d.data /\ n.seq = d.seq /\ n.links = d.links
      /\ n.drafts = d.drafts \cup {<<e, c>>}
  <2>1. n = WithDrafts(d, d.drafts \cup {<<e, c>>})
      BY DEF AddDraft, WithDrafts
  <2>. QED  BY <1>1, <1>2, <2>1, DraftRowFields
<1>5. \A k : IsDraft(n, k) <=> IsDraft(d, k) \/ k = c
    BY <1>4 DEF IsDraft
<1>6. RowsOK(n, m) /\ StoredOK(n, m)
    BY <1>4 DEF StoreInv, RowsOK, StoredOK
<1>7. MadeOK(n, m)
    BY <1>5 DEF StoreInv, MadeOK
<1>8. StoreInv(n, m)
    BY <1>1, <1>4, <1>5, <1>6, <1>7 DEF StoreInv
<1>. QED  BY <1>4, <1>5, <1>8 DEF Public

\* A row of the table drafts is removed.
LEMMA UndraftKeeps ==
    ASSUME NEW d, NEW m, StoreInv(d, m), NEW e, NEW c,
           NEW n, n = DropDraft(d, e, c)
    PROVE  /\ StoreInv(n, m)
           /\ n.ids = d.ids /\ n.seq = d.seq /\ n.data = d.data
           /\ \A k : IsDraft(n, k) => IsDraft(d, k)
           /\ Public(n) \subseteq Public(d) \cup {c}
<1>1. d \in DB /\ m \in Seq(Change)
    BY DEF StoreInv
<1>2. d.drafts \ {<<e, c>>} \in SUBSET (Entities \X Cids)
    BY <1>1 DEF DB
<1>4. /\ n \in DB /\ n.ids = d.ids /\ n.data = d.data /\ n.seq = d.seq /\ n.links = d.links
      /\ n.drafts = d.drafts \ {<<e, c>>}
  <2>1. n = WithDrafts(d, d.drafts \ {<<e, c>>})
      BY DEF DropDraft, WithDrafts
  <2>. QED  BY <1>1, <1>2, <2>1, DraftRowFields
<1>5. \A k : (IsDraft(n, k) => IsDraft(d, k)) /\ (IsDraft(d, k) => IsDraft(n, k) \/ k = c)
    BY <1>4 DEF IsDraft
<1>6. RowsOK(n, m) /\ StoredOK(n, m)
    BY <1>4 DEF StoreInv, RowsOK, StoredOK
<1>7. MadeOK(n, m)
    BY <1>5 DEF StoreInv, MadeOK
<1>8. StoreInv(n, m)
    BY <1>1, <1>4, <1>5, <1>6, <1>7 DEF StoreInv
<1>. QED  BY <1>4, <1>5, <1>8 DEF Public

-----------------------------------------------------------------------------
(* The transactions as steps: from the database d and the changes m to the *)
(* database n and the changes m2, making public at most what is in pub2.   *)
Extends(m, m2) == Len(m) <= Len(m2) /\ \A k \in 1..Len(m) : m2[k] = m[k]

Step(d, m, pub, n, m2, pub2) ==
    /\ StoreInv(n, m2)
    /\ pub \subseteq pub2
    /\ Moves(d, n, pub2)
    /\ Extends(m, m2)
    /\ \A k \in 1..Len(m) : IsDraft(n, k) => IsDraft(d, k)

LEMMA AppendExtends ==
    ASSUME NEW m \in Seq(Change), NEW b \in Change
    PROVE  Extends(m, Append(m, b))
<1>1. Len(m) \in Nat /\ Len(Append(m, b)) = Len(m) + 1 /\ \A k \in 1..Len(m) : Append(m, b)[k] = m[k]
    OBVIOUS
<1>. QED  BY <1>1 DEF Extends

LEMMA SameExtends ==
    ASSUME NEW m \in Seq(Change)
    PROVE  Extends(m, m)
BY DEF Extends

\* Save of a change that is not there yet.
LEMMA SaveStep ==
    ASSUME NEW d, NEW m, StoreInv(d, m), NEW b \in Change, b.cid = Len(m) + 1,
           CanSave(d, b), \A k \in b.deps : ~ IsDraft(d, k),
           NEW pub, NEW pub2, pub \subseteq pub2, b.cid \in pub2
    PROVE  Step(d, m, pub, Save(d, b), Append(m, b), pub2)
<1>. DEFINE n == Save(d, b)
<1>1. d \in DB /\ m \in Seq(Change) /\ Len(m) \in Nat
    BY DEF StoreInv
<1>2. b.cid \notin d.data
    BY <1>1 DEF StoreInv, RowsOK
<1>3. b.deps \subseteq d.data /\ n = Index(PutBlock(d, b.cid, 0), b)
    BY <1>2 DEF CanSave, Indexable, Save
<1>4. 0 <= d.seq
    BY <1>1 DEF DB
<1>. HIDE DEF n
<1>5. /\ StoreInv(n, Append(m, b))
      /\ n.drafts = d.drafts /\ n.data = d.data \cup {b.cid} /\ n.seq >= d.seq
      /\ \A k \in d.data : n.ids[k] = d.ids[k]
      /\ n.ids[b.cid] > d.seq
    BY <1>3, <1>4, AddKeeps
<1>6. Moves(d, n, pub2)
  <2>1. \A k : IsDraft(n, k) <=> IsDraft(d, k)
      BY <1>5 DEF IsDraft
  <2>2. n \in DB /\ n.seq \in Nat /\ d.seq \in Nat
      BY <1>1, <1>5 DEF StoreInv, DB
  <2>3. \A c \in Public(n) : (c \in Public(d) /\ n.ids[c] = d.ids[c]) \/ c = b.cid
      BY <1>5, <2>1 DEF Public
  <2>. QED  BY <1>5, <2>2, <2>3 DEF Moves
<1>. QED  BY <1>1, <1>5, <1>6, AppendExtends DEF Step, IsDraft, n

\* SaveDraft of a change that is not there yet.
LEMMA SaveDraftStep ==
    ASSUME NEW d, NEW m, StoreInv(d, m), NEW b \in Change, b.cid = Len(m) + 1,
           CanSaveDraft(d, b), \A k \in b.deps : ~ IsDraft(d, k), NEW pub
    PROVE  Step(d, m, pub, SaveDraft(d, b), Append(m, b), pub)
<1>. DEFINE n == Save(d, b)
            n2 == SaveDraft(d, b)
            m2 == Append(m, b)
<1>1. d \in DB /\ m \in Seq(Change) /\ Len(m) \in Nat /\ b.entity \in Entities
    BY DEF StoreInv, Change
<1>2. b.cid \notin d.data
    BY <1>1 DEF StoreInv, RowsOK
<1>3. b.deps \subseteq d.data /\ n = Index(PutBlock(d, b.cid, 0), b)
    BY <1>2 DEF CanSaveDraft, CanSave, Indexable, Save
<1>4. 0 <= d.seq
    BY <1>1 DEF DB
<1>5. n2 = AddDraft(n, b.entity, b.cid)
    BY DEF SaveDraft, AddDraft
<1>. HIDE DEF n, n2
<1>6. /\ StoreInv(n, m2)
      /\ n.drafts = d.drafts /\ n.data = d.data \cup {b.cid} /\ n.seq >= d.seq
      /\ \A k \in d.data : n.ids[k] = d.ids[k]
      /\ \A k \in 1..Len(m2) : b.cid \notin m2[k].deps
    BY <1>3, <1>4, AddKeeps
<1>7. /\ StoreInv(n2, m2) /\ n2.ids = n.ids /\ n2.seq = n.seq /\ n2.data = n.data
      /\ \A k : IsDraft(n2, k) <=> IsDraft(n, k) \/ k = b.cid
      /\ Public(n2) \subseteq Public(n) \ {b.cid}
  <2>. HIDE DEF m2
  <2>1. b.cid \in n.data
      BY <1>6
  <2>. QED  BY <1>1, <1>5, <1>6, <2>1, DraftRowKeeps
<1>10. \A k : IsDraft(n2, k) <=> IsDraft(d, k) \/ k = b.cid
  <2>1. \A k : IsDraft(n, k) <=> IsDraft(d, k)
      BY <1>6 DEF IsDraft
  <2>. QED  BY <1>7, <2>1
<1>8. Moves(d, n2, pub)
  <2>1. n2 \in DB /\ n2.seq \in Nat /\ d.seq \in Nat
      BY <1>1, <1>7 DEF StoreInv, DB
  <2>2. \A c \in Public(n2) : c \in Public(d) /\ n2.ids[c] = d.ids[c]
      BY <1>6, <1>7, <1>10 DEF Public
  <2>. QED  BY <1>6, <1>7, <2>1, <2>2 DEF Moves
<1>9. \A k \in 1..Len(m) : IsDraft(n2, k) => IsDraft(d, k)
    BY <1>1, <1>10
<1>. QED  BY <1>1, <1>7, <1>8, <1>9, AppendExtends DEF Step, n2

\* ReplaceDraft, whatever has become of the draft that was loaded.
LEMMA ReplaceStep ==
    ASSUME NEW d, NEW m, StoreInv(d, m), NEW b \in Change, b.cid = Len(m) + 1,
           NEW old \in 1..Len(m), b.deps = m[old].deps, CanReplaceDraft(d, old, b), NEW pub
    PROVE  Step(d, m, pub, ReplaceDraft(d, old, b), Append(m, b), pub)
<1>. DEFINE rest == Delete(d, {old})
            n == Index(PutBlock(rest, b.cid, d.ids[old]), b)
            n2 == ReplaceDraft(d, old, b)
            m2 == Append(m, b)
<1>1. d \in DB /\ m \in Seq(Change) /\ Len(m) \in Nat /\ b.entity \in Entities /\ b.cid \in Cids
    BY DEF StoreInv, Change
<1>2. old \in Cids
    BY <1>1, DraftsConstants, FS_CardinalityType
<1>3. StoreInv(rest, m) /\ \A c \in Public(rest) : c \in Public(d) /\ rest.ids[c] = d.ids[c]
    BY DeleteKeeps DEF CanReplaceDraft
<1>4. /\ rest.data = d.data \ {old} /\ rest.seq = d.seq /\ rest.drafts = {x \in d.drafts : x[2] \notin {old}}
      /\ rest.ids = [c \in Cids |-> IF c \in {old} THEN 0 ELSE d.ids[c]]
    BY <1>1, DeleteFields
<1>5. b.deps \subseteq rest.data
    BY DEF CanReplaceDraft, Indexable
<1>6. n2 = AddDraft(n, b.entity, b.cid)
    BY DEF ReplaceDraft, AddDraft
<1>. HIDE DEF rest, n2
<1>7. d.ids[old] \in Nat /\ d.ids[old] <= rest.seq
    BY <1>1, <1>2, <1>4 DEF DB, StoreInv, RowsOK
<1>8. \A k \in b.deps : ~ IsDraft(rest, k)
    BY <1>3 DEF StoreInv, MadeOK
<1>9. ASSUME d.ids[old] # 0, NEW k \in b.deps  PROVE m[k].merge \/ rest.ids[k] < d.ids[old]
  <2>1. old \in d.data
      BY <1>2, <1>9 DEF StoreInv, RowsOK
  <2>2. m[k].merge \/ d.ids[k] < d.ids[old]
      BY <2>1 DEF StoreInv, StoredOK
  <2>3. k \in Cids /\ k # old
      BY <1>1, <1>4, <1>5 DEF DB
  <2>. QED  BY <1>4, <2>2, <2>3
<1>10. /\ StoreInv(n, m2)
       /\ n.drafts = rest.drafts /\ n.data = rest.data \cup {b.cid} /\ n.seq >= rest.seq
       /\ \A k \in rest.data : n.ids[k] = rest.ids[k]
       /\ \A k \in 1..Len(m2) : b.cid \notin m2[k].deps
    BY <1>3, <1>5, <1>7, <1>8, <1>9, AddKeeps
<1>. HIDE DEF n
<1>11. /\ StoreInv(n2, m2) /\ n2.ids = n.ids /\ n2.seq = n.seq /\ n2.data = n.data
       /\ \A k : IsDraft(n2, k) <=> IsDraft(n, k) \/ k = b.cid
       /\ Public(n2) \subseteq Public(n) \ {b.cid}
  <2>. HIDE DEF m2
  <2>1. b.cid \in n.data
      BY <1>10
  <2>. QED  BY <1>1, <1>6, <1>10, <2>1, DraftRowKeeps
<1>17. \A k : IsDraft(n2, k) <=> IsDraft(rest, k) \/ k = b.cid
  <2>1. \A k : IsDraft(n, k) <=> IsDraft(rest, k)
      BY <1>10 DEF IsDraft
  <2>. QED  BY <1>11, <2>1
<1>12. Public(n2) \subseteq Public(rest)
    BY <1>10, <1>11, <1>17 DEF Public
<1>13. \A c \in Public(n2) : c \in Public(d) /\ n2.ids[c] = d.ids[c]
    BY <1>3, <1>10, <1>11, <1>12 DEF Public
<1>14. n2.seq >= d.seq
    BY <1>4, <1>10, <1>11
<1>15. Moves(d, n2, pub)
  <2>1. n2 \in DB /\ n2.seq \in Nat /\ d.seq \in Nat
      BY <1>1, <1>11 DEF StoreInv, DB
  <2>. QED  BY <1>13, <1>14, <2>1 DEF Moves
<1>16. \A k \in 1..Len(m) : IsDraft(n2, k) => IsDraft(d, k)
  <2>1. \A k : IsDraft(rest, k) => IsDraft(d, k)
      BY <1>4 DEF IsDraft
  <2>. QED  BY <1>1, <1>17, <2>1
<1>. QED  BY <1>1, <1>11, <1>15, <1>16, AppendExtends DEF Step, n2

\* PublishDraft, when there is a draft.
LEMMA PublishStep ==
    ASSUME NEW d, NEW m, StoreInv(d, m), NEW e \in Entities, DraftsOf(d, e) # {}, NEW pub
    PROVE  Step(d, m, pub, PublishDraft(d, e), m, pub \cup DraftsOf(d, e))
<1>. DEFINE c == CHOOSE c \in DraftsOf(d, e) : TRUE
            t == DropDraft(d, e, c)
            n == PublishDraft(d, e)
            pub2 == pub \cup DraftsOf(d, e)
<1>1. d \in DB /\ m \in Seq(Change)
    BY DEF StoreInv
<1>2. c \in DraftsOf(d, e)
    OBVIOUS
<1>3. n = Touch(t, c)
    BY DEF PublishDraft, DropDraft
<1>. HIDE DEF c, t, n
<1>4. c \in Cids /\ IsDraft(d, c) /\ c \in d.data
    BY <1>2 DEF DraftsOf, IsDraft, StoreInv
<1>5. /\ StoreInv(t, m) /\ t.ids = d.ids /\ t.seq = d.seq /\ t.data = d.data
      /\ \A k : IsDraft(t, k) => IsDraft(d, k)
      /\ Public(t) \subseteq Public(d) \cup {c}
    BY UndraftKeeps DEF t
<1>6. \A k \in 1..Len(m) : c \notin m[k].deps
    BY <1>4 DEF StoreInv, MadeOK
<1>7. /\ StoreInv(n, m)
      /\ \A k \in Public(n) : k \in Public(t) /\ (n.ids[k] = t.ids[k] \/ n.ids[k] > t.seq)
    BY <1>3, <1>4, <1>5, <1>6, TouchKeeps
<1>8. n.ids = [t.ids EXCEPT ![c] = t.seq + 1] /\ n.seq = t.seq + 1 /\ n.drafts = t.drafts
    BY <1>3, <1>4, <1>5, TouchFields DEF StoreInv
<1>9. n \in DB /\ t.seq \in Nat /\ t.ids \in [Cids -> Nat] /\ Public(n) \subseteq Cids
    BY <1>5, <1>7 DEF StoreInv, DB, Public
<1>10. ASSUME NEW k \in Public(n)
       PROVE  (k \in Public(d) /\ n.ids[k] = d.ids[k]) \/ (k \in pub2 /\ n.ids[k] > d.seq)
  <2>1. CASE k = c
    <3>1. k \in pub2
        BY <1>2, <2>1
    <3>2. n.ids[c] = t.seq + 1
        BY <1>4, <1>8, <1>9
    <3>. HIDE DEF pub2
    <3>. QED  BY <1>5, <1>9, <2>1, <3>1, <3>2
  <2>2. CASE k # c
    <3>1. k \in Public(d)
        BY <1>5, <1>7, <2>2
    <3>2. n.ids[k] = d.ids[k]
        BY <1>4, <1>5, <1>8, <1>9, <2>2
    <3>. QED  BY <3>1, <3>2
  <2>. QED  BY <2>1, <2>2
<1>11. Moves(d, n, pub2)
    BY <1>5, <1>8, <1>9, <1>10 DEF Moves
<1>12. \A k : IsDraft(n, k) => IsDraft(d, k)
    BY <1>5, <1>8 DEF IsDraft
<1>. QED  BY <1>1, <1>7, <1>11, <1>12, SameExtends DEF Step, n

\* DeleteDraft.
LEMMA ResourceKeeps ==
    ASSUME NEW d, NEW m, StoreInv(d, m), NEW e, NEW n, n = DeleteResource(d, e)
    PROVE  /\ StoreInv(n, m) /\ n.ids = d.ids /\ n.seq = d.seq /\ n.data = d.data
           /\ n.drafts = d.drafts
<1>1. d \in DB
    BY DEF StoreInv
<1>2. /\ n \in DB /\ n.ids = d.ids /\ n.seq = d.seq /\ n.data = d.data /\ n.links = d.links
      /\ n.drafts = d.drafts
    BY <1>1 DEF DeleteResource, DB
<1>3. StoreInv(n, m)
    BY <1>2 DEF StoreInv, RowsOK, MadeOK, StoredOK, IsDraft
<1>. QED  BY <1>2, <1>3

LEMMA DeleteStep ==
    ASSUME NEW d, NEW m, StoreInv(d, m), NEW e, CanDeleteDraft(d, e), NEW pub
    PROVE  Step(d, m, pub, DeleteDraft(d, e), m, pub)
<1>. DEFINE S == DraftsOf(d, e)
            rest == Delete(d, S)
            n == DeleteDraft(d, e)
<1>1. d \in DB /\ m \in Seq(Change)
    BY DEF StoreInv
<1>2. StoreInv(rest, m) /\ \A c \in Public(rest) : c \in Public(d) /\ rest.ids[c] = d.ids[c]
    BY DeleteKeeps DEF CanDeleteDraft
<1>3. rest.seq = d.seq /\ rest.drafts = {x \in d.drafts : x[2] \notin S}
    BY <1>1, DeleteFields
<1>4. n = rest \/ n = DeleteResource(rest, e)
    BY DEF DeleteDraft
<1>. HIDE DEF S, rest, n
<1>5. /\ StoreInv(n, m) /\ n.ids = rest.ids /\ n.seq = rest.seq /\ n.data = rest.data
      /\ n.drafts = rest.drafts
    BY <1>2, <1>4, ResourceKeeps
<1>6. \A k : IsDraft(n, k) => IsDraft(d, k)
    BY <1>3, <1>5 DEF IsDraft
<1>7. Public(n) = Public(rest)
    BY <1>5 DEF Public, IsDraft
<1>8. n \in DB /\ d.seq \in Nat
    BY <1>1, <1>5 DEF StoreInv, DB
<1>9. Moves(d, n, pub)
    BY <1>2, <1>3, <1>5, <1>7, <1>8 DEF Moves
<1>. QED  BY <1>1, <1>5, <1>6, <1>9, SameExtends DEF Step, n

\* PublishBlob: a merge that is stored gets a new id.
LEMMA MergeStep ==
    ASSUME NEW d, NEW m, StoreInv(d, m), NEW c \in d.data, m[c].merge,
           NEW pub, Public(d) \subseteq pub
    PROVE  Step(d, m, pub, Touch(d, c), m, pub)
<1>. DEFINE n == Touch(d, c)
<1>1. d \in DB /\ m \in Seq(Change) /\ c \in Cids
    BY DEF StoreInv, DB
<1>2. /\ StoreInv(n, m)
      /\ \A k \in Public(n) : k \in Public(d) /\ (n.ids[k] = d.ids[k] \/ n.ids[k] > d.seq)
    BY TouchKeeps
<1>3. n.seq = d.seq + 1 /\ n.drafts = d.drafts /\ d.seq \in Nat /\ n \in DB
    BY <1>1, TouchFields DEF DB
<1>. HIDE DEF n
<1>4. Moves(d, n, pub)
    BY <1>2, <1>3 DEF Moves
<1>. QED  BY <1>1, <1>2, <1>3, <1>4, SameExtends DEF Step, IsDraft, n

\* A transaction that fails is rolled back.
LEMMA StutterStep ==
    ASSUME NEW d, NEW m, StoreInv(d, m), NEW pub
    PROVE  Step(d, m, pub, d, m, pub)
<1>1. d \in DB /\ m \in Seq(Change) /\ d.seq \in Nat
    BY DEF StoreInv, DB
<1>. QED  BY <1>1, SameExtends DEF Step, Moves

-----------------------------------------------------------------------------
(* The inductive invariant of the specification.                           *)

\* What a handler remembers was true of the changes it has read, and stays
\* true however the other handlers go on.
RequestOK(q, d, m) ==
    /\ q.op = "create"  => /\ q.entity \in Entities /\ q.deps \subseteq 1..Len(m)
                           /\ \A k \in q.deps : ~ IsDraft(d, k)
    /\ q.op = "update"  => q.old \in 1..Len(m)
    /\ q.op = "publish" => q.entity \in Entities
    /\ q.op = "merge"   => q.blob \in 1..Len(m) /\ m[q.blob].merge

DraftsInv ==
    /\ StoreInv(db, made)
    /\ PeerInv(db, published, cursor, listed)
    /\ request = [r \in Requests |-> request[r]]
    /\ \A r \in Requests : RequestOK(request[r], db, made)

LEMMA RequestKeeps ==
    ASSUME NEW q, NEW d, NEW m \in Seq(Change), RequestOK(q, d, m), NEW n, NEW m2 \in Seq(Change),
           Extends(m, m2), \A k \in 1..Len(m) : IsDraft(n, k) => IsDraft(d, k)
    PROVE  RequestOK(q, n, m2)
<1>1. 1..Len(m) \subseteq 1..Len(m2) /\ \A k \in 1..Len(m) : m2[k] = m[k]
  <2>1. Len(m) \in Nat /\ Len(m2) \in Nat
      OBVIOUS
  <2>. QED  BY <2>1 DEF Extends
<1>. QED  BY <1>1 DEF RequestOK

\* An action that takes a step of the database keeps the invariant.
LEMMA StepKeeps ==
    ASSUME DraftsInv, Step(db, made, published, db', made', published'),
           UNCHANGED Peer, request' = [r \in Requests |-> request'[r]],
           \A r \in Requests : request'[r] = request[r] \/ RequestOK(request'[r], db', made')
    PROVE  DraftsInv'
<1>1. StoreInv(db', made') /\ db \in DB /\ db' \in DB /\ made \in Seq(Change) /\ made' \in Seq(Change)
    BY DEF DraftsInv, Step, StoreInv
<1>2. cursor' = cursor /\ listed' = listed
    BY DEF Peer
<1>3. PeerInv(db', published', cursor, listed)
    BY <1>1, PeerKeeps DEF DraftsInv, Step
<1>4. \A r \in Requests : RequestOK(request[r], db', made')
    BY <1>1, RequestKeeps DEF DraftsInv, Step
<1>. QED  BY <1>1, <1>2, <1>3, <1>4 DEF DraftsInv

\* Handler r goes on to q.
LEMMA RequestUpdate ==
    ASSUME request = [r \in Requests |-> request[r]], NEW r \in Requests, NEW q,
           request' = [request EXCEPT ![r] = q]
    PROVE  /\ request' = [s \in Requests |-> request'[s]]
           /\ request'[r] = q
           /\ \A s \in Requests : s # r => request'[s] = request[s]
OBVIOUS

LEMMA FreeOK ==
    ASSUME NEW d, NEW m
    PROVE  RequestOK(Free, d, m)
BY DEF RequestOK, Free

\* A change made on top of stored changes.
Ancestors(deps) == deps \cup UNION {made[d].ancestors : d \in deps}

LEMMA AncestorsOK ==
    ASSUME StoreInv(db, made), CanMake, NEW deps, deps \subseteq 1..Len(made)
    PROVE  /\ Len(made) \in Nat /\ Len(made) + 1 \in Cids
           /\ deps \subseteq Cids /\ Ancestors(deps) \subseteq Cids
<1>1. made \in Seq(Change) /\ Len(made) \in Nat
    BY DEF StoreInv
<1>2. Cardinality(Cids) \in Nat /\ Cids = 1..Cardinality(Cids)
    BY DraftsConstants, FS_CardinalityType
<1>3. Len(made) + 1 \in Cids /\ deps \subseteq Cids
    BY <1>1, <1>2 DEF CanMake
<1>4. \A k \in deps : made[k].ancestors \subseteq Cids
  <2>1. \A k \in 1..Len(made) : made[k] \in Change
      BY <1>1, ElementOfSeq
  <2>. QED  BY <2>1 DEF Change
<1>. QED  BY <1>1, <1>3, <1>4 DEF Ancestors

\* The heads of public changes are public.
LEMMA HeadsPublic ==
    ASSUME StoreInv(db, made), NEW H \in SUBSET Public(db)
    PROVE  /\ Heads(H) \in SUBSET (1..Len(made))
           /\ Heads(H) \subseteq db.data
           /\ \A k \in Heads(H) : ~ IsDraft(db, k)
BY DEF Heads, Public, StoreInv, RowsOK

-----------------------------------------------------------------------------
(* Every action keeps the invariant.                                       *)
LEMMA InitInv == Init => DraftsInv
<1>. SUFFICES ASSUME Init PROVE DraftsInv
    OBVIOUS
<1>1. db \in DB /\ db.data = {} /\ db.drafts = {} /\ db.seq = 0 /\ db.ids = [c \in Cids |-> 0]
    BY EmptyFields DEF Init, EmptyDB
<1>2. made \in Seq(Change) /\ Len(made) = 0
    BY DEF Init
<1>3. \A k : ~ IsDraft(db, k)
    BY <1>1 DEF IsDraft
<1>4. StoreInv(db, made)
    BY <1>1, <1>2, <1>3 DEF StoreInv, RowsOK, MadeOK, StoredOK
<1>5. PeerInv(db, published, cursor, listed)
    BY <1>1 DEF Init, PeerInv, Public
<1>6. request = [r \in Requests |-> request[r]] /\ \A r \in Requests : request[r] = Free
    BY DEF Init
<1>. QED  BY <1>4, <1>5, <1>6, FreeOK DEF DraftsInv

LEMMA CreateNewInv ==
    ASSUME DraftsInv, NEW e \in Entities, CreateNewDraft(e)
    PROVE  DraftsInv'
<1>. DEFINE b == NewChange(e, {}, TRUE, FALSE)
<1>1. StoreInv(db, made) /\ CanMake /\ CanSaveDraft(db, b)
    BY DEF DraftsInv, CreateNewDraft
<1>2. db' = SaveDraft(db, b) /\ made' = Append(made, b) /\ UNCHANGED <<request, published>> /\ UNCHANGED Peer
    BY DEF CreateNewDraft
<1>3. b \in Change /\ b.cid = Len(made) + 1 /\ b.deps = {}
  <2>1. Len(made) + 1 \in Cids /\ Ancestors({}) \subseteq Cids
      BY <1>1, AncestorsOK
  <2>2. b = [cid |-> Len(made) + 1, entity |-> e, deps |-> {}, refs |-> {}, mentions |-> {},
             content |-> TRUE, merge |-> FALSE, ancestors |-> Ancestors({})]
      BY DEF NewChange, Ancestors
  <2>. HIDE DEF b
  <2>. QED  BY <2>1, <2>2 DEF Change
<1>. HIDE DEF b
<1>4. Step(db, made, published, db', made', published')
    BY <1>1, <1>2, <1>3, SaveDraftStep
<1>. QED  BY <1>2, <1>4, StepKeeps DEF DraftsInv

LEMMA CreateLoadInv ==
    ASSUME DraftsInv, NEW r \in Requests, NEW e \in Entities, NEW H \in SUBSET Public(db),
           CreateDraftLoad(r, e, H)
    PROVE  DraftsInv'
<1>. DEFINE q == [op |-> "create", entity |-> e, deps |-> Heads(H)]
<1>1. StoreInv(db, made) /\ request = [s \in Requests |-> request[s]]
    BY DEF DraftsInv
<1>2. UNCHANGED <<db, made, published>> /\ UNCHANGED Peer /\ request' = [request EXCEPT ![r] = q]
    BY DEF CreateDraftLoad
<1>3. RequestOK(q, db', made')
    BY <1>1, <1>2, HeadsPublic DEF RequestOK
<1>. HIDE DEF q
<1>4. Step(db, made, published, db', made', published')
    BY <1>1, <1>2, StutterStep
<1>5. /\ request' = [s \in Requests |-> request'[s]]
      /\ \A s \in Requests : request'[s] = request[s] \/ RequestOK(request'[s], db', made')
    BY <1>1, <1>2, <1>3, RequestUpdate
<1>. QED  BY <1>2, <1>4, <1>5, StepKeeps

\* A handler that ends, with a step of the database.
LEMMA EndKeeps ==
    ASSUME DraftsInv, NEW r \in Requests, request' = [request EXCEPT ![r] = Free], UNCHANGED Peer,
           Step(db, made, published, db', made', published')
    PROVE  DraftsInv'
<1>1. request = [s \in Requests |-> request[s]]
    BY DEF DraftsInv
<1>2. /\ request' = [s \in Requests |-> request'[s]]
      /\ \A s \in Requests : request'[s] = request[s] \/ request'[s] = Free
    BY <1>1, RequestUpdate
<1>. QED  BY <1>2, FreeOK, StepKeeps

LEMMA CreateSaveInv ==
    ASSUME DraftsInv, NEW r \in Requests, CreateDraftSave(r)
    PROVE  DraftsInv'
<1>. DEFINE q == request[r]
            b == NewChange(q.entity, q.deps, FALSE, FALSE)
<1>1. StoreInv(db, made) /\ CanMake /\ q.entity \in Entities /\ q.deps \in SUBSET (1..Len(made))
    BY DEF DraftsInv, CreateDraftSave, RequestOK
<1>2. \A k \in q.deps : ~ IsDraft(db, k)
    BY DEF DraftsInv, CreateDraftSave, RequestOK
<1>3. UNCHANGED published /\ UNCHANGED Peer /\ request' = [request EXCEPT ![r] = Free]
    BY DEF CreateDraftSave
<1>4. b \in Change /\ b.cid = Len(made) + 1 /\ b.deps = q.deps
  <2>1. Len(made) + 1 \in Cids /\ q.deps \subseteq Cids /\ Ancestors(q.deps) \subseteq Cids
      BY <1>1, AncestorsOK
  <2>2. b = [cid |-> Len(made) + 1, entity |-> q.entity, deps |-> q.deps, refs |-> {}, mentions |-> {},
             content |-> FALSE, merge |-> FALSE, ancestors |-> Ancestors(q.deps)]
      BY DEF NewChange, Ancestors
  <2>. HIDE DEF b, q
  <2>. QED  BY <1>1, <2>1, <2>2 DEF Change
<1>5. \/ CanSaveDraft(db, b) /\ db' = SaveDraft(db, b) /\ made' = Append(made, b)
      \/ UNCHANGED <<db, made>>
    BY DEF CreateDraftSave
<1>. HIDE DEF b, q
<1>6. CASE CanSaveDraft(db, b) /\ db' = SaveDraft(db, b) /\ made' = Append(made, b)
  <2>1. Step(db, made, published, db', made', published')
      BY <1>1, <1>2, <1>3, <1>4, <1>6, SaveDraftStep
  <2>. QED  BY <1>3, <2>1, EndKeeps
<1>7. CASE UNCHANGED <<db, made>>
  <2>1. Step(db, made, published, db', made', published')
      BY <1>1, <1>3, <1>7, StutterStep
  <2>. QED  BY <1>3, <2>1, EndKeeps
<1>. QED  BY <1>5, <1>6, <1>7

LEMMA UpdateSaveInv ==
    ASSUME DraftsInv, NEW r \in Requests, NEW content \in BOOLEAN, UpdateDraftSave(r, content)
    PROVE  DraftsInv'
<1>. DEFINE i == request[r].old
            old == made[i]
            b == NewChange(old.entity, old.deps, content, FALSE)
<1>1. StoreInv(db, made) /\ CanMake /\ i \in 1..Len(made)
    BY DEF DraftsInv, UpdateDraftSave, RequestOK
<1>2. old \in Change
    BY <1>1, ElementOfSeq DEF StoreInv
<1>3. old.cid = i /\ old.deps \in SUBSET (1..Len(made)) /\ old.entity \in Entities
    BY <1>1, <1>2 DEF StoreInv, MadeOK, Change
<1>4. UNCHANGED published /\ UNCHANGED Peer /\ request' = [request EXCEPT ![r] = Free]
    BY DEF UpdateDraftSave
<1>5. b \in Change /\ b.cid = Len(made) + 1 /\ b.deps = old.deps
  <2>1. Len(made) + 1 \in Cids /\ old.deps \subseteq Cids /\ Ancestors(old.deps) \subseteq Cids
      BY <1>1, <1>3, AncestorsOK
  <2>2. b = [cid |-> Len(made) + 1, entity |-> old.entity, deps |-> old.deps, refs |-> {}, mentions |-> {},
             content |-> content, merge |-> FALSE, ancestors |-> Ancestors(old.deps)]
      BY DEF NewChange, Ancestors
  <2>. HIDE DEF b, old
  <2>. QED  BY <1>3, <2>1, <2>2 DEF Change
<1>6. \/ CanReplaceDraft(db, old.cid, b) /\ db' = ReplaceDraft(db, old.cid, b) /\ made' = Append(made, b)
      \/ UNCHANGED <<db, made>>
    BY DEF UpdateDraftSave
<1>. HIDE DEF b, i
<1>7. CASE CanReplaceDraft(db, old.cid, b) /\ db' = ReplaceDraft(db, old.cid, b) /\ made' = Append(made, b)
  <2>1. Step(db, made, published, db', made', published')
      BY <1>1, <1>3, <1>4, <1>5, <1>7, ReplaceStep
  <2>. QED  BY <1>4, <2>1, EndKeeps
<1>8. CASE UNCHANGED <<db, made>>
  <2>1. Step(db, made, published, db', made', published')
      BY <1>1, <1>4, <1>8, StutterStep
  <2>. QED  BY <1>4, <2>1, EndKeeps
<1>. QED  BY <1>6, <1>7, <1>8

\* A handler that reads: r goes on to q, and nothing else changes.
LEMMA LoadKeeps ==
    ASSUME DraftsInv, NEW r \in Requests, NEW q, request' = [request EXCEPT ![r] = q],
           RequestOK(q, db, made), UNCHANGED <<db, made, published>>, UNCHANGED Peer
    PROVE  DraftsInv'
<1>1. StoreInv(db, made) /\ request = [s \in Requests |-> request[s]]
    BY DEF DraftsInv
<1>2. Step(db, made, published, db', made', published')
    BY <1>1, StutterStep
<1>3. /\ request' = [s \in Requests |-> request'[s]]
      /\ \A s \in Requests : request'[s] = request[s] \/ request'[s] = q
    BY <1>1, RequestUpdate
<1>. QED  BY <1>2, <1>3, StepKeeps

LEMMA UpdateLoadInv ==
    ASSUME DraftsInv, NEW r \in Requests, NEW e \in Entities, UpdateDraftLoad(r, e)
    PROVE  DraftsInv'
<1>1. PICK c \in DraftsOf(db, e) : request' = [request EXCEPT ![r] = [op |-> "update", old |-> c]]
    BY DEF UpdateDraftLoad
<1>. DEFINE q == [op |-> "update", old |-> c]
<1>2. c \in db.data /\ db.data \subseteq 1..Len(made)
    BY DEF DraftsOf, IsDraft, DraftsInv, StoreInv, RowsOK
<1>3. RequestOK(q, db, made)
    BY <1>2 DEF RequestOK
<1>4. UNCHANGED <<db, made, published>> /\ UNCHANGED Peer /\ request' = [request EXCEPT ![r] = q]
    BY <1>1 DEF UpdateDraftLoad
<1>. HIDE DEF q
<1>. QED  BY <1>3, <1>4, LoadKeeps

LEMMA PublishLoadInv ==
    ASSUME DraftsInv, NEW r \in Requests, NEW e \in Entities, PublishDraftLoad(r, e)
    PROVE  DraftsInv'
<1>1. PICK c \in DraftsOf(db, e) :
          request' = [request EXCEPT ![r] = [op |-> "publish", entity |-> e, content |-> made[c].content]]
    BY DEF PublishDraftLoad
<1>. DEFINE q == [op |-> "publish", entity |-> e, content |-> made[c].content]
<1>3. RequestOK(q, db, made)
    BY DEF RequestOK
<1>4. UNCHANGED <<db, made, published>> /\ UNCHANGED Peer /\ request' = [request EXCEPT ![r] = q]
    BY <1>1 DEF PublishDraftLoad
<1>. HIDE DEF q
<1>. QED  BY <1>3, <1>4, LoadKeeps

LEMMA PublishSaveInv ==
    ASSUME DraftsInv, NEW r \in Requests, PublishDraftSave(r)
    PROVE  DraftsInv'
<1>. DEFINE e == request[r].entity
<1>1. StoreInv(db, made) /\ e \in Entities
    BY DEF DraftsInv, PublishDraftSave, RequestOK
<1>2. made' = made /\ UNCHANGED Peer /\ request' = [request EXCEPT ![r] = Free]
    BY DEF PublishDraftSave
<1>3. \/ DraftsOf(db, e) # {} /\ db' = PublishDraft(db, e) /\ published' = published \cup DraftsOf(db, e)
      \/ UNCHANGED <<db, published>>
    BY DEF PublishDraftSave
<1>. HIDE DEF e
<1>4. Step(db, made, published, db', made', published')
    BY <1>1, <1>2, <1>3, PublishStep, StutterStep
<1>. QED  BY <1>2, <1>4, EndKeeps

LEMMA PublishEmptyInv ==
    ASSUME DraftsInv, NEW r \in Requests, PublishDraftEmpty(r)
    PROVE  DraftsInv'
<1>. DEFINE e == request[r].entity
<1>1. StoreInv(db, made)
    BY DEF DraftsInv
<1>2. made' = made /\ published' = published /\ UNCHANGED Peer /\ request' = [request EXCEPT ![r] = Free]
    BY DEF PublishDraftEmpty
<1>3. (CanDeleteDraft(db, e) /\ db' = DeleteDraft(db, e)) \/ db' = db
    BY DEF PublishDraftEmpty
<1>. HIDE DEF e
<1>4. Step(db, made, published, db', made', published')
    BY <1>1, <1>2, <1>3, DeleteStep, StutterStep
<1>. QED  BY <1>2, <1>4, EndKeeps

LEMMA DeleteCallInv ==
    ASSUME DraftsInv, NEW e \in Entities, DeleteDraftCall(e)
    PROVE  DraftsInv'
<1>1. StoreInv(db, made)
    BY DEF DraftsInv
<1>2. CanDeleteDraft(db, e) /\ db' = DeleteDraft(db, e) /\ UNCHANGED <<made, request, published>> /\ UNCHANGED Peer
    BY DEF DeleteDraftCall
<1>3. Step(db, made, published, db', made', published')
    BY <1>1, <1>2, DeleteStep
<1>. QED  BY <1>2, <1>3, StepKeeps DEF DraftsInv

LEMMA MergeSaveInv ==
    ASSUME DraftsInv, NEW r \in Requests, NEW e \in Entities, NEW H \in SUBSET Public(db), MergeSave(r, e, H)
    PROVE  DraftsInv'
<1>. DEFINE b == NewChange(e, Heads(H), FALSE, TRUE)
            q == [op |-> "merge", blob |-> b.cid]
<1>1. StoreInv(db, made) /\ CanMake /\ CanSave(db, b) /\ request = [s \in Requests |-> request[s]]
    BY DEF DraftsInv, MergeSave
<1>2. /\ db' = Save(db, b) /\ made' = Append(made, b) /\ published' = published \cup {b.cid}
      /\ request' = [request EXCEPT ![r] = q] /\ UNCHANGED Peer
    BY DEF MergeSave
<1>3. Heads(H) \subseteq 1..Len(made) /\ \A k \in Heads(H) : ~ IsDraft(db, k)
    BY <1>1, HeadsPublic
<1>4. b \in Change /\ b.cid = Len(made) + 1 /\ b.deps = Heads(H) /\ b.merge
  <2>1. Len(made) + 1 \in Cids /\ Heads(H) \subseteq Cids /\ Ancestors(Heads(H)) \subseteq Cids
      BY <1>1, <1>3, AncestorsOK
  <2>2. b = [cid |-> Len(made) + 1, entity |-> e, deps |-> Heads(H), refs |-> {}, mentions |-> {},
             content |-> FALSE, merge |-> TRUE, ancestors |-> Ancestors(Heads(H))]
      BY DEF NewChange, Ancestors
  <2>. HIDE DEF b
  <2>. QED  BY <2>1, <2>2 DEF Change
<1>. HIDE DEF b
<1>5. Step(db, made, published, db', made', published')
    BY <1>1, <1>2, <1>3, <1>4, SaveStep
<1>6. Append(made, b)[b.cid] = b /\ b.cid \in 1..Len(Append(made, b))
    BY <1>1, <1>4 DEF StoreInv
<1>7. RequestOK(q, db', made')
    BY <1>2, <1>4, <1>6 DEF RequestOK
<1>. HIDE DEF q
<1>8. /\ request' = [s \in Requests |-> request'[s]]
      /\ \A s \in Requests : request'[s] = request[s] \/ RequestOK(request'[s], db', made')
    BY <1>1, <1>2, <1>7, RequestUpdate
<1>. QED  BY <1>2, <1>5, <1>8, StepKeeps

LEMMA MergePublishInv ==
    ASSUME DraftsInv, NEW r \in Requests, MergePublish(r)
    PROVE  DraftsInv'
<1>. DEFINE c == request[r].blob
<1>1. StoreInv(db, made) /\ made[c].merge /\ Public(db) \subseteq published
    BY DEF DraftsInv, MergePublish, RequestOK, PeerInv
<1>2. made' = made /\ published' = published /\ UNCHANGED Peer /\ request' = [request EXCEPT ![r] = Free]
    BY DEF MergePublish
<1>3. (c \in db.data /\ db' = Touch(db, c)) \/ db' = db
    BY DEF MergePublish
<1>. HIDE DEF c
<1>4. Step(db, made, published, db', made', published')
    BY <1>1, <1>2, <1>3, MergeStep, StutterStep
<1>. QED  BY <1>2, <1>4, EndKeeps

LEMMA RemotePutInv ==
    ASSUME DraftsInv, NEW e \in Entities, NEW H \in SUBSET Public(db), RemotePut(e, H)
    PROVE  DraftsInv'
<1>. DEFINE b == NewChange(e, Heads(H), TRUE, FALSE)
<1>1. StoreInv(db, made) /\ CanMake /\ CanSave(db, b)
    BY DEF DraftsInv, RemotePut
<1>2. /\ db' = Save(db, b) /\ made' = Append(made, b) /\ published' = published \cup {b.cid}
      /\ UNCHANGED request /\ UNCHANGED Peer
    BY DEF RemotePut
<1>3. Heads(H) \subseteq 1..Len(made) /\ \A k \in Heads(H) : ~ IsDraft(db, k)
    BY <1>1, HeadsPublic
<1>4. b \in Change /\ b.cid = Len(made) + 1 /\ b.deps = Heads(H)
  <2>1. Len(made) + 1 \in Cids /\ Heads(H) \subseteq Cids /\ Ancestors(Heads(H)) \subseteq Cids
      BY <1>1, <1>3, AncestorsOK
  <2>2. b = [cid |-> Len(made) + 1, entity |-> e, deps |-> Heads(H), refs |-> {}, mentions |-> {},
             content |-> TRUE, merge |-> FALSE, ancestors |-> Ancestors(Heads(H))]
      BY DEF NewChange, Ancestors
  <2>. HIDE DEF b
  <2>. QED  BY <2>1, <2>2 DEF Change
<1>. HIDE DEF b
<1>5. Step(db, made, published, db', made', published')
    BY <1>1, <1>2, <1>3, <1>4, SaveStep
<1>. QED  BY <1>2, <1>5, StepKeeps DEF DraftsInv

\* Everything public above the old cursor and up to the new one is listed.
LEMMA PeerListInv ==
    ASSUME DraftsInv, NEW c \in Cids, PeerList(c)
    PROVE  DraftsInv'
<1>. DEFINE stream == ListBlobs(db, cursor)
<1>1. UNCHANGED <<db, made, request, published>> /\ c \in stream /\ cursor' = db.ids[c]
    BY DEF PeerList
<1>2. listed' = listed \cup {k \in stream : db.ids[k] <= db.ids[c]}
    BY DEF PeerList
<1>3. db \in DB /\ StoreInv(db, made) /\ PeerInv(db, published, cursor, listed)
    BY DEF DraftsInv, StoreInv
<1>4. /\ stream \subseteq Public(db)
      /\ \A k \in Public(db) : db.ids[k] > cursor => k \in stream
  <2>1. \/ stream = {}
        \/ stream = Public(db)
        \/ stream = {k \in Public(db) : db.ids[k] > cursor}
      BY DEF ListBlobs
  <2>. HIDE DEF stream
  <2>. QED  BY <1>1, <2>1
<1>. HIDE DEF stream
<1>5. db.ids[c] \in Nat /\ db.ids[c] <= db.seq /\ cursor \in Nat /\ db.ids \in [Cids -> Nat] /\ Public(db) \subseteq Cids
    BY <1>3 DEF DB, StoreInv, RowsOK, PeerInv, Public
<1>6. \A k \in Public(db) : db.ids[k] <= cursor' => k \in listed'
    BY <1>1, <1>2, <1>3, <1>4, <1>5 DEF PeerInv
<1>7. listed' \subseteq published
    BY <1>2, <1>3, <1>4 DEF PeerInv
<1>8. PeerInv(db, published, cursor', listed')
    BY <1>1, <1>3, <1>5, <1>6, <1>7 DEF PeerInv
<1>. QED  BY <1>1, <1>8 DEF DraftsInv

LEMMA CrashInv == DraftsInv /\ Crash => DraftsInv'
<1>. SUFFICES ASSUME DraftsInv, Crash PROVE DraftsInv'
    OBVIOUS
<1>1. request' = [r \in Requests |-> Free] /\ UNCHANGED <<db, made, published>> /\ UNCHANGED Peer
    BY DEF Crash
<1>2. Step(db, made, published, db', made', published')
    BY <1>1, StutterStep DEF DraftsInv
<1>3. /\ request' = [r \in Requests |-> request'[r]]
      /\ \A r \in Requests : request'[r] = request[r] \/ RequestOK(request'[r], db', made')
    BY <1>1, FreeOK
<1>. QED  BY <1>1, <1>2, <1>3, StepKeeps

-----------------------------------------------------------------------------
\* The tables, what the handlers remember and what the peer knows stay
\* consistent, however the calls of the Drafts API interleave.
THEOREM DraftsInvTheorem == Spec => []DraftsInv
<1>1. DraftsInv /\ [Next]_vars => DraftsInv'
  <2>. SUFFICES ASSUME DraftsInv, [Next]_vars PROVE DraftsInv'
      OBVIOUS
  <2>1. CASE Next
      BY <2>1, CreateNewInv, CreateLoadInv, CreateSaveInv, UpdateLoadInv, UpdateSaveInv, PublishLoadInv,
         PublishSaveInv, PublishEmptyInv, DeleteCallInv, MergeSaveInv, MergePublishInv, RemotePutInv,
         PeerListInv, CrashInv DEF Next
  <2>2. CASE UNCHANGED vars
      BY <2>2 DEF vars, DraftsInv
  <2>. QED  BY <2>1, <2>2
<1>. QED  BY InitInv, <1>1, PTL DEF Spec

\* A peer that keeps the cursor of the last blob it received and asks only
\* for newer ones (ListBlobs) misses nothing that is public.
THEOREM CursorMissesNothingTheorem == Spec => []CursorMissesNothing
<1>1. DraftsInv => CursorMissesNothing
    BY DEF DraftsInv, PeerInv, CursorMissesNothing
<1>. QED  BY <1>1, DraftsInvTheorem, PTL

\* A peer is told of no draft before it is published, whatever replaces,
\* publishes or deletes the draft meanwhile.
THEOREM DraftsStayPrivateTheorem == Spec => []DraftsStayPrivate
<1>1. DraftsInv => DraftsStayPrivate
    BY DEF DraftsInv, PeerInv, DraftsStayPrivate
<1>. QED  BY <1>1, DraftsInvTheorem, PTL

\* What a published change or a draft depends on is stored and published, so
\* both can be loaded.
THEOREM PublicIsClosedTheorem == Spec => []PublicIsClosed
<1>1. DraftsInv => PublicIsClosed
  <2>. SUFFICES ASSUME DraftsInv, NEW c, c \in Public(db) \/ (c \in Cids /\ IsDraft(db, c))
                PROVE  c \in db.data /\ made[c].deps \subseteq Public(db)
      BY DEF PublicIsClosed
  <2>1. c \in db.data
      BY DEF DraftsInv, StoreInv, Public
  <2>2. c \in 1..Len(made)
      BY <2>1 DEF DraftsInv, StoreInv, RowsOK
  <2>3. \A k \in made[c].deps : k \in db.data /\ ~ IsDraft(db, k)
      BY <2>1, <2>2 DEF DraftsInv, StoreInv, StoredOK, MadeOK
  <2>. QED  BY <2>1, <2>3 DEF Public
<1>. QED  BY <1>1, DraftsInvTheorem, PTL

\* A blob is listed after the blobs it depends on, merges excepted.
THEOREM ListedInOrderTheorem == Spec => []ListedInOrder
<1>1. DraftsInv => ListedInOrder
    BY DEF DraftsInv, StoreInv, StoredOK, Public, ListedInOrder
<1>. QED  BY <1>1, DraftsInvTheorem, PTL
=============================================================================
