--------------------------- MODULE MC_Replication ---------------------------
(* One document and one group, with changes made on either side.            *)
EXTENDS Replication

CONSTANTS doc, group

Change(c, e, deps, refs, mentions) ==
    [cid |-> c, entity |-> e, deps |-> deps, refs |-> refs, mentions |-> mentions]

\* 1, 2: the document and a change on top of it.  3: the group, which links
\* to the document without a version.  4: a change of the group.
MCBlob ==
    [c \in Cids |->
        CASE c = 1 -> Change(1, doc, {}, {}, {})
          [] c = 2 -> Change(2, doc, {1}, {}, {})
          [] c = 3 -> Change(3, group, {}, {}, {doc})
          [] OTHER -> Change(c, group, {3}, {}, {})]

\* The same, but the group also links to version 2 of the document.
Linked == [c \in Cids |-> IF c = 3 THEN Change(3, group, {}, {2}, {doc}) ELSE MCBlob[c]]
=============================================================================
