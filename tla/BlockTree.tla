------------------------------ MODULE BlockTree ------------------------------
(***************************************************************************)
(* The tree of blocks of a document, as the editor keeps it: a             *)
(* blockContainer holds its content (paragraph or heading) and at most one *)
(* blockGroup with its children.  Of a block's content the model keeps its *)
(* words and whether it is a heading; media, lists, marks and attributes   *)
(* are left out.                                                           *)
(*                                                                         *)
(* A document is a record [kids, words, headings].  Blocks outside the     *)
(* tree have no kids, no words and are no headings.                        *)
(***************************************************************************)
EXTENDS Integers, SequencesExt

CONSTANT MaxBlocks  \* bound: block ids handed out

ASSUME BlocksAssumption == MaxBlocks \in Nat

Root == 0           \* '' as a parent, and '' as a left sibling
Ids == 1..MaxBlocks
Nodes == {Root} \cup Ids

Placed(kids) == UNION {ToSet(kids[p]) : p \in DOMAIN kids}
Blocks(d) == Placed(d.kids)
Parent(kids, b) == CHOOSE p \in DOMAIN kids : b \in ToSet(kids[p])
Index(kids, b) == LET s == kids[Parent(kids, b)]
                  IN  CHOOSE i \in DOMAIN s : s[i] = b
Left(kids, b) == IF Index(kids, b) = 1 THEN Root
                 ELSE kids[Parent(kids, b)][Index(kids, b) - 1]
Following(kids, b) == LET s == kids[Parent(kids, b)]
                      IN  SubSeq(s, Index(kids, b) + 1, Len(s))

(* The blocks under p from top to bottom: in its turn each block is        *)
(* followed by its children.                                               *)
WithChildren(kids, s, k) ==
    IF k > Len(s) THEN s ELSE ReplaceSubSeqAt(k, <<s[k]>> \o kids[s[k]], <<s[k]>>, s)
Below(kids, p) ==
    LET at[k \in 0..MaxBlocks] ==
            IF k = 0 THEN kids[p] ELSE WithChildren(kids, at[k - 1], k)
    IN  at[MaxBlocks]

(* textContent of a blockContainer: its own text and its descendants'.     *)
textContent(d, b) ==
    LET s == <<b>> \o Below(d.kids, b)
    IN  FlattenSeq([i \in DOMAIN s |-> d.words[s[i]]])

(* The document read from top to bottom.                                   *)
Reading(d) == LET s == Below(d.kids, Root)
              IN  FlattenSeq([i \in DOMAIN s |-> d.words[s[i]]])

(* The last block under b, from last child to last child.                  *)
LastBelow(kids, b) ==
    LET at[k \in 0..MaxBlocks] ==
            IF k = 0 THEN b
            ELSE LET c == at[k - 1] IN IF kids[c] = <<>> THEN c ELSE Last(kids[c])
    IN  at[MaxBlocks]

(* The blocks s in the place of b among its siblings.                      *)
InPlaceOf(kids, b, s) ==
    [kids EXCEPT ![Parent(kids, b)] = ReplaceSubSeqAt(Index(kids, b), s, <<b>>, @)]

(* The blocks s among the children of p, behind l or before all.           *)
Behind(kids, p, l, s) ==
    IF l = Root THEN [kids EXCEPT ![p] = s \o @] ELSE InPlaceOf(kids, l, <<l>> \o s)

(* Nothing is left of the blocks that are gone.                            *)
Cut(d, gone) ==
    [kids |-> [p \in DOMAIN d.kids |-> IF p \in gone THEN <<>> ELSE d.kids[p]],
     words |-> [b \in Ids |-> IF b \in gone THEN <<>> ELSE d.words[b]],
     headings |-> d.headings \ gone]

(* The kids are a tree under Root: every block has one place, and is       *)
(* reached.                                                                *)
IsTree(kids) ==
    /\ \A p \in Nodes : IsInjective(kids[p])
    /\ \A p, q \in Nodes : p # q => ToSet(kids[p]) \cap ToSet(kids[q]) = {}
    /\ \A b \in Ids \ Placed(kids) : kids[b] = <<>>
    /\ Placed(kids) = ToSet(Below(kids, Root))

Documents ==
    [kids : [Nodes -> Seq(Ids)], words : [Ids -> Seq(Nat)], headings : SUBSET Ids]

(* A document is never empty, its blocks form a tree, and a block outside  *)
(* the tree has left nothing behind.                                       *)
IsDocument(d) ==
    /\ d \in Documents
    /\ IsTree(d.kids) /\ d.kids[Root] # <<>>
    /\ \A b \in Ids \ Blocks(d) : d.words[b] = <<>> /\ b \notin d.headings
=============================================================================
