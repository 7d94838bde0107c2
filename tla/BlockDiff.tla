------------------------------ MODULE BlockDiff ------------------------------
(***************************************************************************)
(* How a draft is saved: the changes between the document in the editor    *)
(* and the document the daemon returned last (frontend/packages/app/models *)
(* /documents.ts), and how the daemon applies them, one after the other    *)
(* and all or none (backend/daemon/api/documents/v1alpha/docmodel).        *)
(*                                                                         *)
(* A stored document is [kids, content, trash]: the content of every block *)
(* ever replaced, and the blocks moved to the trash.                       *)
(***************************************************************************)
EXTENDS BlockTree

NoContent == [words |-> <<>>, heading |-> FALSE, listLevel |-> FALSE]

StoredDocuments ==
    [kids : [Nodes -> Seq(Ids)], trash : SUBSET Ids,
     content : [Ids -> [words : Seq(Nat), heading : BOOLEAN, listLevel : BOOLEAN]]]

(* fromHMBlock with the attributes of the block's group: childrenType and  *)
(* listLevel are set when the block has children.                          *)
fromHMBlock(d, b) ==
    [words |-> d.words[b], heading |-> b \in d.headings, listLevel |-> d.kids[b] # <<>>]

createBlocksMap(s) ==
    [b \in Blocks(s) |-> [parent |-> Parent(s.kids, b), left |-> Left(s.kids, b),
                          block |-> s.content[b]]]

MoveBlock(b, p, l) == [op |-> "moveBlock", block |-> b, parent |-> p, left |-> l]
ReplaceBlock(b, c) == [op |-> "replaceBlock", block |-> b, content |-> c]
DeleteBlock(b) == [op |-> "deleteBlock", block |-> b]

(* Mutant: a block that keeps its left sibling is not moved.               *)
compareBlockByLeft(d, map, b, call) ==
    LET block == fromHMBlock(d, b)
        left == Left(d.kids, b)
        new == b \notin DOMAIN map \/ (call = "update" /\ map[b].block.listLevel # block.listLevel)
    IN  (IF new \/ map[b].left # left THEN <<MoveBlock(b, Parent(d.kids, b), left)>> ELSE <<>>)
        \o (IF new \/ map[b].block # block THEN <<ReplaceBlock(b, block)>> ELSE <<>>)

(* Mutant: a block that keeps its parent is not moved.                     *)
compareBlockByParent(d, map, b, call) ==
    LET block == fromHMBlock(d, b)
        parent == Parent(d.kids, b)
        new == b \notin DOMAIN map \/ (call = "update" /\ map[b].block.listLevel # block.listLevel)
    IN  (IF new \/ map[b].parent # parent THEN <<MoveBlock(b, parent, Left(d.kids, b))>> ELSE <<>>)
        \o (IF new \/ map[b].block # block THEN <<ReplaceBlock(b, block)>> ELSE <<>>)

(* The changes for one block of d; a save takes a block whose listLevel    *)
(* differs for a new one, a restore does not.                              *)
compareBlock(d, map, b, call) ==
    LET block == fromHMBlock(d, b)
        parent == Parent(d.kids, b)
        left == Left(d.kids, b)
        new == b \notin DOMAIN map \/ (call = "update" /\ map[b].block.listLevel # block.listLevel)
        moved == new \/ map[b].left # left \/ map[b].parent # parent
    IN  (IF moved THEN <<MoveBlock(b, parent, left)>> ELSE <<>>)
        \o (IF new \/ map[b].block # block THEN <<ReplaceBlock(b, block)>> ELSE <<>>)

(* Mutant: the changes of the children come before their parent's.         *)
compareChildrenFirst(d, map) ==
    LET order == Reverse(Below(d.kids, Root))
    IN  [i \in DOMAIN order |-> compareBlock(d, map, order[i], "update")]

(* Parents before children, siblings from first to last.                   *)
compareBlocksWithMap(d, map) ==
    LET order == Below(d.kids, Root)
    IN  [i \in DOMAIN order |-> compareBlock(d, map, order[i], "update")]

(* The same for a draft that is restored: d is the draft as it was.        *)
compareDraftWithMap(d, map) ==
    LET order == Below(d.kids, Root)
    IN  [i \in DOMAIN order |-> compareBlock(d, map, order[i], "restore")]

extractDeletes(d, map) ==
    LET gone == SetToSeq(DOMAIN map \ Blocks(d))
    IN  [i \in DOMAIN gone |-> <<DeleteBlock(gone[i])>>]

(* What is sent: the changes block by block, one after the other.          *)
updateDraft(d, map) == compareBlocksWithMap(d, map) \o extractDeletes(d, map)

(* Mutant: blocks of the publication that the draft had deleted stay.      *)
restoreWithoutDeletes(d, map) == compareDraftWithMap(d, map)

restoreDraft(d, map) == compareDraftWithMap(d, map) \o extractDeletes(d, map)

(* A document as the daemon stores it when a draft is created from it, and *)
(* a stored document as a list of blocks again.                            *)
createDraft(d) ==
    [kids |-> d.kids, trash |-> {},
     content |-> [b \in Ids |-> IF b \in Blocks(d) THEN fromHMBlock(d, b) ELSE NoContent]]

hmDocument(s) ==
    [kids |-> s.kids,
     words |-> [b \in Ids |-> IF b \in Blocks(s) THEN s.content[b].words ELSE <<>>],
     headings |-> {b \in Blocks(s) : s.content[b].heading}]

-----------------------------------------------------------------------------
Known(s) == Blocks(s) \cup s.trash

(* From parent to parent; '' and the trash end it.                         *)
isAncestor(s, a, b) ==
    LET up[k \in 0..MaxBlocks] ==
            IF k = 0 THEN b
            ELSE IF up[k - 1] \in Blocks(s) THEN Parent(s.kids, up[k - 1]) ELSE Root
    IN  \E k \in 1..MaxBlocks : up[k] = a

Without(s, b) ==
    [s EXCEPT !.kids = IF b \in Blocks(s) THEN InPlaceOf(@, b, <<>>) ELSE @,
              !.trash = @ \ {b}]

(* treeMutation.move: what is refused, and the block right after its left. *)
MoveRefused(s, c) ==
    \/ c.block = c.left
    \/ c.parent # Root /\ c.parent = c.left
    \/ c.parent # Root /\ c.parent \notin Known(s)
    \/ isAncestor(s, c.block, c.parent)
    \/ c.left # Root /\ c.left \notin ToSet(s.kids[c.parent])

move(s, c) == LET w == Without(s, c.block)
              IN  [w EXCEPT !.kids = Behind(@, c.parent, c.left, <<c.block>>)]
delete(s, c) == LET w == Without(s, c.block) IN [w EXCEPT !.trash = @ \cup {c.block}]
replace(s, c) == [s EXCEPT !.content[c.block] = c.content]

applyChange(r, c) ==
    IF r.refused \/ (c.op = "moveBlock" /\ MoveRefused(r.doc, c))
    THEN [r EXCEPT !.refused = TRUE]
    ELSE [r EXCEPT !.doc = CASE c.op = "moveBlock" -> move(@, c)
                             [] c.op = "replaceBlock" -> replace(@, c)
                             [] c.op = "deleteBlock" -> delete(@, c)]

applyChanges(r, changes) ==
    LET at[k \in 0..Len(changes)] ==
            IF k = 0 THEN r ELSE applyChange(at[k - 1], changes[k])
    IN  at[Len(changes)]

(* The answer to an update: one refused change refuses them all.           *)
UpdateDraft(s, changes) ==
    LET at[k \in 0..Len(changes)] ==
            IF k = 0 THEN [doc |-> s, refused |-> FALSE]
            ELSE applyChanges(at[k - 1], changes[k])
        r == at[Len(changes)]
    IN  IF r.refused THEN [doc |-> s, refused |-> TRUE] ELSE r
=============================================================================
