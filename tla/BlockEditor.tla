----------------------------- MODULE BlockEditor -----------------------------
(***************************************************************************)
(* The editing operations of the block editor (frontend/packages/editor/   *)
(* src/blocknote/core): what Enter, Backspace, Tab and Shift-Tab do at a   *)
(* position in a block, the commands they use, the side menu and the       *)
(* drag of blocks; and the saving of what they leave, see BlockDiff.       *)
(*                                                                         *)
(* sinkListItem and liftListItem are ProseMirror's: they nest a block      *)
(* under its previous sibling and lift it out behind its parent.           *)
(***************************************************************************)
EXTENDS BlockDiff

CONSTANTS
    InitialDocs,  \* the documents a draft is opened with
    MaxEdits      \* bound: edits of a behaviour

(* Ids are handed out in order; the documents have the first ones.         *)
ASSUME EditorAssumption ==
    /\ MaxEdits \in Nat
    /\ \A d \in InitialDocs : IsDocument(d) /\ Blocks(d) = 1..Cardinality(Blocks(d))

VARIABLES
    doc,      \* the document in the editor
    undo,     \* the document before the last edit
    saved,    \* the daemon's document
    used,     \* block ids handed out
    edits,    \* edits so far
    unsaved   \* edits that changed places since the daemon had all blocks
              \* in theirs: "none", "one" of one block, "many" for more

vars == <<doc, undo, saved, used, edits, unsaved>>

(* The blocks form a tree, in the editor and in the daemon, with nothing   *)
(* left behind outside of it; ids are not handed out twice.                *)
TypeOK ==
    /\ \A d \in {doc, undo} : IsDocument(d) /\ Blocks(d) \subseteq 1..used
    /\ saved \in StoredDocuments
    /\ IsTree(saved.kids) /\ saved.trash \cap Blocks(saved) = {}
    /\ used \in 0..MaxBlocks
    /\ edits \in 0..MaxEdits
    /\ unsaved \in {"none", "one", "many"}

Init ==
    /\ doc \in InitialDocs
    /\ undo = doc
    /\ saved = createDraft(doc)
    /\ used = Cardinality(Blocks(doc))
    /\ edits = 0
    /\ unsaved = "none"

-----------------------------------------------------------------------------
(* The commands.                                                           *)
BNCreateBlockBefore(d, b, n) == [d EXCEPT !.kids = InPlaceOf(@, b, <<n, b>>)]
BNCreateBlockAfter(d, b, n) == [d EXCEPT !.kids = InPlaceOf(@, b, <<b, n>>)]

BNDeleteBlock(d, b) ==
    Cut([d EXCEPT !.kids = InPlaceOf(@, b, <<>>)], {b} \cup ToSet(Below(d.kids, b)))

BNUpdateBlock(d, b, heading) ==
    [d EXCEPT !.headings = IF heading THEN @ \cup {b} ELSE @ \ {b}]

(* The children of b take its place, its text goes to the end of another.  *)
AppendTo(d, b, target) ==
    Cut([d EXCEPT !.kids = InPlaceOf(@, b, d.kids[b]),
                  !.words[target] = @ \o d.words[b]], {b})

(* Mutant: the text goes to the previous sibling, before its children.     *)
MergeIntoSibling(d, b) == AppendTo(d, b, Left(d.kids, b))

(* ... the nearest block above it, at any level of nesting.                *)
BNMergeBlocks(d, b) == AppendTo(d, b, LastBelow(d.kids, Left(d.kids, b)))

(* The text behind the position and the children go to the new block.      *)
BNSplitBlock(d, b, k, n) ==
    [d EXCEPT !.kids = [InPlaceOf(d.kids, b, <<b, n>>) EXCEPT ![b] = <<>>, ![n] = d.kids[b]],
              !.words[b] = SubSeq(@, 1, k),
              !.words[n] = SubSeq(d.words[b], k + 1, Len(d.words[b]))]

sinkListItem(d, b) ==
    IF Left(d.kids, b) = Root THEN d
    ELSE [d EXCEPT !.kids =
             [InPlaceOf(d.kids, b, <<>>) EXCEPT ![Left(d.kids, b)] = Append(@, b)]]

(* Mutant: the siblings that follow b also stay where they are.            *)
liftListItemOnly(d, b) ==
    LET p == Parent(d.kids, b)
    IN  IF p = Root \/ d.kids[b] # <<>> THEN d
        ELSE [d EXCEPT !.kids = [InPlaceOf(InPlaceOf(d.kids, b, <<>>), p, <<p, b>>) EXCEPT
                                    ![b] = Following(d.kids, b)]]

(* The siblings that follow b become its children.  A block with children  *)
(* cannot take them in a second group: the step is not valid and throws.   *)
liftListItem(d, b) ==
    LET p == Parent(d.kids, b)
        after == Following(d.kids, b)
    IN  IF p = Root \/ (d.kids[b] # <<>> /\ after # <<>>) THEN d
        ELSE [d EXCEPT !.kids =
                 [InPlaceOf(d.kids, p, <<p, b>>) EXCEPT
                     ![p] = SubSeq(@, 1, Index(d.kids, b) - 1),
                     ![b] = @ \o after]]

(* Without children the rest of a heading is split off and nested under    *)
(* it, with children it becomes their first sibling.                       *)
BNSplitHeadingBlock(d, b, k, n) ==
    IF d.kids[b] = <<>> THEN sinkListItem(BNSplitBlock(d, b, k, n), n)
    ELSE [d EXCEPT !.kids[b] = <<n>> \o @,
                   !.words[b] = SubSeq(@, 1, k),
                   !.words[n] = SubSeq(d.words[b], k + 1, Len(d.words[b]))]

(* Backspace with the cursor at the start of b; the first that applies.    *)
handleBackspace(d, b) ==
    LET p == Parent(d.kids, b)
        prev == Left(d.kids, b)
        empty == textContent(d, prev) = <<>>
    IN  CASE b \in d.headings -> BNUpdateBlock(d, b, FALSE)
          [] b \notin d.headings /\ prev = Root /\ p \in d.headings -> AppendTo(d, b, p)
          [] b \notin d.headings /\ prev = Root /\ p \notin d.headings -> liftListItem(d, b)
          [] b \notin d.headings /\ prev # Root /\ textContent(d, b) # <<>> /\ empty ->
                BNDeleteBlock(d, prev)
          [] b \notin d.headings /\ prev # Root /\ ~(textContent(d, b) # <<>> /\ empty) ->
                BNMergeBlocks(d, b)

(* Enter behind the k-th word of b; n is the id a new block gets.          *)
handleEnter(d, b, k, n) ==
    LET blockEmpty == textContent(d, b) = <<>>
        lastIndented == Parent(d.kids, b) # Root /\ Following(d.kids, b) = <<>>
    IN  CASE k = 0 /\ ~blockEmpty -> BNCreateBlockBefore(d, b, n)
          [] k = 0 /\ blockEmpty /\ lastIndented -> liftListItem(d, b)
          [] k = 0 /\ blockEmpty /\ ~lastIndented -> BNCreateBlockAfter(d, b, n)
          [] k > 0 /\ b \in d.headings -> BNSplitHeadingBlock(d, b, k, n)
          [] k > 0 /\ b \notin d.headings -> BNSplitBlock(d, b, k, n)

(* Blocks s, adjacent siblings, dropped into the group of p behind l.      *)
dropBlocks(d, s, p, l) ==
    LET b == s[1]
        kept == [d.kids EXCEPT ![Parent(d.kids, b)] =
                                  ReplaceSubSeqAt(Index(d.kids, b), <<>>, s, @)]
    IN  [d EXCEPT !.kids = Behind(kept, p, l, s)]

-----------------------------------------------------------------------------
(* The result of an edit is shown, and what was shown can be undone.       *)
Edit(d, several) ==
    /\ d # doc
    /\ edits < MaxEdits
    /\ doc' = d /\ undo' = doc
    /\ edits' = edits + 1
    /\ unsaved' = IF d.kids = doc.kids THEN unsaved
                  ELSE IF unsaved = "none" /\ ~several THEN "one" ELSE "many"
    /\ used' = IF used + 1 \in Blocks(d) THEN used + 1 ELSE used
    /\ UNCHANGED saved

New == used + 1     \* a fresh random id

Type(b) == Edit([doc EXCEPT !.words[b] = Append(@, edits + 1)], FALSE)
ToggleHeading(b) == Edit(BNUpdateBlock(doc, b, b \notin doc.headings), FALSE)
Backspace(b) == Edit(handleBackspace(doc, b), FALSE)
Tab(b) == Edit(sinkListItem(doc, b), FALSE)
ShiftTab(b) == Edit(liftListItem(doc, b), FALSE)
Enter(b, k) == New \in Ids /\ Edit(handleEnter(doc, b, k, New), FALSE)
addBlock(b) == /\ New \in Ids /\ doc.words[b] # <<>>
               /\ Edit(BNCreateBlockAfter(doc, b, New), FALSE)
insertNested(b) == /\ New \in Ids
                   /\ Edit([doc EXCEPT !.kids[b] = <<New>> \o @], FALSE)
removeBlock(b) == Blocks(BNDeleteBlock(doc, b)) # {} /\ Edit(BNDeleteBlock(doc, b), FALSE)

(* Drag of the blocks from b to the sibling c, dropped anywhere outside.   *)
Drag(b, c, p, l) ==
    LET s == <<b>> \o SubSeq(Following(doc.kids, b), 1,
                             Index(doc.kids, c) - Index(doc.kids, b))
        inside == UNION {{x} \cup ToSet(Below(doc.kids, x)) : x \in ToSet(s)}
    IN  /\ p \notin inside /\ l \notin inside
        /\ Edit(dropBlocks(doc, s, p, l), Len(s) > 1)

Undo == Edit(undo, TRUE)

(* The autosave: one call with the changes since the last, if any.         *)
Save ==
    LET changes == updateDraft(doc, createBlocksMap(saved))
        answer == UpdateDraft(saved, changes)
    IN  /\ \E i \in DOMAIN changes : changes[i] # <<>>
        /\ saved' = answer.doc
        /\ unsaved' = IF answer.doc.kids = doc.kids THEN "none" ELSE "many"
        /\ UNCHANGED <<doc, undo, used, edits>>

Next ==
    \/ \E b \in Blocks(doc) :
          \/ Type(b) \/ ToggleHeading(b) \/ Backspace(b) \/ Tab(b) \/ ShiftTab(b)
          \/ addBlock(b) \/ insertNested(b) \/ removeBlock(b)
          \/ \E k \in 0..Len(doc.words[b]) : Enter(b, k)
          \/ \E c \in {b} \cup ToSet(Following(doc.kids, b)), p \in Blocks(doc) \cup {Root} :
                \E l \in {Root} \cup ToSet(doc.kids[p]) : Drag(b, c, p, l)
    \/ Undo
    \/ Save

Spec == Init /\ [][Next]_vars

-----------------------------------------------------------------------------
Saving == UpdateDraft(saved, updateDraft(doc, createBlocksMap(saved)))

(* Whatever was edited since the last save, the daemon accepts the list of *)
(* changes: a parent is in the tree and a left sibling is in place when    *)
(* the change that names it comes (compareBlocksWithMap lists parents      *)
(* before children and left before right; treeMutation.move checks it).    *)
SavesAreAccepted == ~Saving.refused

(* A save loses no block and keeps none: what the daemon then has is what  *)
(* the editor shows, with every block under its parent and its content.    *)
NestingIsSaved ==
    LET s == Saving.doc
    IN  /\ Blocks(s) = Blocks(doc)
        /\ \A b \in Blocks(doc) :
              Parent(s.kids, b) = Parent(doc.kids, b) /\ s.content[b] = fromHMBlock(doc, b)

(* The order is saved too when at most one block was moved, inserted or    *)
(* removed since the daemon had all blocks in their places, whatever was   *)
(* typed meanwhile.                                                        *)
OneEditIsSavedInOrder == unsaved \in {"none", "one"} => Saving.doc.kids = doc.kids

(* A restore deletes the draft, creates a new one from the publication and *)
(* sends what differs from the draft as it was saved last (restoreDraft,   *)
(* compareDraftWithMap).  Whatever publication that is: the changes are    *)
(* accepted, and the new draft has the blocks of the old one, each under   *)
(* its parent and with its content.                                        *)
Restoring(d) ==
    UpdateDraft(createDraft(d), restoreDraft(hmDocument(saved), createBlocksMap(createDraft(d))))

NestingIsRestored ==
    \A d \in InitialDocs :
        LET s == Restoring(d).doc
        IN  /\ ~Restoring(d).refused
            /\ Blocks(s) = Blocks(saved)
            /\ \A b \in Blocks(saved) :
                  Parent(s.kids, b) = Parent(saved.kids, b) /\ s.content[b] = saved.content[b]

(* Keys that change the structure of a document keep its text: Enter,      *)
(* Backspace, Tab and Shift-Tab lose and reorder no word, whatever is      *)
(* nested, merged or lifted on the way.                                    *)
KeysKeepTheText ==
    [][(\E b \in Blocks(doc) : \/ Backspace(b) \/ Tab(b) \/ ShiftTab(b)
                               \/ \E k \in 0..Len(doc.words[b]) : Enter(b, k))
       => Reading(doc') = Reading(doc)]_vars
=============================================================================
