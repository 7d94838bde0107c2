------------------------------- MODULE Comments -------------------------------
(***************************************************************************)
(* Comments in the desktop application.  A comment is written as a draft   *)
(* that the main process keeps in a store of its own                       *)
(* (frontend/apps/desktop/src/app-comments.ts); the page of a window that  *)
(* edits it saves it 500 ms after the last change                          *)
(* (frontend/packages/app/models/comments.ts), submits it to the daemon or *)
(* discards it.  The comments the daemon lists are shown as groups of      *)
(* replies and as threads.                                                 *)
(*                                                                         *)
(* What a draft says is a number: 0 the text it was created with, then the *)
(* number of the edit that made it.  Calls of a window to the main process *)
(* are handled and answered in the order they are made.                    *)
(***************************************************************************)
EXTENDS CommentThreads

CONSTANTS
    Windows, Drafts,
    NoDraft, NoPage,
    MaxEdits,      \* bound on the edits
    MaxCalls,      \* bound on a window's calls under way when the user acts
    MaxComments,   \* bound on the comments of the document
    MaxBefore      \* bound on the comments when drafts are made

ASSUME ConstantsAssumption ==
    /\ NoDraft \notin [blocks : Nat, target : Nat]
    /\ {MaxEdits, MaxCalls, MaxComments, MaxBefore} \subseteq Nat

VARIABLES
    index,     \* the store's Doc-<eid>: the drafts of the document
    drafts,    \* the store's Comment-<id>
    half,      \* the operation of which only the first write is done
    known,     \* the ids given to drafts
    removed,   \* the drafts whose removal has begun
    page,      \* the comment draft page each window shows
    timers,    \* the timers of pages that are gone, in the order they were set:
               \* the writes they will make
    cached,    \* the drafts each window's query cache has
    calls,     \* each window's calls to the main process
    submits,   \* each window's calls of createComment
    published, \* the comments the daemon lists for the document
    edits,     \* the number of edits so far
    dropped    \* the edits not yet sent when their window went, or when a text
               \* that was fetched replaced theirs (history)

store == <<index, drafts, half, known, removed>>
renderer == <<page, timers, cached, edits, dropped>>
wires == <<calls, submits>>
vars == <<store, renderer, wires, published>>

NoComment == 0
NoOp == [op |-> "none"]
Ids == IdsOf(published)
Targets == {c.repliedComment : c \in published}

(* from: who waits for the answer: the page that made the call, its window *)
(* when that page is gone, or nobody.  The promise of a write belongs to   *)
(* its page; once the page is gone ("left"), all it can do is to clear the *)
(* timer that the page has left.                                           *)
Call(op, d, blocks, target) ==
    [op |-> op, draft |-> d, blocks |-> blocks, target |-> target, from |-> "page"]
From(c, from) == [c EXCEPT !.from = from]
Orphaned(q, timer) ==
    [i \in DOMAIN q |->
        IF q[i].from # "page" THEN q[i]
        ELSE From(q[i], IF q[i].op # "write" THEN "window" ELSE IF timer THEN "left" ELSE "gone")]
Forgotten(q) == [i \in DOMAIN q |-> From(q[i], "gone")]
(* The oldest timer is gone, which is the one the "left" writes would end. *)
Released(q) == [i \in DOMAIN q |-> IF q[i].from = "left" THEN From(q[i], "gone") ELSE q[i]]

(* route: the draft of the window's route, whose text is fetched.  draft:  *)
(* the one that was the route's when the page was mounted, which the       *)
(* editor and onDiscard have captured.  A page is not mounted anew when    *)
(* the route goes from one draft to another (getRouteKey).                 *)
NewPage(d) == [draft |-> d, route |-> d, target |-> NoDraft, blocks |-> 0,
               isSaved |-> TRUE, timer |-> FALSE]
Routed(p, d) == IF p = NoPage THEN NewPage(d) ELSE [p EXCEPT !.route = d]
MayCall(w) == Len(calls[w]) < MaxCalls
Send(w, c) == calls' = [calls EXCEPT ![w] = Append(@, c)]

Init ==
    /\ index = {} /\ drafts = [d \in Drafts |-> NoDraft] /\ half = NoOp
    /\ known = {} /\ removed = {}
    /\ page = [w \in Windows |-> NoPage] /\ timers = [w \in Windows |-> <<>>]
    /\ cached = [w \in Windows |-> {}] /\ edits = 0 /\ dropped = {}
    /\ calls = [w \in Windows |-> <<>>] /\ submits = [w \in Windows |-> <<>>]
    /\ published = {}

-----------------------------------------------------------------------------
(* The pages of a window.  One it leaves still has its timer, and answers  *)
(* find it gone.                                                           *)
LeftTimers(w) ==
    IF page[w] # NoPage /\ page[w].timer
    THEN Append(timers[w], [draft |-> page[w].draft, blocks |-> page[w].blocks])
    ELSE timers[w]
EditsOf(q) == {q[i].blocks : i \in DOMAIN q} \cap (1..MaxEdits)
(* Mutant: the timer is cleared with the page.                             *)
LeftWithoutTimer(w, left) ==
    /\ page' = [page EXCEPT ![w] = NoPage]
    /\ timers' = timers
    /\ calls' = [calls EXCEPT ![w] = Orphaned(left, FALSE)]
Left(w, left) ==
    /\ page' = [page EXCEPT ![w] = NoPage]
    /\ timers' = [timers EXCEPT ![w] = LeftTimers(w)]
    /\ calls' = [calls EXCEPT ![w] = Orphaned(left, page[w].timer)]
LeavePage(w) ==
    /\ page[w] # NoPage
    /\ Left(w, calls[w])
    /\ UNCHANGED <<store, cached, edits, dropped, submits, published>>

(* A window that is closed takes its timers and its cache along; what it   *)
(* sent has been sent.                                                     *)
Closed(w, left) ==
    /\ page' = [page EXCEPT ![w] = NoPage]
    /\ timers' = [timers EXCEPT ![w] = <<>>]
    /\ dropped' = dropped \cup EditsOf(LeftTimers(w))
    /\ cached' = [cached EXCEPT ![w] = {}]
    /\ calls' = [calls EXCEPT ![w] = Forgotten(left)]
    /\ submits' = [submits EXCEPT ![w] = [i \in DOMAIN @ |-> [@[i] EXCEPT !.from = "gone"]]]
CloseWindow(w) ==
    /\ page[w] # NoPage
    /\ Closed(w, calls[w])
    /\ UNCHANGED <<store, edits, published>>

Creating == FoldSet(LAMBDA w, n : n + Len(SelectSeq(calls[w], LAMBDA c : c.op = "create")), 0, Windows)

(* useCreateComment: reply to a comment or comment on the document.        *)
CreateComment(w, target) ==
    /\ page[w] = NoPage /\ MayCall(w)
    /\ Cardinality(known) + Creating < Cardinality(Drafts) /\ Cardinality(published) <= MaxBefore
    /\ Send(w, From(Call("create", NoDraft, 0, target), "window"))
    /\ UNCHANGED <<store, renderer, submits, published>>

(* The route of a draft is opened: by its creation, or from the history of *)
(* the window.  A draft in the query cache is not asked for again, and its *)
(* page is then never told that it was loaded.                             *)
Fetching(q, d) == \E i \in DOMAIN q : q[i].op = "get" /\ q[i].draft = d /\ q[i].from # "gone"
Get(w, d, q) ==
    IF d \in cached[w] \/ Fetching(q, d) THEN q ELSE Append(q, Call("get", d, 0, NoComment))
OpenPage(w, d) ==
    /\ page[w] # NoPage => page[w].route # d
    /\ d \in known /\ MayCall(w)
    /\ page' = [page EXCEPT ![w] = Routed(@, d)]
    /\ calls' = [calls EXCEPT ![w] = Get(w, d, @)]
    /\ UNCHANGED <<store, timers, cached, edits, dropped, submits, published>>

(* The cache forgets a query no page has used for five minutes: no timer   *)
(* of a page that is gone takes that long.                                 *)
CacheExpires(w, d) ==
    /\ d \in cached[w] /\ timers[w] = <<>> /\ (page[w] # NoPage => page[w].route # d)
    /\ cached' = [cached EXCEPT ![w] = @ \ {d}]
    /\ UNCHANGED <<store, page, timers, edits, dropped, wires, published>>

(* onEditorContentChange: the user's edits, addReplyEmbed, and initDraft.  *)
Changed(p, blocks) == [p EXCEPT !.blocks = blocks, !.isSaved = FALSE, !.timer = TRUE]
Saved(p) == [p EXCEPT !.isSaved = TRUE, !.timer = FALSE]
Edit(w) ==
    /\ page[w] # NoPage /\ edits < MaxEdits
    /\ edits' = edits + 1
    /\ page' = [page EXCEPT ![w] = Changed(@, edits + 1)]
    /\ UNCHANGED <<store, timers, cached, dropped, wires, published>>

(* Every timer takes as long as the others: a page that is gone comes      *)
(* first.                                                                  *)
SaveTimeout(w) ==
    /\ page[w] # NoPage /\ page[w].timer /\ timers[w] = <<>>
    /\ Send(w, Call("write", page[w].draft, page[w].blocks, NoComment))
    /\ page' = [page EXCEPT ![w] = [@ EXCEPT !.timer = FALSE]]
    /\ UNCHANGED <<store, timers, cached, edits, dropped, submits, published>>
LeftTimeout(w) ==
    /\ timers[w] # <<>>
    /\ LET t == Head(timers[w])
       IN  calls' = [calls EXCEPT ![w] =
               Append(Released(@), From(Call("write", t.draft, t.blocks, NoComment), "gone"))]
    /\ timers' = [timers EXCEPT ![w] = Tail(@)]
    /\ UNCHANGED <<store, page, cached, edits, dropped, submits, published>>

onDiscard(w) ==
    /\ page[w] # NoPage /\ MayCall(w)
    /\ Send(w, Call("remove", page[w].draft, 0, NoComment))
    /\ UNCHANGED <<store, renderer, submits, published>>

-----------------------------------------------------------------------------
(* The main process handles a call, and the window gets the answer.  Each  *)
(* set of the store writes its file: the process may die between two.      *)
Handling(w, op) == half = NoOp /\ calls[w] # <<>> /\ Head(calls[w]).op = op
Answered(w) == calls' = [calls EXCEPT ![w] = Tail(@)]

(* onSuccess and initDraft: the stored text replaces the editor's, edits   *)
(* that are not saved yet included.                                        *)
getCommentDraft(w) ==
    /\ Handling(w, "get") /\ Answered(w)
    /\ LET c == Head(calls[w])
           found == drafts[c.draft]
           shows == page[w] # NoPage /\ page[w].route = c.draft
       IN  /\ cached' = IF c.from = "gone" THEN cached ELSE [cached EXCEPT ![w] = @ \cup {c.draft}]
           /\ IF c.from # "gone" /\ found # NoDraft /\ shows
              THEN /\ page' = [page EXCEPT ![w] =
                          Changed([@ EXCEPT !.target = found.target], found.blocks)]
                   /\ dropped' = IF page[w].timer THEN dropped \cup EditsOf(<<page[w]>>) ELSE dropped
              ELSE UNCHANGED <<page, dropped>>
    /\ UNCHANGED <<store, timers, edits, submits, published>>

(* Mutant: a write of a draft that is not there makes it.                  *)
writeCommentDraftAnyway(w) ==
    /\ Handling(w, "write") /\ Answered(w)
    /\ LET c == Head(calls[w])
       IN  drafts' = [drafts EXCEPT ![c.draft] =
               [blocks |-> c.blocks, target |-> IF @ = NoDraft THEN NoComment ELSE @.target]]
    /\ UNCHANGED <<index, half, known, removed, renderer, submits, published>>

(* A write that is answered ends the timer, of later changes too, and if   *)
(* its page is gone, the timer that it has left; one that fails shows a    *)
(* toast.                                                                  *)
writeCommentDraft(w) ==
    /\ Handling(w, "write")
    /\ LET c == Head(calls[w])
           found == drafts[c.draft] # NoDraft
       IN  /\ drafts' = IF found THEN [drafts EXCEPT ![c.draft] = [@ EXCEPT !.blocks = c.blocks]] ELSE drafts
           /\ page' = IF found /\ c.from = "page" THEN [page EXCEPT ![w] = Saved(@)] ELSE page
           /\ IF found /\ c.from = "left"
              THEN /\ timers' = [timers EXCEPT ![w] = Tail(@)]
                   /\ calls' = [calls EXCEPT ![w] = Released(Tail(@))]
              ELSE Answered(w) /\ UNCHANGED timers
    /\ UNCHANGED <<index, half, known, removed, cached, edits, dropped, submits, published>>

(* The draft's first write is that of the index, its second the draft.     *)
createCommentDraft(w) ==
    /\ Handling(w, "create")
    /\ \E d \in Drafts \ known :
        /\ index' = index \cup {d}
        /\ half' = [op |-> "create", window |-> w, draft |-> d]
        /\ known' = known \cup {d}
    /\ UNCHANGED <<drafts, removed, renderer, wires, published>>

(* ... after which useNavigate goes to its page: in the window itself if   *)
(* that is one for comments, which may show a draft already, else in a     *)
(* window that is opened for it.                                           *)
IsFresh(w) ==
    /\ page[w] = NoPage /\ timers[w] = <<>> /\ cached[w] = {}
    /\ calls[w] = <<>> /\ submits[w] = <<>>
Created ==
    /\ half # NoOp /\ half.op = "create"
    /\ LET w == half.window
           d == half.draft
           c == Head(calls[w])
       IN  /\ drafts' = [drafts EXCEPT ![d] = [blocks |-> 0, target |-> c.target]]
           /\ \/ c.from = "gone" /\ Answered(w) /\ UNCHANGED page
              \/ /\ c.from # "gone"
                 /\ page' = [page EXCEPT ![w] = Routed(@, d)]
                 /\ calls' = [calls EXCEPT ![w] = Get(w, d, Tail(@))]
              \/ /\ c.from # "gone" /\ page[w] = NoPage /\ timers[w] = <<>> /\ cached[w] = {}
                 /\ \E v \in Windows :
                       /\ IsFresh(v)
                       /\ page' = [page EXCEPT ![v] = NewPage(d)]
                       /\ calls' = [calls EXCEPT ![w] = Tail(@), ![v] = Get(v, d, @)]
    /\ half' = NoOp
    /\ UNCHANGED <<index, known, removed, timers, cached, edits, dropped, submits, published>>

(* Mutant: the index forgets the draft first.                              *)
removeFromIndexFirst(w) ==
    /\ Handling(w, "remove")
    /\ LET c == Head(calls[w])
       IN  IF drafts[c.draft] # NoDraft
           THEN /\ index' = index \ {c.draft}
                /\ half' = [op |-> "remove", window |-> w, draft |-> c.draft]
                /\ UNCHANGED <<renderer, wires>>
           ELSE /\ IF c.from = "gone" THEN Answered(w) /\ UNCHANGED <<page, timers, cached, dropped, submits>>
                   ELSE Closed(w, Tail(calls[w]))
                /\ UNCHANGED <<index, half, edits>>
    /\ UNCHANGED <<drafts, removed, known, published>>

(* Mutant: the window is closed only when the draft was there.             *)
removeAnsweredIfFound(w) ==
    /\ Handling(w, "remove")
    /\ LET c == Head(calls[w])
       IN  IF drafts[c.draft] # NoDraft
           THEN /\ drafts' = [drafts EXCEPT ![c.draft] = NoDraft]
                /\ removed' = removed \cup {c.draft}
                /\ half' = [op |-> "remove", window |-> w, draft |-> c.draft]
                /\ UNCHANGED <<renderer, wires>>
           ELSE /\ Answered(w)
                /\ UNCHANGED <<drafts, half, removed, renderer, submits>>
    /\ UNCHANGED <<index, known, published>>

(* The draft goes first, then its place in the index.  A draft that is not *)
(* there any more is an error, which closes the window too.                *)
removeCommentDraft(w) ==
    /\ Handling(w, "remove")
    /\ LET c == Head(calls[w])
       IN  IF drafts[c.draft] # NoDraft
           THEN /\ drafts' = [drafts EXCEPT ![c.draft] = NoDraft]
                /\ removed' = removed \cup {c.draft}
                /\ half' = [op |-> "remove", window |-> w, draft |-> c.draft]
                /\ UNCHANGED <<renderer, wires>>
           ELSE /\ IF c.from = "gone" THEN Answered(w) /\ UNCHANGED <<page, timers, cached, dropped, submits>>
                   ELSE Closed(w, Tail(calls[w]))
                /\ UNCHANGED <<drafts, half, removed, edits>>
    /\ UNCHANGED <<index, known, published>>

Removed ==
    /\ half # NoOp /\ half.op = "remove"
    /\ LET w == half.window
       IN  IF Head(calls[w]).from = "gone" THEN Answered(w) /\ UNCHANGED <<page, timers, cached, dropped, submits>>
           ELSE Closed(w, Tail(calls[w]))
    /\ index' = index \ {half.draft}
    /\ half' = NoOp
    /\ UNCHANGED <<drafts, known, removed, edits, published>>

(* getCommentDrafts: what the index lists and the store has.               *)
getCommentDrafts == {d \in index : drafts[d] # NoDraft}

(* The application dies: only the store is left.                           *)
Crash ==
    /\ half' = NoOp
    /\ page' = [w \in Windows |-> NoPage] /\ timers' = [w \in Windows |-> <<>>]
    /\ cached' = [w \in Windows |-> {}]
    /\ calls' = [w \in Windows |-> <<>>] /\ submits' = [w \in Windows |-> <<>>]
    /\ dropped' = dropped \cup UNION {EditsOf(LeftTimers(w) \o calls[w]) : w \in Windows}
    /\ UNCHANGED <<index, drafts, known, removed, edits, published>>

-----------------------------------------------------------------------------
Submitting == FoldSet(LAMBDA w, n : n + Len(submits[w]), 0, Windows)

(* The button is enabled by isSaved; without a loaded draft onSubmit       *)
(* throws.                                                                 *)
onSubmit(w) ==
    /\ page[w] # NoPage /\ page[w].isSaved /\ page[w].target # NoDraft
    /\ Submitting + Cardinality(published) <= MaxBefore
    /\ submits' = [submits EXCEPT ![w] = Append(@, [target |-> page[w].target, from |-> "window"])]
    /\ UNCHANGED <<store, renderer, calls, published>>

(* createComment of the daemon and its answer: the window shows the new    *)
(* comment, whatever it showed.  The draft stays in the store.  The id is  *)
(* a new CID: nobody has replied to it yet.                                *)
publishComment(w) ==
    /\ submits[w] # <<>>
    /\ submits' = [submits EXCEPT ![w] = Tail(@)]
    /\ LET to == Head(submits[w]).target
           new == (1..MaxComments) \ (Ids \cup Targets \cup {to})
       IN  /\ new # {}
           /\ published' = published \cup {[id |-> CHOOSE id \in new : TRUE, repliedComment |-> to]}
    /\ IF Head(submits[w]).from # "gone" /\ page[w] # NoPage
       THEN Left(w, calls[w])
       ELSE UNCHANGED <<page, timers, calls>>
    /\ UNCHANGED <<store, cached, edits, dropped>>
SubmitFails(w) ==
    /\ submits[w] # <<>>
    /\ submits' = [submits EXCEPT ![w] = Tail(@)]
    /\ UNCHANGED <<store, renderer, calls, published>>

(* A comment of another peer arrives, before or after the one it replies   *)
(* to.  No comment is made before the one it replies to.                   *)
ReceiveComment ==
    /\ Cardinality(published) < IF known = {} /\ Creating = 0 THEN MaxComments ELSE MaxBefore
    /\ (1..MaxComments) \ Ids # {}
    /\ LET id == CHOOSE id \in (1..MaxComments) \ Ids : TRUE
       IN  \E to \in (NoComment..MaxComments) \ ({id} \cup Under(published, id)) :
               published' = published \cup {[id |-> id, repliedComment |-> to]}
    /\ UNCHANGED <<store, renderer, wires>>

Next ==
    \/ \E w \in Windows :
        \/ getCommentDraft(w) \/ writeCommentDraft(w) \/ createCommentDraft(w) \/ removeCommentDraft(w)
        \/ LeavePage(w) \/ CloseWindow(w)
        \/ \E target \in Ids \cup {NoComment} : CreateComment(w, target)
        \/ \E d \in Drafts : OpenPage(w, d) \/ CacheExpires(w, d)
        \/ Edit(w) \/ SaveTimeout(w) \/ LeftTimeout(w)
        \/ onDiscard(w) \/ onSubmit(w) \/ publishComment(w) \/ SubmitFails(w)
    \/ Created \/ Removed \/ Crash \/ ReceiveComment

(* The main process handles calls, the windows get their answers and their *)
(* timers fire.                                                            *)
Fairness ==
    /\ WF_vars(Created \/ Removed)
    /\ \A w \in Windows :
        /\ WF_vars(getCommentDraft(w) \/ writeCommentDraft(w) \/ createCommentDraft(w) \/ removeCommentDraft(w))
        /\ WF_vars(SaveTimeout(w)) /\ WF_vars(LeftTimeout(w))

Spec == Init /\ [][Next]_vars /\ Fairness

-----------------------------------------------------------------------------
Draft == [blocks : 0..MaxEdits, target : NoComment..MaxComments]
Page == [draft : Drafts, route : Drafts, target : (NoComment..MaxComments) \cup {NoDraft}, blocks : 0..MaxEdits,
         isSaved : BOOLEAN, timer : BOOLEAN]

(* Types.  A page with a timer to save it is not saved, and half an        *)
(* operation is that of a call still there.                                *)
TypeOK ==
    /\ index \subseteq known /\ removed \subseteq known /\ known \subseteq Drafts
    /\ drafts \in [Drafts -> Draft \cup {NoDraft}]
    /\ page \in [Windows -> Page \cup {NoPage}]
    /\ \A w \in Windows : page[w] # NoPage /\ page[w].timer => ~page[w].isSaved
    /\ half # NoOp => calls[half.window] # <<>> /\ Head(calls[half.window]).op = half.op

(* However late a page's save arrives, it never brings a discarded draft   *)
(* back: writeCommentDraft refuses a draft that is not there.              *)
DiscardedStaysGone == \A d \in removed : drafts[d] = NoDraft

(* A draft in the store is listed, wherever the process dies: the index is *)
(* written before the draft and forgets it after.                          *)
DraftsAreListed == \A d \in Drafts : drafts[d] # NoDraft => d \in getCommentDrafts

(* The comments under a target (Under) are all shown or counted, each of   *)
(* them once: a group shows a chain, counts exactly what is under the end  *)
(* of it, and shares nothing with another group; its chain goes as far as  *)
(* it can.  The thread above a comment has all the comments it is under.   *)
RepliesAreShown ==
    /\ \A target \in Ids \cup {NoComment} :
          LET groups == useCommentGroups(published, target)
              Rest(g) == Under(published, groups[g].last)
              Family(g) == groups[g].comments \cup Rest(g)
          IN  /\ UNION {Family(g) : g \in DOMAIN groups} = Under(published, target)
              /\ \A g \in DOMAIN groups :
                    /\ groups[g].comments \cap Rest(g) = {}
                    /\ groups[g].moreCommentsCount = Cardinality(Rest(g))
                    /\ Cardinality(RepliesTo(published, {groups[g].last})) # 1
                    /\ \A h \in DOMAIN groups \ {g} : Family(g) \cap Family(h) = {}
    /\ \A id \in Ids :
          useCommentReplies(published, id) = {id} \cup {a \in Ids : id \in Under(published, a)}

(* Who discards a draft has its window closed, even when another window    *)
(* discarded it first.                                                     *)
DiscardEndsThePage ==
    \A w \in Windows :
        (\E i \in DOMAIN calls[w] : calls[w][i].op = "remove" /\ calls[w][i].from = "page")
            ~> page[w] = NoPage

(* An edit made while no call of its window is under way is saved, also    *)
(* when the page is left right after it: unless it is edited further, the  *)
(* draft is discarded, or, before the timer fires, the window is closed or *)
(* goes to another draft, whose text replaces the edit.                    *)
Quiet(w, d, n) ==
    /\ page[w] # NoPage /\ page[w].draft = d /\ page[w].blocks = n /\ page[w].timer
    /\ calls[w] = <<>>
QuietEditsAreSaved ==
    \A w \in Windows, d \in Drafts, n \in 1..MaxEdits :
        Quiet(w, d, n) ~> \/ drafts[d] = NoDraft \/ drafts[d].blocks = n
                          \/ edits > n \/ n \in dropped
=============================================================================
