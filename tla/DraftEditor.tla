----------------------------- MODULE DraftEditor -----------------------------
(***************************************************************************)
(* The editor of a draft in a window of the desktop application: the state *)
(* machine of frontend/packages/app/models/draft-machine.ts, the hook that *)
(* runs it (useDraftEditor in models/documents.ts), the page that shows it *)
(* (pages/draft.tsx) and the buttons that publish and discard the draft.   *)
(*                                                                         *)
(* A document is a version of its blocks, their content and nesting, and a *)
(* version of its title, 0 for an empty one.  Of the order of siblings, a  *)
(* version says nothing: what is kept of it is how many edits the editor   *)
(* is away from what was saved.  The daemon's draft and publication are    *)
(* here too; any call may fail, one that changes the draft before or after *)
(* it is applied.                                                          *)
(*                                                                         *)
(* An update is the difference between what the editor shows and what the  *)
(* machine believes the daemon has (blocksMap, draft.title).  Applied to   *)
(* that, it gives the content and the nesting of the editor, and its order *)
(* too if that is one edit away at most (the theorems on NestingIsSaved,   *)
(* NestingIsRestored and OneEditIsSavedInOrder of module BlockEditor);     *)
(* applied to anything else it gives Mixed blocks.                         *)
(***************************************************************************)
EXTENDS Integers

CONSTANTS
    MaxEdits,   \* bound: edits of the blocks, each a new version or an undo
    MaxTitles,  \* bound: edits of the title, each a new one or a clearing
    MaxPages,   \* bound: times the draft page is opened
    NoDoc,      \* no document: no draft, no publication, a query's null
    NotCached,  \* the query of the draft has no data
    NoCall

ASSUME BoundsAssumption ==
    MaxEdits \in Nat /\ MaxTitles \in Nat /\ MaxPages \in Nat

Mixed == -1
Doc == [blocks : Int, title : Nat]
Request == [base : Int, baseTitle : Nat, blocks : Int, title : Nat, edits : 0..2]
Context == [blocksMap : Int, draftTitle : Nat, title : Nat,
            hasChangedWhileSaving : BOOLEAN, restoreTries : 0..1]
UpdateCall == [phase : {"sent", "ok", "failed"}, request : Request, result : Doc \cup {NoDoc}]
RepairActor == [page : Nat, kind : {"restoring", "resetting"},
                next : {"none", "delete", "create", "update", "done", "failed"},
                wanted : Int, created : Int, result : Doc \cup {NoDoc}]
Pages == 1..MaxPages

ASSUME ConstantsAssumption ==
    /\ NoDoc \notin Doc
    /\ NotCached \notin Doc \cup {NoDoc}
    /\ NoCall \notin UpdateCall

VARIABLES
    draft, pub,     \* the daemon's draft and publication
    cache,          \* data of the query EDITOR_DRAFT in this window
    fetch,          \* the query has called getDraft
    page,           \* how often the page was opened
    machine,        \* the machine's state; "off" when no page is open
    settled,        \* the effect on backendDraft.status has seen "success"
    context,        \* the machine's context
    editor,         \* the blocks in the editor
    shown,          \* the text of DraftTitleInput
    indicator,      \* the state of the saveIndicator machine
    call,           \* call[p]: the updateDraft call of page p
    repair,         \* the restoreDraft or resetDraft actor
    job,            \* publishing or discarding the draft
    expired,        \* removeQueries is scheduled
    typed, titled,  \* versions used so far
    clean,          \* history: this page loaded what the daemon had, and
                    \* nothing of an earlier page was still under way
    unsaved,        \* the edits after those that were saved, or are being
                    \* saved: none, one or more (also if the order is not right)
    paced           \* history: no save of this page had more than one edit

daemon == <<draft, pub>>
query == <<cache, fetch>>
ui == <<page, machine, settled, context, editor, shown, indicator>>
tasks == <<call, repair, job, expired>>
history == <<clean, unsaved, paced>>
vars == <<daemon, query, ui, tasks, typed, titled, history>>

Ready == {"idle", "changed", "saving", "saveError", "restoring", "resetting"}

TypeOK ==
    /\ draft \in Doc \cup {NoDoc}
    /\ pub \in Doc \cup {NoDoc}
    /\ cache \in Doc \cup {NoDoc, NotCached}
    /\ fetch \in BOOLEAN
    /\ page \in 0..MaxPages
    /\ machine \in Ready \cup {"off", "fetching", "mountingEditor"}
    /\ machine # "off" => page \in Pages
    /\ settled \in BOOLEAN
    /\ context \in Context
    /\ editor \in Int
    /\ shown \in Nat
    /\ indicator \in {"idle", "changed", "saving", "saved", "error"}
    /\ call \in [Pages -> {NoCall} \cup UpdateCall]
    /\ repair \in RepairActor /\ repair.page <= page
    /\ job \in {"none", "publish", "published", "discarded"}
    /\ expired \in BOOLEAN
    /\ typed \in 0..MaxEdits
    /\ titled \in 0..MaxTitles
    /\ clean \in BOOLEAN
    /\ unsaved \in 0..2
    /\ paced \in BOOLEAN

EmptyContext == [blocksMap |-> 0, draftTitle |-> 0, title |-> 0,
                 hasChangedWhileSaving |-> FALSE, restoreTries |-> 0]
NoRepair == [page |-> 0, kind |-> "resetting", next |-> "none",
             wanted |-> 0, created |-> 0, result |-> NoDoc]

\* A new draft, or a new draft of a document that was published before.
Init ==
    /\ \/ pub = NoDoc /\ draft = [blocks |-> 0, title |-> 0]
       \/ pub = [blocks |-> 0, title |-> 1] /\ draft = pub
    /\ cache = NotCached
    /\ fetch = FALSE
    /\ page = 0
    /\ machine = "off"
    /\ settled = FALSE
    /\ context = EmptyContext
    /\ editor = 0
    /\ shown = 0
    /\ indicator = "idle"
    /\ call = [p \in Pages |-> NoCall]
    /\ repair = NoRepair
    /\ job = "none"
    /\ expired = FALSE
    /\ typed = 0
    /\ titled = 0
    /\ clean = FALSE
    /\ unsaved = 0
    /\ paced = TRUE

-----------------------------------------------------------------------------
(* Opening and leaving the page.                                           *)

\* The page mounts: a new machine and a new indicator (the provider is keyed
\* by the route); the query fetches only when it has no data (staleTime is
\* infinite).
MountPage ==
    /\ page < MaxPages
    /\ page' = page + 1
    /\ machine' = "fetching"
    /\ settled' = FALSE
    /\ context' = EmptyContext
    /\ editor' = 0
    /\ shown' = 0
    /\ indicator' = "idle"
    /\ clean' = FALSE
    /\ unsaved' = 0
    /\ paced' = TRUE
    /\ fetch' = (fetch \/ cache' = NotCached)

OpenDraft ==
    /\ machine = "off"
    /\ cache' = cache
    /\ MountPage
    /\ UNCHANGED <<daemon, tasks, typed, titled>>

\* useEditDraft: without a draft, createDraft for the published document.
EditDocument ==
    /\ machine = "off"
    /\ draft = NoDoc
    /\ pub # NoDoc
    /\ draft' = pub
    /\ cache' = cache
    /\ MountPage
    /\ UNCHANGED <<pub, tasks, typed, titled>>

\* The user leaves the page or closes the window, and the machine stops.  The
\* effect's cleanup would save in ready.changed, but its "state" is the one
\* of the render in which the query succeeded: fetching.
Unmounted ==
    /\ machine' = "off"
    /\ settled' = FALSE
    /\ context' = EmptyContext
    /\ editor' = 0
    /\ shown' = 0
    /\ indicator' = "idle"
    /\ clean' = FALSE
    /\ unsaved' = 0
    /\ paced' = TRUE
    /\ UNCHANGED page

LeavePage ==
    /\ machine # "off"
    /\ Unmounted
    /\ UNCHANGED <<daemon, query, tasks, typed, titled>>

\* window.location.reload(): a new query client and the same route.  What
\* the daemon has received it still handles.
Reload ==
    /\ cache' = NotCached
    /\ MountPage
    /\ call' = [p \in Pages |-> IF call[p] # NoCall /\ call[p].phase = "sent" THEN call[p] ELSE NoCall]
    /\ expired' = FALSE

-----------------------------------------------------------------------------
(* The query of the draft.                                                 *)

\* getDraft at the daemon; queryFn turns any error into null.
FetchDone ==
    /\ fetch
    /\ fetch' = FALSE
    /\ cache' \in {draft, NoDoc}
    /\ UNCHANGED <<daemon, ui, tasks, typed, titled, history>>

\* The timers of usePublishDraft and useDeleteDraft: removeQueries.
RemoveQueries ==
    /\ expired
    /\ expired' = FALSE
    /\ cache' = NotCached
    /\ UNCHANGED <<daemon, fetch, ui, call, repair, job, typed, titled, history>>

\* The effect on backendDraft.status: GET.DRAFT.SUCCESS with data, nothing
\* for null, and never again after "success".
GetDraftSuccess ==
    /\ machine = "fetching"
    /\ ~settled
    /\ cache # NotCached
    /\ settled' = TRUE
    /\ IF cache = NoDoc
         THEN UNCHANGED <<machine, context, editor, shown, history>>
         ELSE /\ machine' = "mountingEditor"
              /\ context' = [EmptyContext EXCEPT !.blocksMap = cache.blocks,
                                 !.draftTitle = cache.title, !.title = cache.title]
              /\ editor' = cache.blocks
              /\ shown' = cache.title
              /\ unsaved' = 0
              /\ paced' = TRUE
              /\ clean' = /\ cache = draft
                          /\ \A p \in Pages : call[p] = NoCall
                          /\ repair.next = "none"
    /\ UNCHANGED <<daemon, query, page, indicator, tasks, typed, titled>>

\* 10 ms later the editor is shown.
EditorMounted ==
    /\ machine = "mountingEditor"
    /\ machine' = "idle"
    /\ UNCHANGED <<daemon, query, page, settled, context, editor, shown, indicator, tasks, typed, titled, history>>

-----------------------------------------------------------------------------
(* Typing.  CHANGE in ready: the timer restarts in changed, a flag is set  *)
(* in saving, and saveError, restoring and resetting ignore the event.     *)

\* setTitle: an event without a title, or with an empty one, keeps the old.
setTitle(title) == IF title = 0 THEN context.title ELSE title

\* Mutant: what is typed during a save is not remembered.
ForgetfulChange(title) ==
    /\ machine \in Ready
    /\ IF machine \in {"idle", "changed"}
         THEN /\ machine' = "changed"
              /\ indicator' = "changed"
              /\ context' = [context EXCEPT !.title = setTitle(title)]
         ELSE UNCHANGED <<machine, indicator, context>>

Change(title) ==
    /\ machine \in Ready
    /\ CASE machine \in {"idle", "changed"} ->
              /\ machine' = "changed"
              /\ indicator' = "changed"
              /\ context' = [context EXCEPT !.title = setTitle(title)]
         [] machine = "saving" ->
              /\ context' = [context EXCEPT !.title = setTitle(title),
                                           !.hasChangedWhileSaving = TRUE]
              /\ UNCHANGED <<machine, indicator>>
         [] OTHER -> UNCHANGED <<machine, indicator, context>>

\* onEditorContentChange: text is edited or blocks are moved, or the user
\* undoes everything up to what was saved last.
Type ==
    /\ machine # "saveError"
    /\ typed < MaxEdits
    /\ typed' = typed + 1
    /\ \/ editor' = typed + 1 /\ unsaved' = IF unsaved = 2 THEN 2 ELSE unsaved + 1
       \/ /\ editor' = context.blocksMap
          /\ unsaved' = IF machine = "saving" /\ call[page].request.edits > 0 THEN 2 ELSE 0
    /\ Change(0)
    /\ UNCHANGED <<daemon, query, page, settled, shown, tasks, titled, clean, paced>>

\* DraftTitleInput.onChangeText.  The input shows what was typed; its effect
\* writes the title of the context into it only when that has changed.
TypeTitle(t) ==
    /\ titled < MaxTitles
    /\ titled' = titled + 1
    /\ Change(t)
    /\ shown' = t
    /\ UNCHANGED <<daemon, query, page, settled, editor, tasks, typed, history>>

\* The indicator's "saved" lasts two seconds.
IndicatorTimeout ==
    /\ indicator = "saved"
    /\ indicator' = "idle"
    /\ UNCHANGED <<daemon, query, page, machine, settled, context, editor, shown, tasks, typed, titled, history>>

-----------------------------------------------------------------------------
(* Saving.                                                                 *)

\* Entry of ready.saving with context c, the editor being n edits away:
\* updateDraft compares the editor with the context and calls the daemon, or
\* resolves at once with a string.
EnterSaving(c, n) ==
    /\ context' = [c EXCEPT !.hasChangedWhileSaving = FALSE]
    /\ unsaved' = 0
    /\ IF editor = c.blocksMap /\ n = 0 /\ c.title = c.draftTitle
         THEN /\ machine' = "idle"
              /\ indicator' = "idle"
              /\ call' = [call EXCEPT ![page] = NoCall]
              /\ UNCHANGED paced
         ELSE /\ machine' = "saving"
              /\ indicator' = IF indicator = "changed" THEN "saving" ELSE indicator
              /\ call' = [call EXCEPT ![page] =
                    [phase |-> "sent", result |-> NoDoc,
                     request |-> [base |-> c.blocksMap, baseTitle |-> c.draftTitle,
                                  blocks |-> editor, title |-> c.title, edits |-> n]]]
              /\ paced' = (paced /\ n <= 1)

\* autosaveTimeout: 500 ms without a keystroke.
AutosaveTimeout ==
    /\ machine = "changed"
    /\ EnterSaving(context, unsaved)
    /\ UNCHANGED <<daemon, query, page, settled, editor, shown, repair, job, expired, typed, titled, clean>>

\* UpdateDraft on the draft d, the changes of r one by one.
Apply(d, r) ==
    [blocks |-> IF r.blocks = r.base THEN d.blocks
                ELSE IF d.blocks = r.base THEN r.blocks ELSE Mixed,
     title |-> IF r.title = r.baseTitle THEN d.title ELSE r.title]

\* UpdateDraft answers a call; it fails without a draft, or for any reason,
\* and the answer to an update that was applied may get lost.
AnswerUpdate(p) ==
    /\ call[p] # NoCall
    /\ call[p].phase = "sent"
    /\ \/ /\ call' = [call EXCEPT ![p].phase = "failed"]
          /\ \/ draft' = draft
             \/ draft # NoDoc /\ draft' = Apply(draft, call[p].request)
       \/ /\ draft # NoDoc
          /\ draft' = Apply(draft, call[p].request)
          /\ call' = [call EXCEPT ![p].phase = "ok", ![p].result = draft']
    /\ UNCHANGED <<pub, query, ui, repair, job, expired, typed, titled, history>>

\* Mutant: the save that follows at once keeps the old blocksMap.
SavedKeepsBase(result) ==
    IF context.hasChangedWhileSaving THEN context ELSE
    [context EXCEPT !.blocksMap = result.blocks, !.draftTitle = result.title,
                    !.title = result.title]

\* updateContextAfterSave: the title of the answer replaces the one typed
\* meanwhile.
Saved(result) ==
    [context EXCEPT !.blocksMap = result.blocks, !.draftTitle = result.title,
                    !.title = result.title]

\* updateDraft resolves: setQueryData; onDone of ready.saving; the effect of
\* DraftTitleInput if the title changes.
SaveDone ==
    LET result == call[page].result
        left == IF call[page].request.edits <= 1 THEN {unsaved} ELSE {unsaved, 2}
    IN  /\ machine = "saving"
        /\ call[page].phase = "ok"
        /\ cache' = result
        /\ shown' = IF result.title = context.title THEN shown ELSE result.title
        /\ IF context.hasChangedWhileSaving
             THEN (\E n \in left : EnterSaving(Saved(result), n)) /\ UNCHANGED fetch
             ELSE /\ machine' = "idle"
                  /\ indicator' = IF indicator = "saving" THEN "saved" ELSE indicator
                  /\ context' = Saved(result)
                  /\ call' = [call EXCEPT ![page] = NoCall]
                  /\ fetch' = TRUE     \* onSaveSuccess: invalidate
                  /\ unsaved' \in left
                  /\ UNCHANGED paced
        /\ UNCHANGED <<daemon, page, settled, editor, repair, job, expired, typed, titled, clean>>

\* Mutant: a failed save is tried again and again, and never shown.
SaveFailedRetries ==
    /\ machine = "saving"
    /\ call[page].phase = "failed"
    /\ machine' = "changed"
    /\ indicator' = "changed"
    /\ call' = [call EXCEPT ![page] = NoCall]
    /\ UNCHANGED <<daemon, query, page, settled, context, editor, shown, repair, job, expired, typed, titled, history>>

SaveFailed ==
    /\ machine = "saving"
    /\ call[page].phase = "failed"
    /\ machine' = "saveError"
    /\ indicator' = "error"
    /\ call' = [call EXCEPT ![page] = NoCall]
    /\ UNCHANGED <<daemon, query, page, settled, context, editor, shown, repair, job, expired, typed, titled, history>>

\* The same for a page that is gone: only setQueryData is left.
LateAnswer(p) ==
    /\ call[p] # NoCall
    /\ call[p].phase # "sent"
    /\ p # page \/ machine # "saving"
    /\ cache' = IF call[p].phase = "ok" THEN call[p].result ELSE cache
    /\ call' = [call EXCEPT ![p] = NoCall]
    /\ UNCHANGED <<daemon, fetch, ui, repair, job, expired, typed, titled, history>>

-----------------------------------------------------------------------------
(* Restoring and resetting a draft that could not be saved.                *)

\* RESTORE.DRAFT (offered once) and RESET.DRAFT.  The actor keeps the blocks
\* to restore, and starts with deleteDraft.
PressRepair(kind) ==
    /\ machine = "saveError"
    /\ repair = NoRepair
    /\ kind = "restoring" => context.restoreTries = 0
    /\ machine' = kind
    /\ context' = [context EXCEPT !.restoreTries = IF kind = "restoring" THEN @ + 1 ELSE @]
    /\ repair' = [page |-> page, kind |-> kind, next |-> "delete",
                  wanted |-> context.blocksMap, created |-> 0, result |-> NoDoc]
    /\ UNCHANGED <<daemon, query, page, settled, editor, shown, indicator, call, job, expired, typed, titled, history>>

RepairDelete ==
    /\ repair.next = "delete"
    /\ draft # NoDoc
    /\ draft' = NoDoc
    /\ repair' = [repair EXCEPT !.next = "create"]
    /\ UNCHANGED <<pub, query, ui, call, job, expired, typed, titled, history>>

\* createDraft needs a publication to start from, and no other draft.  A new
\* draft that has the wanted blocks, and in the same order, needs no update.
RepairCreate ==
    /\ repair.next = "create"
    /\ draft = NoDoc
    /\ pub # NoDoc
    /\ draft' = pub
    /\ \E next \in {"update", "done"} :
          /\ next = "update" => repair.kind = "restoring"
          /\ next = "done" => repair.kind = "resetting" \/ pub.blocks = repair.wanted
          /\ repair' = [repair EXCEPT !.next = next, !.created = pub.blocks]
    /\ UNCHANGED <<pub, query, ui, call, job, expired, typed, titled, history>>

\* The changes, many perhaps, that turn one document into another.  The title
\* is not among them.
compareDraftWithMap(from, to) ==
    [base |-> from, blocks |-> to, baseTitle |-> 0, title |-> 0, edits |-> 2]

\* Mutant: compared with the blocks of the old draft (prevBlocksMap).
RestoreFromOldBlocks == compareDraftWithMap(repair.wanted, repair.wanted)

\* From the blocks of the new draft to the wanted ones.
RestoreRequest == compareDraftWithMap(repair.created, repair.wanted)

RepairUpdate ==
    /\ repair.next = "update"
    /\ draft # NoDoc
    /\ draft' = Apply(draft, RestoreRequest)
    /\ repair' = [repair EXCEPT !.next = "done", !.result = draft']
    /\ UNCHANGED <<pub, query, ui, call, job, expired, typed, titled, history>>

\* Any of the calls fails, before or after it has done its work.
RepairFails ==
    /\ repair.next \in {"delete", "create", "update"}
    /\ repair' = [repair EXCEPT !.next = "failed"]
    /\ \/ draft' = draft
       \/ repair.next = "delete" /\ draft' = NoDoc
       \/ repair.next = "create" /\ draft = NoDoc /\ draft' = pub
       \/ repair.next = "update" /\ draft # NoDoc /\ draft' = Apply(draft, RestoreRequest)
    /\ UNCHANGED <<pub, query, ui, call, job, expired, typed, titled, history>>

\* setQueryData after an update.  onDone: reload; onError: back to saveError;
\* neither if the page is gone.
RepairDone ==
    /\ repair.next = "done"
    /\ repair' = NoRepair
    /\ IF repair.page = page /\ machine \in {"restoring", "resetting"}
         THEN Reload
         ELSE /\ cache' = IF repair.result = NoDoc THEN cache ELSE repair.result
              /\ UNCHANGED <<fetch, ui, call, expired, history>>
    /\ UNCHANGED <<daemon, job, typed, titled>>

RepairFailed ==
    /\ repair.next = "failed"
    /\ repair' = NoRepair
    /\ machine' = IF repair.page = page /\ machine \in {"restoring", "resetting"} THEN "saveError" ELSE machine
    /\ UNCHANGED <<daemon, query, page, settled, context, editor, shown, indicator, call, job, expired, typed, titled, history>>

-----------------------------------------------------------------------------
(* Publishing and discarding.                                              *)

CanPublish == indicator \in {"idle", "saved"}

\* The button of CommitDraftButton: getDraft, then publishDraft.
PressPublish ==
    /\ machine # "off"
    /\ CanPublish
    /\ job = "none"
    /\ job' = "publish"
    /\ UNCHANGED <<daemon, query, ui, call, repair, expired, typed, titled, history>>

PublishDraft ==
    /\ job = "publish"
    /\ \/ /\ draft # NoDoc
          /\ pub' = draft
          /\ draft' = NoDoc
          /\ job' = "published"
       \/ /\ job' = "none"
          /\ UNCHANGED daemon
    /\ UNCHANGED <<query, ui, call, repair, expired, typed, titled, history>>

\* The dialog of DiscardDraftButton: deleteDraft.
DiscardDraft ==
    /\ machine # "off"
    /\ job = "none"
    /\ draft # NoDoc
    /\ draft' = NoDoc
    /\ job' = "discarded"
    /\ UNCHANGED <<pub, query, ui, call, repair, expired, typed, titled, history>>

\* onSuccess of either: another route is shown, and the query is removed a
\* quarter of a second later.
JobDone ==
    /\ job \in {"published", "discarded"}
    /\ job' = "none"
    /\ expired' = TRUE
    /\ Unmounted
    /\ UNCHANGED <<daemon, query, call, repair, typed, titled>>

-----------------------------------------------------------------------------
User ==
    \/ OpenDraft \/ EditDocument \/ LeavePage
    \/ Type
    \/ \E t \in {0, titled + 2} : TypeTitle(t)
    \/ \E kind \in {"restoring", "resetting"} : PressRepair(kind)
    \/ PressPublish \/ DiscardDraft

\* What timers, promises and the daemon do without the user.
System ==
    \/ FetchDone \/ RemoveQueries \/ GetDraftSuccess \/ EditorMounted
    \/ IndicatorTimeout \/ AutosaveTimeout \/ SaveDone \/ SaveFailed
    \/ \E p \in Pages : AnswerUpdate(p) \/ LateAnswer(p)
    \/ RepairDelete \/ RepairCreate \/ RepairUpdate \/ RepairFails \/ RepairDone \/ RepairFailed
    \/ PublishDraft \/ JobDone

Next == User \/ System

\* Timers fire and local calls are answered; the user owes nothing.
Fairness ==
    /\ WF_vars(AutosaveTimeout)
    /\ WF_vars(\E p \in Pages : AnswerUpdate(p))
    /\ WF_vars(SaveDone)
    /\ WF_vars(SaveFailed)

Spec == Init /\ [][Next]_vars /\ Fairness

-----------------------------------------------------------------------------
(* Properties.  They are about a page that loaded what the daemon had; the *)
(* README lists how a page can load something else.                        *)

\* Whenever the publish button is enabled while the editor is shown, the
\* daemon's draft is what the user sees, whatever was typed before, during or
\* after a save, and however the saves ended: the blocks with their content
\* and nesting, and their order too unless a save had several edits; and the
\* title, unless the user has cleared it, which the machine does not take.
PublishableIsSaved ==
    clean /\ machine \in Ready /\ CanPublish /\ draft # NoDoc =>
        /\ draft.blocks = editor
        /\ paced => unsaved = 0
        /\ shown # 0 => draft.title = shown

\* An update that is under way was computed against the draft the daemon
\* still has, also when saves follow one another without a pause.
UpdatesFitTheDraft ==
    clean /\ machine = "saving" /\ call[page] # NoCall /\ call[page].phase = "sent" /\ draft # NoDoc =>
        draft = [blocks |-> call[page].request.base, title |-> call[page].request.baseTitle]

\* What is typed is saved at last, or the user sees an error, or leaves.
EditsAreSaved ==
    (clean /\ machine \in {"changed", "saving"}) ~>
        \/ machine = "idle" /\ editor = context.blocksMap
        \/ machine \in {"saveError", "off"}

\* A restore that completes while its page is open has put the last saved
\* blocks back, with their content and nesting; after a failure in between,
\* whatever it has left, the restore does not complete.
RestoreBringsBack ==
    [][clean /\ repair.page = page /\ repair.kind = "restoring"
         /\ repair.next \in {"create", "update"} /\ repair'.next = "done" =>
           draft'.blocks = repair.wanted]_vars

=============================================================================
