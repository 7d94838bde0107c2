-------------------------- MODULE DraftEditor_proofs --------------------------
(***************************************************************************)
(* The draft editor, for any number of edits, titles and pages.            *)
(***************************************************************************)
EXTENDS DraftEditor, TLAPS

\* A page that saves has a call, and a call that succeeded has a result.
CallsOK ==
    /\ machine = "saving" => call[page] # NoCall
    /\ \A p \in Pages : call[p] # NoCall /\ call[p].phase = "ok" => call[p].result \in Doc

\* What the indicator shows when the editor is not idle.
IndicatorOK ==
    /\ machine = "changed" => indicator = "changed"
    /\ machine = "saving" => indicator = "saving"
    /\ machine \in {"saveError", "restoring", "resetting"} => indicator = "error"

\* Nothing changes the draft but a clean page's own save or repair.
Alone ==
    clean =>
        /\ machine \in Ready \cup {"mountingEditor"}
        /\ \A p \in Pages : p # page \/ machine # "saving" => call[p] = NoCall
        /\ repair.next # "none" => machine \in {"restoring", "resetting"} /\ repair.page = page

\* The context is the draft; at rest the editor is the context, and so is its
\* order if every save had one edit at most; the title is shown, or none.
Shows ==
    clean =>
        /\ machine \in {"mountingEditor", "idle"} =>
              /\ editor = context.blocksMap /\ context.title = context.draftTitle
              /\ paced => unsaved = 0
        /\ machine \in {"mountingEditor", "idle", "changed"} /\ draft # NoDoc =>
              draft = [blocks |-> context.blocksMap, title |-> context.draftTitle]
        /\ machine \in {"mountingEditor", "idle", "changed", "saving"} =>
              shown \in {0, context.title}

\* A save goes from the draft to what the editor showed, and shows still
\* unless hasChangedWhileSaving says otherwise.
Saves ==
    clean /\ machine = "saving" =>
        /\ call[page].request.base = context.blocksMap
        /\ call[page].request.baseTitle = context.draftTitle
        /\ paced => call[page].request.edits <= 1
        /\ ~context.hasChangedWhileSaving =>
              /\ call[page].request.blocks = editor /\ call[page].request.title = context.title
              /\ unsaved = 0
        /\ call[page].phase = "sent" /\ draft # NoDoc =>
              draft = [blocks |-> call[page].request.base, title |-> call[page].request.baseTitle]
        /\ call[page].phase = "ok" =>
              /\ call[page].result = [blocks |-> call[page].request.blocks,
                                      title |-> call[page].request.title]
              /\ draft # NoDoc => draft = call[page].result

\* Until its update, a restored draft is the publication it was made of.
Restores == clean /\ repair.next = "update" /\ draft # NoDoc => draft.blocks = repair.created

DraftInv == TypeOK /\ CallsOK /\ IndicatorOK /\ Alone /\ Shows /\ Saves /\ Restores

-----------------------------------------------------------------------------
\* What the machine and the actor start with.
LEMMA EmptyTypes ==
    EmptyContext \in Context /\ NoRepair \in RepairActor /\ NoRepair.page = 0
BY DEF EmptyContext, Context, NoRepair, RepairActor

LEMMA InitInv == Init => DraftInv
<1>. SUFFICES ASSUME Init PROVE DraftInv
    OBVIOUS
<1>1. [blocks |-> 0, title |-> 0] \in Doc /\ [blocks |-> 0, title |-> 1] \in Doc
    BY DEF Doc
<1>2. context \in Context
    BY EmptyTypes DEF Init
<1>3. repair \in RepairActor /\ repair.page = 0
    BY EmptyTypes DEF Init
<1>4. draft \in Doc /\ pub \in Doc \cup {NoDoc} /\ call \in [Pages -> {NoCall} \cup UpdateCall]
    BY <1>1 DEF Init
<1>5. TypeOK
  <2>1. /\ fetch \in BOOLEAN /\ settled \in BOOLEAN /\ expired \in BOOLEAN /\ clean \in BOOLEAN
        /\ paced \in BOOLEAN
      BY DEF Init
  <2>5. shown \in Nat /\ unsaved \in 0..2
      BY DEF Init
  <2>2. /\ page \in 0..MaxPages /\ typed \in 0..MaxEdits /\ titled \in 0..MaxTitles /\ editor \in Int
      BY BoundsAssumption DEF Init
  <2>3. /\ cache \in Doc \cup {NoDoc, NotCached}
        /\ machine \in Ready \cup {"off", "fetching", "mountingEditor"}
        /\ machine # "off" => page \in Pages
        /\ indicator \in {"idle", "changed", "saving", "saved", "error"}
        /\ job \in {"none", "publish", "published", "discarded"}
      BY DEF Init
  <2>4. repair.page <= page
      BY <1>3 DEF Init
  <2>. QED  BY <1>2, <1>3, <1>4, <2>1, <2>2, <2>3, <2>4, <2>5 DEF TypeOK
<1>6. CallsOK /\ IndicatorOK /\ Alone /\ Shows /\ Saves /\ Restores
    BY DEF Init, CallsOK, IndicatorOK, Alone, Shows, Saves, Restores
<1>. QED  BY <1>5, <1>6 DEF DraftInv

\* Steps that touch only the query, the indicator's rest or the job.
LEMMA QuietInv ==
    ASSUME DraftInv, FetchDone \/ RemoveQueries \/ IndicatorTimeout \/ PressPublish
    PROVE  DraftInv'
<1>1. UNCHANGED <<draft, pub, page, machine, settled, context, editor, shown, call, repair, typed, titled, clean, unsaved, paced>>
    BY DEF FetchDone, RemoveQueries, IndicatorTimeout, PressPublish, daemon, query, ui, tasks, history
<1>2. /\ cache' \in Doc \cup {NoDoc, NotCached} /\ fetch' \in BOOLEAN /\ expired' \in BOOLEAN
      /\ job' \in {"none", "publish", "published", "discarded"}
      /\ indicator' = indicator \/ (indicator = "saved" /\ indicator' = "idle")
    BY DEF DraftInv, TypeOK, FetchDone, RemoveQueries, IndicatorTimeout, PressPublish,
           daemon, query, ui, tasks
<1>3. TypeOK'
    BY <1>1, <1>2 DEF DraftInv, TypeOK
<1>. QED  BY <1>1, <1>2, <1>3 DEF DraftInv, CallsOK, IndicatorOK, Alone, Shows, Saves, Restores

\* The page is opened, reloaded or left: nothing is claimed until it has
\* loaded the draft.
LEMMA NotCleanInv ==
    ASSUME DraftInv, clean' = FALSE, machine' \in {"off", "fetching"}, machine' # "off" => page' \in Pages,
           page' \in 0..MaxPages, page <= page', context' = EmptyContext, editor' = 0, indicator' = "idle",
           settled' = FALSE, shown' = 0, unsaved' = 0, paced' = TRUE, fetch' \in BOOLEAN, expired' \in BOOLEAN,
           draft' \in Doc \cup {NoDoc}, cache' \in Doc \cup {NoDoc, NotCached},
           job' \in {"none", "publish", "published", "discarded"},
           \A p \in Pages : call'[p] = call[p] \/ call'[p] = NoCall,
           call' \in [Pages -> {NoCall} \cup UpdateCall],
           repair' \in {repair, NoRepair}, UNCHANGED <<pub, typed, titled>>
    PROVE  DraftInv'
<1>1. context' \in Context
    BY EmptyTypes
<1>2. repair' \in RepairActor /\ repair'.page <= page'
  <2>1. repair \in RepairActor /\ repair.page \in Nat /\ repair.page <= page /\ page \in Nat /\ page' \in Nat
      BY DEF DraftInv, TypeOK, RepairActor
  <2>. QED  BY <2>1, EmptyTypes
<1>3. TypeOK'
  <2>1. draft' \in Doc \cup {NoDoc} /\ pub' \in Doc \cup {NoDoc} /\ cache' \in Doc \cup {NoDoc, NotCached}
      BY DEF DraftInv, TypeOK
  <2>2. /\ fetch' \in BOOLEAN /\ settled' \in BOOLEAN /\ expired' \in BOOLEAN /\ clean' \in BOOLEAN
        /\ paced' \in BOOLEAN
      OBVIOUS
  <2>5. shown' \in Nat /\ unsaved' \in 0..2
      OBVIOUS
  <2>3. typed' \in 0..MaxEdits /\ titled' \in 0..MaxTitles /\ editor' \in Int /\ page' \in 0..MaxPages
      BY DEF DraftInv, TypeOK
  <2>4. /\ machine' \in Ready \cup {"off", "fetching", "mountingEditor"}
        /\ machine' # "off" => page' \in Pages
        /\ indicator' \in {"idle", "changed", "saving", "saved", "error"}
      OBVIOUS
  <2>. QED  BY <1>1, <1>2, <2>1, <2>2, <2>3, <2>4, <2>5 DEF TypeOK
<1>4. CallsOK'
    BY DEF DraftInv, CallsOK
<1>. QED  BY <1>3, <1>4 DEF DraftInv, IndicatorOK, Alone, Shows, Saves, Restores, Ready

LEMMA PageInv ==
    ASSUME DraftInv, OpenDraft \/ EditDocument \/ LeavePage \/ JobDone
    PROVE  DraftInv'
<1>1. /\ clean' = FALSE /\ machine' \in {"off", "fetching"} /\ context' = EmptyContext
      /\ editor' = 0 /\ indicator' = "idle" /\ settled' = FALSE
      /\ shown' = 0 /\ unsaved' = 0 /\ paced' = TRUE
      /\ UNCHANGED <<pub, cache, typed, titled, call, repair>>
    BY DEF OpenDraft, EditDocument, LeavePage, JobDone, MountPage, Unmounted, daemon, query, tasks
<1>2. page' \in 0..MaxPages /\ page <= page' /\ (machine' # "off" => page' \in Pages)
    BY BoundsAssumption DEF DraftInv, TypeOK, Pages, OpenDraft, EditDocument, LeavePage, JobDone, MountPage, Unmounted
<1>3. fetch' \in BOOLEAN /\ expired' \in BOOLEAN
    BY DEF DraftInv, TypeOK, OpenDraft, EditDocument, LeavePage, JobDone, MountPage, Unmounted, query, tasks
<1>4. /\ draft' \in Doc \cup {NoDoc}
      /\ job' \in {"none", "publish", "published", "discarded"}
    BY DEF DraftInv, TypeOK, OpenDraft, EditDocument, LeavePage, JobDone, daemon, tasks
<1>5. /\ cache' \in Doc \cup {NoDoc, NotCached} /\ call' \in [Pages -> {NoCall} \cup UpdateCall]
      /\ \A p \in Pages : call'[p] = call[p] \/ call'[p] = NoCall
      /\ repair' \in {repair, NoRepair}
    BY <1>1 DEF DraftInv, TypeOK
<1>. QED  BY <1>1, <1>2, <1>3, <1>4, <1>5, NotCleanInv

-----------------------------------------------------------------------------
\* The page loads the draft and shows the editor.
LEMMA LoadInv ==
    ASSUME DraftInv, GetDraftSuccess \/ EditorMounted
    PROVE  DraftInv'
<1>1. CASE EditorMounted
  <2>1. TypeOK'
      BY <1>1 DEF DraftInv, TypeOK, EditorMounted, Ready, daemon, query, tasks, history
  <2>. QED  BY <1>1, <2>1 DEF DraftInv, EditorMounted, CallsOK, IndicatorOK, Alone, Shows, Saves, Restores,
                             Ready, daemon, query, tasks, history
<1>2. CASE GetDraftSuccess /\ cache = NoDoc
  <2>1. settled' \in BOOLEAN /\ UNCHANGED <<daemon, query, page, machine, context, editor, shown, indicator,
                       tasks, typed, titled, clean, unsaved, paced>>
      BY <1>2 DEF GetDraftSuccess, history
  <2>2. TypeOK'
      BY <2>1 DEF DraftInv, TypeOK, daemon, query, tasks
  <2>. QED  BY <2>1, <2>2 DEF DraftInv, CallsOK, IndicatorOK, Alone, Shows, Saves, Restores, daemon, query, tasks
<1>3. CASE GetDraftSuccess /\ cache # NoDoc
  <2>1. cache \in Doc /\ cache.blocks \in Int /\ cache.title \in Nat
      BY <1>3 DEF GetDraftSuccess, DraftInv, TypeOK, Doc
  <2>2. /\ context' = [blocksMap |-> cache.blocks, draftTitle |-> cache.title, title |-> cache.title,
                       hasChangedWhileSaving |-> FALSE, restoreTries |-> 0]
        /\ machine' = "mountingEditor" /\ machine = "fetching" /\ editor' = cache.blocks /\ settled' = TRUE
        /\ shown' = cache.title /\ unsaved' = 0 /\ paced' = TRUE
        /\ clean' = (cache = draft /\ (\A p \in Pages : call[p] = NoCall) /\ repair.next = "none")
        /\ UNCHANGED <<draft, pub, cache, fetch, page, indicator, call, repair, job, expired, typed, titled>>
      BY <1>3 DEF GetDraftSuccess, EmptyContext, daemon, query, tasks
  <2>3. context' \in Context
      BY <2>1, <2>2 DEF Context
  <2>4. clean' \in BOOLEAN /\ settled' \in BOOLEAN
      BY <2>2
  <2>5. TypeOK'
      BY <2>1, <2>2, <2>3, <2>4 DEF DraftInv, TypeOK
  <2>6. cache = [blocks |-> cache.blocks, title |-> cache.title]
      BY <2>1 DEF Doc
  <2>. QED  BY <2>2, <2>5, <2>6 DEF DraftInv, CallsOK, IndicatorOK, Alone, Shows, Saves, Restores, Ready
<1>. QED  BY <1>1, <1>2, <1>3

\* The user types: nothing is said of the blocks until they are saved.
LEMMA ChangeInv ==
    ASSUME DraftInv, NEW t \in Nat, Change(t), editor' \in Int, shown' \in Nat,
           shown' = t \/ (t = 0 /\ shown' = shown),
           typed' \in 0..MaxEdits, titled' \in 0..MaxTitles, unsaved' \in 0..2,
           UNCHANGED <<draft, pub, cache, fetch, page, settled, call, repair, job, expired, clean, paced>>
    PROVE  DraftInv'
<1>. DEFINE title == setTitle(t)
<1>1. context \in Context /\ machine \in Ready /\ title \in Nat
    BY DEF DraftInv, TypeOK, Change, Context, setTitle
<1>5. clean /\ machine \in {"idle", "changed", "saving"} => shown' \in {0, title}
    BY DEF DraftInv, Shows, setTitle
<1>. HIDE DEF title
<1>2. CASE machine \in {"idle", "changed"}
  <2>1. machine' = "changed" /\ indicator' = "changed" /\ context' = [context EXCEPT !.title = title]
      BY <1>2 DEF Change, title
  <2>2. /\ context' \in Context /\ context'.blocksMap = context.blocksMap
        /\ context'.draftTitle = context.draftTitle /\ context'.title = title
      BY <1>1, <2>1 DEF Context
  <2>3. TypeOK'
      BY <1>2, <2>1, <2>2 DEF DraftInv, TypeOK, Ready
  <2>4. Shows'
      BY <1>2, <1>5, <2>1, <2>2 DEF DraftInv, Shows
  <2>. QED  BY <1>2, <2>1, <2>2, <2>3, <2>4 DEF DraftInv, CallsOK, IndicatorOK, Alone, Saves, Restores, Ready
<1>3. CASE machine = "saving"
  <2>1. /\ context' = [context EXCEPT !.title = title, !.hasChangedWhileSaving = TRUE]
        /\ UNCHANGED <<machine, indicator>>
      BY <1>3 DEF Change, title
  <2>2. /\ context' \in Context /\ context'.blocksMap = context.blocksMap
        /\ context'.draftTitle = context.draftTitle /\ context'.title = title
        /\ context'.hasChangedWhileSaving = TRUE
      BY <1>1, <2>1 DEF Context
  <2>3. TypeOK'
      BY <1>3, <2>1, <2>2 DEF DraftInv, TypeOK, Ready
  <2>4. Shows'
      BY <1>3, <1>5, <2>1, <2>2 DEF DraftInv, Shows
  <2>. QED  BY <1>3, <2>1, <2>2, <2>3, <2>4 DEF DraftInv, CallsOK, IndicatorOK, Alone, Saves, Restores, Ready
<1>4. CASE machine \in {"saveError", "restoring", "resetting"}
  <2>1. UNCHANGED <<machine, indicator, context>>
      BY <1>4 DEF Change
  <2>2. TypeOK'
      BY <2>1 DEF DraftInv, TypeOK
  <2>. QED  BY <1>4, <2>1, <2>2 DEF DraftInv, CallsOK, IndicatorOK, Alone, Shows, Saves, Restores, Ready
<1>. QED  BY <1>1, <1>2, <1>3, <1>4 DEF Ready

LEMMA TypingInv ==
    ASSUME DraftInv, Type \/ \E t \in {0, titled + 2} : TypeTitle(t)
    PROVE  DraftInv'
<1>1. /\ context.blocksMap \in Int /\ titled \in Nat /\ typed \in Nat /\ shown \in Nat
      /\ editor \in Int /\ unsaved \in 0..2 /\ typed \in 0..MaxEdits /\ titled \in 0..MaxTitles
    BY BoundsAssumption DEF DraftInv, TypeOK, Context
<1>2. CASE Type
  <2>1. /\ Change(0)
        /\ UNCHANGED <<draft, pub, cache, fetch, page, settled, call, repair, job, expired, shown, titled,
                       clean, paced>>
      BY <1>2 DEF Type, daemon, query, tasks
  <2>2. editor' \in Int /\ unsaved' \in 0..2 /\ typed' \in 0..MaxEdits
      BY <1>1, <1>2, BoundsAssumption DEF Type
  <2>. QED  BY <1>1, <2>1, <2>2, ChangeInv
<1>3. ASSUME NEW t \in {0, titled + 2}, TypeTitle(t) PROVE DraftInv'
  <2>1. /\ t \in Nat /\ Change(t) /\ shown' = t
        /\ UNCHANGED <<draft, pub, cache, fetch, page, settled, call, repair, job, expired, editor, typed,
                       clean, unsaved, paced>>
      BY <1>1, <1>3 DEF TypeTitle, daemon, query, tasks, history
  <2>2. titled' \in 0..MaxTitles
      BY <1>1, <1>3, BoundsAssumption DEF TypeTitle
  <2>. QED  BY <1>1, <2>1, <2>2, ChangeInv
<1>. QED  BY <1>2, <1>3

-----------------------------------------------------------------------------
\* A save begins with a context that is the draft.
LEMMA EnterInv ==
    ASSUME DraftInv, NEW c \in Context, NEW n \in 0..2, EnterSaving(c, n), machine \in {"changed", "saving"},
           clean /\ draft # NoDoc => draft = [blocks |-> c.blocksMap, title |-> c.draftTitle],
           clean => shown' \in {0, c.title},
           cache' \in Doc \cup {NoDoc, NotCached}, fetch' \in BOOLEAN, shown' \in Nat,
           UNCHANGED <<draft, pub, page, settled, editor, repair, job, expired, typed, titled, clean>>
    PROVE  DraftInv'
<1>1. /\ context' \in Context /\ context'.blocksMap = c.blocksMap /\ context'.draftTitle = c.draftTitle
      /\ context'.title = c.title /\ context'.hasChangedWhileSaving = FALSE
    BY DEF EnterSaving, Context
<1>2. page \in Pages /\ indicator \in {"changed", "saving"} /\ editor \in Int /\ unsaved' = 0
    BY DEF DraftInv, TypeOK, IndicatorOK, EnterSaving
<1>3. call \in [Pages -> {NoCall} \cup UpdateCall]
    BY DEF DraftInv, TypeOK
<1>4. CASE editor = c.blocksMap /\ n = 0 /\ c.title = c.draftTitle
  <2>1. /\ machine' = "idle" /\ indicator' = "idle" /\ call' = [call EXCEPT ![page] = NoCall]
        /\ paced' = paced
      BY <1>4 DEF EnterSaving
  <2>2. call' \in [Pages -> {NoCall} \cup UpdateCall]
      BY <1>3, <2>1
  <2>3. call'[page] = NoCall /\ \A p \in Pages : p # page => call'[p] = call[p]
      BY <1>2, <1>3, <2>1
  <2>4. TypeOK'
      BY <1>1, <1>2, <2>1, <2>2 DEF DraftInv, TypeOK, Ready
  <2>5. Shows'
      BY <1>1, <1>2, <1>4, <2>1 DEF Shows
  <2>. QED  BY <1>1, <2>1, <2>3, <2>4, <2>5 DEF DraftInv, CallsOK, IndicatorOK, Alone, Saves, Restores, Ready
<1>5. CASE ~(editor = c.blocksMap /\ n = 0 /\ c.title = c.draftTitle)
  <2>. DEFINE r == [base |-> c.blocksMap, baseTitle |-> c.draftTitle, blocks |-> editor, title |-> c.title,
                    edits |-> n]
              sent == [phase |-> "sent", result |-> NoDoc, request |-> r]
  <2>1. /\ machine' = "saving" /\ indicator' = "saving" /\ call' = [call EXCEPT ![page] = sent]
        /\ paced' = (paced /\ n <= 1)
      BY <1>2, <1>5 DEF EnterSaving
  <2>2. r \in Request
      BY <1>2 DEF Request, Context
  <2>3. sent \in UpdateCall
      BY <2>2 DEF UpdateCall
  <2>4. call' \in [Pages -> {NoCall} \cup UpdateCall]
      BY <1>3, <2>1, <2>3
  <2>5. call'[page] = sent /\ \A p \in Pages : p # page => call'[p] = call[p]
      BY <1>2, <1>3, <2>1
  <2>6. TypeOK'
    <3>1. paced' \in BOOLEAN
        BY <2>1 DEF DraftInv, TypeOK
    <3>. QED  BY <1>1, <1>2, <2>1, <2>4, <3>1 DEF DraftInv, TypeOK, Ready
  <2>7. sent # NoCall
      BY <2>3, ConstantsAssumption
  <2>8. CallsOK'
      BY <2>1, <2>5, <2>7 DEF DraftInv, CallsOK
  <2>9. Saves'
    <3>1. call'[page].request = r /\ call'[page].phase = "sent" /\ page' = page
        BY <2>5
    <3>2. paced' => n <= 1
        BY <2>1
    <3>. QED  BY <1>1, <1>2, <2>1, <3>1, <3>2 DEF Saves
  <2>. QED  BY <1>1, <2>1, <2>5, <2>6, <2>8, <2>9 DEF DraftInv, IndicatorOK, Alone, Shows, Restores, Ready
<1>. QED  BY <1>4, <1>5

\* The daemon's answer: a clean page has the only call, and the daemon the
\* draft the call starts from.
LEMMA ApplyType == ASSUME NEW d \in Doc, NEW r \in Request PROVE Apply(d, r) \in Doc
BY DEF Apply, Doc, Request, Mixed

LEMMA ApplyFits ==
    ASSUME NEW d, NEW r, d = [blocks |-> r.base, title |-> r.baseTitle]
    PROVE  Apply(d, r) = [blocks |-> r.blocks, title |-> r.title]
BY DEF Apply

LEMMA AnswerInv ==
    ASSUME DraftInv, NEW p \in Pages, AnswerUpdate(p)
    PROVE  DraftInv'
<1>1. /\ call[p] \in UpdateCall /\ call[p].phase = "sent" /\ call \in [Pages -> {NoCall} \cup UpdateCall]
      /\ draft \in Doc \cup {NoDoc} /\ (machine = "saving" => page \in Pages)
    BY DEF DraftInv, TypeOK, AnswerUpdate
<1>2. call[p].request \in Request
    BY <1>1 DEF UpdateCall
<1>3. UNCHANGED <<pub, cache, fetch, page, machine, settled, context, editor, shown, indicator, repair, job,
                  expired, typed, titled, clean, unsaved, paced>>
    BY DEF AnswerUpdate, query, ui, history
<1>4. clean => p = page /\ machine = "saving"
  <2>1. call[p] # NoCall
      BY DEF AnswerUpdate
  <2>. QED  BY <2>1 DEF DraftInv, Alone
<1>5. CASE /\ call' = [call EXCEPT ![p].phase = "failed"]
           /\ draft' = draft \/ (draft # NoDoc /\ draft' = Apply(draft, call[p].request))
  <2>1. draft' \in Doc \cup {NoDoc}
      BY <1>1, <1>2, <1>5, ApplyType
  <2>2. [call[p] EXCEPT !.phase = "failed"] \in UpdateCall
      BY <1>1 DEF UpdateCall
  <2>3. /\ call'[p] = [call[p] EXCEPT !.phase = "failed"] /\ \A q \in Pages : q # p => call'[q] = call[q]
        /\ call' \in [Pages -> {NoCall} \cup UpdateCall]
      BY <1>1, <1>5, <2>2
  <2>4. call'[p].phase = "failed" /\ call'[p].request = call[p].request /\ call'[p] # NoCall
      BY <1>1, <2>2, <2>3, ConstantsAssumption DEF UpdateCall
  <2>5. TypeOK'
      BY <1>3, <2>1, <2>3 DEF DraftInv, TypeOK
  <2>6. CallsOK'
      BY <1>1, <1>3, <2>3, <2>4 DEF DraftInv, CallsOK
  <2>7. Saves'
      BY <1>3, <1>4, <2>4 DEF DraftInv, Saves
  <2>8. Alone' /\ IndicatorOK' /\ Shows'
      BY <1>3, <1>4, <2>3 DEF DraftInv, IndicatorOK, Alone, Shows
  <2>9. Restores'
      BY <1>3, <1>4 DEF DraftInv, Alone, Restores
  <2>. QED  BY <2>5, <2>6, <2>7, <2>8, <2>9 DEF DraftInv
<1>6. CASE /\ draft # NoDoc
           /\ draft' = Apply(draft, call[p].request)
           /\ call' = [call EXCEPT ![p].phase = "ok", ![p].result = draft']
  <2>1. draft' \in Doc
      BY <1>1, <1>2, <1>6, ApplyType
  <2>. DEFINE new == [call[p] EXCEPT !.phase = "ok", !.result = draft']
  <2>2. new \in UpdateCall
      BY <1>1, <2>1 DEF UpdateCall
  <2>3. /\ call'[p] = new /\ \A q \in Pages : q # p => call'[q] = call[q]
        /\ call' \in [Pages -> {NoCall} \cup UpdateCall]
      BY <1>1, <1>6, <2>2
  <2>4. /\ call'[p].phase = "ok" /\ call'[p].request = call[p].request /\ call'[p].result = draft'
        /\ call'[p] # NoCall
      BY <1>1, <2>2, <2>3, ConstantsAssumption DEF UpdateCall
  <2>5. TypeOK'
      BY <1>3, <2>1, <2>3 DEF DraftInv, TypeOK
  <2>6. CallsOK'
      BY <1>1, <1>3, <2>1, <2>3, <2>4 DEF DraftInv, CallsOK
  <2>7. clean => draft' = [blocks |-> call[p].request.blocks, title |-> call[p].request.title]
      BY <1>1, <1>4, <1>6, ApplyFits DEF DraftInv, Saves
  <2>8. Saves'
      BY <1>3, <1>4, <2>4, <2>7 DEF DraftInv, Saves
  <2>9. Alone' /\ IndicatorOK' /\ Shows'
      BY <1>3, <1>4, <2>3 DEF DraftInv, IndicatorOK, Alone, Shows
  <2>10. Restores'
      BY <1>3, <1>4 DEF DraftInv, Alone, Restores
  <2>. QED  BY <2>5, <2>6, <2>8, <2>9, <2>10 DEF DraftInv
<1>. QED  BY <1>5, <1>6 DEF AnswerUpdate

LEMMA AutosaveInv == ASSUME DraftInv, AutosaveTimeout PROVE DraftInv'
<1>1. /\ context \in Context /\ cache \in Doc \cup {NoDoc, NotCached} /\ fetch \in BOOLEAN
      /\ shown \in Nat /\ unsaved \in 0..2
    BY DEF DraftInv, TypeOK
<1>2. /\ EnterSaving(context, unsaved) /\ machine = "changed"
      /\ UNCHANGED <<cache, fetch, draft, pub, page, settled, editor, shown, repair, job, expired, typed, titled, clean>>
    BY DEF AutosaveTimeout, daemon, query
<1>3. clean /\ draft # NoDoc => draft = [blocks |-> context.blocksMap, title |-> context.draftTitle]
    BY <1>2 DEF DraftInv, Shows
<1>4. clean => shown' \in {0, context.title}
    BY <1>2 DEF DraftInv, Shows
<1>. QED  BY <1>1, <1>2, <1>3, <1>4, EnterInv

LEMMA SaveDoneInv == ASSUME DraftInv, SaveDone PROVE DraftInv'
<1>. DEFINE result == call[page].result
            saved == Saved(result)
            left == IF call[page].request.edits <= 1 THEN {unsaved} ELSE {unsaved, 2}
<1>1. /\ context \in Context /\ call \in [Pages -> {NoCall} \cup UpdateCall] /\ page \in Pages
      /\ machine = "saving" /\ call[page].phase = "ok" /\ cache' = result
    BY DEF DraftInv, TypeOK, SaveDone
<1>2. result \in Doc
    BY <1>1 DEF DraftInv, CallsOK
<1>3. /\ saved \in Context /\ saved.blocksMap = result.blocks /\ saved.draftTitle = result.title
      /\ saved.title = result.title /\ result = [blocks |-> result.blocks, title |-> result.title]
    BY <1>1, <1>2 DEF Saved, Context, Doc
<1>4. /\ UNCHANGED <<draft, pub, page, settled, editor, repair, job, expired, typed, titled, clean>>
      /\ shown' = IF result.title = context.title THEN shown ELSE result.title
    BY DEF SaveDone, daemon
<1>8. shown' \in Nat /\ (clean => shown' \in {0, saved.title})
    BY <1>1, <1>2, <1>3, <1>4 DEF DraftInv, TypeOK, Shows, Doc
<1>9. left \subseteq 0..2
    BY DEF DraftInv, TypeOK
<1>5. clean /\ draft # NoDoc => draft = [blocks |-> saved.blocksMap, title |-> saved.draftTitle]
    BY <1>1, <1>3 DEF DraftInv, Saves
<1>6. CASE context.hasChangedWhileSaving
  <2>1. (\E n \in left : EnterSaving(saved, n)) /\ fetch' = fetch
      BY <1>6 DEF SaveDone
  <2>2. fetch' \in BOOLEAN
      BY <2>1 DEF DraftInv, TypeOK
  <2>. HIDE DEF saved, result, left
  <2>3. PICK n \in left : EnterSaving(saved, n)
      BY <2>1
  <2>. QED  BY <1>1, <1>2, <1>3, <1>4, <1>5, <1>8, <1>9, <2>2, <2>3, EnterInv
<1>7. CASE ~context.hasChangedWhileSaving
  <2>1. /\ machine' = "idle" /\ context' = saved /\ call' = [call EXCEPT ![page] = NoCall]
        /\ indicator' = IF indicator = "saving" THEN "saved" ELSE indicator
        /\ unsaved' \in left /\ paced' = paced
      BY <1>7 DEF SaveDone
  <2>2. fetch' \in BOOLEAN
      BY <1>7 DEF SaveDone
  <2>3. indicator' = "saved"
      BY <1>1, <2>1 DEF DraftInv, IndicatorOK
  <2>4. /\ call' \in [Pages -> {NoCall} \cup UpdateCall] /\ call'[page] = NoCall
        /\ \A p \in Pages : p # page => call'[p] = call[p]
      BY <1>1, <2>1
  <2>5. clean => editor = result.blocks /\ (paced' => unsaved' = 0)
      BY <1>1, <1>7, <2>1 DEF DraftInv, Saves
  <2>6. TypeOK'
    <3>1. unsaved' \in 0..2
        BY <1>9, <2>1
    <3>. HIDE DEF left, saved
    <3>. QED  BY <1>1, <1>2, <1>3, <1>4, <1>8, <2>1, <2>2, <2>3, <2>4, <3>1 DEF DraftInv, TypeOK, Ready
  <2>7. CallsOK' /\ IndicatorOK' /\ Alone' /\ Saves' /\ Restores'
      BY <1>1, <1>4, <2>1, <2>3, <2>4 DEF DraftInv, CallsOK, IndicatorOK, Alone, Saves, Restores, Ready
  <2>8. Shows'
      BY <1>3, <1>4, <1>5, <1>8, <2>1, <2>5 DEF Shows
  <2>. QED  BY <2>6, <2>7, <2>8 DEF DraftInv
<1>. QED  BY <1>6, <1>7

\* A save that failed, and the answer to a page that is gone.
LEMMA LastAnswerInv ==
    ASSUME DraftInv, SaveFailed \/ \E p \in Pages : LateAnswer(p)
    PROVE  DraftInv'
<1>1. call \in [Pages -> {NoCall} \cup UpdateCall]
    BY DEF DraftInv, TypeOK
<1>2. CASE SaveFailed
  <2>1. /\ machine = "saving" /\ machine' = "saveError" /\ indicator' = "error"
        /\ call' = [call EXCEPT ![page] = NoCall] /\ page \in Pages
        /\ UNCHANGED <<draft, pub, cache, fetch, page, settled, context, editor, shown, repair, job, expired,
                       typed, titled, clean, unsaved, paced>>
      BY <1>2 DEF SaveFailed, DraftInv, TypeOK, daemon, query, history
  <2>2. /\ call' \in [Pages -> {NoCall} \cup UpdateCall] /\ call'[page] = NoCall
        /\ \A p \in Pages : p # page => call'[p] = call[p]
      BY <1>1, <2>1
  <2>3. TypeOK'
      BY <2>1, <2>2 DEF DraftInv, TypeOK, Ready
  <2>. QED  BY <2>1, <2>2, <2>3 DEF DraftInv, CallsOK, IndicatorOK, Alone, Shows, Saves, Restores, Ready
<1>3. ASSUME NEW p \in Pages, LateAnswer(p) PROVE DraftInv'
  <2>1. /\ call[p] # NoCall /\ (p # page \/ machine # "saving")
        /\ cache' = IF call[p].phase = "ok" THEN call[p].result ELSE cache
        /\ call' = [call EXCEPT ![p] = NoCall]
        /\ UNCHANGED <<draft, pub, fetch, page, machine, settled, context, editor, shown, indicator, repair, job,
                       expired, typed, titled, clean, unsaved, paced>>
      BY <1>3 DEF LateAnswer, daemon, ui, history
  <2>2. clean = FALSE
      BY <2>1 DEF DraftInv, TypeOK, Alone
  <2>3. /\ call' \in [Pages -> {NoCall} \cup UpdateCall] /\ call'[p] = NoCall
        /\ \A q \in Pages : q # p => call'[q] = call[q]
      BY <1>1, <2>1
  <2>4. cache' \in Doc \cup {NoDoc, NotCached}
      BY <2>1 DEF DraftInv, TypeOK, CallsOK
  <2>5. TypeOK'
      BY <2>1, <2>3, <2>4 DEF DraftInv, TypeOK
  <2>6. CallsOK'
      BY <2>1, <2>3 DEF DraftInv, TypeOK, CallsOK
  <2>. QED  BY <2>1, <2>2, <2>5, <2>6 DEF DraftInv, IndicatorOK, Alone, Shows, Saves, Restores
<1>. QED  BY <1>2, <1>3

-----------------------------------------------------------------------------
\* The user asks for a repair, which a clean page has for itself.
LEMMA PressRepairInv ==
    ASSUME DraftInv, NEW kind \in {"restoring", "resetting"}, PressRepair(kind)
    PROVE  DraftInv'
<1>1. /\ context \in Context /\ page \in Pages /\ context.blocksMap \in Int /\ page \in Nat
    BY BoundsAssumption DEF DraftInv, TypeOK, PressRepair, Context, Pages
<1>2. /\ machine = "saveError" /\ machine' = kind
      /\ kind = "restoring" => context.restoreTries = 0
      /\ context' = [context EXCEPT !.restoreTries = IF kind = "restoring" THEN @ + 1 ELSE @]
      /\ repair' = [page |-> page, kind |-> kind, next |-> "delete", wanted |-> context.blocksMap, created |-> 0,
                  result |-> NoDoc]
      /\ UNCHANGED <<draft, pub, cache, fetch, page, settled, editor, shown, indicator, call, job, expired,
                     typed, titled, clean, unsaved, paced>>
    BY DEF PressRepair, daemon, query, history
<1>3. context' \in Context
    BY <1>1, <1>2 DEF Context
<1>4. repair' \in RepairActor /\ repair'.page = page /\ repair'.next = "delete"
    BY <1>1, <1>2 DEF RepairActor
<1>5. TypeOK'
    BY <1>1, <1>2, <1>3, <1>4 DEF DraftInv, TypeOK, Ready
<1>. QED  BY <1>2, <1>4, <1>5 DEF DraftInv, CallsOK, IndicatorOK, Alone, Shows, Saves, Restores, Ready

\* A step of the repair at the daemon.  A clean page is restoring or
\* resetting then, and says nothing of the draft.
LEMMA RepairStepInv ==
    ASSUME DraftInv, RepairDelete \/ RepairCreate \/ RepairUpdate \/ RepairFails
    PROVE  DraftInv'
<1>1. /\ repair \in RepairActor /\ draft \in Doc \cup {NoDoc} /\ pub \in Doc \cup {NoDoc}
      /\ repair.next # "none"
      /\ UNCHANGED <<pub, cache, fetch, page, machine, settled, context, editor, shown, indicator, call, job, expired,
                     typed, titled, clean, unsaved, paced>>
    BY DEF DraftInv, TypeOK, RepairDelete, RepairCreate, RepairUpdate, RepairFails, daemon, query, ui, history
<1>2. draft' \in Doc \cup {NoDoc}
  <2>1. RestoreRequest \in Request
      BY <1>1 DEF RestoreRequest, compareDraftWithMap, Request, RepairActor
  <2>2. draft # NoDoc => Apply(draft, RestoreRequest) \in Doc
      BY <1>1, <2>1, ApplyType
  <2>. QED  BY <1>1, <2>2 DEF RepairDelete, RepairCreate, RepairUpdate, RepairFails
<1>3. /\ repair' \in RepairActor /\ repair'.page = repair.page /\ repair'.next # "none"
      /\ repair'.next = "update" => draft' = pub /\ repair'.created = pub.blocks
  <2>1. CASE RepairCreate
    <3>1. pub.blocks \in Int
        BY <1>1, <2>1 DEF RepairCreate, Doc
    <3>2. PICK next \in {"update", "done"} : repair' = [repair EXCEPT !.next = next, !.created = pub.blocks]
        BY <2>1 DEF RepairCreate
    <3>. QED  BY <1>1, <2>1, <3>1, <3>2 DEF RepairCreate, RepairActor
  <2>2. CASE RepairDelete \/ RepairUpdate \/ RepairFails
      BY <1>1, <1>2, <2>2 DEF RepairDelete, RepairUpdate, RepairFails, RepairActor
  <2>. QED  BY <2>1, <2>2
<1>4. TypeOK'
    BY <1>1, <1>2, <1>3 DEF DraftInv, TypeOK
<1>5. clean => machine \in {"restoring", "resetting"} /\ repair.page = page
    BY <1>1 DEF DraftInv, Alone
<1>6. Restores'
    BY <1>1, <1>3 DEF Restores
<1>. QED  BY <1>1, <1>3, <1>4, <1>5, <1>6 DEF DraftInv, CallsOK, IndicatorOK, Alone, Shows, Saves, Ready

LEMMA RepairEndsInv ==
    ASSUME DraftInv, RepairDone \/ RepairFailed
    PROVE  DraftInv'
<1>. DEFINE here == repair.page = page /\ machine \in {"restoring", "resetting"}
<1>1. /\ repair' = NoRepair /\ NoRepair \in RepairActor /\ NoRepair.page = 0 /\ NoRepair.next = "none"
      /\ UNCHANGED <<draft, pub, job, typed, titled>>
    BY EmptyTypes DEF RepairDone, RepairFailed, NoRepair, daemon
<1>2. page \in Nat /\ (machine = "saving" => page \in Pages)
    BY BoundsAssumption DEF DraftInv, TypeOK
<1>3. clean => here
    BY DEF DraftInv, Alone, RepairDone, RepairFailed
<1>4. CASE RepairDone /\ here
  <2>1. /\ Reload /\ page' = page + 1 /\ page < MaxPages
        /\ clean' = FALSE /\ machine' = "fetching" /\ context' = EmptyContext /\ editor' = 0
        /\ indicator' = "idle" /\ settled' = FALSE /\ cache' = NotCached
        /\ shown' = 0 /\ unsaved' = 0 /\ paced' = TRUE
      BY <1>4 DEF RepairDone, Reload, MountPage
  <2>2. fetch' \in BOOLEAN /\ expired' \in BOOLEAN
      BY <2>1 DEF Reload, MountPage, DraftInv, TypeOK
  <2>3. page' \in 0..MaxPages /\ page <= page' /\ page' \in Pages
      BY <1>2, <2>1, BoundsAssumption DEF Pages
  <2>4. /\ call' \in [Pages -> {NoCall} \cup UpdateCall]
        /\ \A p \in Pages : call'[p] = call[p] \/ call'[p] = NoCall
      BY <2>1 DEF Reload, DraftInv, TypeOK
  <2>5. draft' \in Doc \cup {NoDoc} /\ job' \in {"none", "publish", "published", "discarded"}
      BY <1>1 DEF DraftInv, TypeOK
  <2>. QED  BY <1>1, <2>1, <2>2, <2>3, <2>4, <2>5, NotCleanInv
<1>5. CASE RepairDone /\ ~here
  <2>1. UNCHANGED <<fetch, page, machine, settled, context, editor, shown, indicator, call, expired, clean, unsaved, paced>>
      BY <1>5 DEF RepairDone, ui, history
  <2>3. cache' \in Doc \cup {NoDoc, NotCached}
      BY <1>5 DEF RepairDone, DraftInv, TypeOK, RepairActor
  <2>2. TypeOK'
      BY <1>1, <1>2, <2>1, <2>3 DEF DraftInv, TypeOK
  <2>. QED  BY <1>1, <1>3, <1>5, <2>1, <2>2 DEF DraftInv, CallsOK, IndicatorOK, Alone, Shows, Saves, Restores
<1>6. CASE RepairFailed
  <2>1. /\ machine' = IF here THEN "saveError" ELSE machine
        /\ UNCHANGED <<cache, fetch, page, settled, context, editor, shown, indicator, call, expired, clean, unsaved, paced>>
      BY <1>6 DEF RepairFailed, query, history
  <2>2. TypeOK'
      BY <1>1, <1>2, <2>1 DEF DraftInv, TypeOK, Ready
  <2>. QED  BY <1>1, <1>3, <2>1, <2>2 DEF DraftInv, CallsOK, IndicatorOK, Alone, Shows, Saves, Restores, Ready
<1>. QED  BY <1>4, <1>5, <1>6

-----------------------------------------------------------------------------
\* The draft is published or discarded under the page.
LEMMA GoneInv ==
    ASSUME DraftInv, PublishDraft \/ DiscardDraft
    PROVE  DraftInv'
<1>1. /\ draft' \in {draft, NoDoc} /\ pub' \in {pub, draft}
      /\ job' \in {"none", "published", "discarded"}
      /\ UNCHANGED <<cache, fetch, page, machine, settled, context, editor, shown, indicator, call, repair, expired,
                     typed, titled, clean, unsaved, paced>>
    BY DEF PublishDraft, DiscardDraft, daemon, query, ui, history
<1>2. TypeOK'
    BY <1>1 DEF DraftInv, TypeOK
<1>. QED  BY <1>1, <1>2 DEF DraftInv, CallsOK, IndicatorOK, Alone, Shows, Saves, Restores

LEMMA StepInv == DraftInv /\ [Next]_vars => DraftInv'
<1>. SUFFICES ASSUME DraftInv, [Next]_vars PROVE DraftInv'
    OBVIOUS
<1>1. CASE User
  <2>1. CASE OpenDraft \/ EditDocument \/ LeavePage
      BY <2>1, PageInv
  <2>2. CASE Type \/ \E t \in {0, titled + 2} : TypeTitle(t)
      BY <2>2, TypingInv
  <2>3. CASE \E kind \in {"restoring", "resetting"} : PressRepair(kind)
      BY <2>3, PressRepairInv
  <2>4. CASE PressPublish
      BY <2>4, QuietInv
  <2>5. CASE DiscardDraft
      BY <2>5, GoneInv
  <2>. QED  BY <1>1, <2>1, <2>2, <2>3, <2>4, <2>5 DEF User
<1>2. CASE System
  <2>1. CASE FetchDone \/ RemoveQueries \/ IndicatorTimeout
      BY <2>1, QuietInv
  <2>2. CASE GetDraftSuccess \/ EditorMounted
      BY <2>2, LoadInv
  <2>3. CASE AutosaveTimeout \/ SaveDone
      BY <2>3, AutosaveInv, SaveDoneInv
  <2>4. CASE SaveFailed \/ \E p \in Pages : LateAnswer(p)
      BY <2>4, LastAnswerInv
  <2>5. CASE \E p \in Pages : AnswerUpdate(p)
      BY <2>5, AnswerInv
  <2>6. CASE RepairDelete \/ RepairCreate \/ RepairUpdate \/ RepairFails
      BY <2>6, RepairStepInv
  <2>7. CASE RepairDone \/ RepairFailed
      BY <2>7, RepairEndsInv
  <2>8. CASE PublishDraft
      BY <2>8, GoneInv
  <2>9. CASE JobDone
      BY <2>9, PageInv
  <2>. QED  BY <1>2, <2>1, <2>2, <2>3, <2>4, <2>5, <2>6, <2>7, <2>8, <2>9 DEF System
<1>3. CASE UNCHANGED vars
    BY <1>3 DEF vars, daemon, query, ui, tasks, history, DraftInv, TypeOK, CallsOK, IndicatorOK, Alone, Shows, Saves, Restores
<1>. QED  BY <1>1, <1>2, <1>3 DEF Next

\* The invariant the theorems below rest on.
THEOREM DraftInvTheorem == Spec => []DraftInv
BY InitInv, StepInv, PTL DEF Spec

\* The types of the editor's state hold whatever the user, the timers and
\* the daemon do.
THEOREM TypesTheorem == Spec => []TypeOK
<1>1. DraftInv => TypeOK
    BY DEF DraftInv
<1>. QED  BY <1>1, DraftInvTheorem, PTL

\* The publish button is enabled only while the daemon's draft has the blocks
\* and the title the user sees, and their order if no save had several edits,
\* for any number of edits, failures, repairs and pages.  An update is
\* answered before or after any of these, or is applied and its answer lost.
THEOREM PublishableIsSavedTheorem == Spec => []PublishableIsSaved
<1>1. DraftInv => PublishableIsSaved
  <2>. SUFFICES ASSUME DraftInv, clean, machine \in Ready, indicator \in {"idle", "saved"}, draft # NoDoc
                PROVE  /\ draft.blocks = editor
                       /\ paced => unsaved = 0
                       /\ shown # 0 => draft.title = shown
      BY DEF PublishableIsSaved, CanPublish
  <2>1. machine = "idle"
      BY DEF DraftInv, IndicatorOK, Ready
  <2>. QED  BY <2>1 DEF DraftInv, Shows
<1>. QED  BY <1>1, DraftInvTheorem, PTL

\* Every update the page sends was computed against the draft it meets.
THEOREM UpdatesFitTheDraftTheorem == Spec => []UpdatesFitTheDraft
<1>1. DraftInv => UpdatesFitTheDraft
    BY DEF DraftInv, Saves, UpdatesFitTheDraft
<1>. QED  BY <1>1, DraftInvTheorem, PTL

\* A restore that completes has put back the blocks that were saved last:
\* deleted, created from the publication, and updated by the difference, which
\* meets the very draft it was computed from.
THEOREM RestoreBringsBackTheorem == Spec => RestoreBringsBack
<1>1. DraftInv /\ [Next]_vars =>
          [clean /\ repair.page = page /\ repair.kind = "restoring"
             /\ repair.next \in {"create", "update"} /\ repair'.next = "done" =>
               draft'.blocks = repair.wanted]_vars
  <2>. SUFFICES ASSUME DraftInv, Next, clean, repair.kind = "restoring",
                       repair.next \in {"create", "update"}, repair'.next = "done"
                PROVE  draft'.blocks = repair.wanted
      BY DEF vars, tasks
  <2>1. repair \in RepairActor /\ pub \in Doc \cup {NoDoc}
      BY DEF DraftInv, TypeOK
  <2>2. RepairCreate \/ RepairUpdate
    <3>1. repair' # repair
        OBVIOUS
    <3>2. repair # NoRepair
        BY DEF NoRepair
    <3>3. ~User
        BY <3>1, <3>2 DEF User, OpenDraft, EditDocument, LeavePage, Type, TypeTitle, PressRepair,
                          PressPublish, DiscardDraft, tasks
    <3>4. System
        BY <3>3 DEF Next
    <3>5. ~(\E p \in Pages : AnswerUpdate(p) \/ LateAnswer(p))
        BY <3>1 DEF AnswerUpdate, LateAnswer
    <3>6. ~(FetchDone \/ RemoveQueries \/ GetDraftSuccess \/ EditorMounted \/ IndicatorTimeout
            \/ AutosaveTimeout \/ SaveDone \/ SaveFailed \/ PublishDraft \/ JobDone)
        BY <3>1 DEF FetchDone, RemoveQueries, GetDraftSuccess, EditorMounted, IndicatorTimeout, AutosaveTimeout,
                    SaveDone, SaveFailed, PublishDraft, JobDone, tasks
    <3>7. ~(RepairDelete \/ RepairFails \/ RepairDone \/ RepairFailed)
        BY <2>1 DEF RepairDelete, RepairFails, RepairDone, RepairFailed, RepairActor
    <3>. QED  BY <3>4, <3>5, <3>6, <3>7 DEF System
  <2>3. CASE RepairCreate
    <3>1. PICK next \in {"update", "done"} :
              /\ next = "done" => repair.kind = "resetting" \/ pub.blocks = repair.wanted
              /\ repair' = [repair EXCEPT !.next = next, !.created = pub.blocks]
        BY <2>3 DEF RepairCreate
    <3>2. next = "done"
        BY <2>1, <3>1 DEF RepairActor
    <3>. QED  BY <2>3, <3>1, <3>2 DEF RepairCreate
  <2>4. CASE RepairUpdate
    <3>1. draft # NoDoc /\ draft' = Apply(draft, RestoreRequest) /\ draft.blocks = repair.created
        BY <2>4 DEF RepairUpdate, DraftInv, Restores
    <3>. QED  BY <3>1 DEF Apply, RestoreRequest, compareDraftWithMap
  <2>. QED  BY <2>2, <2>3, <2>4
<1>. QED  BY <1>1, DraftInvTheorem, PTL DEF Spec, RestoreBringsBack

=============================================================================
