---------------------------- MODULE Comments_proofs ----------------------------
(***************************************************************************)
(* The store of comment drafts, for any number of windows, drafts, edits,  *)
(* calls under way and comments; and how comments are laid out, for any    *)
(* comments that do not reply to themselves.                               *)
(***************************************************************************)
EXTENDS Comments, SequenceTheorems, FiniteSetTheorems, TLAPS

IsPage(p) == "draft" \in DOMAIN p /\ p.draft \in Drafts

\* A call to remove a draft names one, and a call is only answered to a page
\* while its window shows one.
GoodCall(c, p) ==
    /\ {"op", "draft", "from"} \subseteq DOMAIN c
    /\ c.op = "remove" => c.draft \in Drafts
    /\ c.from = "page" => IsPage(p)
GoodCalls(q, p) == \E S : q \in Seq(S) /\ \A c \in S : GoodCall(c, p)
GoodPage(p) == p # NoPage => IsPage(p)

WindowsOK ==
    /\ page = [w \in Windows |-> page[w]] /\ calls = [w \in Windows |-> calls[w]]
    /\ \A w \in Windows : GoodPage(page[w]) /\ GoodCalls(calls[w], page[w])

StoreOK ==
    /\ index \subseteq known /\ removed \subseteq known /\ known \subseteq Drafts
    /\ drafts = [d \in Drafts |-> drafts[d]]

\* A draft that is being created is listed and was never removed; one that
\* is being removed is out of the store before it is out of the index.
HalfOK ==
    half # NoOp =>
        /\ half.window \in Windows /\ calls[half.window] # <<>>
        /\ half.op = "create" => half.draft \in index /\ half.draft \notin removed
        /\ half.op = "remove" => half.draft \in removed

CommentsInv == WindowsOK /\ StoreOK /\ HalfOK /\ DiscardedStaysGone /\ DraftsAreListed

-----------------------------------------------------------------------------
(* Queues of calls.                                                        *)
LEMMA NoCalls == ASSUME NEW p PROVE GoodCalls(<<>>, p)
<1>1. <<>> \in Seq({}) /\ \A c \in {} : GoodCall(c, p)
    OBVIOUS
<1>2. \A S : <<>> \in Seq(S) /\ (\A c \in S : GoodCall(c, p)) => GoodCalls(<<>>, p)
    BY Zenon DEF GoodCalls
<1>. QED  BY <1>1, <1>2

\* A good call added to good calls.
LEMMA OneMoreCall ==
    ASSUME NEW q, NEW p, GoodCalls(q, p), NEW c, GoodCall(c, p)
    PROVE  GoodCalls(Append(q, c), p) /\ Append(q, c) # <<>>
<1>1. PICK S : q \in Seq(S) /\ \A x \in S : GoodCall(x, p)
    BY DEF GoodCalls
<1>2. q \in Seq(S \cup {c})
    BY <1>1, SeqMonotonic
<1>3. Append(q, c) \in Seq(S \cup {c}) /\ Append(q, c) # <<>>
    BY <1>2, AppendProperties
<1>4. \A x \in S \cup {c} : GoodCall(x, p)
    BY <1>1
<1>. QED  BY <1>3, <1>4 DEF GoodCalls

\* What is handled and what stays in the queue are good calls.
LEMMA FirstAndRest ==
    ASSUME NEW q, NEW p, GoodCalls(q, p), q # <<>>
    PROVE  GoodCall(Head(q), p) /\ GoodCalls(Tail(q), p)
<1>1. PICK S : q \in Seq(S) /\ \A x \in S : GoodCall(x, p)
    BY DEF GoodCalls
<1>2. Head(q) \in S /\ Tail(q) \in Seq(S)
    BY <1>1, HeadTailProperties
<1>. QED  BY <1>1, <1>2 DEF GoodCalls

\* A call that no page waits for is good whatever the window shows.
LEMMA FromIsGood ==
    ASSUME NEW c, NEW p, NEW r, GoodCall(c, p), NEW from \in {"window", "left", "gone"}
    PROVE  GoodCall(From(c, from), r)
<1>1. "op" \in DOMAIN c /\ "from" \in DOMAIN c
    BY Zenon DEF GoodCall
<1>2. From(c, from).op = c.op
    BY <1>1, Zenon DEF From
<1>. QED  BY <1>1, <1>2, Zenon DEF GoodCall, From

\* A queue of calls made good one by one from good calls.
LEMMA EachCallIsGood ==
    ASSUME NEW q, NEW p, NEW r, GoodCalls(q, p),
           NEW s, s = [i \in DOMAIN q |-> s[i]],
           \A i \in DOMAIN q : GoodCall(q[i], p) => GoodCall(s[i], r)
    PROVE  GoodCalls(s, r) /\ (q # <<>> => s # <<>>)
<1>1. PICK S : q \in Seq(S) /\ \A x \in S : GoodCall(x, p)
    BY DEF GoodCalls
<1>. DEFINE T == {s[i] : i \in DOMAIN q}
<1>2. s \in Seq(T) /\ Len(s) = Len(q)
    BY <1>1
<1>3. \A i \in DOMAIN q : q[i] \in S
    BY <1>1
<1>4. \A x \in T : GoodCall(x, r)
    BY <1>1, <1>3
<1>. QED  BY <1>1, <1>2, <1>4, EmptySeq DEF GoodCalls

\* Whatever page the window shows next, the calls of the one it leaves stay good.
LEMMA OrphansAreGood ==
    ASSUME NEW q, NEW p, NEW r, GoodCalls(q, p), NEW timer
    PROVE  GoodCalls(Orphaned(q, timer), r) /\ (q # <<>> => Orphaned(q, timer) # <<>>)
<1>. DEFINE from(c) == IF c.op # "write" THEN "window" ELSE IF timer THEN "left" ELSE "gone"
            F(c) == IF c.from # "page" THEN c ELSE From(c, from(c))
<1>1. ASSUME NEW c, GoodCall(c, p) PROVE GoodCall(F(c), r)
  <2>1. CASE c.from # "page"
      BY <1>1, <2>1 DEF GoodCall
  <2>2. CASE c.from = "page"
    <3>1. from(c) \in {"window", "left", "gone"}
        OBVIOUS
    <3>. HIDE DEF from
    <3>. QED  BY <1>1, <2>2, <3>1, FromIsGood
  <2>. QED  BY <2>1, <2>2
<1>2. DOMAIN Orphaned(q, timer) = DOMAIN q /\ \A i \in DOMAIN q : Orphaned(q, timer)[i] = F(q[i])
    BY DEF Orphaned
<1>3. Orphaned(q, timer) = [i \in DOMAIN q |-> Orphaned(q, timer)[i]]
    BY DEF Orphaned
<1>. HIDE DEF F
<1>. QED  BY <1>1, <1>2, <1>3, EachCallIsGood

\* So do they when the window is closed.
LEMMA ForgottenIsGood ==
    ASSUME NEW q, NEW p, NEW r, GoodCalls(q, p)
    PROVE  GoodCalls(Forgotten(q), r) /\ (q # <<>> => Forgotten(q) # <<>>)
<1>. DEFINE F(c) == From(c, "gone")
<1>1. \A c : GoodCall(c, p) => GoodCall(F(c), r)
    BY FromIsGood
<1>2. DOMAIN Forgotten(q) = DOMAIN q /\ \A i \in DOMAIN q : Forgotten(q)[i] = F(q[i])
    BY DEF Forgotten
<1>3. Forgotten(q) = [i \in DOMAIN q |-> Forgotten(q)[i]]
    BY DEF Forgotten
<1>. HIDE DEF F
<1>. QED  BY <1>1, <1>2, <1>3, EachCallIsGood

\* And when the timer that they would end is gone.
LEMMA ReleasedIsGood ==
    ASSUME NEW q, NEW p, GoodCalls(q, p)
    PROVE  GoodCalls(Released(q), p) /\ (q # <<>> => Released(q) # <<>>)
<1>. DEFINE F(c) == IF c.from = "left" THEN From(c, "gone") ELSE c
<1>1. \A c : GoodCall(c, p) => GoodCall(F(c), p)
    BY FromIsGood
<1>2. DOMAIN Released(q) = DOMAIN q /\ \A i \in DOMAIN q : Released(q)[i] = F(q[i])
    BY DEF Released
<1>3. Released(q) = [i \in DOMAIN q |-> Released(q)[i]]
    BY DEF Released
<1>. HIDE DEF F
<1>. QED  BY <1>1, <1>2, <1>3, EachCallIsGood

\* Calls stay good while the window still shows a page.
LEMMA PageMayChange ==
    ASSUME NEW q, NEW p, NEW r, GoodCalls(q, p), IsPage(p) => IsPage(r)
    PROVE  GoodCalls(q, r)
BY DEF GoodCalls, GoodCall

\* Calls as they are made.
LEMMA CallIsGood ==
    ASSUME NEW op, NEW d, NEW b, NEW t, NEW p, IsPage(p), op = "remove" => d \in Drafts
    PROVE  GoodCall(Call(op, d, b, t), p)
BY DEF GoodCall, Call

\* A call made after its page has gone.
LEMMA OrphanIsGood ==
    ASSUME NEW op \in {"create", "write"}, NEW d, NEW b, NEW t, NEW p, NEW from \in {"window", "gone"}
    PROVE  GoodCall(From(Call(op, d, b, t), from), p)
BY DEF GoodCall, Call, From

\* A page that is opened edits a draft, and so does one that goes to another route.
LEMMA NewPageIsGood ==
    ASSUME NEW d \in Drafts, NEW p, GoodPage(p)
    PROVE  IsPage(NewPage(d)) /\ IsPage(Routed(p, d))
<1>1. IsPage(NewPage(d))
    BY DEF IsPage, NewPage
<1>2. ASSUME p # NoPage PROVE IsPage([p EXCEPT !.route = d])
    BY <1>2 DEF IsPage, GoodPage
<1>. QED  BY <1>1, <1>2 DEF Routed

\* What the code does to a page keeps its draft.
LEMMA PageKeepsDraft ==
    ASSUME NEW p, IsPage(p), NEW b, NEW t
    PROVE  /\ IsPage(Changed(p, b)) /\ IsPage(Saved(p)) /\ IsPage([p EXCEPT !.timer = FALSE])
           /\ IsPage([p EXCEPT !.target = t])
BY Zenon DEF IsPage, Changed, Saved

\* Opening a page asks for its draft unless the window has it cached.
LEMMA GetIsGood ==
    ASSUME NEW w, NEW d, NEW q, NEW p, IsPage(p), GoodCalls(q, p)
    PROVE  GoodCalls(Get(w, d, q), p) /\ (q # <<>> => Get(w, d, q) # <<>>)
BY CallIsGood, OneMoreCall DEF Get

-----------------------------------------------------------------------------
(* Steps of a window.                                                      *)
LEMMA WindowStep ==
    ASSUME CommentsInv, NEW w \in Windows, NEW P, NEW Q, GoodPage(P), GoodCalls(Q, P),
           page' = [page EXCEPT ![w] = P], calls' = [calls EXCEPT ![w] = Q]
    PROVE  /\ WindowsOK'
           /\ (calls[w] # <<>> => Q # <<>>) =>
                  \A v \in Windows : calls[v] # <<>> => calls'[v] # <<>>
BY DEF CommentsInv, WindowsOK, GoodPage, GoodCalls, GoodCall, IsPage

\* A step that leaves the store alone and loses no call under way.
LEMMA StoreStays ==
    ASSUME CommentsInv, WindowsOK', UNCHANGED store,
           \A v \in Windows : calls[v] # <<>> => calls'[v] # <<>>
    PROVE  CommentsInv'
BY DEF CommentsInv, StoreOK, HalfOK, DiscardedStaysGone, DraftsAreListed, getCommentDrafts, store, NoOp

\* The window shows no page any more: its calls are answered to nobody's page.
LEMMA PageGoes ==
    ASSUME CommentsInv, NEW w \in Windows, NEW left, GoodCalls(left, page[w]),
           Left(w, left) \/ Closed(w, left)
    PROVE  /\ WindowsOK'
           /\ (calls[w] # <<>> => left # <<>>) =>
                  \A v \in Windows : calls[v] # <<>> => calls'[v] # <<>>
<1>1. PICK Q : /\ Q = Orphaned(left, page[w].timer) \/ Q = Forgotten(left)
               /\ calls' = [calls EXCEPT ![w] = Q] /\ page' = [page EXCEPT ![w] = NoPage]
    BY DEF Left, Closed
<1>2. GoodCalls(Q, NoPage) /\ (left # <<>> => Q # <<>>)
    BY <1>1, OrphansAreGood, ForgottenIsGood
<1>3. GoodPage(NoPage)
    BY DEF GoodPage
<1>. QED  BY <1>1, <1>2, <1>3, WindowStep

\* Steps that touch neither the store nor pages nor calls: submits, caches, comments received.
LEMMA QuietInv ==
    ASSUME CommentsInv, UNCHANGED <<store, page, calls>>
    PROVE  CommentsInv'
<1>1. WindowsOK'
    BY DEF CommentsInv, WindowsOK, GoodPage, GoodCalls, GoodCall, IsPage
<1>. QED  BY <1>1, StoreStays

\* The user leaves a page; its timer and its calls go on.
LEMMA LeaveInv ==
    ASSUME CommentsInv, NEW w \in Windows,
           LeavePage(w) \/ CloseWindow(w) \/ publishComment(w)
    PROVE  CommentsInv'
<1>1. UNCHANGED store
    BY DEF LeavePage, CloseWindow, publishComment
<1>2. GoodCalls(calls[w], page[w])
    BY DEF CommentsInv, WindowsOK
<1>3. CASE Left(w, calls[w])
    BY <1>1, <1>2, <1>3, PageGoes, StoreStays
<1>4. CASE Closed(w, calls[w])
    BY <1>1, <1>2, <1>4, PageGoes, StoreStays
<1>5. CASE UNCHANGED <<page, timers, calls>>
    BY <1>1, <1>5, QuietInv
<1>. QED  BY <1>3, <1>4, <1>5 DEF LeavePage, CloseWindow, publishComment

\* Calls that the window makes, with or without a page.
LEMMA CallInv ==
    ASSUME CommentsInv, NEW w \in Windows, UNCHANGED store, NEW c, NEW P,
           page' = [page EXCEPT ![w] = P], GoodPage(P), IsPage(page[w]) => IsPage(P),
           GoodCall(c, P), Send(w, c)
    PROVE  CommentsInv'
<1>1. GoodCalls(calls[w], P)
    BY PageMayChange DEF CommentsInv, WindowsOK
<1>2. GoodCalls(Append(calls[w], c), P) /\ Append(calls[w], c) # <<>>
    BY <1>1, OneMoreCall
<1>3. calls' = [calls EXCEPT ![w] = Append(calls[w], c)]
    BY DEF Send
<1>. QED  BY <1>2, <1>3, WindowStep, StoreStays

\* A step that leaves the pages alone.
LEMMA SameP ==
    ASSUME CommentsInv, NEW w \in Windows, page' = page
    PROVE  page' = [page EXCEPT ![w] = page[w]] /\ GoodPage(page[w])
BY DEF CommentsInv, WindowsOK

\* What the user and the timers do adds one call to the queue.
LEMMA UserInv ==
    ASSUME CommentsInv, NEW w \in Windows, NEW target,
           CreateComment(w, target) \/ onDiscard(w) \/ LeftTimeout(w) \/ SaveTimeout(w) \/ Edit(w)
    PROVE  CommentsInv'
<1>1. CASE CreateComment(w, target)
    BY <1>1, SameP, OrphanIsGood, CallInv DEF CreateComment, renderer
<1>2. CASE onDiscard(w)
  <2>1. IsPage(page[w]) /\ page[w].draft \in Drafts
      BY <1>2 DEF onDiscard, CommentsInv, WindowsOK, GoodPage, IsPage
  <2>. QED  BY <1>2, <2>1, SameP, CallIsGood, CallInv DEF onDiscard, renderer
<1>3. CASE LeftTimeout(w)
  <2>. DEFINE c == From(Call("write", Head(timers[w]).draft, Head(timers[w]).blocks, NoComment), "gone")
              Q == Append(Released(calls[w]), c)
  <2>1. GoodCall(c, page[w])
      BY OrphanIsGood
  <2>2. GoodCalls(Released(calls[w]), page[w])
      BY ReleasedIsGood DEF CommentsInv, WindowsOK
  <2>3. UNCHANGED <<store, page>> /\ calls' = [calls EXCEPT ![w] = Q]
      BY <1>3 DEF LeftTimeout
  <2>. HIDE DEF c
  <2>4. GoodCalls(Q, page[w]) /\ Q # <<>>
      BY <2>1, <2>2, OneMoreCall
  <2>. HIDE DEF Q
  <2>. QED  BY <2>3, <2>4, SameP, WindowStep, StoreStays
<1>4. CASE SaveTimeout(w)
  <2>. DEFINE P == [page[w] EXCEPT !.timer = FALSE]
              c == Call("write", page[w].draft, page[w].blocks, NoComment)
  <2>1. IsPage(page[w])
      BY <1>4 DEF SaveTimeout, CommentsInv, WindowsOK, GoodPage
  <2>2. IsPage(P)
      BY <2>1, PageKeepsDraft
  <2>3. UNCHANGED store /\ page' = [page EXCEPT ![w] = P] /\ Send(w, c)
      BY <1>4 DEF SaveTimeout
  <2>4. GoodCall(c, P)
      BY <2>2, CallIsGood
  <2>. HIDE DEF P, c
  <2>. QED  BY <2>2, <2>3, <2>4, CallInv DEF GoodPage
<1>5. CASE Edit(w)
  <2>. DEFINE P == Changed(page[w], edits + 1)
  <2>1. IsPage(page[w])
      BY <1>5 DEF Edit, CommentsInv, WindowsOK, GoodPage
  <2>2. IsPage(P)
      BY <2>1, PageKeepsDraft
  <2>3. UNCHANGED <<store, calls>> /\ page' = [page EXCEPT ![w] = P]
      BY <1>5 DEF Edit, wires
  <2>4. GoodCalls(calls[w], P)
      BY <2>2, PageMayChange DEF CommentsInv, WindowsOK
  <2>5. calls' = [calls EXCEPT ![w] = calls[w]]
      BY <2>3 DEF CommentsInv, WindowsOK
  <2>. HIDE DEF P
  <2>. QED  BY <2>2, <2>3, <2>4, <2>5, WindowStep, StoreStays DEF GoodPage
<1>. QED  BY <1>1, <1>2, <1>3, <1>4, <1>5

\* A window opens the page of a draft.
LEMMA OpenInv ==
    ASSUME CommentsInv, NEW w \in Windows, NEW d \in Drafts, OpenPage(w, d)
    PROVE  CommentsInv'
<1>. DEFINE P == Routed(page[w], d)
<1>1. IsPage(P)
    BY NewPageIsGood DEF CommentsInv, WindowsOK
<1>2. UNCHANGED store /\ page' = [page EXCEPT ![w] = P] /\ calls' = [calls EXCEPT ![w] = Get(w, d, calls[w])]
    BY DEF OpenPage
<1>. HIDE DEF P
<1>3. GoodCalls(calls[w], P)
    BY <1>1, PageMayChange DEF CommentsInv, WindowsOK
<1>4. GoodCalls(Get(w, d, calls[w]), P) /\ (calls[w] # <<>> => Get(w, d, calls[w]) # <<>>)
    BY <1>1, <1>3, GetIsGood
<1>. QED  BY <1>1, <1>2, <1>4, WindowStep, StoreStays DEF GoodPage

-----------------------------------------------------------------------------
(* Steps of the main process.                                              *)

\* The call at the head of the queue, answered to its window.
LEMMA HeadOfCalls ==
    ASSUME CommentsInv, NEW w \in Windows, calls[w] # <<>>
    PROVE  /\ GoodCall(Head(calls[w]), page[w])
           /\ GoodCalls(calls[w], page[w]) /\ GoodCalls(Tail(calls[w]), page[w])
           /\ GoodPage(page[w])
BY FirstAndRest DEF CommentsInv, WindowsOK

\* An answer takes the first call away and may change the page.
LEMMA AnsweredWindow ==
    ASSUME CommentsInv, NEW w \in Windows, calls[w] # <<>>, Answered(w), NEW P,
           GoodPage(P), IsPage(page[w]) => IsPage(P), page' = [page EXCEPT ![w] = P]
    PROVE  WindowsOK'
<1>1. GoodCalls(Tail(calls[w]), P)
    BY HeadOfCalls, PageMayChange
<1>2. calls' = [calls EXCEPT ![w] = Tail(calls[w])]
    BY DEF Answered
<1>. QED  BY <1>1, <1>2, WindowStep

\* An answer that no page waits for.
LEMMA SamePageAnswered ==
    ASSUME CommentsInv, NEW w \in Windows, calls[w] # <<>>, Answered(w), page' = page
    PROVE  WindowsOK'
BY SameP, AnsweredWindow

\* An answer that closes its window.
LEMMA ClosedWindow ==
    ASSUME CommentsInv, NEW w \in Windows, calls[w] # <<>>, Closed(w, Tail(calls[w]))
    PROVE  WindowsOK'
BY HeadOfCalls, PageGoes

\* getCommentDraft reads the store and changes at most the page.
LEMMA GetInv ==
    ASSUME CommentsInv, NEW w \in Windows, getCommentDraft(w)
    PROVE  CommentsInv'
<1>. DEFINE c == Head(calls[w])
            found == drafts[c.draft]
            P == Changed([page[w] EXCEPT !.target = found.target], found.blocks)
<1>1. calls[w] # <<>> /\ Answered(w) /\ half = NoOp /\ UNCHANGED store
    BY DEF getCommentDraft, Handling
<1>2. page' = page \/ (page[w] # NoPage /\ page' = [page EXCEPT ![w] = P])
    BY Zenon DEF getCommentDraft
<1>3. WindowsOK'
  <2>1. CASE page' = page
      BY <1>1, <2>1, SamePageAnswered
  <2>2. CASE page[w] # NoPage /\ page' = [page EXCEPT ![w] = P]
    <3>1. IsPage(page[w])
        BY <2>2 DEF CommentsInv, WindowsOK, GoodPage
    <3>2. IsPage(P)
        BY <3>1, PageKeepsDraft
    <3>. HIDE DEF P
    <3>. QED  BY <1>1, <2>2, <3>2, AnsweredWindow DEF GoodPage
  <2>. QED  BY <1>2, <2>1, <2>2
<1>. QED  BY <1>1, <1>3 DEF CommentsInv, StoreOK, HalfOK, DiscardedStaysGone, DraftsAreListed,
              getCommentDrafts, store, NoOp

\* writeCommentDraft changes a draft that is there and creates none.
LEMMA WriteInv ==
    ASSUME CommentsInv, NEW w \in Windows, writeCommentDraft(w)
    PROVE  CommentsInv'
<1>. DEFINE c == Head(calls[w])
            written == [drafts[c.draft] EXCEPT !.blocks = c.blocks]
<1>1. calls[w] # <<>> /\ half = NoOp /\ UNCHANGED <<index, half, known, removed>>
    BY DEF writeCommentDraft, Handling
<1>2. /\ drafts' = drafts \/ (drafts[c.draft] # NoDraft /\ drafts' = [drafts EXCEPT ![c.draft] = written])
      /\ page' = page \/ (c.from = "page" /\ page' = [page EXCEPT ![w] = Saved(page[w])])
    BY Zenon DEF writeCommentDraft
<1>3. \/ /\ c.from = "left" /\ page' = page
         /\ calls' = [calls EXCEPT ![w] = Released(Tail(calls[w]))]
      \/ Answered(w)
    BY Zenon, <1>2 DEF writeCommentDraft
<1>4. WindowsOK'
  <2>1. CASE page' = page /\ Answered(w)
      BY <1>1, <2>1, SamePageAnswered
  <2>2. CASE c.from = "page" /\ page' = [page EXCEPT ![w] = Saved(page[w])] /\ Answered(w)
    <3>1. IsPage(page[w])
        BY <1>1, <2>2, HeadOfCalls DEF GoodCall
    <3>2. IsPage(Saved(page[w]))
        BY <3>1, PageKeepsDraft
    <3>. QED  BY <1>1, <2>2, <3>2, AnsweredWindow DEF GoodPage
  <2>3. CASE page' = page /\ calls' = [calls EXCEPT ![w] = Released(Tail(calls[w]))]
    <3>1. GoodCalls(Released(Tail(calls[w])), page[w])
        BY <1>1, HeadOfCalls, ReleasedIsGood
    <3>. QED  BY <2>3, <3>1, SameP, WindowStep
  <2>. QED  BY <1>2, <1>3, <2>1, <2>2, <2>3
<1>. HIDE DEF c, written
<1>5. StoreOK' /\ HalfOK'
    BY <1>1, <1>2 DEF CommentsInv, StoreOK, HalfOK, NoOp
<1>6. DiscardedStaysGone' /\ DraftsAreListed'
    BY <1>1, <1>2 DEF CommentsInv, StoreOK, DiscardedStaysGone, DraftsAreListed, getCommentDrafts
<1>. QED  BY <1>4, <1>5, <1>6 DEF CommentsInv

\* The first write of a creation: the index.
LEMMA CreateInv ==
    ASSUME CommentsInv, NEW w \in Windows, createCommentDraft(w)
    PROVE  CommentsInv'
<1>1. calls[w] # <<>> /\ half = NoOp /\ UNCHANGED <<drafts, removed, page, calls>>
    BY DEF createCommentDraft, Handling, renderer, wires
<1>2. PICK d \in Drafts \ known :
        /\ index' = index \cup {d} /\ known' = known \cup {d}
        /\ half' = [op |-> "create", window |-> w, draft |-> d]
    BY DEF createCommentDraft
<1>3. WindowsOK'
    BY <1>1 DEF CommentsInv, WindowsOK, GoodPage, GoodCalls, GoodCall, IsPage
<1>. QED  BY <1>1, <1>2, <1>3 DEF CommentsInv, StoreOK, HalfOK, DiscardedStaysGone, DraftsAreListed,
              getCommentDrafts

\* The second write of a creation: the draft, which nobody has removed meanwhile.
LEMMA CreatedInv ==
    ASSUME CommentsInv, Created
    PROVE  CommentsInv'
<1>. DEFINE w == half.window
            c == Head(calls[w])
            new == [blocks |-> 0, target |-> c.target]
            rest == Tail(calls[w])
<1>1. /\ w \in Windows /\ calls[w] # <<>>
      /\ half.draft \in index /\ half.draft \in Drafts /\ half.draft \notin removed
    BY DEF CommentsInv, HalfOK, StoreOK, Created
<1>2. /\ drafts' = [drafts EXCEPT ![half.draft] = new]
      /\ half' = NoOp /\ UNCHANGED <<index, known, removed>>
    BY DEF Created
<1>3. WindowsOK'
  <2>0. GoodPage(page[w]) /\ GoodCalls(rest, page[w])
      BY <1>1, HeadOfCalls
  <2>1. CASE Answered(w) /\ UNCHANGED page
      BY <1>1, <2>1, SamePageAnswered
  <2>2. CASE /\ page' = [page EXCEPT ![w] = Routed(page[w], half.draft)]
             /\ calls' = [calls EXCEPT ![w] = Get(w, half.draft, rest)]
    <3>. DEFINE P == Routed(page[w], half.draft)
    <3>1. IsPage(P)
        BY <1>1, <2>0, NewPageIsGood
    <3>2. page' = [page EXCEPT ![w] = P]
        BY <2>2
    <3>. HIDE DEF P
    <3>3. GoodCalls(Get(w, half.draft, rest), P)
        BY <2>0, <3>1, PageMayChange, GetIsGood
    <3>. QED  BY <1>1, <2>2, <3>1, <3>2, <3>3, WindowStep DEF GoodPage
  <2>3. ASSUME NEW v \in Windows, IsFresh(v), page' = [page EXCEPT ![v] = NewPage(half.draft)],
               calls' = [calls EXCEPT ![w] = rest, ![v] = Get(v, half.draft, @)]
        PROVE  WindowsOK'
    <3>. DEFINE P == NewPage(half.draft)
                Q == Get(v, half.draft, <<>>)
    <3>1. v # w /\ calls[v] = <<>>
        BY <1>1, <2>3 DEF IsFresh
    <3>2. page' = [page EXCEPT ![v] = P] /\ calls' = [calls EXCEPT ![w] = rest, ![v] = Q]
        BY <1>1, <2>3, <3>1 DEF CommentsInv, WindowsOK
    <3>3. IsPage(P)
        BY <1>1, <2>0, NewPageIsGood
    <3>. HIDE DEF P
    <3>4. GoodCalls(Q, P)
        BY <3>3, NoCalls, GetIsGood
    <3>. HIDE DEF Q, rest
    <3>. QED  BY <1>1, <2>0, <3>1, <3>2, <3>3, <3>4
              DEF CommentsInv, WindowsOK, GoodPage, GoodCalls, GoodCall, IsPage
  <2>. QED  BY <2>1, <2>2, <2>3 DEF Created
<1>. HIDE DEF new
<1>. QED  BY <1>1, <1>2, <1>3 DEF CommentsInv, StoreOK, HalfOK, DiscardedStaysGone, DraftsAreListed,
              getCommentDrafts

\* The first write of a removal: the draft.
LEMMA RemoveInv ==
    ASSUME CommentsInv, NEW w \in Windows, removeCommentDraft(w)
    PROVE  CommentsInv'
<1>. DEFINE c == Head(calls[w])
<1>1. calls[w] # <<>> /\ half = NoOp /\ c.op = "remove" /\ UNCHANGED <<index, known>>
    BY DEF removeCommentDraft, Handling
<1>2. c.draft \in Drafts
    BY <1>1, HeadOfCalls DEF GoodCall
<1>3. CASE drafts[c.draft] # NoDraft
  <2>1. /\ drafts' = [drafts EXCEPT ![c.draft] = NoDraft] /\ removed' = removed \cup {c.draft}
        /\ half' = [op |-> "remove", window |-> w, draft |-> c.draft]
        /\ UNCHANGED <<page, calls>>
      BY <1>3 DEF removeCommentDraft, renderer, wires
  <2>2. c.draft \in index
      BY <1>2, <1>3 DEF CommentsInv, DraftsAreListed, getCommentDrafts
  <2>3. WindowsOK'
      BY <2>1 DEF CommentsInv, WindowsOK, GoodPage, GoodCalls, GoodCall, IsPage
  <2>. HIDE DEF c
  <2>. QED  BY <1>1, <1>2, <2>1, <2>2, <2>3 DEF CommentsInv, StoreOK, HalfOK, DiscardedStaysGone,
                DraftsAreListed, getCommentDrafts
<1>4. CASE drafts[c.draft] = NoDraft
  <2>1. UNCHANGED <<drafts, half, removed>>
      BY <1>4 DEF removeCommentDraft
  <2>2. WindowsOK'
      BY <1>1, <1>4, SamePageAnswered, ClosedWindow DEF removeCommentDraft
  <2>. QED  BY <1>1, <2>1, <2>2 DEF CommentsInv, StoreOK, HalfOK, DiscardedStaysGone, DraftsAreListed,
                getCommentDrafts, NoOp
<1>. QED  BY <1>3, <1>4

\* The second write of a removal: the index.
LEMMA RemovedInv ==
    ASSUME CommentsInv, Removed
    PROVE  CommentsInv'
<1>1. half.window \in Windows /\ calls[half.window] # <<>> /\ half.draft \in removed
    BY DEF CommentsInv, HalfOK, Removed
<1>2. WindowsOK'
    BY <1>1, SamePageAnswered, ClosedWindow DEF Removed
<1>3. index' = index \ {half.draft} /\ half' = NoOp /\ UNCHANGED <<drafts, known, removed>>
    BY DEF Removed
<1>. QED  BY <1>1, <1>2, <1>3 DEF CommentsInv, StoreOK, HalfOK, DiscardedStaysGone, DraftsAreListed,
              getCommentDrafts

\* The main process dies, between two writes perhaps: the store stays, the calls go.
LEMMA CrashInv ==
    ASSUME CommentsInv, Crash
    PROVE  CommentsInv'
<1>1. WindowsOK'
    BY NoCalls DEF Crash, WindowsOK, GoodPage
<1>. QED  BY <1>1 DEF Crash, CommentsInv, StoreOK, HalfOK, DiscardedStaysGone, DraftsAreListed,
              getCommentDrafts

\* Empty stores and no calls.
LEMMA InitInv == Init => CommentsInv
<1>. SUFFICES ASSUME Init PROVE CommentsInv
    OBVIOUS
<1>1. WindowsOK
    BY NoCalls DEF Init, WindowsOK, GoodPage
<1>. QED  BY <1>1 DEF Init, CommentsInv, StoreOK, HalfOK, DiscardedStaysGone, DraftsAreListed,
              getCommentDrafts

\* Every step of the specification keeps the inductive invariant.
LEMMA NextInv == CommentsInv /\ [Next]_vars => CommentsInv'
<1>. SUFFICES ASSUME CommentsInv, [Next]_vars PROVE CommentsInv'
    OBVIOUS
<1>1. ASSUME NEW w \in Windows,
             \/ getCommentDraft(w) \/ writeCommentDraft(w) \/ createCommentDraft(w) \/ removeCommentDraft(w)
             \/ LeavePage(w) \/ CloseWindow(w) \/ publishComment(w)
      PROVE  CommentsInv'
    BY <1>1, GetInv, WriteInv, CreateInv, RemoveInv, LeaveInv
<1>2. ASSUME NEW w \in Windows, NEW target,
             CreateComment(w, target) \/ onDiscard(w) \/ LeftTimeout(w) \/ SaveTimeout(w) \/ Edit(w)
      PROVE  CommentsInv'
    BY <1>2, UserInv
<1>3. ASSUME NEW w \in Windows, NEW d \in Drafts, OpenPage(w, d)
      PROVE  CommentsInv'
    BY <1>3, OpenInv
<1>4. ASSUME \/ \E w \in Windows : onSubmit(w) \/ SubmitFails(w) \/ \E d \in Drafts : CacheExpires(w, d)
             \/ ReceiveComment \/ UNCHANGED vars
      PROVE  CommentsInv'
    BY <1>4, QuietInv DEF onSubmit, SubmitFails, CacheExpires, ReceiveComment, vars, renderer, wires
<1>5. CASE UNCHANGED vars
    BY <1>4, <1>5
<1>6. CASE Next
    BY <1>1, <1>2, <1>3, <1>4, <1>6, CreatedInv, RemovedInv, CrashInv DEF Next
<1>. QED  BY <1>5, <1>6

\* What holds of the store and of the calls to it, in every behaviour.
THEOREM CommentsInvTheorem == Spec => []CommentsInv
BY InitInv, NextInv, PTL DEF Spec

\* A draft whose removal has begun (removeCommentDraft) is never in the
\* store again, whatever writes of pages and windows were still under way.
THEOREM DiscardedStaysGoneTheorem == Spec => []DiscardedStaysGone
<1>1. CommentsInv => DiscardedStaysGone
    BY DEF CommentsInv
<1>. QED  BY <1>1, CommentsInvTheorem, PTL

\* A draft in the store is listed by getCommentDrafts, also when the
\* application died between the two writes of a creation or a removal.
THEOREM DraftsAreListedTheorem == Spec => []DraftsAreListed
<1>1. CommentsInv => DraftsAreListed
    BY DEF CommentsInv
<1>. QED  BY <1>1, CommentsInvTheorem, PTL

-------------------------------------------------------------------------------
(* Groups and threads of comments.  No induction over the rounds of a loop *)
(* is made: the first round at which a claim fails, and the round before   *)
(* it, contradict each other (LeastIndex).                                 *)

\* A set of numbers that is not empty has a least one: what takes the place of
\* an induction below is the least counterexample.
LEMMA LeastOf ==
    ASSUME NEW T \in SUBSET Nat, T # {}
    PROVE  \E x \in T : \A y \in T : x <= y
  <1>1. PICK x \in T : \A y \in T : ~ (<<y, x>> \in OpToRel(<, Nat))
    BY WFMin, NatLessThanWellFounded
  <1>2. \A y \in T : ~ (y < x)
    BY <1>1 DEF OpToRel
  <1> QED
    BY <1>2

\* The least index in B is 0, or the one before it is not in B.
LEMMA LeastIndex ==
    ASSUME NEW n \in Nat, NEW B \in SUBSET (0..n), B # {}
    PROVE  \E k \in B : k = 0 \/ (k \in 1..n /\ k - 1 \in 0..n /\ k - 1 \notin B)
  <1>1. B \in SUBSET Nat
    OBVIOUS
  <1>2. PICK k \in B : \A y \in B : k <= y
    BY <1>1, LeastOf
  <1>3. k \in 0..n /\ (k # 0 => k \in 1..n /\ k - 1 \in 0..n)
    OBVIOUS
  <1> QED
    BY <1>2, <1>3

\* The function f has the states of a loop in S, from round to round.
IsRun(f, S, step, n) ==
    /\ n \in Nat /\ step \in [S -> S] /\ f \in [0..n -> S]
    /\ \A k \in 1..n : f[k] = step[f[k - 1]]

\* A loop of n rounds has a state after every round, each made by the step
\* from the one before.
LEMMA RoundsGoOn ==
    ASSUME NEW S, NEW step \in [S -> S], NEW x \in S, NEW n \in Nat,
           NEW f, f = Rounds(step, x, n)
    PROVE  IsRun(f, S, step, n) /\ f[0] = x
  <1> DEFINE Is(g, m) == g = [k \in 0..m |-> IF k = 0 THEN x ELSE step[g[k - 1]]]
             T == {m \in Nat : ~ \E g : Is(g, m)}
  <1>1. T = {}
    <2> SUFFICES ASSUME T # {} PROVE FALSE
      OBVIOUS
    <2>1. PICK m \in T : \A y \in T : m <= y
      BY LeastOf
    <2>2. CASE m = 0
      <3>1. Is([k \in 0..0 |-> x], 0)
        OBVIOUS
      <3> QED
        BY <2>1, <2>2, <3>1
    <2>3. CASE m # 0
      <3>1. m - 1 \in Nat /\ m \in Nat /\ m - 1 \notin T
        <4>1. T \subseteq Nat
          OBVIOUS
        <4> HIDE DEF T
        <4> QED
          BY <2>1, <2>3, <4>1
      <3>2. PICK g : Is(g, m - 1)
        BY <3>1
      <3> DEFINE h == [k \in 0..m |-> IF k < m THEN g[k] ELSE step[g[m - 1]]]
      <3>3. ASSUME NEW k \in 0..m
            PROVE  h[k] = IF k = 0 THEN x ELSE step[h[k - 1]]
        <4>1. CASE k = 0
          BY <2>3, <3>1, <3>2, <4>1
        <4>2. CASE k # 0 /\ k < m
          <5>1. k \in 0..(m - 1) /\ k - 1 \in 0..m /\ k - 1 < m
            BY <3>1, <4>2
          <5>2. g[k] = step[g[k - 1]]
            BY <3>2, <4>2, <5>1
          <5>3. h[k] = g[k] /\ h[k - 1] = g[k - 1]
            BY <4>2, <5>1
          <5> QED
            BY <4>2, <5>2, <5>3
        <4>3. CASE k = m
          <5>1. m - 1 \in 0..m /\ m - 1 < m
            BY <3>1
          <5>2. h[m] = step[g[m - 1]] /\ h[m - 1] = g[m - 1]
            BY <3>1, <5>1
          <5> QED
            BY <2>3, <4>3, <5>2
        <4> QED
          BY <3>1, <4>1, <4>2, <4>3
      <3>4. h = [k \in 0..m |-> h[k]]
        OBVIOUS
      <3> HIDE DEF h
      <3>5. Is(h, m)
        BY <3>3, <3>4
      <3> QED
        BY <2>1, <3>5
    <2> QED
      BY <2>2, <2>3
  <1>2. \E g : Is(g, n)
    BY <1>1
  <1>3. f = CHOOSE g : Is(g, n)
    BY DEF Rounds
  <1>4. Is(f, n)
    BY <1>2, <1>3
  <1>5. /\ f[0] = x /\ \A k \in 1..n : f[k] = step[f[k - 1]]
    <2>1. \A k \in 0..n : f[k] = IF k = 0 THEN x ELSE step[f[k - 1]]
      BY <1>4
    <2>2. 0 \in 0..n /\ \A k \in 1..n : k \in 0..n /\ k # 0
      OBVIOUS
    <2> QED
      BY <2>1, <2>2
  <1>6. \A k \in 0..n : f[k] \in S
    <2> DEFINE B == {k \in 0..n : f[k] \notin S}
    <2> SUFFICES ASSUME B # {} PROVE FALSE
      OBVIOUS
    <2>1. PICK k \in B : k = 0 \/ (k \in 1..n /\ k - 1 \in 0..n /\ k - 1 \notin B)
      <3>1. B \in SUBSET (0..n)
        OBVIOUS
      <3> HIDE DEF B
      <3> QED
        BY <3>1, LeastIndex
    <2>2. f[k] \notin S
      OBVIOUS
    <2> QED
      BY <1>5, <2>1, <2>2
  <1>7. DOMAIN f = 0..n /\ f = [k \in 0..n |-> f[k]]
    BY <1>4
  <1>8. f \in [0..n -> S]
    BY <1>6, <1>7
  <1> QED
    BY <1>5, <1>8 DEF IsRun

\* The comments of a document: no two have the same id, and none replies to
\* itself, directly or through others: of any set of comments there is one
\* that replies to none of them.
GoodComments(C) ==
    /\ IsFiniteSet(IdsOf(C))
    /\ \A c, d \in C : c.id = d.id => c = d
    /\ \A S \in SUBSET IdsOf(C) : S # {} => \E c \in C : c.id \in S /\ c.repliedComment \notin S

\* Under is closed under replies, and the least such set.
LEMMA UnderIsClosed ==
    ASSUME NEW C, NEW t
    PROVE  /\ Under(C, t) \subseteq IdsOf(C)
           /\ \A c \in C : c.repliedComment = t \/ c.repliedComment \in Under(C, t)
                              => c.id \in Under(C, t)
  <1>1. Under(C, t) \subseteq IdsOf(C)
    BY DEF Under
  <1>2. ASSUME NEW c \in C, c.repliedComment = t \/ c.repliedComment \in Under(C, t)
        PROVE  c.id \in Under(C, t)
    <2>1. c.id \in IdsOf(C)
      BY DEF IdsOf
    <2>2. ASSUME NEW S \in SUBSET IdsOf(C), ClosedUnder(C, t, S)
          PROVE  c.id \in S
      BY <1>2, <2>2 DEF ClosedUnder, Under
    <2> QED
      BY <2>1, <2>2 DEF Under
  <1> QED
    BY <1>1, <1>2

\* A set that is closed in the same way has every comment under the target.
LEMMA UnderIsLeast ==
    ASSUME NEW C, NEW t, NEW S \in SUBSET IdsOf(C),
           \A c \in C : c.repliedComment = t \/ c.repliedComment \in S => c.id \in S
    PROVE  Under(C, t) \subseteq S
  <1>1. ClosedUnder(C, t, S)
    BY DEF ClosedUnder
  <1> QED
    BY <1>1 DEF Under

\* What is under a comment that is under another is under that one too.
LEMMA UnderIsTransitive ==
    ASSUME NEW C, NEW t, NEW x \in Under(C, t)
    PROVE  Under(C, x) \subseteq Under(C, t)
  BY UnderIsClosed, UnderIsLeast

\* A comment is under t because of what it replies to.
LEMMA UnderThroughParent ==
    ASSUME NEW C, GoodComments(C), NEW t, NEW c \in C, c.id \in Under(C, t)
    PROVE  c.repliedComment = t \/ c.repliedComment \in Under(C, t)
  <1> SUFFICES ASSUME c.repliedComment # t, c.repliedComment \notin Under(C, t)
               PROVE  FALSE
    OBVIOUS
  <1> DEFINE S == Under(C, t) \ {c.id}
  <1>1. S \in SUBSET IdsOf(C)
    BY UnderIsClosed
  <1>2. \A d \in C : d.repliedComment = t \/ d.repliedComment \in S => d.id \in S
    BY UnderIsClosed DEF GoodComments
  <1>3. Under(C, t) \subseteq S
    <2> HIDE DEF S
    <2> QED
      BY <1>1, <1>2, UnderIsLeast
  <1> QED
    BY <1>3

\* No comment is under itself.
LEMMA NotUnderItself ==
    ASSUME NEW C, GoodComments(C), NEW x
    PROVE  x \notin Under(C, x)
  <1> SUFFICES ASSUME x \in Under(C, x) PROVE FALSE
    OBVIOUS
  <1>1. Under(C, x) \in SUBSET IdsOf(C)
    BY UnderIsClosed
  <1>2. PICK c \in C : c.id \in Under(C, x) /\ c.repliedComment \notin Under(C, x)
    BY <1>1 DEF GoodComments
  <1> QED
    BY <1>2, UnderThroughParent

\* The function f goes n times from a comment to the one it replies to.
IsPath(C, f, n) ==
    /\ f \in [0..n -> IdsOf(C)]
    /\ \A k \in 1..n, c \in C : c.id = f[k - 1] => c.repliedComment = f[k]

\* As many steps from a comment to the one it replies to as there are
\* comments lead out of them.
LEMMA NoLongPath ==
    ASSUME NEW C, GoodComments(C), NEW n, n = MaxRounds(C), NEW f
    PROVE  ~ IsPath(C, f, n)
  <1> SUFFICES ASSUME /\ f \in [0..n -> IdsOf(C)]
                      /\ \A k \in 1..n, c \in C : c.id = f[k - 1] => c.repliedComment = f[k]
               PROVE  FALSE
    BY DEF IsPath
  <1>1. n \in Nat /\ IsFiniteSet(IdsOf(C)) /\ Cardinality(IdsOf(C)) = n
    BY FS_CardinalityType DEF MaxRounds, GoodComments
  <1>2. IsFiniteSet(0..n) /\ Cardinality(0..n) = n + 1
    BY <1>1, FS_Interval
  <1>3. Cardinality(IdsOf(C)) < Cardinality(0..n)
    BY <1>1, <1>2
  <1>4. PICK a, b \in 0..n : a # b /\ f[a] = f[b]
    BY <1>1, <1>2, <1>3, FS_PigeonHole
  <1>5. PICK i, j \in 0..n : i < j /\ f[i] = f[j]
    BY <1>1, <1>4
  <1> DEFINE S == {f[k] : k \in i..(j - 1)}
  <1>6. S \in SUBSET IdsOf(C) /\ f[i] \in S
    BY <1>1, <1>5
  <1>7. ASSUME NEW c \in C, c.id \in S PROVE c.repliedComment \in S
    <2>1. PICK k \in i..(j - 1) : c.id = f[k]
      BY <1>7
    <2>2. k + 1 \in 1..n /\ (k + 1) - 1 = k
      BY <1>1, <1>5, <2>1
    <2>3. c.repliedComment = f[k + 1]
      BY <2>1, <2>2
    <2>4. CASE k + 1 = j
      BY <1>5, <1>6, <2>3, <2>4
    <2>5. CASE k + 1 # j
      <3>1. k + 1 \in i..(j - 1)
        BY <1>1, <1>5, <2>1, <2>5
      <3> QED
        BY <2>3, <3>1
    <2> QED
      BY <2>4, <2>5
  <1> QED
    BY <1>6, <1>7 DEF GoodComments

\* A loop that has come to rest stays where it is.
LEMMA RestIsLast ==
    ASSUME NEW S, NEW step, NEW n, NEW f, IsRun(f, S, step, n),
           NEW i \in 0..n, step[f[i]] = f[i]
    PROVE  f[n] = f[i]
  <1> USE DEF IsRun
  <1> DEFINE B == {k \in 0..n : i <= k /\ f[k] # f[i]}
  <1>1. B = {}
    <2> SUFFICES ASSUME B # {} PROVE FALSE
      OBVIOUS
    <2>1. PICK k \in B : k = 0 \/ (k \in 1..n /\ k - 1 \in 0..n /\ k - 1 \notin B)
      <3>1. B \in SUBSET (0..n)
        OBVIOUS
      <3> HIDE DEF B
      <3> QED
        BY <3>1, LeastIndex
    <2>2. k \in 0..n /\ i <= k /\ f[k] # f[i]
      OBVIOUS
    <2>3. k # i /\ k # 0 /\ i <= k - 1
      BY <2>2
    <2>4. f[k - 1] = f[i]
      BY <2>1, <2>3
    <2> QED
      BY <2>1, <2>2, <2>3, <2>4
  <1>2. n \in 0..n /\ i <= n
    OBVIOUS
  <1> QED
    BY <1>1, <1>2

\* Where a loop goes from comment to comment, one step or none at a time,
\* every state is under the states before it, or is the same.
LEMMA DownTheRounds ==
    ASSUME NEW C, NEW n \in Nat, NEW f \in [0..n -> IdsOf(C)],
           \A k \in 1..n : f[k] = f[k - 1] \/ f[k] \in Under(C, f[k - 1]),
           NEW i \in 0..n, NEW j \in 0..n, i <= j
    PROVE  f[j] = f[i] \/ f[j] \in Under(C, f[i])
  <1> DEFINE B == {k \in 0..n : i <= k /\ f[k] # f[i] /\ f[k] \notin Under(C, f[i])}
  <1> SUFFICES ASSUME B # {} PROVE FALSE
    OBVIOUS
  <1>1. PICK k \in B : k = 0 \/ (k \in 1..n /\ k - 1 \in 0..n /\ k - 1 \notin B)
    <2>1. B \in SUBSET (0..n)
      OBVIOUS
    <2> HIDE DEF B
    <2> QED
      BY <2>1, LeastIndex
  <1>2. k \in 0..n /\ i <= k /\ f[k] # f[i] /\ f[k] \notin Under(C, f[i])
    OBVIOUS
  <1>3. k # i /\ k # 0 /\ i <= k - 1
    BY <1>2
  <1>4. f[k - 1] = f[i] \/ f[k - 1] \in Under(C, f[i])
    BY <1>1, <1>3
  <1>5. f[k] = f[k - 1] \/ f[k] \in Under(C, f[k - 1])
    BY <1>1, <1>3
  <1> QED
    BY <1>2, <1>4, <1>5, UnderIsTransitive

-------------------------------------------------------------------------------
\* What a comment replies to, if that is there.
LEMMA RepliedToFacts ==
    ASSUME NEW C, GoodComments(C)
    PROVE  /\ repliedTo(C) \in [IdsOf(C) -> IdsOf(C)]
           /\ \A c \in C : repliedTo(C)[c.id] =
                  IF c.repliedComment \in IdsOf(C) THEN c.repliedComment ELSE c.id
  <1>1. \A c \in C : c.id \in IdsOf(C) /\ (CHOOSE d \in C : d.id = c.id) = c
    BY DEF IdsOf, GoodComments
  <1>2. \A id \in IdsOf(C) : \E c \in C : c.id = id
    BY DEF IdsOf
  <1>3. \A c \in C : repliedTo(C)[c.id] =
                  IF c.repliedComment \in IdsOf(C) THEN c.repliedComment ELSE c.id
    <2> SUFFICES ASSUME NEW c \in C
                 PROVE  repliedTo(C)[c.id] =
                          IF c.repliedComment \in IdsOf(C) THEN c.repliedComment ELSE c.id
      OBVIOUS
    <2>1. repliedTo(C)[c.id] =
              LET to == (CHOOSE d \in C : d.id = c.id).repliedComment
              IN  IF to \in IdsOf(C) THEN to ELSE c.id
      BY <1>1, Zenon DEF repliedTo
    <2> QED
      BY <1>1, <2>1, Zenon
  <1>4. repliedTo(C) \in [IdsOf(C) -> IdsOf(C)]
    BY <1>1 DEF repliedTo
  <1> QED
    BY <1>3, <1>4

\* The thread of useCommentReplies has what a comment is under.
LEMMA ThreadIsThePathUp ==
    ASSUME NEW C, GoodComments(C), NEW id \in IdsOf(C)
    PROVE  useCommentReplies(C, id) = {id} \cup {a \in IdsOf(C) : id \in Under(C, a)}
  <1> DEFINE n == MaxRounds(C)
             up == repliedTo(C)
             f == Rounds(up, id, n)
             T == useCommentReplies(C, id)
  <1>1. n \in Nat
    BY FS_CardinalityType DEF MaxRounds, GoodComments
  <1>2. /\ up \in [IdsOf(C) -> IdsOf(C)]
        /\ \A c \in C : up[c.id] = IF c.repliedComment \in IdsOf(C) THEN c.repliedComment ELSE c.id
    BY RepliedToFacts
  <1>0. n = MaxRounds(C) /\ f = Rounds(up, id, n) /\ T = Range(f)
    BY DEF useCommentReplies
  <1> HIDE DEF n, up, f, T
  <1>3. /\ f \in [0..n -> IdsOf(C)] /\ f[0] = id
        /\ \A k \in 1..n : f[k - 1] \in IdsOf(C) /\ f[k] = up[f[k - 1]]
    <2>1. IsRun(f, IdsOf(C), up, n) /\ f[0] = id
      BY <1>1, <1>2, <1>0, RoundsGoOn
    <2> QED
      BY <1>1, <2>1 DEF IsRun
  <1>4. T = {f[k] : k \in 0..n}
    BY <1>3, <1>0 DEF Range
  <1>5. \A x \in IdsOf(C) : \E c \in C : c.id = x
    BY DEF IdsOf
  <1>6. ASSUME NEW x \in T PROVE x = id \/ id \in Under(C, x)
    <2> DEFINE B == {k \in 0..n : f[k] # id /\ id \notin Under(C, f[k])}
    <2> SUFFICES ASSUME B # {} PROVE FALSE
      BY <1>4
    <2>1. PICK k \in B : k = 0 \/ (k \in 1..n /\ k - 1 \in 0..n /\ k - 1 \notin B)
      <3>1. B \in SUBSET (0..n)
        OBVIOUS
      <3> HIDE DEF B
      <3> QED
        BY <1>1, <3>1, LeastIndex
    <2>2. f[k] # id /\ id \notin Under(C, f[k])
      OBVIOUS
    <2>3. /\ k \in 1..n /\ f[k - 1] \in IdsOf(C) /\ f[k] = up[f[k - 1]]
          /\ f[k - 1] = id \/ id \in Under(C, f[k - 1])
      BY <1>3, <2>1, <2>2
    <2>4. PICK c \in C : c.id = f[k - 1]
      BY <1>5, <2>3
    <2>5. f[k] = c.repliedComment
      BY <1>2, <2>2, <2>3, <2>4
    <2>6. c.id \in Under(C, f[k])
      BY <2>5, UnderIsClosed
    <2> QED
      BY <2>2, <2>3, <2>4, <2>6, UnderIsTransitive
  <1>7. ASSUME NEW c \in C, c.id \in T, c.repliedComment \in IdsOf(C)
        PROVE  c.repliedComment \in T
    <2>1. PICK k \in 0..n : c.id = f[k]
      BY <1>4, <1>7
    <2>2. CASE k < n
      <3>1. k + 1 \in 1..n /\ (k + 1) - 1 = k /\ k + 1 \in 0..n
        BY <1>1, <2>1, <2>2
      <3>2. f[k + 1] = c.repliedComment
        BY <1>2, <1>3, <1>7, <2>1, <3>1
      <3> QED
        BY <1>4, <3>1, <3>2
    <2>3. CASE k = n
      <3>1. PICK i \in 1..n, d \in C : d.id = f[i - 1] /\ d.repliedComment # f[i]
        <4>1. ~ IsPath(C, f, n)
          BY <1>0, NoLongPath
        <4> QED
          BY <1>3, <4>1 DEF IsPath
      <3>2. up[f[i - 1]] = f[i - 1]
        BY <1>2, <1>3, <3>1
      <3>3. i - 1 \in 0..n
        BY <1>1, <3>1
      <3>4. f[n] = f[i - 1]
        <4>1. IsRun(f, IdsOf(C), up, n)
          BY <1>1, <1>2, <1>3 DEF IsRun
        <4> QED
          BY <3>2, <3>3, <4>1, RestIsLast
      <3>5. up[c.id] = c.repliedComment
        BY <1>2, <1>7
      <3> QED
        BY <1>7, <2>1, <2>3, <3>2, <3>4, <3>5
    <2> QED
      BY <1>1, <2>1, <2>2, <2>3
  <1>8. ASSUME NEW a \in IdsOf(C), id \in Under(C, a), a \notin T PROVE FALSE
    <2> DEFINE S == IdsOf(C) \ T
    <2>1. \A c \in C : c.repliedComment = a \/ c.repliedComment \in S => c.id \in S
      BY <1>7, <1>8 DEF IdsOf
    <2>2. Under(C, a) \subseteq S
      BY <2>1, UnderIsLeast
    <2>3. id \in T
      BY <1>1, <1>3, <1>4
    <2> QED
      BY <1>8, <2>2, <2>3
  <1>9. id \in T /\ T \subseteq IdsOf(C)
    BY <1>1, <1>3, <1>4
  <1> QED
    BY <1>6, <1>8, <1>9 DEF T

-------------------------------------------------------------------------------
\* A comment replies to t when its id is among the replies.
LEMMA RepliesFacts ==
    ASSUME NEW C, NEW ids
    PROVE  /\ RepliesTo(C, ids) \subseteq IdsOf(C)
           /\ \A c \in C : c.repliedComment \in ids => c.id \in RepliesTo(C, ids)
           /\ \A x \in RepliesTo(C, ids) : \E c \in C : c.id = x /\ c.repliedComment \in ids
  BY DEF RepliesTo, IdsOf

\* The next comment of a group is the only reply, or there is not one.
LEMMA NextFacts ==
    ASSUME NEW C, GoodComments(C)
    PROVE  /\ nextComment(C) \in [IdsOf(C) -> IdsOf(C)]
           /\ \A x \in IdsOf(C) :
                 \/ /\ Cardinality(RepliesTo(C, {x})) = 1
                    /\ RepliesTo(C, {x}) = {nextComment(C)[x]}
                 \/ /\ Cardinality(RepliesTo(C, {x})) # 1
                    /\ nextComment(C)[x] = x
  <1>1. ASSUME NEW x \in IdsOf(C), Cardinality(RepliesTo(C, {x})) = 1
        PROVE  /\ nextComment(C)[x] \in IdsOf(C)
               /\ RepliesTo(C, {x}) = {nextComment(C)[x]}
    <2>1. IsFiniteSet(RepliesTo(C, {x}))
      BY RepliesFacts, FS_Subset DEF GoodComments
    <2>2. PICK y : RepliesTo(C, {x}) = {y}
      BY <1>1, <2>1, FS_Singleton
    <2>3. nextComment(C)[x] = CHOOSE c \in RepliesTo(C, {x}) : TRUE
      BY <1>1 DEF nextComment
    <2>4. nextComment(C)[x] = y
      BY <2>2, <2>3
    <2> QED
      BY <2>2, <2>4, RepliesFacts
  <1>2. ASSUME NEW x \in IdsOf(C), Cardinality(RepliesTo(C, {x})) # 1
        PROVE  nextComment(C)[x] = x
    BY <1>2 DEF nextComment
  <1>3. DOMAIN nextComment(C) = IdsOf(C) /\ nextComment(C) = [x \in IdsOf(C) |-> nextComment(C)[x]]
    BY DEF nextComment
  <1>4. \A x \in IdsOf(C) : nextComment(C)[x] \in IdsOf(C)
    BY <1>1, <1>2
  <1>5. nextComment(C) \in [IdsOf(C) -> IdsOf(C)]
    BY <1>3, <1>4
  <1> QED
    BY <1>1, <1>2, <1>5

\* The function f goes n times from a comment to a reply.
IsChain(C, f, n) ==
    /\ f \in [0..n -> IdsOf(C)]
    /\ \A k \in 1..n, c \in C : c.id = f[k] => c.repliedComment = f[k - 1]

\* Nor does a chain of replies have as many steps as there are comments.
LEMMA NoLongChain ==
    ASSUME NEW C, GoodComments(C), NEW n, n = MaxRounds(C), NEW f
    PROVE  ~ IsChain(C, f, n)
  <1> SUFFICES ASSUME /\ f \in [0..n -> IdsOf(C)]
                      /\ \A k \in 1..n, c \in C : c.id = f[k] => c.repliedComment = f[k - 1]
               PROVE  FALSE
    BY DEF IsChain
  <1> DEFINE g == [k \in 0..n |-> f[n - k]]
  <1>1. n \in Nat
    BY FS_CardinalityType DEF MaxRounds, GoodComments
  <1>2. g \in [0..n -> IdsOf(C)]
    BY <1>1
  <1>3. ASSUME NEW k \in 1..n, NEW c \in C, c.id = g[k - 1] PROVE c.repliedComment = g[k]
    <2>1. k \in 0..n /\ k - 1 \in 0..n /\ n - (k - 1) \in 1..n /\ (n - (k - 1)) - 1 = n - k
      BY <1>1
    <2>2. g[k - 1] = f[n - (k - 1)] /\ g[k] = f[n - k]
      BY <2>1
    <2> QED
      BY <1>3, <2>1, <2>2
  <1>4. IsPath(C, g, n)
    BY <1>2, <1>3 DEF IsPath
  <1> QED
    BY <1>4, NoLongPath

\* A group of useCommentGroups: a chain that ends where there is not exactly
\* one reply, and with what is under its end it has all that is under its
\* first comment.
LEMMA GroupIsAChain ==
    ASSUME NEW C, GoodComments(C), NEW first \in IdsOf(C),
           NEW f, f = groupComments(C, first), NEW last, last = f[MaxRounds(C)]
    PROVE  /\ last \in Range(f) /\ Range(f) \subseteq IdsOf(C)
           /\ Cardinality(RepliesTo(C, {last})) # 1
           /\ Range(f) \cap Under(C, last) = {}
           /\ Range(f) \cup Under(C, last) = {first} \cup Under(C, first)
  <1> DEFINE n == MaxRounds(C)
             next == nextComment(C)
  <1>1. n \in Nat
    BY FS_CardinalityType DEF MaxRounds, GoodComments
  <1>2. /\ next \in [IdsOf(C) -> IdsOf(C)]
        /\ \A x \in IdsOf(C) :
                 \/ /\ Cardinality(RepliesTo(C, {x})) = 1
                    /\ RepliesTo(C, {x}) = {next[x]}
                 \/ /\ Cardinality(RepliesTo(C, {x})) # 1
                    /\ next[x] = x
    BY NextFacts
  <1>3. n = MaxRounds(C) /\ f = Rounds(next, first, n) /\ last = f[n]
    BY DEF groupComments
  <1> HIDE DEF n, next
  <1>4. IsRun(f, IdsOf(C), next, n) /\ f[0] = first
    BY <1>1, <1>2, <1>3, RoundsGoOn
  <1>5. /\ f \in [0..n -> IdsOf(C)] /\ \A k \in 1..n : f[k] = next[f[k - 1]]
        /\ \A k \in 1..n : f[k - 1] \in IdsOf(C) /\ k - 1 \in 0..n /\ k \in 0..n
    BY <1>1, <1>4 DEF IsRun
  <1>6. Range(f) = {f[k] : k \in 0..n} /\ last \in Range(f) /\ first \in Range(f)
    BY <1>1, <1>3, <1>4, <1>5 DEF Range
  <1>7. \A k \in 0..n : next[f[k]] = f[k] => last = f[k]
    BY <1>3, <1>4, RestIsLast
  <1>8. \A x \in IdsOf(C) : next[x] = x \/ next[x] \in RepliesTo(C, {x})
    BY <1>2
  <1>9. \A x \in IdsOf(C) : \A y \in RepliesTo(C, {x}) : y \in Under(C, x)
    BY UnderIsClosed, RepliesFacts
  <1>10. \A k \in 1..n : f[k] = f[k - 1] \/ f[k] \in Under(C, f[k - 1])
    BY <1>5, <1>8, <1>9
  <1>11. \A i, j \in 0..n : i <= j => f[j] = f[i] \/ f[j] \in Under(C, f[i])
    BY <1>1, <1>5, <1>10, DownTheRounds
  <1>12. Cardinality(RepliesTo(C, {last})) # 1
    <2>1. PICK k \in 1..n, c \in C : c.id = f[k] /\ c.repliedComment # f[k - 1]
      <3>1. ~ IsChain(C, f, n)
        BY <1>3, NoLongChain
      <3> QED
        BY <1>5, <3>1 DEF IsChain
    <2>2. f[k] \notin RepliesTo(C, {f[k - 1]})
      BY <2>1, RepliesFacts DEF GoodComments
    <2>3. next[f[k - 1]] = f[k - 1]
      BY <1>5, <1>8, <2>1, <2>2
    <2>4. last = f[k - 1] /\ next[last] = last /\ last \in IdsOf(C)
      BY <1>5, <1>7, <2>1, <2>3
    <2>5. last \notin RepliesTo(C, {last})
      BY <1>9, <2>4, NotUnderItself
    <2> QED
      BY <1>2, <2>4, <2>5
  <1>13. Range(f) \cap Under(C, last) = {}
    <2> SUFFICES ASSUME NEW k \in 0..n, f[k] \in Under(C, last)
                 PROVE  FALSE
      BY <1>6
    <2>1. last = f[k] \/ last \in Under(C, f[k])
      BY <1>1, <1>3, <1>11
    <2> QED
      BY <2>1, NotUnderItself, UnderIsTransitive
  <1>14. Range(f) \cup Under(C, last) \subseteq {first} \cup Under(C, first)
    <2>1. Range(f) \subseteq {first} \cup Under(C, first)
      BY <1>1, <1>4, <1>6, <1>11
    <2> QED
      BY <1>6, <2>1, UnderIsTransitive
  <1>15. Under(C, first) \subseteq Range(f) \cup Under(C, last)
    <2> DEFINE S == Range(f) \cup Under(C, last)
    <2>1. S \in SUBSET IdsOf(C)
      BY <1>5, <1>6, UnderIsClosed
    <2>2. ASSUME NEW c \in C, c.repliedComment \in S PROVE c.id \in S
      <3>1. CASE c.repliedComment = last \/ c.repliedComment \in Under(C, last)
        BY <3>1, UnderIsClosed
      <3>2. CASE c.repliedComment \in Range(f) /\ c.repliedComment # last
        <4>1. PICK k \in 0..n : c.repliedComment = f[k]
          BY <1>6, <3>2
        <4>2. k # n /\ next[f[k]] # f[k]
          BY <1>3, <1>7, <3>2, <4>1
        <4>3. k + 1 \in 1..n /\ (k + 1) - 1 = k /\ k + 1 \in 0..n
          BY <1>1, <4>2
        <4>4. f[k + 1] = next[f[k]]
          BY <1>5, <4>3
        <4>5. c.id \in RepliesTo(C, {f[k]})
          BY <4>1, RepliesFacts
        <4>6. c.id = f[k + 1]
          BY <1>2, <1>5, <4>2, <4>4, <4>5
        <4> QED
          BY <1>6, <4>3, <4>6
      <3> QED
        BY <2>2, <3>1, <3>2
    <2>3. first \in S
      BY <1>6
    <2> HIDE DEF S
    <2>4. Under(C, first) \subseteq S
      BY <2>1, <2>2, <2>3, UnderIsLeast
    <2> QED
      BY <2>4 DEF S
  <1> QED
    BY <1>5, <1>6, <1>12, <1>13, <1>14, <1>15

\* The walk of moreCommentsCount comes by the comment and all that is under
\* it, and has nothing left to visit in the end.
LEMMA WalkIsUnder ==
    ASSUME NEW C, GoodComments(C), NEW last \in IdsOf(C),
           NEW w, w = Rounds(walkMoreComments(C), {last}, MaxRounds(C))
    PROVE  UNION Range(w) = {last} \cup Under(C, last)
  <1> DEFINE n == MaxRounds(C)
             walk == walkMoreComments(C)
             All == IdsOf(C)
             P == SUBSET All
  <1>1. n \in Nat
    BY FS_CardinalityType DEF MaxRounds, GoodComments
  <1>2. /\ walk \in [SUBSET All -> SUBSET All]
        /\ \A S \in SUBSET All : walk[S] = RepliesTo(C, S)
    BY RepliesFacts DEF walkMoreComments
  <1>3. n = MaxRounds(C) /\ 0 \in 0..n /\ n \in 0..n
    BY <1>1
  <1>4. IsRun(w, SUBSET All, walk, n) /\ w[0] = {last}
    <2> DEFINE x == {last}
    <2>1. walk \in [P -> P] /\ x \in P /\ w = Rounds(walk, x, n)
      BY <1>2
    <2> HIDE DEF P, walk, n, x
    <2>2. IsRun(w, P, walk, n) /\ w[0] = x
      BY <1>1, <2>1, RoundsGoOn
    <2> QED
      BY <2>2 DEF P, x
  <1> HIDE DEF n, walk
  <1>5. /\ w \in [0..n -> SUBSET All]
        /\ \A k \in 1..n : /\ k - 1 \in 0..n /\ k \in 0..n
                           /\ w[k] = RepliesTo(C, w[k - 1])
    <2>1. w \in [0..n -> SUBSET All] /\ \A k \in 1..n : w[k] = walk[w[k - 1]]
      BY <1>4 DEF IsRun
    <2>2. \A k \in 1..n : k - 1 \in 0..n /\ k \in 0..n
      BY <1>1
    <2>3. \A k \in 1..n : w[k - 1] \in SUBSET All
      BY <2>1, <2>2
    <2> QED
      BY <1>2, <2>1, <2>2, <2>3
  <1>6. UNION Range(w) = UNION {w[k] : k \in 0..n}
    BY <1>5 DEF Range
  <1>7. UNION Range(w) \subseteq {last} \cup Under(C, last)
    <2> DEFINE B == {k \in 0..n : ~ (w[k] \subseteq {last} \cup Under(C, last))}
    <2> SUFFICES ASSUME B # {} PROVE FALSE
      BY <1>6
    <2>1. PICK k \in B : k = 0 \/ (k \in 1..n /\ k - 1 \in 0..n /\ k - 1 \notin B)
      <3>1. B \in SUBSET (0..n)
        OBVIOUS
      <3> HIDE DEF B
      <3> QED
        BY <1>1, <3>1, LeastIndex
    <2>2. k # 0
      BY <1>4
    <2>3. w[k - 1] \subseteq {last} \cup Under(C, last) /\ w[k] = RepliesTo(C, w[k - 1])
      BY <1>5, <2>1, <2>2
    <2>4. w[k] \subseteq {last} \cup Under(C, last)
      <3>1. ASSUME NEW x \in w[k] PROVE x \in Under(C, last)
        <4>1. PICK c \in C : c.id = x /\ c.repliedComment \in w[k - 1]
          BY <2>3, <3>1, RepliesFacts
        <4> QED
          BY <2>3, <4>1, UnderIsClosed
      <3> QED
        BY <3>1
    <2> QED
      BY <2>4
  <1>8. w[n] = {}
    <2> SUFFICES ASSUME NEW x \in w[n] PROVE FALSE
      OBVIOUS
    <2> DEFINE up == repliedTo(C)
               u == Rounds(up, x, n)
    <2>1. x \in All
      BY <1>3, <1>5
    <2>2. /\ up \in [All -> All]
          /\ \A c \in C : up[c.id] = IF c.repliedComment \in All THEN c.repliedComment ELSE c.id
      BY RepliedToFacts
    <2>8. u = Rounds(up, x, n)
      OBVIOUS
    <2> HIDE DEF up, u
    <2>3. IsRun(u, All, up, n) /\ u[0] = x
      BY <1>1, <2>1, <2>2, <2>8, RoundsGoOn
    <2>4. /\ u \in [0..n -> All]
          /\ \A k \in 1..n : /\ k - 1 \in 0..n /\ u[k] = up[u[k - 1]]
                             /\ n - (k - 1) \in 1..n /\ (n - (k - 1)) - 1 = n - k /\ n - k \in 0..n
      <3>1. \A k \in 1..n : /\ k - 1 \in 0..n /\ n - (k - 1) \in 1..n
                            /\ (n - (k - 1)) - 1 = n - k /\ n - k \in 0..n
        BY <1>1
      <3> QED
        BY <2>3, <3>1 DEF IsRun
    <2>5. ASSUME NEW k \in 1..n, u[k - 1] \in w[n - (k - 1)], NEW c \in C, c.id = u[k - 1]
          PROVE  c.repliedComment = u[k] /\ u[k] \in w[n - k]
      <3>1. w[n - (k - 1)] = RepliesTo(C, w[n - k]) /\ w[n - k] \subseteq All
        BY <1>5, <2>4
      <3>2. c.repliedComment \in w[n - k]
        BY <2>5, <3>1, RepliesFacts DEF GoodComments
      <3> QED
        BY <2>2, <2>4, <2>5, <3>1, <3>2
    <2>6. \A k \in 0..n : u[k] \in w[n - k]
      <3> DEFINE B == {k \in 0..n : u[k] \notin w[n - k]}
      <3> SUFFICES ASSUME B # {} PROVE FALSE
        OBVIOUS
      <3>1. PICK k \in B : k = 0 \/ (k \in 1..n /\ k - 1 \in 0..n /\ k - 1 \notin B)
        <4>1. B \in SUBSET (0..n)
          OBVIOUS
        <4> HIDE DEF B
        <4> QED
          BY <1>1, <4>1, LeastIndex
      <3>2. u[k] \notin w[n - k] /\ n - 0 = n
        BY <1>1
      <3>3. k \in 1..n /\ u[k - 1] \in w[n - (k - 1)] /\ u[k - 1] \in All
        BY <2>3, <2>4, <3>1, <3>2
      <3>4. PICK c \in C : c.id = u[k - 1]
        BY <3>3 DEF IdsOf
      <3> QED
        BY <2>5, <3>2, <3>3, <3>4
    <2>7. IsPath(C, u, n)
      <3>1. ASSUME NEW k \in 1..n, NEW c \in C, c.id = u[k - 1] PROVE c.repliedComment = u[k]
        BY <2>4, <2>5, <2>6, <3>1
      <3> QED
        BY <2>4, <3>1 DEF IsPath
    <2> QED
      BY <1>3, <2>7, NoLongPath
  <1>9. Under(C, last) \subseteq UNION Range(w)
    <2> DEFINE S == UNION {w[k] : k \in 0..n}
    <2>1. S \in SUBSET All
      BY <1>5
    <2>2. ASSUME NEW c \in C, c.repliedComment \in S PROVE c.id \in S
      <3>1. PICK k \in 0..n : c.repliedComment \in w[k]
        BY <2>2
      <3>2. k # n
        BY <1>8, <3>1
      <3>3. k + 1 \in 1..n /\ (k + 1) - 1 = k /\ k + 1 \in 0..n
        BY <1>1, <3>2
      <3>4. w[k + 1] = RepliesTo(C, w[k])
        BY <1>5, <3>3
      <3>5. c.id \in w[k + 1]
        BY <3>1, <3>4, RepliesFacts
      <3> QED
        BY <3>3, <3>5
    <2>3. last \in S
      <3>1. last \in w[0]
        BY <1>4
      <3> QED
        BY <1>3, <3>1
    <2> HIDE DEF S
    <2>4. Under(C, last) \subseteq S
      BY <2>1, <2>2, <2>3, UnderIsLeast
    <2> QED
      BY <1>6, <2>4 DEF S
  <1>10. last \in UNION Range(w)
    <2>1. last \in w[0]
      BY <1>4
    <2> QED
      BY <1>3, <1>6, <2>1
  <1> QED
    BY <1>7, <1>9, <1>10

\* What a group counts as more is what is under its last comment.
LEMMA MoreIsUnder ==
    ASSUME NEW C, GoodComments(C), NEW last \in IdsOf(C)
    PROVE  moreCommentsCount(C, last) = Cardinality(Under(C, last))
  <1> DEFINE w == Rounds(walkMoreComments(C), {last}, MaxRounds(C))
  <1>1. UNION Range(w) = Under(C, last) \cup {last}
    BY WalkIsUnder
  <1>2. IsFiniteSet(Under(C, last)) /\ last \notin Under(C, last)
    BY UnderIsClosed, FS_Subset, NotUnderItself DEF GoodComments
  <1>3. /\ Cardinality(Under(C, last) \cup {last}) = Cardinality(Under(C, last)) + 1
        /\ Cardinality(Under(C, last)) \in Nat
    BY <1>2, FS_AddElement, FS_CardinalityType
  <1>4. moreCommentsCount(C, last) = Cardinality(UNION Range(w)) - 1
    BY DEF moreCommentsCount
  <1>5. \A m \in Nat : (m + 1) - 1 = m
    OBVIOUS
  <1>6. moreCommentsCount(C, last) = (Cardinality(Under(C, last)) + 1) - 1
    BY <1>1, <1>3, <1>4, Zenon
  <1> QED
    BY <1>3, <1>5, <1>6, Zenon

\* Two replies to the same target have nothing under both of them.
LEMMA RepliesAreApart ==
    ASSUME NEW C, GoodComments(C), NEW t, NEW a \in RepliesTo(C, {t}), NEW b \in RepliesTo(C, {t}),
           a # b
    PROVE  ({a} \cup Under(C, a)) \cap ({b} \cup Under(C, b)) = {}
  <1> DEFINE D(x) == {x} \cup Under(C, x)
  <1>1. ASSUME NEW x \in RepliesTo(C, {t}), NEW y \in RepliesTo(C, {t}), x # y
        PROVE  x \notin D(y)
    <2>1. PICK c \in C : c.id = x /\ c.repliedComment = t
      BY RepliesFacts
    <2>2. PICK d \in C : d.id = y /\ d.repliedComment = t
      BY RepliesFacts
    <2> SUFFICES ASSUME x \in Under(C, y) PROVE FALSE
      BY <1>1
    <2>3. t = y \/ t \in Under(C, y)
      BY <2>1, UnderThroughParent
    <2>4. y \in Under(C, t)
      BY <2>2, UnderIsClosed
    <2> QED
      BY <2>3, <2>4, NotUnderItself, UnderIsTransitive
  <1> DEFINE S == Under(C, a) \ D(b)
  <1>2. S \in SUBSET IdsOf(C)
    BY UnderIsClosed
  <1>3. ASSUME NEW c \in C, c.repliedComment = a \/ c.repliedComment \in S PROVE c.id \in S
    <2>1. c.id \in Under(C, a)
      BY <1>3, UnderIsClosed
    <2>2. c.repliedComment \notin D(b)
      BY <1>1, <1>3
    <2>3. c.id \notin Under(C, b)
      BY <2>2, UnderThroughParent
    <2>4. c.id # b
      BY <1>1, <2>1
    <2> QED
      BY <2>1, <2>3, <2>4
  <1>4. Under(C, a) \subseteq S
    <2> HIDE DEF S
    <2> QED
      BY <1>2, <1>3, UnderIsLeast
  <1> QED
    BY <1>1, <1>4

\* What is under a target is its replies and what is under them.
LEMMA UnderIsUnderReplies ==
    ASSUME NEW C, NEW t
    PROVE  Under(C, t) = UNION {{x} \cup Under(C, x) : x \in RepliesTo(C, {t})}
  <1> DEFINE S == UNION {{x} \cup Under(C, x) : x \in RepliesTo(C, {t})}
  <1>1. S \in SUBSET IdsOf(C)
    BY UnderIsClosed, RepliesFacts
  <1>2. \A c \in C : c.repliedComment = t \/ c.repliedComment \in S => c.id \in S
    <2> SUFFICES ASSUME NEW c \in C, c.repliedComment = t \/ c.repliedComment \in S
                 PROVE  c.id \in S
      OBVIOUS
    <2>1. CASE c.repliedComment = t
      <3>1. c.id \in RepliesTo(C, {t})
        BY <2>1, RepliesFacts
      <3> QED
        BY <3>1
    <2>2. CASE c.repliedComment \in S
      <3>1. PICK x \in RepliesTo(C, {t}) : c.repliedComment = x \/ c.repliedComment \in Under(C, x)
        BY <2>2
      <3>2. c.id \in Under(C, x)
        BY <3>1, UnderIsClosed
      <3> QED
        BY <3>2
    <2> QED
      BY <2>1, <2>2
  <1>3. Under(C, t) \subseteq S
    <2> HIDE DEF S
    <2> QED
      BY <1>1, <1>2, UnderIsLeast
  <1>4. ASSUME NEW x \in RepliesTo(C, {t}) PROVE {x} \cup Under(C, x) \subseteq Under(C, t)
    <2>1. x \in Under(C, t)
      BY UnderIsClosed, RepliesFacts
    <2> QED
      BY <2>1, UnderIsTransitive
  <1> QED
    BY <1>3, <1>4

-------------------------------------------------------------------------------
\* A new comment keeps the comments in order, if it replies neither to itself
\* nor to what is already under it.
LEMMA OneMoreComment ==
    ASSUME NEW C, GoodComments(C), NEW id, id \notin IdsOf(C),
           NEW to, to # id, to \notin Under(C, id),
           NEW D, D = C \cup {[id |-> id, repliedComment |-> to]}
    PROVE  GoodComments(D)
  <1> DEFINE n == [id |-> id, repliedComment |-> to]
  <1>1. n.id = id /\ n.repliedComment = to /\ D = C \cup {n}
    OBVIOUS
  <1> HIDE DEF n
  <1>2. IdsOf(D) = IdsOf(C) \cup {id}
    BY <1>1 DEF IdsOf
  <1>3. IsFiniteSet(IdsOf(D))
    <2>1. IsFiniteSet(IdsOf(C))
      BY DEF GoodComments
    <2>2. IsFiniteSet(IdsOf(C) \cup {id})
      BY <2>1, FS_AddElement
    <2> QED
      BY <1>2, <2>2
  <1>4. \A c \in C : c.id # id
    BY DEF IdsOf
  <1>5. \A c, d \in D : c.id = d.id => c = d
    BY <1>1, <1>4 DEF GoodComments
  <1>6. ASSUME NEW S \in SUBSET IdsOf(D), S # {}
        PROVE  \E c \in D : c.id \in S /\ c.repliedComment \notin S
    <2>1. CASE id \notin S
      <3>1. S \in SUBSET IdsOf(C)
        BY <1>2, <2>1
      <3>2. PICK c \in C : c.id \in S /\ c.repliedComment \notin S
        BY <1>6, <3>1 DEF GoodComments
      <3> QED
        BY <1>1, <3>2
    <2>2. CASE id \in S /\ to \notin S
      BY <1>1, <2>2
    <2>3. CASE id \in S /\ to \in S
      <3> DEFINE T == S \ ({id} \cup Under(C, id))
      <3>1. T \in SUBSET IdsOf(C) /\ to \in T
        BY <1>2, <2>3
      <3>2. PICK c \in C : c.id \in T /\ c.repliedComment \notin T
        <4> HIDE DEF T
        <4> QED
          BY <3>1 DEF GoodComments
      <3>3. c.repliedComment # id /\ c.repliedComment \notin Under(C, id)
        BY <3>2, UnderIsClosed
      <3> QED
        BY <1>1, <3>2, <3>3
    <2> QED
      BY <2>1, <2>2, <2>3
  <1> QED
    BY <1>3, <1>5, <1>6 DEF GoodComments

\* What useCommentGroups and useCommentReplies make of comments in order.
LEMMA GoodCommentsAreShown == GoodComments(published) => RepliesAreShown
  <1> SUFFICES ASSUME GoodComments(published)
               PROVE  RepliesAreShown
    OBVIOUS
  <1> DEFINE C == published
  <1>1. ASSUME NEW target, NEW g \in RepliesTo(C, {target}),
               NEW r, r = useCommentGroups(C, target)[g]
        PROVE  /\ r.comments \cap Under(C, r.last) = {}
               /\ r.moreCommentsCount = Cardinality(Under(C, r.last))
               /\ Cardinality(RepliesTo(C, {r.last})) # 1
               /\ r.comments \cup Under(C, r.last) = {g} \cup Under(C, g)
    <2> DEFINE f == groupComments(C, g)
               last == f[MaxRounds(C)]
    <2>1. r = [comments |-> Range(f), last |-> last, moreCommentsCount |-> moreCommentsCount(C, last)]
      BY <1>1 DEF useCommentGroups
    <2>2. g \in IdsOf(C)
      BY RepliesFacts
    <2>3. /\ last \in Range(f) /\ Range(f) \subseteq IdsOf(C)
          /\ Cardinality(RepliesTo(C, {last})) # 1
          /\ Range(f) \cap Under(C, last) = {}
          /\ Range(f) \cup Under(C, last) = {g} \cup Under(C, g)
      BY <2>2, GroupIsAChain
    <2> HIDE DEF f, last
    <2>4. moreCommentsCount(C, last) = Cardinality(Under(C, last))
      BY <2>3, MoreIsUnder
    <2>5. r.comments = Range(f) /\ r.last = last /\ r.moreCommentsCount = moreCommentsCount(C, last)
      BY <2>1
    <2> QED
      BY <2>3, <2>4, <2>5
  <1>2. ASSUME NEW target
        PROVE  LET groups == useCommentGroups(C, target)
                   Rest(g) == Under(C, groups[g].last)
                   Family(g) == groups[g].comments \cup Rest(g)
               IN  /\ UNION {Family(g) : g \in DOMAIN groups} = Under(C, target)
                   /\ \A g \in DOMAIN groups :
                         /\ groups[g].comments \cap Rest(g) = {}
                         /\ groups[g].moreCommentsCount = Cardinality(Rest(g))
                         /\ Cardinality(RepliesTo(C, {groups[g].last})) # 1
                         /\ \A h \in DOMAIN groups \ {g} : Family(g) \cap Family(h) = {}
    <2> DEFINE groups == useCommentGroups(C, target)
               Rest(g) == Under(C, groups[g].last)
               Family(g) == groups[g].comments \cup Rest(g)
               R == RepliesTo(C, {target})
    <2>1. DOMAIN groups = R
      BY DEF useCommentGroups
    <2>2. \A g \in R : /\ groups[g].comments \cap Rest(g) = {}
                       /\ groups[g].moreCommentsCount = Cardinality(Rest(g))
                       /\ Cardinality(RepliesTo(C, {groups[g].last})) # 1
                       /\ Family(g) = {g} \cup Under(C, g)
      BY <1>1
    <2>3. UNION {{x} \cup Under(C, x) : x \in R} = Under(C, target)
      BY UnderIsUnderReplies
    <2>4. UNION {Family(g) : g \in R} = UNION {{x} \cup Under(C, x) : x \in R}
      <3>1. \A g \in R : Family(g) = {g} \cup Under(C, g)
        BY <2>2
      <3>2. {Family(g) : g \in R} = {{x} \cup Under(C, x) : x \in R}
        <4> HIDE DEF Family, R, C
        <4> QED
          BY <3>1
      <3> QED
        BY <3>2
    <2>5. \A g \in R : \A h \in R \ {g} : Family(g) \cap Family(h) = {}
      <3> SUFFICES ASSUME NEW g \in R, NEW h \in R, g # h
                   PROVE  Family(g) \cap Family(h) = {}
        OBVIOUS
      <3>1. ({g} \cup Under(C, g)) \cap ({h} \cup Under(C, h)) = {}
        <4> HIDE DEF C
        <4>1. GoodComments(C)
          BY DEF C
        <4>2. g \in RepliesTo(C, {target}) /\ h \in RepliesTo(C, {target})
          OBVIOUS
        <4> QED
          BY <4>1, <4>2, RepliesAreApart
      <3> HIDE DEF Family, R
      <3> QED
        BY <2>2, <3>1
    <2> QED
      BY <2>1, <2>2, <2>3, <2>4, <2>5
  <1>3. \A id \in IdsOf(C) :
            useCommentReplies(C, id) = {id} \cup {a \in IdsOf(C) : id \in Under(C, a)}
    BY ThreadIsThePathUp
  <1> QED
    BY <1>2, <1>3 DEF RepliesAreShown, Ids

\* A step leaves the comments alone or adds one that keeps them in order.
LEMMA CommentsStep == GoodComments(published) /\ [Next]_vars => GoodComments(published')
  <1> SUFFICES ASSUME GoodComments(published), [Next]_vars
               PROVE  GoodComments(published')
    OBVIOUS
  <1>1. ASSUME NEW w \in Windows, publishComment(w) PROVE GoodComments(published')
    <2> DEFINE to == Head(submits[w]).target
               new == (1..MaxComments) \ (Ids \cup Targets \cup {to})
               id == CHOOSE id \in new : TRUE
    <2>1. new # {} /\ published' = published \cup {[id |-> id, repliedComment |-> to]}
      BY <1>1 DEF publishComment
    <2>2. id \notin Ids /\ id \notin Targets /\ id # to
      BY <2>1
    <2> HIDE DEF id, to, new
    <2>3. Under(published, id) \subseteq {}
      <3>1. \A c \in published : c.repliedComment # id
        BY <2>2 DEF Targets
      <3> DEFINE S == {}
      <3>2. /\ S \in SUBSET IdsOf(published)
            /\ \A c \in published : c.repliedComment = id \/ c.repliedComment \in S => c.id \in S
        BY <3>1
      <3> HIDE DEF S
      <3>3. Under(published, id) \subseteq S
        BY <3>2, UnderIsLeast
      <3> QED
        BY <3>3 DEF S
    <2> QED
      BY <2>1, <2>2, <2>3, OneMoreComment DEF Ids
  <1>2. ASSUME ReceiveComment PROVE GoodComments(published')
    <2> DEFINE id == CHOOSE id \in (1..MaxComments) \ Ids : TRUE
    <2>1. id \notin Ids
      BY <1>2 DEF ReceiveComment
    <2>2. PICK to \in (NoComment..MaxComments) \ ({id} \cup Under(published, id)) :
              published' = published \cup {[id |-> id, repliedComment |-> to]}
      BY <1>2 DEF ReceiveComment
    <2> HIDE DEF id
    <2> QED
      BY <2>1, <2>2, OneMoreComment DEF Ids
  <1>3. CASE UNCHANGED vars
    BY <1>3 DEF vars
  <1>4. ASSUME Next, \A w \in Windows : ~ publishComment(w), ~ ReceiveComment
        PROVE  published' = published
    BY <1>4 DEF Next, getCommentDraft, writeCommentDraft, createCommentDraft,
        removeCommentDraft, LeavePage, CloseWindow, CreateComment, OpenPage, CacheExpires,
        Edit, SaveTimeout, LeftTimeout, onDiscard, onSubmit, SubmitFails, Created, Removed,
        Crash
  <1> QED
    BY <1>1, <1>2, <1>3, <1>4

\* The replies to a comment are shown or counted once each, and its thread
\* is what it replies to, for any comments that arrive in any order
\* (useCommentGroups, useCommentReplies): whatever a reader opens, no comment
\* is lost between the groups.
THEOREM RepliesAreShownTheorem == Spec => []RepliesAreShown
  <1>1. Init => GoodComments(published)
    <2> SUFFICES ASSUME published = {} PROVE GoodComments(published)
      BY DEF Init
    <2>1. IdsOf(published) = {}
      BY DEF IdsOf
    <2> QED
      BY <2>1, FS_EmptySet DEF GoodComments
  <1>2. GoodComments(published) /\ [Next]_vars => GoodComments(published)'
    BY CommentsStep
  <1> QED
    BY <1>1, <1>2, GoodCommentsAreShown, PTL DEF Spec
=============================================================================
