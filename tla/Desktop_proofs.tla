---------------------------- MODULE Desktop_proofs ----------------------------
(***************************************************************************)
(* The windows of the desktop application and their stored state, for any  *)
(* routes and any number of windows, histories and messages.               *)
(***************************************************************************)
EXTENDS Desktop, SequenceTheorems, WellFoundedInduction, TLAPS

\* The windows whose state is stored: open, or closed by a quit and unloading.
Showing == (allWindows \cup unloading) \ closed

\* Such a window has an entry in windowsState to update.
OpenIsStored == \A w \in Showing : windowsState[w] # NoState

\* Messages come from windows that have a page, and pages from an application
\* that runs.
PagesSend ==
    /\ \A w \in Windows : sent[w] # <<>> => w \in allWindows \cup unloading
    /\ ~running => allWindows = {} /\ unloading = {}

\* What the last quit or crash took is what is stored, and has no page.
LeftIsStored ==
    \A w \in Windows : left[w] # NoState =>
        left[w] = windowsState[w] /\ w \notin allWindows \cup unloading

DesktopInv ==
    /\ TypeOK
    /\ OpenIsStored
    /\ PagesSend
    /\ LeftIsStored
    /\ StoreFollowsWindows
    /\ ClosedStaysClosed
    /\ NeverWithoutWindow

-----------------------------------------------------------------------------
\* A history and a place in it.
LEMMA NavIntro ==
    ASSUME NEW s \in Seq(Routes), NEW i \in Nat, i < Len(s)
    PROVE  [routes |-> s, routeIndex |-> i] \in NavState
BY DEF NavState

\* A history cut after i routes, and a route behind it.
LEMMA CutAndAppend ==
    ASSUME NEW s \in Seq(Routes), NEW i \in 0..Len(s), NEW r \in Routes
    PROVE  /\ Append(SubSeq(s, 1, i), r) \in Seq(Routes)
           /\ Len(Append(SubSeq(s, 1, i), r)) = i + 1
<1>1. \A k \in 1..i : s[k] \in Routes
    BY ElementOfSeq
<1>2. SubSeq(s, 1, i) \in Seq(Routes) /\ Len(SubSeq(s, 1, i)) = i
    BY <1>1, SubSeqProperties
<1>. QED  BY <1>2, AppendProperties

\* Every operation of navStateReducer yields a history with a place in it.
LEMMA ReducerType ==
    ASSUME NEW n \in NavState, NEW r \in Routes
    PROVE  {push(n, r), replace(n, r), backplace(n, r), pop(n), forward(n)} \subseteq NavState
<1>1. /\ n.routes \in Seq(Routes) /\ n.routeIndex \in Nat /\ Len(n.routes) \in Nat
      /\ n.routeIndex < Len(n.routes)
      /\ n = [routes |-> n.routes, routeIndex |-> n.routeIndex]
    BY DEF NavState
<1>2. push(n, r) \in NavState
    BY <1>1, CutAndAppend DEF push, NavState
<1>3. replace(n, r) \in NavState
  <2>. DEFINE s == Append(SubSeq(n.routes, 1, n.routeIndex), r)
  <2>1. s \in Seq(Routes) /\ Len(s) = n.routeIndex + 1
      BY <1>1, CutAndAppend
  <2>2. replace(n, r) = [routes |-> s, routeIndex |-> n.routeIndex]
      BY DEF replace
  <2>. HIDE DEF s
  <2>. QED  BY <1>1, <2>1, <2>2, NavIntro
<1>4. backplace(n, r) \in NavState
  <2>1. CASE n.routeIndex = 0
    <3>. DEFINE s == <<r>>
    <3>1. s \in Seq(Routes) /\ Len(s) = 1
        OBVIOUS
    <3>2. backplace(n, r) = [routes |-> s, routeIndex |-> 0]
        BY <2>1 DEF backplace
    <3>. HIDE DEF s
    <3>. QED  BY <3>1, <3>2, NavIntro
  <2>2. CASE n.routeIndex # 0
    <3>. DEFINE s == Append(SubSeq(n.routes, 1, Len(n.routes) - 1), r)
    <3>1. s \in Seq(Routes) /\ Len(s) = Len(n.routes)
        BY <1>1, <2>2, CutAndAppend
    <3>2. backplace(n, r) = [routes |-> s, routeIndex |-> n.routeIndex]
        BY <2>2 DEF backplace
    <3>. HIDE DEF s
    <3>. QED  BY <1>1, <3>1, <3>2, NavIntro
  <2>. QED  BY <2>1, <2>2
<1>5. pop(n) \in NavState
    BY <1>1 DEF pop, NavState
<1>6. forward(n) \in NavState
    BY <1>1 DEF forward, NavState
<1>. QED  BY <1>2, <1>3, <1>4, <1>5, <1>6

\* The last message, when one is sent and when one is received.
LEMMA LastSent ==
    ASSUME NEW s \in Seq(NavState)
    PROVE  /\ \A n \in NavState : /\ Append(s, n) \in Seq(NavState)
                                  /\ Append(s, n) # <<>>
                                  /\ Append(s, n)[Len(Append(s, n))] = n
           /\ s # <<>> => /\ Head(s) \in NavState /\ Tail(s) \in Seq(NavState)
                          /\ Tail(s) = <<>> => s[Len(s)] = Head(s)
                          /\ Tail(s) # <<>> => Tail(s)[Len(Tail(s))] = s[Len(s)]
<1>1. \A n \in NavState : /\ Append(s, n) \in Seq(NavState)
                          /\ Append(s, n) # <<>>
                          /\ Append(s, n)[Len(Append(s, n))] = n
    BY AppendProperties
<1>2. ASSUME s # <<>>
      PROVE  /\ Head(s) \in NavState /\ Tail(s) \in Seq(NavState)
             /\ Tail(s) = <<>> => s[Len(s)] = Head(s)
             /\ Tail(s) # <<>> => Tail(s)[Len(Tail(s))] = s[Len(s)]
  <2>1. /\ Head(s) \in NavState /\ Tail(s) \in Seq(NavState) /\ Len(Tail(s)) = Len(s) - 1
        /\ \A i \in 1..Len(Tail(s)) : Tail(s)[i] = s[i + 1]
        /\ Len(s) \in Nat /\ Len(Tail(s)) \in Nat
      BY <1>2, HeadTailProperties, LenProperties
  <2>2. Tail(s) = <<>> => s[Len(s)] = Head(s)
    <3>1. Tail(s) = <<>> => Len(s) = 1
        BY <2>1, EmptySeq
    <3>2. Head(s) = s[1]
        BY <1>2
    <3>. QED  BY <3>1, <3>2
  <2>3. Tail(s) # <<>> => Tail(s)[Len(Tail(s))] = s[Len(s)]
    <3>1. Tail(s) # <<>> => Len(Tail(s)) \in 1..Len(Tail(s))
        BY <2>1, EmptySeq
    <3>. QED  BY <2>1, <3>1
  <2>. QED  BY <2>1, <2>2, <2>3
<1>. QED  BY <1>1, <1>2

\* Of stored windows one comes first.
LEMMA FirstStored ==
    ASSUME NEW S \in SUBSET Windows, S # {}
    PROVE  \E w \in S : \A v \in S : ~(v < w)
<1>1. S \subseteq Nat
    BY ConstantsAssumption DEF Windows
<1>2. PICK w \in S : \A v \in S : ~(<<v, w>> \in OpToRel(<, Nat))
    BY <1>1, WFMin, NatLessThanWellFounded
<1>3. \A v \in S : v < w => <<v, w>> \in OpToRel(<, Nat)
    BY <1>1 DEF OpToRel
<1>. QED  BY <1>2, <1>3

\* Windows that are open, closed or about to be closed are windows.
LEMMA WindowsOpen ==
    ASSUME TypeOK
    PROVE  /\ 1..used \subseteq Windows /\ used \in Nat
           /\ used < MaxWindows => used + 1 \in Windows
           /\ used + 1 \notin 1..used
           /\ allWindows \subseteq Windows /\ closed \subseteq Windows
           /\ unloading \subseteq Windows /\ Showing \subseteq Windows
BY ConstantsAssumption DEF TypeOK, Windows, Showing

\* What a window with a page and an entry showed last is what is stored.
LEMMA ShownIsStored ==
    ASSUME TypeOK, StoreFollowsWindows, NEW w \in Showing
    PROVE  Shown(w) \in NavState \cup {NoState} /\ (Shown(w) # NoState => Shown(w) = windowsState[w])
BY WindowsOpen DEF Shown, TypeOK, StoreFollowsWindows, Showing

\* The home page is a history.
LEMMA HomeType == Home \in NavState
<1>. DEFINE s == <<defaultRoute>>
<1>1. s \in Seq(Routes) /\ Len(s) = 1
    BY ConstantsAssumption
<1>2. Home = [routes |-> s, routeIndex |-> 0]
    BY DEF Home
<1>. HIDE DEF s
<1>. QED  BY <1>1, <1>2, NavIntro

LEMMA InitInv == Init => DesktopInv
<1>. SUFFICES ASSUME Init PROVE DesktopInv
    OBVIOUS
<1>1. TypeOK
  <2>1. sent \in [Windows -> Seq(NavState)]
      BY EmptySeq DEF Init
  <2>2. nav \in [Windows -> NavState]
      BY HomeType DEF Init
  <2>3. /\ windowsState \in [Windows -> NavState \cup {NoState}]
        /\ left \in [Windows -> NavState \cup {NoState}]
        /\ \A w \in Windows : windowsState[w] = NoState /\ left[w] = NoState
      BY DEF Init
  <2>4. used = 0 /\ used \in 0..MaxWindows
      BY ConstantsAssumption DEF Init
  <2>. QED  BY <2>1, <2>2, <2>3, <2>4 DEF Init, TypeOK
<1>. QED  BY <1>1 DEF Init, DesktopInv, OpenIsStored, PagesSend, LeftIsStored, StoreFollowsWindows,
               Showing, ClosedStaysClosed, NeverWithoutWindow

\* A change of the navigation state of a window, and its message.
LEMMA DispatchInv ==
    ASSUME DesktopInv, NEW w \in Windows, NEW n \in NavState, dispatch(w, n)
    PROVE  DesktopInv'
<1>. USE DEF DesktopInv
<1>1. /\ Append(sent[w], n) \in Seq(NavState) /\ Append(sent[w], n) # <<>>
      /\ Append(sent[w], n)[Len(Append(sent[w], n))] = n
    BY LastSent DEF TypeOK
<1>2. TypeOK'
    BY <1>1 DEF TypeOK, dispatch, history
<1>3. StoreFollowsWindows'
    BY <1>1, WindowsOpen DEF TypeOK, dispatch, history, StoreFollowsWindows
<1>4. PagesSend'
    BY DEF TypeOK, dispatch, HasPage, history, PagesSend
<1>. QED  BY <1>2, <1>3, <1>4 DEF dispatch, history, OpenIsStored, Showing, LeftIsStored, ClosedStaysClosed,
                NeverWithoutWindow

\* The user navigates in window w.
LEMMA NavigateInv ==
    ASSUME DesktopInv, NEW w \in Windows,
           \/ \E r \in Routes : Push(w, r) \/ Replace(w, r) \/ Backplace(w, r)
           \/ Pop(w) \/ Forward(w) \/ CloseBack(w)
    PROVE  DesktopInv'
<1>1. nav[w] \in NavState
    BY DEF DesktopInv, TypeOK
<1>2. ASSUME NEW r \in Routes, Push(w, r) \/ Replace(w, r) \/ Backplace(w, r) PROVE DesktopInv'
    BY <1>1, <1>2, ReducerType, DispatchInv DEF Push, Replace, Backplace
<1>3. pop(nav[w]) \in NavState /\ forward(nav[w]) \in NavState
    BY <1>1, ReducerType, ConstantsAssumption
<1>4. CASE Pop(w) \/ Forward(w)
    BY <1>3, <1>4, DispatchInv DEF Pop, Forward
<1>5. CASE CloseBack(w)
  <2>1. CASE dispatch(w, pop(nav[w]))
      BY <1>3, <2>1, DispatchInv
  <2>2. CASE w \in allWindows \cup unloading /\ closing' = closing \cup {w} /\
             UNCHANGED <<running, darwin, isExpectingQuit, allWindows, unloading, windowsState,
                         nav, sent, used, history, left>>
    <3>1. TypeOK'
        BY <2>2 DEF DesktopInv, TypeOK, history
    <3>. QED  BY <2>2, <3>1 DEF DesktopInv, OpenIsStored, Showing, PagesSend, LeftIsStored, StoreFollowsWindows,
                    ClosedStaysClosed, NeverWithoutWindow, history
  <2>. QED  BY <1>5, <2>1, <2>2 DEF CloseBack, HasPage
<1>. QED  BY <1>2, <1>4, <1>5

\* The main process gets a message of window w, which may be closed: then
\* updateWindowState leaves the stored state alone.
LEMMA WindowNavStateInv ==
    ASSUME DesktopInv, NEW w \in Windows, WindowNavState(w)
    PROVE  DesktopInv'
<1>. USE DEF DesktopInv
<1>1. /\ sent[w] \in Seq(NavState) /\ sent[w] # <<>> /\ w \in allWindows \cup unloading
      /\ windowsState' = updateWindowState(w, Head(sent[w]))
      /\ sent' = [sent EXCEPT ![w] = Tail(@)]
      /\ UNCHANGED <<running, darwin, isExpectingQuit, allWindows, unloading, nav, closing, used,
                     closed, lastByUser, left>>
    BY DEF TypeOK, WindowNavState, PagesSend, history
<1>2. /\ Head(sent[w]) \in NavState /\ Tail(sent[w]) \in Seq(NavState)
      /\ Tail(sent[w]) = <<>> => sent[w][Len(sent[w])] = Head(sent[w])
      /\ Tail(sent[w]) # <<>> => Tail(sent[w])[Len(Tail(sent[w]))] = sent[w][Len(sent[w])]
    BY <1>1, LastSent
<1>3. /\ sent' \in [Windows -> Seq(NavState)] /\ sent'[w] = Tail(sent[w])
      /\ \A v \in Windows : v # w => sent'[v] = sent[v]
    BY <1>1, <1>2 DEF TypeOK
<1>4. /\ windowsState' \in [Windows -> NavState \cup {NoState}]
      /\ \A v \in Windows : v # w => windowsState'[v] = windowsState[v]
      /\ windowsState'[w] = IF windowsState[w] = NoState THEN NoState ELSE Head(sent[w])
    BY <1>1, <1>2 DEF TypeOK, updateWindowState
<1>5. Head(sent[w]) # NoState
    BY <1>2, ConstantsAssumption
<1>6. TypeOK'
  <2>1. w <= used
      BY <1>1, WindowsOpen DEF TypeOK
  <2>. QED  BY <1>1, <1>3, <1>4, <2>1 DEF TypeOK
<1>7. OpenIsStored'
    BY <1>1, <1>4, <1>5, WindowsOpen DEF OpenIsStored, Showing
<1>8. PagesSend'
    BY <1>1, <1>3 DEF PagesSend
<1>9. LeftIsStored'
    BY <1>1, <1>4 DEF LeftIsStored
<1>10. StoreFollowsWindows'
    BY <1>1, <1>2, <1>3, <1>4, WindowsOpen DEF StoreFollowsWindows, OpenIsStored, Showing
<1>11. ClosedStaysClosed'
    BY <1>1, <1>4, WindowsOpen DEF ClosedStaysClosed
<1>. QED  BY <1>1, <1>6, <1>7, <1>8, <1>9, <1>10, <1>11 DEF NeverWithoutWindow

\* A window is closed: what holds of the stored state and of the others.
LEMMA CloseHandlerInv ==
    ASSUME DesktopInv, NEW w \in allWindows, closeHandler(w), allWindows' = allWindows \ {w},
           lastByUser' \in BOOLEAN, UNCHANGED <<running, darwin, isExpectingQuit, nav, sent, used, left>>,
           closing' \subseteq closing
    PROVE  TypeOK' /\ OpenIsStored' /\ PagesSend' /\ LeftIsStored' /\ StoreFollowsWindows' /\ ClosedStaysClosed'
<1>. USE DEF DesktopInv
<1>1. w \in Windows /\ w \in 1..used /\ w \notin unloading /\ running
    BY WindowsOpen DEF TypeOK, PagesSend
<1>2. unloading' = unloading \cup {w}
    BY DEF closeHandler
<1>3. PagesSend'
    BY <1>1, <1>2 DEF PagesSend
<1>4. CASE isExpectingQuit
  <2>1. windowsState' = windowsState /\ closed' = closed
      BY <1>4 DEF closeHandler
  <2>2. TypeOK'
      BY <1>1, <1>2, <2>1 DEF TypeOK
  <2>. QED  BY <1>2, <1>3, <2>1, <2>2 DEF OpenIsStored, Showing, LeftIsStored, StoreFollowsWindows, ClosedStaysClosed
<1>5. CASE ~isExpectingQuit
  <2>1. /\ windowsState' = [windowsState EXCEPT ![w] = NoState] /\ closed' = closed \cup {w}
        /\ windowsState'[w] = NoState /\ \A v \in Windows : v # w => windowsState'[v] = windowsState[v]
        /\ windowsState' \in [Windows -> NavState \cup {NoState}]
      BY <1>1, <1>5 DEF closeHandler, TypeOK
  <2>2. TypeOK'
    <3>1. closed' \subseteq 1..used
        BY <1>1, <2>1 DEF TypeOK
    <3>. QED  BY <1>1, <1>2, <2>1, <3>1 DEF TypeOK
  <2>3. LeftIsStored'
      BY <1>1, <1>2, <2>1 DEF LeftIsStored
  <2>4. OpenIsStored' /\ StoreFollowsWindows'
      BY <1>1, <1>2, <2>1, WindowsOpen DEF StoreFollowsWindows, OpenIsStored, Showing
  <2>5. ClosedStaysClosed'
      BY <1>1, <2>1, WindowsOpen DEF ClosedStaysClosed
  <2>. QED  BY <1>3, <2>2, <2>3, <2>4, <2>5
<1>. QED  BY <1>4, <1>5

\* The user closes window w.
LEMMA CloseWindowInv ==
    ASSUME DesktopInv, NEW w \in Windows, CloseWindow(w)
    PROVE  DesktopInv'
<1>1. /\ w \in allWindows /\ closeHandler(w) /\ allWindows' = allWindows \ {w} /\ lastByUser' = TRUE
      /\ UNCHANGED <<running, darwin, isExpectingQuit, nav, sent, closing, used, left>>
    BY DEF CloseWindow
<1>2. TypeOK' /\ OpenIsStored' /\ PagesSend' /\ LeftIsStored' /\ StoreFollowsWindows' /\ ClosedStaysClosed'
    BY <1>1, CloseHandlerInv
<1>3. NeverWithoutWindow'
    BY <1>1 DEF closeHandler, NeverWithoutWindow
<1>. QED  BY <1>2, <1>3 DEF DesktopInv

\* The page of window w is gone.
LEMMA UnloadInv ==
    ASSUME DesktopInv, NEW w \in Windows, Unload(w)
    PROVE  DesktopInv'
<1>. USE DEF DesktopInv
<1>1. /\ running /\ w \in unloading /\ unloading' = unloading \ {w} /\ w \notin allWindows
      /\ running' = (darwin \/ isExpectingQuit \/ allWindows \cup unloading # {w})
      /\ closing' \subseteq closing
      /\ UNCHANGED <<darwin, isExpectingQuit, allWindows, windowsState, nav, used, closed, lastByUser>>
    BY DEF Unload, TypeOK, history
<1>2. /\ sent' \in [Windows -> Seq(NavState)] /\ sent'[w] = <<>>
      /\ \A v \in Windows : v # w => sent'[v] = sent[v]
    BY EmptySeq DEF Unload, TypeOK
<1>3. w \notin closed => /\ Shown(w) \in NavState \cup {NoState}
                         /\ Shown(w) # NoState => Shown(w) = windowsState[w]
    BY <1>1, ShownIsStored DEF Showing
<1>4. /\ left' \in [Windows -> NavState \cup {NoState}]
      /\ \A v \in Windows : v # w => left'[v] = left[v]
      /\ left'[w] = IF w \in closed THEN left[w] ELSE Shown(w)
    BY <1>3 DEF Unload, TypeOK
<1>5. TypeOK'
  <2>1. running' \in BOOLEAN
      BY <1>1
  <2>2. w <= used
      BY <1>1, WindowsOpen DEF TypeOK
  <2>. QED  BY <1>1, <1>2, <1>4, <2>1, <2>2 DEF TypeOK
<1>6. OpenIsStored' /\ StoreFollowsWindows'
    BY <1>1, <1>2, WindowsOpen DEF OpenIsStored, StoreFollowsWindows, Showing
<1>7. PagesSend'
  <2>1. ~running' => allWindows = {} /\ unloading = {w}
      BY <1>1
  <2>. QED  BY <1>1, <1>2, <2>1 DEF PagesSend
<1>8. LeftIsStored'
    BY <1>1, <1>3, <1>4 DEF LeftIsStored
<1>9. ClosedStaysClosed'
    BY <1>1 DEF ClosedStaysClosed
<1>10. NeverWithoutWindow'
    BY <1>1 DEF NeverWithoutWindow
<1>. QED  BY <1>5, <1>6, <1>7, <1>8, <1>9, <1>10

\* closeAppWindow is asked of the main process.
LEMMA CloseAppWindowInv ==
    ASSUME DesktopInv, NEW w \in Windows, CloseAppWindow(w)
    PROVE  DesktopInv'
<1>. USE DEF DesktopInv
<1>1. /\ closing' \subseteq closing /\ running
      /\ UNCHANGED <<running, darwin, isExpectingQuit, left>>
    BY DEF CloseAppWindow
<1>2. CASE w \notin allWindows /\
           UNCHANGED <<allWindows, unloading, windowsState, nav, sent, used, history>>
  <2>1. TypeOK'
      BY <1>1, <1>2 DEF TypeOK, history
  <2>. QED  BY <1>1, <1>2, <2>1 DEF OpenIsStored, Showing, PagesSend, LeftIsStored, StoreFollowsWindows,
                  ClosedStaysClosed, NeverWithoutWindow, history
<1>3. CASE /\ w \in allWindows /\ allWindows # {w} /\ closeHandler(w)
           /\ allWindows' = allWindows \ {w} /\ lastByUser' = FALSE /\ UNCHANGED <<nav, sent, used>>
  <2>1. TypeOK' /\ OpenIsStored' /\ PagesSend' /\ LeftIsStored' /\ StoreFollowsWindows' /\ ClosedStaysClosed'
      BY <1>1, <1>3, CloseHandlerInv
  <2>2. NeverWithoutWindow'
      BY <1>1, <1>3 DEF NeverWithoutWindow
  <2>. QED  BY <2>1, <2>2
<1>4. CASE /\ allWindows = {w} /\ used < MaxWindows
           /\ used' = used + 1
           /\ allWindows' = {used + 1}
           /\ unloading' = unloading \cup {w}
           /\ nav' = [nav EXCEPT ![used + 1] = Home]
           /\ sent' = [sent EXCEPT ![used + 1] = <<>>]
           /\ windowsState' = [windowsState EXCEPT
                                  ![w] = IF isExpectingQuit THEN @ ELSE NoState,
                                  ![used + 1] = Home]
           /\ closed' = IF isExpectingQuit THEN closed ELSE closed \cup {w}
           /\ lastByUser' = FALSE
  <2>. DEFINE u == used + 1
  <2>1. /\ u \in Windows /\ w \in 1..used /\ w # u /\ w <= used /\ u \notin 1..used
        /\ used \in Nat /\ used' \in 0..MaxWindows
        /\ Home \in NavState /\ Home # NoState
      BY <1>4, WindowsOpen, HomeType, ConstantsAssumption DEF TypeOK
  <2>2. /\ left[u] = NoState /\ windowsState[u] = NoState /\ left[w] = NoState
        /\ u \notin closed /\ u \notin unloading /\ w \notin closed /\ w \notin unloading
      BY <1>4, <2>1 DEF TypeOK, LeftIsStored, ClosedStaysClosed
  <2>3. /\ sent' \in [Windows -> Seq(NavState)] /\ sent'[u] = <<>>
        /\ \A v \in Windows : v # u => sent'[v] = sent[v] /\ nav'[v] = nav[v]
        /\ nav' \in [Windows -> NavState] /\ nav'[u] = Home
        /\ windowsState' \in [Windows -> NavState \cup {NoState}] /\ windowsState'[u] = Home
        /\ \A v \in Windows : v \notin {u, w} => windowsState'[v] = windowsState[v]
        /\ windowsState'[w] = IF isExpectingQuit THEN windowsState[w] ELSE NoState
      BY <1>4, <2>1, EmptySeq DEF TypeOK
  <2>4. /\ closed' \subseteq 1..used
        /\ closed' = IF isExpectingQuit THEN closed ELSE closed \cup {w}
      BY <1>4, <2>1 DEF TypeOK
  <2>5. allWindows' = {u} /\ unloading' = unloading \cup {w}
      BY <1>4
  <2>. HIDE DEF u
  <2>6. TypeOK'
    <3>1. /\ 1..used \subseteq 1..used' /\ u \in 1..used'
          /\ \A v \in Windows : v <= used => v <= used'
        BY <1>4, <2>1 DEF u, Windows
    <3>2. \A v \in Windows : windowsState'[v] # NoState \/ left'[v] # NoState => v <= used'
        BY <1>1, <2>1, <2>2, <2>3, <3>1 DEF TypeOK, u
    <3>3. unloading' \subseteq 1..used' \ allWindows'
        BY <2>1, <2>2, <2>5, <3>1 DEF TypeOK
    <3>4. /\ running' \in BOOLEAN /\ darwin' \in BOOLEAN /\ isExpectingQuit' \in BOOLEAN
          /\ lastByUser' \in BOOLEAN /\ left' \in [Windows -> NavState \cup {NoState}]
          /\ closing' \subseteq 1..used'
        BY <1>1, <1>4, <3>1 DEF TypeOK
    <3>. QED  BY <2>1, <2>3, <2>4, <2>5, <3>1, <3>2, <3>3, <3>4 DEF TypeOK
  <2>7. OpenIsStored' /\ StoreFollowsWindows'
      BY <1>4, <2>1, <2>2, <2>3, <2>4, <2>5, WindowsOpen DEF OpenIsStored, StoreFollowsWindows, Showing
  <2>8. LeftIsStored'
      BY <1>1, <1>4, <2>1, <2>2, <2>3, <2>5 DEF LeftIsStored
  <2>9. ClosedStaysClosed'
      BY <1>4, <2>1, <2>2, <2>3, <2>4, <2>5, WindowsOpen DEF ClosedStaysClosed
  <2>10. PagesSend' /\ NeverWithoutWindow'
      BY <1>1, <1>4, <2>1, <2>3, <2>5 DEF PagesSend, NeverWithoutWindow
  <2>. QED  BY <2>6, <2>7, <2>8, <2>9, <2>10
<1>. QED  BY <1>2, <1>3, <1>4 DEF CloseAppWindow

\* A new window with history n is opened beside those that are open.
LEMMA NewWindowInv ==
    ASSUME DesktopInv, used < MaxWindows, NEW n \in NavState,
           used' = used + 1,
           allWindows' = allWindows \cup {used + 1},
           createAppWindow({used + 1}, [w \in Windows |-> n]),
           left' = left \/ left' = [w \in Windows |-> NoState],
           running' = TRUE, isExpectingQuit' \in BOOLEAN,
           UNCHANGED <<darwin, unloading, closing, closed, lastByUser>>
    PROVE  DesktopInv'
<1>. USE DEF DesktopInv
<1>. DEFINE u == used + 1
<1>1. /\ u \in Windows /\ u \notin 1..used /\ used \in Nat /\ used' \in 0..MaxWindows
      /\ 1..used \subseteq Windows /\ 1..used \subseteq 1..used' /\ u \in 1..used'
      /\ \A v \in Windows : v <= used => v <= used'
    BY WindowsOpen, ConstantsAssumption DEF TypeOK, Windows
<1>2. left[u] = NoState /\ n # NoState /\ u \notin unloading /\ u \notin closed
    BY <1>1, ConstantsAssumption DEF TypeOK
<1>3. /\ nav' \in [Windows -> NavState] /\ nav'[u] = n
      /\ windowsState' \in [Windows -> NavState \cup {NoState}] /\ windowsState'[u] = n
      /\ sent' \in [Windows -> Seq(NavState)] /\ sent'[u] = <<>>
      /\ \A v \in Windows : v # u => /\ nav'[v] = nav[v] /\ sent'[v] = sent[v]
                                     /\ windowsState'[v] = windowsState[v]
    BY <1>1, EmptySeq DEF createAppWindow, TypeOK
<1>4. /\ left' \in [Windows -> NavState \cup {NoState}] /\ left'[u] = NoState
      /\ \A v \in Windows : left'[v] # NoState => left'[v] = left[v]
    BY <1>1, <1>2 DEF TypeOK
<1>. HIDE DEF u
<1>5. allWindows' = allWindows \cup {u} /\ u \notin allWindows /\ allWindows \subseteq Windows
    BY <1>1, WindowsOpen DEF u, TypeOK
<1>6. TypeOK'
  <2>1. \A v \in Windows : windowsState'[v] # NoState \/ left'[v] # NoState => v <= used'
    <3>1. u <= used'
        BY <1>1
    <3>. QED  BY <1>1, <1>3, <1>4, <3>1 DEF TypeOK
  <2>2. unloading' \subseteq 1..used' \ allWindows'
      BY <1>1, <1>2, <1>5 DEF TypeOK
  <2>. QED  BY <1>1, <1>3, <1>4, <1>5, <2>1, <2>2 DEF TypeOK
<1>7. OpenIsStored' /\ StoreFollowsWindows' /\ PagesSend'
    BY <1>2, <1>3, <1>5, WindowsOpen DEF OpenIsStored, StoreFollowsWindows, PagesSend, Showing
<1>8. LeftIsStored'
    BY <1>2, <1>3, <1>4, <1>5 DEF LeftIsStored
<1>9. ClosedStaysClosed'
    BY <1>1, <1>3, <1>5 DEF ClosedStaysClosed, TypeOK
<1>. QED  BY <1>5, <1>6, <1>7, <1>8, <1>9 DEF NeverWithoutWindow

\* A window is opened with one route.
LEMMA OpenWindowInv ==
    ASSUME DesktopInv, NEW r \in Routes, OpenWindow(r)
    PROVE  DesktopInv'
<1>. DEFINE s == <<r>>
            n == [routes |-> s, routeIndex |-> 0]
<1>1. n \in NavState
  <2>1. s \in Seq(Routes) /\ Len(s) = 1
      OBVIOUS
  <2>. HIDE DEF s
  <2>. QED  BY <2>1, NavIntro
<1>2. /\ used < MaxWindows /\ used' = used + 1 /\ allWindows' = allWindows \cup {used + 1}
      /\ createAppWindow({used + 1}, [w \in Windows |-> n])
      /\ UNCHANGED <<running, darwin, isExpectingQuit, unloading, closing, closed, lastByUser, left>>
    BY DEF OpenWindow, history
<1>3. running' = TRUE /\ isExpectingQuit' \in BOOLEAN
    BY <1>2 DEF DesktopInv, TypeOK, OpenWindow
<1>. HIDE DEF n
<1>. QED  BY <1>1, <1>2, <1>3, NewWindowInv

\* The application stops, in whichever way.
LEMMA StopInv ==
    ASSUME DesktopInv, BeforeQuit \/ Exit \/ QuitAndInstall \/ Crash
    PROVE  DesktopInv'
<1>. USE DEF DesktopInv
<1>1. CASE BeforeQuit \/ Exit
  <2>1. TypeOK'
      BY <1>1 DEF BeforeQuit, Exit, TypeOK, history
  <2>2. PagesSend'
      BY <1>1 DEF BeforeQuit, Exit, PagesSend
  <2>. QED  BY <1>1, <2>1, <2>2 DEF BeforeQuit, Exit, OpenIsStored, Showing, LeftIsStored, StoreFollowsWindows,
                  ClosedStaysClosed, NeverWithoutWindow, history
<1>2. ASSUME Stopped
      PROVE  sent' \in [Windows -> Seq(NavState)] /\ PagesSend' /\ Showing' = {}
    BY <1>2, EmptySeq DEF Stopped, PagesSend, Showing
<1>4. CASE QuitAndInstall
  <2>1. /\ windowsState' \in [Windows -> NavState \cup {NoState}]
        /\ \A w \in Windows : windowsState'[w] = IF w \in allWindows THEN NoState ELSE windowsState[w]
      BY <1>4 DEF QuitAndInstall, TypeOK
  <2>2. TypeOK'
      BY <1>2, <1>4, <2>1 DEF QuitAndInstall, Stopped, TypeOK, history
  <2>3. LeftIsStored'
      BY <1>4, <2>1 DEF QuitAndInstall, Stopped, LeftIsStored
  <2>4. ClosedStaysClosed'
      BY <1>4, <2>1, WindowsOpen DEF QuitAndInstall, Stopped, ClosedStaysClosed, history
  <2>. QED  BY <1>2, <1>4, <2>2, <2>3, <2>4 DEF QuitAndInstall, Stopped, OpenIsStored, StoreFollowsWindows,
                  NeverWithoutWindow
<1>5. CASE Crash
  <2>. DEFINE S == (allWindows \cup unloading) \ closed
  <2>1. \A w \in S : /\ Shown(w) \in NavState \cup {NoState}
                     /\ Shown(w) # NoState => Shown(w) = windowsState[w]
      BY ShownIsStored DEF Showing
  <2>2. /\ left' \in [Windows -> NavState \cup {NoState}]
        /\ \A w \in Windows : left'[w] = IF w \in S THEN Shown(w) ELSE left[w]
      BY <1>5, <2>1 DEF Crash, TypeOK
  <2>3. \A w \in S : w <= used
      BY WindowsOpen DEF TypeOK
  <2>. HIDE DEF S
  <2>4. TypeOK'
      BY <1>2, <1>5, <2>2, <2>3 DEF Crash, Stopped, TypeOK, history
  <2>5. LeftIsStored'
      BY <1>5, <2>1, <2>2 DEF Crash, Stopped, LeftIsStored
  <2>. QED  BY <1>2, <1>5, <2>4, <2>5 DEF Crash, Stopped, OpenIsStored, StoreFollowsWindows, NeverWithoutWindow,
                  ClosedStaysClosed, history
<1>. QED  BY <1>1, <1>4, <1>5

\* The windows openInitialWindows finds and those it opens.
Stored == {w \in Windows : windowsState[w] # NoState}
Opened == {w \in Stored : ~Skipped(w)}

\* Of what is stored, something is opened: the first entry is not skipped.
LEMMA SomethingIsOpened ==
    ASSUME Stored # {}
    PROVE  Opened # {}
<1>1. PICK w \in Stored : \A v \in Stored : ~(v < w)
    BY FirstStored DEF Stored
<1>2. Matching(Active(windowsState[w])) \subseteq Stored
    BY DEF Matching, Stored
<1>3. ~Skipped(w)
    BY <1>1, <1>2 DEF Skipped
<1>. QED  BY <1>1, <1>3 DEF Opened

\* Start opens the stored windows as they are stored.
LEMMA StartOpens ==
    ASSUME TypeOK, Start, Stored # {}
    PROVE  /\ allWindows' = Opened /\ windowsState' = windowsState /\ used' = used
           /\ \A w \in Windows : /\ nav'[w] = IF w \in Opened THEN windowsState[w] ELSE nav[w]
                                 /\ sent'[w] = IF w \in Opened THEN <<>> ELSE sent[w]
           /\ nav' \in [Windows -> NavState] /\ sent' \in [Windows -> Seq(NavState)]
<1>1. /\ allWindows' = Opened /\ createAppWindow(Opened, windowsState) /\ used' = used
    BY DEF Start, Stored, Opened
<1>2. \A w \in Opened : windowsState[w] \in NavState
    BY DEF Opened, Stored, TypeOK
<1>3. windowsState' = windowsState
    BY <1>1 DEF createAppWindow, TypeOK
<1>4. /\ nav' = [w \in Windows |-> IF w \in Opened THEN windowsState[w] ELSE nav[w]]
      /\ sent' = [w \in Windows |-> IF w \in Opened THEN <<>> ELSE sent[w]]
    BY <1>1 DEF createAppWindow
<1>. HIDE DEF Opened
<1>. QED  BY <1>1, <1>2, <1>3, <1>4, EmptySeq DEF TypeOK

\* The application starts.
LEMMA StartInv ==
    ASSUME DesktopInv, Start
    PROVE  DesktopInv'
<1>. USE DEF DesktopInv
<1>1. /\ running' = TRUE /\ isExpectingQuit' = FALSE /\ left' = [w \in Windows |-> NoState]
      /\ UNCHANGED <<darwin, unloading, closing, closed, lastByUser>>
      /\ allWindows = {} /\ unloading = {} /\ \A w \in Windows : sent[w] = <<>>
    BY DEF Start, history, PagesSend
<1>2. CASE Stored # {}
  <2>1. Opened # {} /\ Opened \subseteq Windows /\ \A w \in Opened : windowsState[w] # NoState
      BY <1>2, SomethingIsOpened DEF Opened, Stored
  <2>2. /\ allWindows' = Opened /\ windowsState' = windowsState /\ used' = used
        /\ \A w \in Windows : /\ nav'[w] = IF w \in Opened THEN windowsState[w] ELSE nav[w]
                              /\ sent'[w] = IF w \in Opened THEN <<>> ELSE sent[w]
        /\ nav' \in [Windows -> NavState] /\ sent' \in [Windows -> Seq(NavState)]
      BY <1>2, StartOpens
  <2>. HIDE DEF Opened
  <2>3. Opened \subseteq 1..used
      BY <2>1 DEF TypeOK, Windows
  <2>4. TypeOK'
      BY <1>1, <2>2, <2>3 DEF TypeOK
  <2>5. ClosedStaysClosed'
      BY <1>1, <2>1, <2>2 DEF ClosedStaysClosed
  <2>6. OpenIsStored' /\ StoreFollowsWindows' /\ PagesSend'
      BY <1>1, <2>1, <2>2 DEF OpenIsStored, StoreFollowsWindows, PagesSend, Showing
  <2>. QED  BY <1>1, <2>1, <2>2, <2>4, <2>5, <2>6 DEF LeftIsStored, NeverWithoutWindow
<1>3. CASE Stored = {}
  <2>2. /\ used < MaxWindows /\ allWindows' = {used + 1} /\ used' = used + 1
        /\ createAppWindow({used + 1}, [w \in Windows |-> Home])
      BY <1>3 DEF Start, Stored
  <2>3. allWindows' = allWindows \cup {used + 1}
      BY <1>1, <2>2
  <2>. QED  BY <1>1, <2>2, <2>3, HomeType, NewWindowInv
<1>. QED  BY <1>2, <1>3

-----------------------------------------------------------------------------
LEMMA StepInv == DesktopInv /\ [Next]_vars => DesktopInv'
<1>. SUFFICES ASSUME DesktopInv, [Next]_vars PROVE DesktopInv'
    OBVIOUS
<1>1. ASSUME NEW w \in Windows,
             \/ \E r \in Routes : Push(w, r) \/ Replace(w, r) \/ Backplace(w, r)
             \/ Pop(w) \/ Forward(w) \/ CloseBack(w)
      PROVE  DesktopInv'
    BY <1>1, NavigateInv
<1>2. ASSUME NEW w \in Windows, WindowNavState(w) \/ CloseWindow(w) \/ CloseAppWindow(w) \/ Unload(w)
      PROVE  DesktopInv'
    BY <1>2, WindowNavStateInv, CloseWindowInv, CloseAppWindowInv, UnloadInv
<1>3. ASSUME NEW r \in Routes, OpenWindow(r) PROVE DesktopInv'
    BY <1>3, OpenWindowInv
<1>4. CASE Activate
    BY <1>4, OpenWindowInv, ConstantsAssumption DEF Activate
<1>5. CASE BeforeQuit \/ Exit \/ QuitAndInstall \/ Crash
    BY <1>5, StopInv
<1>6. CASE Start
    BY <1>6, StartInv
<1>7. CASE UNCHANGED vars
    BY <1>7 DEF vars, history, DesktopInv, TypeOK, OpenIsStored, Showing, PagesSend, LeftIsStored,
                StoreFollowsWindows, ClosedStaysClosed, NeverWithoutWindow
<1>. QED  BY <1>1, <1>2, <1>3, <1>4, <1>5, <1>6, <1>7 DEF Next

\* The stored state of windows follows what they show: navStateReducer, the
\* messages of the renderers, their handler and the close and quit handlers
\* together keep it so.
THEOREM StoreFollowsWindowsTheorem == Spec => []StoreFollowsWindows
<1>1. Spec => []DesktopInv
    BY InitInv, StepInv, PTL DEF Spec
<1>2. DesktopInv => StoreFollowsWindows
    BY DEF DesktopInv
<1>. QED  BY <1>1, <1>2, PTL

\* The types of the main process and of the renderers.
THEOREM TypesTheorem == Spec => []TypeOK
<1>1. Spec => []DesktopInv
    BY InitInv, StepInv, PTL DEF Spec
<1>2. DesktopInv => TypeOK
    BY DEF DesktopInv
<1>. QED  BY <1>1, <1>2, PTL

\* A window the user closed is never opened again, and nothing is stored of
\* it, though its page may send messages until it is gone: updateWindowState
\* finds no entry for them.
THEOREM ClosedStaysClosedTheorem == Spec => []ClosedStaysClosed
<1>1. Spec => []DesktopInv
    BY InitInv, StepInv, PTL DEF Spec
<1>2. DesktopInv => ClosedStaysClosed
    BY DEF DesktopInv
<1>. QED  BY <1>1, <1>2, PTL

\* The application has a window until it quits or the user closes the last
\* one, after closeAppWindow and after every start too.
THEOREM NeverWithoutWindowTheorem == Spec => []NeverWithoutWindow
<1>1. Spec => []DesktopInv
    BY InitInv, StepInv, PTL DEF Spec
<1>2. DesktopInv => NeverWithoutWindow
    BY DEF DesktopInv
<1>. QED  BY <1>1, <1>2, PTL

\* A start after a quit or a crash opens every window that was open where it
\* was, save those openInitialWindows takes for another's.
THEOREM RestartRestoresTheorem == Spec => RestartRestores
<1>1. Spec => []DesktopInv
    BY InitInv, StepInv, PTL DEF Spec
<1>2. ASSUME DesktopInv, Start, NEW w \in Windows, left[w] # NoState, ~Skipped(w)
      PROVE  w \in allWindows' /\ nav'[w] = left[w]
  <2>1. left[w] = windowsState[w] /\ w \in Stored /\ w \in Opened
      BY <1>2 DEF DesktopInv, LeftIsStored, Stored, Opened
  <2>2. Stored # {} /\ TypeOK
      BY <1>2, <2>1 DEF DesktopInv
  <2>3. allWindows' = Opened /\ nav'[w] = IF w \in Opened THEN windowsState[w] ELSE nav[w]
      BY <1>2, <2>2, StartOpens
  <2>. QED  BY <2>1, <2>3
<1>3. DesktopInv => [Start => \A w \in Windows :
          left[w] # NoState /\ ~Skipped(w) => w \in allWindows' /\ nav'[w] = left[w]]_vars
    BY <1>2
<1>. QED  BY <1>1, <1>3, PTL DEF RestartRestores
=============================================================================
