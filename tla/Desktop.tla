------------------------------- MODULE Desktop -------------------------------
(***************************************************************************)
(* The windows of the desktop application: the main process with the       *)
(* windows it has open and their stored state (frontend/apps/desktop/src/  *)
(* app-windows.ts, app-api.ts, main.ts, auto-update.ts), and in every      *)
(* window a renderer with its navigation state (frontend/packages/app/     *)
(* utils/navigation.tsx, navigation-container.tsx).                        *)
(*                                                                         *)
(* A renderer tells the main process its navigation state in messages that *)
(* arrive in order.  The page of a window lives on for a while after the   *)
(* window's close event, and messages of it still arrive.  The main        *)
(* process keeps windowsState in memory and on disk, always alike.  The    *)
(* entries of windowsState keep the order in which their windows were      *)
(* created, which is the order of their ids.  Bounds, focus, the sidebar   *)
(* and stored entries the route schema does not know are left out.         *)
(***************************************************************************)
EXTENDS Integers, Sequences

CONSTANTS
    Routes,       \* places of the application
    defaultRoute,
    Refocusable,  \* getRouteRefocusKey: the routes one window is enough for
    MaxWindows,   \* bound: windows ever created
    MaxRoutes,    \* bound: length of a window's history
    MaxSent,      \* bound: messages of a window under way
    NoState       \* no entry in windowsState

Windows == 1..MaxWindows
NavState == {n \in [routes : Seq(Routes), routeIndex : Nat] : n.routeIndex < Len(n.routes)}

ASSUME ConstantsAssumption ==
    /\ defaultRoute \in Routes /\ Refocusable \subseteq Routes
    /\ MaxWindows \in Nat /\ MaxRoutes \in Nat /\ MaxSent \in Nat
    /\ NoState \notin NavState

VARIABLES
    running,          \* the main process is up
    darwin,           \* process.platform == 'darwin'
    isExpectingQuit,
    allWindows,       \* the windows that are open
    unloading,        \* the windows closed whose page is not gone yet
    windowsState,     \* the stored state of windows
    nav,              \* the navigation state each renderer shows
    sent,             \* windowNavState messages under way to the main process
    closing,          \* closeAppWindow requests under way to the main process
    used,             \* window ids handed out
    closed,           \* history: windows the user closed
    lastByUser,       \* history: the user closed the window that was closed last,
                      \* not closeAppWindow
    left              \* history: what a window showed when the last quit or
                      \* crash took its page, with no message under way

history == <<closed, lastByUser>>
vars == <<running, darwin, isExpectingQuit, allWindows, unloading, windowsState, nav,
          sent, closing, used, history, left>>

Home == [routes |-> <<defaultRoute>>, routeIndex |-> 0]
Active(n) == n.routes[n.routeIndex + 1]

TypeOK ==
    /\ running \in BOOLEAN /\ darwin \in BOOLEAN /\ isExpectingQuit \in BOOLEAN
    /\ allWindows \subseteq 1..used
    /\ unloading \subseteq 1..used \ allWindows
    /\ windowsState \in [Windows -> NavState \cup {NoState}]
    /\ nav \in [Windows -> NavState]
    /\ sent \in [Windows -> Seq(NavState)]
    /\ closing \subseteq 1..used
    /\ used \in 0..MaxWindows
    /\ closed \subseteq 1..used
    /\ lastByUser \in BOOLEAN
    /\ left \in [Windows -> NavState \cup {NoState}]
    /\ \A w \in Windows : windowsState[w] # NoState \/ left[w] # NoState => w <= used

(* The first start: nothing is stored.                                     *)
Init ==
    /\ running = FALSE /\ darwin \in BOOLEAN /\ isExpectingQuit = FALSE
    /\ allWindows = {} /\ unloading = {} /\ closing = {} /\ used = 0
    /\ closed = {} /\ lastByUser = FALSE
    /\ windowsState = [w \in Windows |-> NoState]
    /\ left = [w \in Windows |-> NoState]
    /\ nav = [w \in Windows |-> Home]
    /\ sent = [w \in Windows |-> <<>>]

-----------------------------------------------------------------------------
(* navStateReducer                                                         *)
push(n, r) == [routes |-> Append(SubSeq(n.routes, 1, n.routeIndex + 1), r),
               routeIndex |-> n.routeIndex + 1]
replace(n, r) == [routes |-> Append(SubSeq(n.routes, 1, n.routeIndex), r),
                  routeIndex |-> n.routeIndex]
backplace(n, r) ==
    IF n.routeIndex = 0 THEN [routes |-> <<r>>, routeIndex |-> 0]
    ELSE [routes |-> Append(SubSeq(n.routes, 1, Len(n.routes) - 1), r), routeIndex |-> n.routeIndex]
pop(n) == IF n.routeIndex = 0 THEN n ELSE [n EXCEPT !.routeIndex = @ - 1]

forward(n) == [n EXCEPT !.routeIndex = IF @ + 1 < Len(n.routes) THEN @ + 1 ELSE Len(n.routes) - 1]

(* A window has its page until that has unloaded.                          *)
HasPage(w) == running /\ w \in allWindows \cup unloading

(* Mutant: the subscriber sends the state before the change.               *)
dispatchSendsOld(w, n) ==
    /\ HasPage(w)
    /\ Len(sent[w]) < MaxSent /\ Len(n.routes) <= MaxRoutes
    /\ nav' = [nav EXCEPT ![w] = n]
    /\ sent' = [sent EXCEPT ![w] = Append(@, nav[w])]
    /\ UNCHANGED <<running, darwin, isExpectingQuit, allWindows, unloading, windowsState,
                   closing, used, history, left>>

(* The new state is shown and its subscriber sends it to the main process. *)
dispatch(w, n) ==
    /\ HasPage(w)
    /\ Len(sent[w]) < MaxSent /\ Len(n.routes) <= MaxRoutes
    /\ nav' = [nav EXCEPT ![w] = n]
    /\ sent' = [sent EXCEPT ![w] = Append(@, n)]
    /\ UNCHANGED <<running, darwin, isExpectingQuit, allWindows, unloading, windowsState,
                   closing, used, history, left>>

Push(w, r) == dispatch(w, push(nav[w], r))
Replace(w, r) == dispatch(w, replace(nav[w], r))
Backplace(w, r) == dispatch(w, backplace(nav[w], r))
Pop(w) == nav[w].routeIndex # 0 /\ dispatch(w, pop(nav[w]))
Forward(w) == dispatch(w, forward(nav[w]))

(* closeBack at the first route asks the main process to close the window. *)
CloseBack(w) ==
    \/ nav[w].routeIndex # 0 /\ dispatch(w, pop(nav[w]))
    \/ /\ HasPage(w) /\ nav[w].routeIndex = 0
       /\ closing' = closing \cup {w}
       /\ UNCHANGED <<running, darwin, isExpectingQuit, allWindows, unloading, windowsState,
                      nav, sent, used, history, left>>

(* Mutant: an entry that does not exist is written anew.                   *)
updateWindowStateAnyway(w, n) == [windowsState EXCEPT ![w] = n]

(* An entry that does not exist, or exists no more, stays so.              *)
updateWindowState(w, n) ==
    IF windowsState[w] = NoState THEN windowsState ELSE [windowsState EXCEPT ![w] = n]

(* The handler of windowNavState, which a closed window has until its page *)
(* is gone.                                                                *)
WindowNavState(w) ==
    /\ running /\ sent[w] # <<>>
    /\ sent' = [sent EXCEPT ![w] = Tail(@)]
    /\ windowsState' = updateWindowState(w, Head(sent[w]))
    /\ UNCHANGED <<running, darwin, isExpectingQuit, allWindows, unloading, nav, closing,
                   used, history, left>>

-----------------------------------------------------------------------------
(* The windows of a set, opened with a state each, and stored with it.     *)
createAppWindow(new, state) ==
    /\ nav' = [w \in Windows |-> IF w \in new THEN state[w] ELSE nav[w]]
    /\ windowsState' = [w \in Windows |-> IF w \in new THEN state[w] ELSE windowsState[w]]
    /\ sent' = [w \in Windows |-> IF w \in new THEN <<>> ELSE sent[w]]

Matching(r) == {w \in Windows : /\ windowsState[w] # NoState
                                /\ Active(windowsState[w]) = r
                                /\ r \in Refocusable}
First(S) == CHOOSE w \in S : \A v \in S : w <= v

(* createAppWindow of the API with one route: the first entry that shows   *)
(* it decides; its window is focused, and opened anew if it is not open.   *)
OpenWindow(r) ==
    /\ running /\ used < MaxWindows
    /\ ~(Matching(r) # {} /\ First(Matching(r)) \in allWindows)
    /\ allWindows' = allWindows \cup {used + 1}
    /\ used' = used + 1
    /\ createAppWindow({used + 1}, [w \in Windows |-> [routes |-> <<r>>, routeIndex |-> 0]])
    /\ UNCHANGED <<running, darwin, isExpectingQuit, unloading, closing, history, left>>

(* did-become-active and activate, on macOS: a window when there is none,  *)
(* not even one whose page is unloading.                                   *)
Activate == darwin /\ allWindows \cup unloading = {} /\ OpenWindow(defaultRoute)

(* What a window showed, unless a message of it is under way.              *)
Shown(w) == IF sent[w] = <<>> THEN nav[w] ELSE NoState

(* Mutant: the stored state goes whenever a window is closed.              *)
closeHandlerForgets(w) ==
    /\ windowsState' = [windowsState EXCEPT ![w] = NoState]
    /\ closed' = IF isExpectingQuit THEN closed ELSE closed \cup {w}
    /\ unloading' = unloading \cup {w}

(* The handler of a window's close event, which comes before its page is   *)
(* asked to unload.                                                        *)
closeHandler(w) ==
    /\ windowsState' = IF isExpectingQuit THEN windowsState
                       ELSE [windowsState EXCEPT ![w] = NoState]
    /\ closed' = IF isExpectingQuit THEN closed ELSE closed \cup {w}
    /\ unloading' = unloading \cup {w}

(* The user closes a window, or a quit does.                               *)
CloseWindow(w) ==
    /\ running /\ w \in allWindows
    /\ closeHandler(w)
    /\ allWindows' = allWindows \ {w}
    /\ lastByUser' = TRUE
    /\ UNCHANGED <<running, darwin, isExpectingQuit, nav, sent, closing, used, left>>

(* Mutant: closing the last window opens no other.                         *)
CloseAppWindowOnly(w) ==
    /\ running /\ w \in closing
    /\ closing' = closing \ {w}
    /\ \/ w \notin allWindows /\ UNCHANGED <<allWindows, unloading, windowsState, history>>
       \/ /\ w \in allWindows /\ closeHandler(w)
          /\ allWindows' = allWindows \ {w}
          /\ lastByUser' = FALSE
    /\ UNCHANGED <<running, darwin, isExpectingQuit, nav, sent, used, left>>

(* closeAppWindow: window.close emits the close event before it returns.   *)
(* The last window is replaced by one with the default route, created      *)
(* without the look for a window to focus.                                 *)
CloseAppWindow(w) ==
    /\ running /\ w \in closing
    /\ closing' = closing \ {w}
    /\ \/ /\ w \notin allWindows
          /\ UNCHANGED <<allWindows, unloading, windowsState, nav, sent, used, history>>
       \/ /\ w \in allWindows /\ allWindows # {w}
          /\ closeHandler(w)
          /\ allWindows' = allWindows \ {w}
          /\ lastByUser' = FALSE
          /\ UNCHANGED <<nav, sent, used>>
       \/ /\ allWindows = {w} /\ used < MaxWindows
          /\ used' = used + 1
          /\ allWindows' = {used + 1}
          /\ unloading' = unloading \cup {w}
          /\ nav' = [nav EXCEPT ![used + 1] = Home]
          /\ sent' = [sent EXCEPT ![used + 1] = <<>>]
          /\ windowsState' = [windowsState EXCEPT
                                 ![w] = IF isExpectingQuit THEN @ ELSE NoState,
                                 ![used + 1] = Home]
          /\ closed' = IF isExpectingQuit THEN closed ELSE closed \cup {w}
          /\ lastByUser' = FALSE
    /\ UNCHANGED <<running, darwin, isExpectingQuit, left>>

(* The page of a closed window is gone, and with it the messages that have *)
(* not arrived.  Without windows the application quits, but not on macOS;  *)
(* a quit that is under way goes on by itself.                             *)
Unload(w) ==
    /\ running /\ w \in unloading
    /\ unloading' = unloading \ {w}
    /\ sent' = [sent EXCEPT ![w] = <<>>]
    /\ left' = [left EXCEPT ![w] = IF w \in closed THEN @ ELSE Shown(w)]
    /\ running' = (darwin \/ isExpectingQuit \/ allWindows \cup unloading # {w})
    /\ closing' = IF running' THEN closing ELSE {}
    /\ UNCHANGED <<darwin, isExpectingQuit, allWindows, windowsState, nav, used, history>>

-----------------------------------------------------------------------------
(* app.quit: before-quit, then every window is closed, then it exits.      *)
BeforeQuit ==
    /\ running /\ ~isExpectingQuit
    /\ isExpectingQuit' = TRUE
    /\ UNCHANGED <<running, darwin, allWindows, unloading, windowsState, nav, sent, closing,
                   used, history, left>>

Exit ==
    /\ running /\ isExpectingQuit /\ allWindows \cup unloading = {}
    /\ running' = FALSE /\ closing' = {}
    /\ UNCHANGED <<darwin, isExpectingQuit, allWindows, unloading, windowsState, nav, sent,
                   used, history, left>>

Stopped ==
    /\ running' = FALSE /\ allWindows' = {} /\ unloading' = {} /\ closing' = {}
    /\ sent' = [w \in Windows |-> <<>>]

(* quitAndInstall closes the windows before it announces before-quit.      *)
QuitAndInstall ==
    /\ running /\ ~isExpectingQuit
    /\ Stopped
    /\ windowsState' = [w \in Windows |-> IF w \in allWindows THEN NoState ELSE windowsState[w]]
    /\ UNCHANGED <<darwin, isExpectingQuit, nav, used, history, left>>

Crash ==
    /\ running
    /\ Stopped
    /\ left' = [w \in Windows |-> IF w \in (allWindows \cup unloading) \ closed
                                  THEN Shown(w) ELSE left[w]]
    /\ UNCHANGED <<darwin, isExpectingQuit, windowsState, nav, used, history>>

(* openInitialWindows opens every entry through the API: one with a single *)
(* route that an entry before it shows only focuses the window of that.    *)
Skipped(w) ==
    /\ windowsState[w] # NoState
    /\ Len(windowsState[w].routes) = 1
    /\ \E v \in Matching(Active(windowsState[w])) : v < w

Start ==
    /\ ~running
    /\ running' = TRUE /\ isExpectingQuit' = FALSE
    /\ left' = [w \in Windows |-> NoState]
    /\ LET stored == {w \in Windows : windowsState[w] # NoState}
           new == {w \in stored : ~Skipped(w)}
       IN  \/ /\ stored # {}
              /\ allWindows' = new
              /\ createAppWindow(new, windowsState)
              /\ UNCHANGED used
           \/ /\ stored = {} /\ used < MaxWindows
              /\ allWindows' = {used + 1} /\ used' = used + 1
              /\ createAppWindow({used + 1}, [w \in Windows |-> Home])
    /\ UNCHANGED <<darwin, unloading, closing, history>>

Next ==
    \/ \E w \in Windows :
          \/ \E r \in Routes : Push(w, r) \/ Replace(w, r) \/ Backplace(w, r)
          \/ Pop(w) \/ Forward(w) \/ CloseBack(w)
          \/ WindowNavState(w) \/ CloseWindow(w) \/ CloseAppWindow(w) \/ Unload(w)
    \/ \E r \in Routes : OpenWindow(r)
    \/ Activate \/ BeforeQuit \/ Exit \/ QuitAndInstall \/ Crash \/ Start

Spec == Init /\ [][Next]_vars

-----------------------------------------------------------------------------
(* What a window shows is what the main process has stored, or what the    *)
(* last message under way tells it, until its page is gone if a quit has   *)
(* closed it: no navigation is forgotten, and no window is open without a  *)
(* stored state.                                                           *)
StoreFollowsWindows ==
    \A w \in (allWindows \cup unloading) \ closed :
        nav[w] = IF sent[w] = <<>> THEN windowsState[w] ELSE sent[w][Len(sent[w])]

(* A window the user closed never comes back, though its page may navigate *)
(* on and its messages still arrive, and however the application was       *)
(* stopped and started since.                                              *)
ClosedStaysClosed ==
    \A w \in closed : w \notin allWindows /\ windowsState[w] = NoState

(* A running application without a window, unless it quits, is one whose   *)
(* last window the user has closed, and not closeAppWindow; and off macOS  *)
(* it is about to quit with the page of that window.                       *)
NeverWithoutWindow ==
    running /\ ~isExpectingQuit /\ allWindows = {} => lastByUser /\ (darwin \/ unloading # {})

(* A start after a quit or a crash opens the windows that were open, each  *)
(* where it was, save those with a single route that another also showed.  *)
RestartRestores ==
    [][Start => \A w \in Windows :
          left[w] # NoState /\ ~Skipped(w) => w \in allWindows' /\ nav'[w] = left[w]]_vars
=============================================================================
