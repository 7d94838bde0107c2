CONSTANTS
    Routes = {feed, doc}
    defaultRoute = feed
    Refocusable = {feed}
    MaxWindows = 2
    MaxRoutes = 2
    MaxSent = 2
    NoState = NoState
SPECIFICATION Spec
CHECK_DEADLOCK FALSE
INVARIANTS
    StoreFollowsWindows
    ClosedStaysClosed
    NeverWithoutWindow
PROPERTY RestartRestores
