SPECIFICATION ClockSpec
CONSTANTS
    Clocks = {c1, c2}
    Skew = 2
    Unit = 3
    DurationLimit = 100
    MaxWall = 3
    Foreign = {0, 4}
SYMMETRY ClockSymmetry
INVARIANT BoundedDrift
PROPERTIES NowIsGreatest
