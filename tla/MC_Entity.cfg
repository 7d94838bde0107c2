SPECIFICATION Spec
CONSTANTS
    Devices = {d1, d2}
    Patches = {{}, {p}}
    Skew = 2
    Unit = 1
    DurationLimit = 100
    MaxWall = 2
    MaxChanges = 4
    MaxLoad = 3
SYMMETRY DeviceSymmetry
INVARIANTS SameVersionSameState HeadsAreMaximal LaterEditWins DepsReachTheRest
PROPERTIES LoadFailsOnlyForSkew
