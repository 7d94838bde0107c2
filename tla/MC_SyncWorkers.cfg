SPECIFICATION LiveSpec
CONSTANTS
    Peers = {p1, p2}
    Slots = 1
    MaxWorkers = 2
INVARIANTS
    MapMatchesGoroutines
    SlotsAreHeld
PROPERTIES
    TrustedAreSynced
    ShutdownCompletes
