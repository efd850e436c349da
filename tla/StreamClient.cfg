SPECIFICATION Spec
CONSTANTS
    c1 = c1
    c2 = c2
    g1 = g1
    Names <- MCNames
    Calls <- MCCalls
    Asks <- MCAsks
    MaxConnections = 2
INVARIANTS
    SyncedWhenQuiet
    NoMissedTrack
    TimerEndsListening
SYMMETRY CallSymmetry
CHECK_DEADLOCK FALSE
