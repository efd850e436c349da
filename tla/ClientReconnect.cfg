SPECIFICATION Spec
CONSTANTS
    d1 = d1
    d2 = d2
    c1 = c1
    None = None
    Dials <- MCOneDial
    DirectDials <- MCEmpty
    LocalDials <- MCOneDial
    NoReconnect <- MCDefault
    NoMaximum <- MCEmpty
    Untimed <- MCEmpty
    Signaled <- MCOneDial
    Connects <- MCConnects
    MaxAttempts = 2
    MaxConns = 3
    MaxDisconnects = 1
INVARIANTS
    NobodyWaitsForNothing
    NoLeakedConnection
    ClosedHoldsNothing
    ReconnectingHasTask
    HeldIsWatched
PROPERTIES
    AbortEndsAtThePhase
    TasksGoOn
CHECK_DEADLOCK FALSE
