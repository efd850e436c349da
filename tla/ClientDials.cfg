SPECIFICATION Spec
CONSTANTS
    d1 = d1
    d2 = d2
    c1 = c1
    None = None
    Dials <- MCDials
    DirectDials <- MCEmpty
    LocalDials <- MCOneDial
    NoReconnect <- MCMixed
    NoMaximum <- MCOneDial
    Untimed <- MCOneDial
    Signaled <- MCEmpty
    Connects <- MCEmpty
    MaxAttempts = 2
    MaxConns = 2
    MaxDisconnects = 1
INVARIANTS
    SingleConnect
PROPERTIES
    TasksEnd
    LossIsNoticed
CHECK_DEADLOCK FALSE
