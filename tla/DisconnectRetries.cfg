SPECIFICATION Spec
CONSTANTS
    d1 = d1
    d2 = d2
    c1 = c1
    None = None
    Dials <- MCOneDial
    DirectDials <- MCEmpty
    LocalDials <- MCEmpty
    NoReconnect <- MCDefault
    NoMaximum <- MCEmpty
    Untimed <- MCEmpty
    Signaled <- MCOneDial
    Connects <- MCEmpty
    MaxAttempts = 2
    MaxConns = 2
    MaxDisconnects = 1
PROPERTIES
    DisconnectStopsRetries
CHECK_DEADLOCK FALSE
