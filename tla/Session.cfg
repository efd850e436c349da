SPECIFICATION Spec
CONSTANTS
    c1 = c1
    c2 = c2
    c3 = c3
    Callers <- MCCallers
    NoCaller = NoCaller
    MaxConnections = 3
    MaxResets = 2
INVARIANTS
    SessionHasLoop
    CallsCarrySession
PROPERTIES
    WaitingCallsReturn
CHECK_DEADLOCK FALSE
