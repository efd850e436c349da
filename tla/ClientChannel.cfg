SPECIFICATION Spec
CONSTANTS
    u1 = u1
    u2 = u2
    s1 = s1
    s2 = s2
    UnaryCalls <- MCUnary
    StreamCalls <- MCStream
    MaxStreamCount = 4
SYMMETRY MCSymmetry
INVARIANTS
    MapHoldsOpenStreams
    TerminatedHoldsNothing
    SuccessIsComplete
PROPERTIES
    ClosedStreamsAreInert
