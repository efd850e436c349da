SPECIFICATION Spec
CONSTANTS
    k1 = k1
    k2 = k2
    Candidates <- MCCandidates
INVARIANTS
    CandidatesFollowInit
PROPERTIES
    NoCandidateAfterDone
    ReadyIsAnnounced
    ReadySurvivesSignaling
    ChannelSpec
    DialEnds
CHECK_DEADLOCK FALSE
