SPECIFICATION LiveSpec
CONSTANTS
    Keys = {m}
    Calls = {c1}
    Publishers = {p1, p2}
    LeaseLength = 1
    Replay = 1
    RetryFor = 1
    MaxRevision = 3
    LastDisturbance = 0
    MaxTime = 1
    NoSnap = NoSnap
    NoKey = NoKey
INVARIANTS
    AuthenticView
    GapIsExact
    AckIsTruthful
    BlockedOnlyAtTheEnd
PROPERTIES
    PublicationEnds
CHECK_DEADLOCK FALSE
