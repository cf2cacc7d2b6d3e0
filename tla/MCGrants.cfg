SPECIFICATION LiveSpec
CONSTANTS
    Grants = {"g"}
    Categories = {"news", "bills"}
    Scopes <- MCScopes
    Offers <- MCOffers
    Actors = {"app", "cli"}
    Browser = {"app"}
    Publishers = {"p"}
    Requests = {"r1", "r2"}
    MaxRevision = 2
    Faults = {"lost", "crash", "slow", "unverified", "moved", "closed", "fenced"}
    MaxFaults = 1
    None = None
INVARIANTS
    ReceivedIsPrefix
    AcknowledgedIsHeld
    ConsentCovers
PROPERTIES
    ReviewedSuccessor
    RevocationReaches
CHECK_DEADLOCK FALSE
