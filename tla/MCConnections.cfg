SPECIFICATION LiveSpec
CONSTANTS
    Requests = {1, 2}
    Codes = {11, 12}
    Inviters <- MCInviters
    MaxEpoch = 4
    Faults = {"admit", "commit", "disconnect", "sync", "revoked", "lapsed"}
    MaxFaults = 1
    None = None
INVARIANTS
    EpochsAgree
    FreshConsent
    HistoryMoves
PROPERTIES
    DisconnectReaches
CHECK_DEADLOCK FALSE
