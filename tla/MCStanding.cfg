SPECIFICATION Spec
CONSTANTS
    Local = {"alice"}
    Remote = {"bob", "carol"}
    Keys <- ConnectedOrGrantedKeys
    Payloads <- ConnectedOrGranted
    Grants = {"g"}
    Replies = {}
    Connections = {"c"}
    Conversations = {}
    Workers = {w1}
    Sender <- MCSender
    KeyOf <- KeyOfHere
    To <- MCTo
    Cites <- MCCites
    Introduces <- MCIntroduces
    InScope <- MCInScope
    Deadline <- MCDeadline
    Owner <- MCOwner
    Peers <- MCPeers
    Until <- MCUntil
    LeaseLength = 1
    RecipientLeases = 2
    PendingSender = 2
    PendingRecipient = 3
    PendingProvider = 2
    RejectedSender = 1
    RejectedProvider = 2
    Movable = {}
    LastDisturbance = 0
    MaxTime = 1
    NoKey = NoKey
    NoPayload = NoPayload
    NoConnection = NoConnection
    NoReply = NoReply
INVARIANTS
    RejectionIsDefinite
    WithinLimits
CHECK_DEADLOCK FALSE
