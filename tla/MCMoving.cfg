SPECIFICATION Spec
CONSTANTS
    Local <- MCLocal
    Remote <- MCRemote
    Keys <- ConversingKeys
    Payloads <- Conversing
    Grants = {}
    Replies = {}
    Connections = {"c"}
    Conversations = {"v"}
    Workers = {w1, w2}
    Sender <- MCSender
    KeyOf <- KeyOfHere
    To <- MCTo
    Cites <- MCCites
    Introduces <- MCIntroduces
    InScope <- MCInScope
    Deadline <- MCDeadline
    Owner <- MCOwner
    Peers <- MCPeers
    Until <- MCUntil
    LeaseLength = 1
    RecipientLeases = 2
    PendingSender = 2
    PendingRecipient = 3
    PendingProvider = 3
    RejectedSender = 2
    RejectedProvider = 3
    Movable <- MCLocal
    LastDisturbance = 1
    MaxTime = 3
    NoKey = NoKey
    NoPayload = NoPayload
    NoConnection = NoConnection
    NoReply = NoReply
SYMMETRY WorkerSymmetry
PROPERTIES
    DeliveredUnderAuthority
CHECK_DEADLOCK FALSE
