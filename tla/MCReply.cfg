SPECIFICATION LiveSpec
CONSTANTS
    Local <- MCLocal
    Remote <- MCRemote
    Keys <- MCKeys
    Payloads <- MCPayloads
    Grants = {}
    Replies <- MCReplies
    Connections = {}
    Conversations = {}
    Workers = {w1}
    Sender <- MCSender
    KeyOf <- MCKeyOf
    To <- MCTo
    Cites <- MCCites
    Introduces <- MCIntroduces
    InScope = {}
    Deadline <- MCDeadline
    Owner <- MCOwner
    Peers <- MCPeers
    Until <- MCUntil
    LeaseLength = 1
    RecipientLeases = 2
    PendingSender = 2
    PendingRecipient = 2
    PendingProvider = 2
    RejectedSender = 2
    RejectedProvider = 2
    Movable <- MCLocal
    LastDisturbance = 1
    MaxTime = 3
    NoKey = NoKey
    NoPayload = NoPayload
    NoConnection = NoConnection
    NoReply = NoReply
INVARIANTS
    SingleUse
PROPERTIES
    ImplementsContract
    AcceptedFinishes
CHECK_DEADLOCK FALSE
