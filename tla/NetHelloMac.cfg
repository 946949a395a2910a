CONSTANTS
    Capacity = 8
    BlockLen = 8
    MacCost = 1
    MaxPayload = 1
    MaxSessions = 1
    MaxListen = 1
    RxSlots = 2
    NicSlots = 3
    IdSpace = 4
    EphemeralBase = 10
    EphemeralPorts = 3
    Ports = {1}
    Clients = {"A", "B"}
    Servers = {"B"}
    Writers = {"A", "B"}
    Reordering = FALSE
    MaxBlocks = 2
    MaxDials = 1
    MaxMsgs = 1
    MaxLoss = 1
SPECIFICATION Spec
PROPERTIES ServerKnowsClient
