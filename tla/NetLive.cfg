CONSTANTS
    Capacity = 5
    BlockLen = 4
    MacCost = 1
    MaxPayload = 1
    MaxSessions = 1
    MaxListen = 1
    RxSlots = 1
    NicSlots = 3
    IdSpace = 4
    EphemeralBase = 10
    EphemeralPorts = 3
    Ports = {1}
    Clients = {"A", "B"}
    Servers = {"B"}
    Writers = {"A", "B"}
    Reordering = FALSE
    MaxBlocks = 4
    MaxDials = 1
    MaxMsgs = 2
    MaxLoss = 1
SPECIFICATION FairSpec
PROPERTIES ArpResolves HandshakeCompletes DataIsRead
