CONSTANTS
    Capacity = 5
    BlockLen = 5
    MacCost = 1
    MaxPayload = 1
    MaxSessions = 2
    MaxListen = 1
    RxSlots = 1
    NicSlots = 2
    IdSpace = 4
    EphemeralBase = 10
    EphemeralPorts = 3
    Ports = {1}
    Clients = {"A"}
    Writers = {"A"}
    Servers = {"B"}
    Reordering = TRUE
    MaxBlocks = 2
    MaxDials = 2
    MaxMsgs = 2
    MaxLoss = 1
SPECIFICATION Spec
INVARIANTS SessionIsolation OneSessionPerHello EndsAgree NoAmbiguousSession
PROPERTIES ImplementsSockets
