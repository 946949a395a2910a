CONSTANTS
    Capacity = 3
    BlockLen = 2
    MacCost = 1
    MaxPayload = 1
    ForgedOffsets = {1, 4}
    MaxBlocks = 5
    MaxMsgs = 3
    MaxBoots = 0
SPECIFICATION Spec
INVARIANTS InFlightReadable
