CONSTANTS
    Users = {u1}
    Pipelines = {p1, p2}
    Hops = 2
    CircuitIds = {1, 2}
    MaxCircuits = 2
    BlockSizes = {1, 3}
    HopKey = 2
    LowWater = 2
    PadSizes = {1}
    Sizes = {1, 4}
    Header = 1
    WordBytes = 2
    MaxLen = 4
    MaxWords = 2
    MaxBlocks = 6
    MaxMsgs = 2
SPECIFICATION OnionSpec
INVARIANTS OneTimeKeys ComesOutInOrder
