CONSTANTS
    RawBits = 8
    KeyBlockBits = 1
    MinChecks = 3
    MaxRounds = 13
    EcMaxRounds = 2
    PaSafetyBits = 1
    QberAbortPpm = 340000
    MaxDiff = 3
    MaxHarvests = 2
    Passes <- PassTable
    Links <- AfterNoise
    Payloads <- FewPayloads
    MacKeys <- TwoKeys
    Ids = {0, 63}
    TamperOver = 1
    LimbSize = 16
    WordSize = 64
    BlockLen = 3
    MaxRecordPayload = 3
    Damages = {0, 9, 63}
SPECIFICATION Spec
INVARIANTS RoundsTell BlocksAreSound TagIsPolynomial WireIsFaithful OnlySealedComesOut
PROPERTIES CorrectionOnlyRemoves
CHECK_DEADLOCK FALSE
