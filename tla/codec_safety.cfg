SPECIFICATION Spec
CONSTANTS
    MaxPayload = 16
    Room = 17
    PackerSize = 13
    SizeLimit = 4
    MaxChunks = 3
    MaxMessage = 3
    MaxReason = 14
INVARIANTS
    TypeOK
    ChunksInPayload
    NormalIsUsedUp
    OwnPacketsDecode
    HandledIsFreed
CHECK_DEADLOCK FALSE
