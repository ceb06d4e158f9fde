SPECIFICATION Spec
CONSTANTS
    Flags = {0, 1, 2, 3}
    Sizes = {0, 1, 15, 16, 68, 1008, 1023, 1024, 1400}
    Sequences16 <- MCSequences
    PacketFlags = {0, 4, 16, 20, 63}
    Acks <- MCAcks
    Counts = {0, 1, 255}
INVARIANTS
    BufferIsBytes
    ChunkHeaderReadsBack
    PacketHeaderReadsBack
CHECK_DEADLOCK FALSE
