SPECIFICATION Spec
CONSTANTS
    MaxSequence = 4
    Uint16 = 8
    MaxMessages = 3
INVARIANTS
    TypeOK
    SentInSequence
    NumbersDiffer
