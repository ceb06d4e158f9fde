SPECIFICATION Spec
CONSTANTS
    BufferSize = 8
    MaxItems = 3
    Ints <- MCInts
    Strings <- MCStrings
    Raws <- MCRaws
    ForeignData <- MCForeignData
    Behind <- MCBehind
    Sanitizing <- MCSanitizing
INVARIANTS
    TypeOK
    ItemsReadBack
    ReadWithoutGap
CHECK_DEADLOCK FALSE
