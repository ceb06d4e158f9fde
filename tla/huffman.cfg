SPECIFICATION Spec
CONSTANTS
    Plains <- MCPlains
    Sizes = {0, 1, 2}
    Cuts = {0, 1, 2}
    Rooms = {0, 2, 8}
INVARIANTS
    TypeOK
    CompressedSize
    ReadsBack
    ExactOrError
CHECK_DEADLOCK FALSE
