SPECIFICATION Spec
CONSTANTS
    Payloads <- MCPayloads
    UnknownWires <- MCUnknownWires
    Snapshots <- MCSnapshots
    ForeignInts <- MCForeignInts
    Behind <- MCBehind
    StaleKinds <- MCStaleKinds
    PointerSize = 8
INVARIANTS
    TypeOK
    FieldsReadBack
    CutIsNoticed
    SnapReadsBack
    SnapHandedOut
    SnapIsFreed
CHECK_DEADLOCK FALSE
