SPECIFICATION Spec
CONSTANTS
    Payloads <- MCPayloads
    UnknownWires <- MCUnknownWires
    Snapshots <- MCSnapshots
    ForeignInts <- MCForeignInts
    Behind <- MCBehind
    StaleKinds <- MCStaleKinds
    PointerSize = 8
INVARIANT KindReadsBack
CHECK_DEADLOCK FALSE
