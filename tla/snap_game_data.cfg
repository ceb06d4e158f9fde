SPECIFICATION Spec
CONSTANTS
    Payloads <- MCPayloads
    UnknownWires <- MCUnknownWires
    Snapshots <- MCSnapshots
    ForeignInts <- MCForeignInts
    Behind <- MCBehind
    StaleKinds <- MCStaleKinds
    PointerSize = 4
INVARIANT CarriersReadBack
CHECK_DEADLOCK FALSE
