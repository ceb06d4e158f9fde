SPECIFICATION Spec
CONSTANTS
    MaxSequence = 8
    Uint16 = 8
    CapToClient = 2
    CapToPeer = 2
    MaxLag = 1
    Window = 2
    MaxSent = 9
    NoToken = NoToken
    PeerToken = PeerToken
    MaxInfos = 2
    Kinds = {"SV_CHAT"}
    LooseKinds = {}
    Noise = {}
INVARIANTS
    TypeOK
    AckedWereHandled
    BufferIsUnconfirmed
    NumbersInStep
PROPERTIES
    AcceptsInOrder
    AcceptedHasNoEffect
    NothingNewDropped
    ResendOnlyForGap
    ImplementsStream
CHECK_DEADLOCK FALSE
