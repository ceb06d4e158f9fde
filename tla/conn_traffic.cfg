SPECIFICATION Spec
CONSTANTS
    MaxSequence = 8
    Uint16 = 8
    CapToClient = 1
    CapToPeer = 1
    MaxLag = 1
    Window = 2
    MaxSent = 2
    NoToken = NoToken
    PeerToken = PeerToken
    MaxInfos = 8
    Kinds = {"MAP_CHANGE", "SV_CHAT"}
    LooseKinds = {"SNAP"}
    Noise = {"KEEPALIVE", "CLOSE", "UNDECODABLE", "CONNLESS"}
PROPERTIES
    AcceptedHasNoEffect
    GapIsReported
CHECK_DEADLOCK FALSE
