SPECIFICATION FairSpec
CONSTANTS
    MaxSequence = 8
    Uint16 = 8
    CapToClient = 2
    CapToPeer = 1
    MaxLag = 1
    Window = 2
    MaxSent = 3
    NoToken = NoToken
    PeerToken = PeerToken
    MaxInfos = 2
    Kinds = {"SV_CHAT"}
    LooseKinds = {}
    Noise = {"CLOSE"}
PROPERTIES
    EventuallyConfirmed
CHECK_DEADLOCK FALSE
