SPECIFICATION FairSpec
CONSTANTS
    MaxSequence = 8
    Uint16 = 8
    CapToClient = 1
    CapToPeer = 1
    MaxLag = 1
    Window = 2
    MaxSent = 1
    NoToken = NoToken
    PeerToken = PeerToken
    MaxInfos = 2
    Kinds = {"SV_CHAT"}
    LooseKinds = {}
    Noise = {}
PROPERTIES
    ClientVitalsArrive
CHECK_DEADLOCK FALSE
