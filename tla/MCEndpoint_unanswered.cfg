CONSTANTS
    b = b
    r1 = r1
    s1 = s1
    s2 = s2
    Routes <- MCRoutes
    Broker = b
    Sids <- MCSids
    StickyDisconnect = TRUE
    EngineErrors = TRUE
SPECIFICATION Spec
SYMMETRY MCSymmetry
PROPERTY PeerConnectAnswered
