CONSTANTS
    b = b
    r1 = r1
    s1 = s1
    s2 = s2
    Routes <- MCRoutes
    Broker = b
    Sids <- MCSids
    StickyDisconnect = FALSE
    EngineErrors = TRUE
SPECIFICATION Spec
SYMMETRY MCSymmetry
INVARIANT TypeOK
INVARIANT HandlerStreamsOpen
INVARIANT PendingOutOpen
PROPERTY ConnectAnswered
PROPERTY ConnectRefinement
