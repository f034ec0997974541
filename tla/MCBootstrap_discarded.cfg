CONSTANTS
    x1 = x1
    x2 = x2
    Recs <- MCRecs
    MaxQueue = 2
    Strays = FALSE
    BootErrors = FALSE
SPECIFICATION BootSpec
CHECK_DEADLOCK FALSE
PROPERTY ResponseNotDiscarded
