CONSTANTS
    x1 = x1
    x2 = x2
    Recs <- MCRecs
    MaxQueue = 2
    Strays = TRUE
    BootErrors = TRUE
SPECIFICATION FairBootSpec
\* connect returns: the task ends in "done".
CHECK_DEADLOCK FALSE
INVARIANT BootTypeOK
INVARIANT RecordBudget
INVARIANT BootInv
PROPERTY BootTerminates
PROPERTY BootRefinement
