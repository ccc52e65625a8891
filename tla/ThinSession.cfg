\* Breaks and restarts with requests in flight.
SPECIFICATION FairSpec
CONSTANTS
    r1 = r1
    r2 = r2
    none = none
    noDoc = noDoc
    NoReq <- none
    NoDoc <- noDoc
    Reqs <- TwoReqs
    Epochs = {2}
    MaxCachedEpochs = 2
    MaxBreaks = 3
    MaxStatus = 1
INVARIANTS
    TypeOK
    TokenIsCurrent
    
PROPERTIES
    Reconnects
CHECK_DEADLOCK FALSE
