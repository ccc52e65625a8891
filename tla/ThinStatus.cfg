\* Is the connection flag the daemon's last word?
SPECIFICATION Spec
CONSTANTS
    r1 = r1
    r2 = r2
    none = none
    noDoc = noDoc
    NoReq <- none
    NoDoc <- noDoc
    Reqs <- OneReq
    Epochs = {2}
    MaxCachedEpochs = 2
    MaxBreaks = 1
    MaxStatus = 2
INVARIANTS
    StatusIsCurrent
CHECK_DEADLOCK FALSE
