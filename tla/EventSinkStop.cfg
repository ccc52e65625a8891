\* One call that gives up while events keep coming.
SPECIFICATION FairSpec
CONSTANTS
    c1 = c1
    c2 = c2
    nobody = nobody
    Callers <- OneCaller
    Nobody <- nobody
    EventSinkCap = 2
    MaxEvents = 3
    MayClose = FALSE
PROPERTIES
    StopReleases
CHECK_DEADLOCK FALSE
