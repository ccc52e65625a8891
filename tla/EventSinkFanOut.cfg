\* Two calls, the reader and the worker, and a client that may close.
SPECIFICATION CloseSpec
CONSTANTS
    c1 = c1
    c2 = c2
    nobody = nobody
    Callers <- TwoCallers
    Nobody <- nobody
    EventSinkCap = 1
    MaxEvents = 4
    MayClose = TRUE
INVARIANTS
    TypeOK
    NoSilentLoss
    ReplyNotMissed
PROPERTIES
    CloseReturns
CHECK_DEADLOCK FALSE
