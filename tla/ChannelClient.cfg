SPECIFICATION FairSpec
CONSTANTS
    Calls = {c1, c2}
    Nobody = Nobody
    SinkCap = 1
INVARIANTS
    TypeOK  ReplyNotMissed  PanicOnlyMixed 
PROPERTIES CallsReturn CloseReturns
CHECK_DEADLOCK FALSE
