SPECIFICATION Spec
CONSTANTS
    a1 = a1  m1 = m1  m2 = m2  h1 = h1  h2 = h2
    NoMsg = NoMsg  NoSurb = NoSurb
    Msgs = {m1, m2}
    Apps = {a1}
    Hashes = {h1, h2}
    Surbs = {s1, s2, s3, s4}
    AppID <- OneOwner
    EnvelopeHash <- TwoHashes
    Kind <- ReadCopy
    NoRetryOnBoxIDNotFound = {}
    NoIdempotentBoxAlreadyExists = {}
    MaxInFlight = 2
    ResendResetsState = FALSE
SYMMETRY SurbSymmetry
INVARIANTS TypeOK MapsAgree NeverStalls NoOutcomeLost CancelStops
PROPERTY NeverUncancelled
CHECK_DEADLOCK FALSE
