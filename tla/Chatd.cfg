SPECIFICATION Spec
CONSTANTS
    u1 = u1  u2 = u2  g1 = g1  g2 = g2
    Users = {u1, u2}
    Groups = {g1, g2}
    Msgs = {m1, m2}
    Workers = {w1, w2}
    Existing = {g1}
    FirstMembers <- BothInG1
    MaxRequests = 3
    MaxFaults = 1
    Absent = Absent  Torn = Torn  NoMsg = NoMsg
SYMMETRY ChatdSymmetry
INVARIANTS TypeOK OwnerIsMember  TakenIsDelivered  SerialConsistent
CHECK_DEADLOCK FALSE
