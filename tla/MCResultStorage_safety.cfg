SPECIFICATION Spec
CONSTANTS
    c1 = c1
    c2 = c2
    i1 = i1
    i2 = i2
    None = None
    Calls = {c1, c2}
    Ids = {i1, i2}
    IdOf <- OwnIds
    PostCalls = {c2}
    Pollers = {p1, p2}
    NumRetries = 3
    Modulus = 4
    WaitCanExpire = TRUE
CHECK_DEADLOCK FALSE
INVARIANTS TypeOK StillClaimable CountedUnlessRaced EntriesOwned
PROPERTIES DriftNamed KeepsContract
