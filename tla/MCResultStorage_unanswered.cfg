SPECIFICATION FairSpec
CONSTANTS
    c1 = c1
    c2 = c2
    i1 = i1
    i2 = i2
    None = None
    Calls = {c1}
    Ids = {i1}
    IdOf <- OwnIds
    PostCalls = {c1}
    Pollers = {p1}
    NumRetries = 3
    Modulus = 4
    WaitCanExpire = FALSE
CHECK_DEADLOCK FALSE
PROPERTIES UnansweredEnd
