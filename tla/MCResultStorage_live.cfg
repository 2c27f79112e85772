SPECIFICATION FairSpec
CONSTANTS
    c1 = c1
    c2 = c2
    i1 = i1
    i2 = i2
    None = None
    Calls = {c1, c2}
    Ids = {i1, i2}
    IdOf <- OwnIds
    PostCalls = {c2}
    Pollers = {p1}
    NumRetries = 3
    Modulus = 4
    WaitCanExpire = FALSE
CHECK_DEADLOCK FALSE
PROPERTIES EntriesEnd ResultIsClaimed
