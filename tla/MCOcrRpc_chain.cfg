SPECIFICATION Spec
CONSTANTS
    c1 = c1
    c2 = c2
    kA = kA
    kB = kB
    w1 = w1
    w2 = w2
    p1 = p1
    p2 = p2
    NoId = NoId
    NoCall = NoCall
    OcrKey = ocr
    Calls = {c1, c2}
    PrepKeys = {kA, kB}
    ChainOf <- TwoInChain
    IdOf <- SameId
    MaxFaults = 2
    ModeOf <- SyncAndPost
    ChanCap = 1
    Workers = {w1}
    NumParallelJobs = 2
    Unsupported = {c2}
    Preps = {p1, p2}
    KeyOf <- TwoPreps
CHECK_DEADLOCK FALSE
INVARIANTS ChainBeforeOcr 
