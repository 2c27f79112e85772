SPECIFICATION FairSpec
CONSTANTS
    c1 = c1
    c2 = c2
    kA = kA
    kB = kB
    w1 = w1
    w2 = w2
    p1 = p1
    p2 = p2
    NoId = NoId
    NoCall = NoCall
    OcrKey = ocr
    Calls = {c1, c2}
    PrepKeys = {kA}
    ChainOf <- NoChain
    IdOf <- OwnIds
    MaxFaults = 0
    ModeOf <- SyncAndPost
    ChanCap = 1
    Workers = {w1}
    NumParallelJobs = 1
    Unsupported = {c1}
    Preps = {}
    KeyOf <- NoPreps
CHECK_DEADLOCK FALSE
PROPERTIES EveryRequestAnswered
