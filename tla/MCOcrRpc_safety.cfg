SPECIFICATION Spec
CONSTANTS
    c1 = c1
    c2 = c2
    kA = kA
    kB = kB
    w1 = w1
    w2 = w2
    p1 = p1
    p2 = p2
    NoId = NoId
    NoCall = NoCall
    OcrKey = ocr
    Calls = {c1, c2}
    PrepKeys = {kA}
    ChainOf <- OneChain
    IdOf <- OwnIds
    MaxFaults = 2
    ModeOf <- SyncAndPost
    ChanCap = 1
    Workers = {w1, w2}
    NumParallelJobs = 1
    Unsupported = {}
    Preps = {p1}
    KeyOf <- OnePrep
CHECK_DEADLOCK FALSE
INVARIANTS TypeOK NoSilentLoss OnePlace OwnAnswer LeakBounded OnlyErrorsLeak
PROPERTY KeepsContract
