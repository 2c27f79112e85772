SPECIFICATION Spec
CONSTANTS
    r1 = r1
    r2 = r2
    j1 = j1
    j2 = j2
    t1 = t1
    p1 = p1
    NoFile = NoFile
    NoId = NoId
    Jobs = {j1, j2}
    Runs = {r1, r2}
    JobOf <- TwoClients
    IdOf <- SameId
    SourceOf <- ByUrl
    Kinds <- SomeKinds
    SaveFiles = FALSE
    Converter = "convert"
    MaxCrashes = 1
    Scans = {t1}
    ScanOf <- OfFirst
    Passes = {p1}
    PassOf <- FirstImage
CHECK_DEADLOCK FALSE
CONSTRAINT OneAtATime
INVARIANTS TypeOK WholeIfAlone  OnlyLayersLeft 
PROPERTIES  KeepsEngineContract
