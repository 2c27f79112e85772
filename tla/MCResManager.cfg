SPECIFICATION FairSpec
CONSTANTS
    r1 = r1
    r2 = r2
    r3 = r3
    Manager = Manager
    Nobody = Nobody
    Requests = {r1, r2, r3}
    Uploads = {r3}
    Deferred = {r1, r2, r3}
    Factor = 1
    MaxConsumers = 1
CHECK_DEADLOCK FALSE
INVARIANTS TypeOK StopIsFinal NoLateAdmission ThrottleBounded
PROPERTIES  KeepsAdmission EveryRequestDecided 
