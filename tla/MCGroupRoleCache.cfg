\* Three requests and two writers, reloads may fail.
CONSTANTS
    r1 = r1
    r2 = r2
    r3 = r3
    w1 = w1
    w2 = w2
    Requests = {r1, r2, r3}
    Writers = {w1, w2}
    MaxVersion = 3
SPECIFICATION Spec
INVARIANTS
    Ordered
    UndisturbedRequestSeesWrite
PROPERTIES
    CacheNeverGoesBack
    StalenessEnds
    EveryRequestIsResolved
