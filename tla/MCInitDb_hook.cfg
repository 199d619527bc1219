SPECIFICATION FairSpec
CONSTANTS
    d1 = d1
    d2 = d2
    d3 = d3
    Pods = {p1, p2}
    NoPod = NoPod
    Order <- MCOrder
    BackoffLimit = 3
    MaxSyncs = 3
INVARIANTS
    TypeOK
    CollisionsPaid
PROPERTIES
    KeepsPromise
    JobEnds
