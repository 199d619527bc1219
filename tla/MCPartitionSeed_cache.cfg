SPECIFICATION Spec
CONSTANTS
    Empty = Empty
    Gone = Gone
    Services <- MCServices
    Restarted <- MCServices
    Awaited <- MCServices
INVARIANTS
    TypeOK
    CacheInStep
    ReadersInStep
