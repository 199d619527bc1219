SPECIFICATION FairSpec
CONSTANT
    MaxFaults = 3
INVARIANTS
    TypeOK
    SuccessIsDurable
    LockoutIsReported
PROPERTIES
    PackagesStay
    RerunRepairs
