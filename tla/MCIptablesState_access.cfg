SPECIFICATION FairSpec
CONSTANTS
    Absent = Absent
    None = None
    Accepting = "accept"
    Plays = {p1, p2}
    Tables <- MCTables
    Contents <- MCContents
    Barred <- MCBarred
    Files <- MCFiles
    Scopes <- MCScopes
INVARIANTS
    TypeOK
    AccessKept
    BackupKept
    RollbackRestores
PROPERTY
    LockoutEnds
