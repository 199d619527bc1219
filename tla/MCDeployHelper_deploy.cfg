SPECIFICATION Spec
CONSTANTS
    None = None
    Sessions = {s1, s2}
    Releases = {r1, r2, r3}
    Keep = 1
SYMMETRY MCSymmetry
INVARIANTS
    TypeOK
    OutcomeIsTrue
PROPERTIES
    LinkStays
    DeployKeepsServing
    OnlyOldOnesGo
    ReservedStays
